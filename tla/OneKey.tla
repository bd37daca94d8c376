------------------------------- MODULE OneKey -------------------------------
(* What the receipt key promises: it is chosen once, and whoever trusts a key *)
(* trusts the chosen one (termination.ts:236 "refusing to rotate trust").     *)
CONSTANTS Loaders, None

VARIABLES chosen, trusted

OneKeyInit == chosen = None /\ trusted = [l \in Loaders |-> None]

\* A pair is known by the process that generated it.
Choose(l) == chosen = None /\ chosen' = l /\ UNCHANGED trusted

Learn(l) ==
  /\ chosen # None /\ trusted[l] = None
  /\ trusted' = [trusted EXCEPT ![l] = chosen]
  /\ UNCHANGED chosen

OneKeySpec ==
  OneKeyInit /\ [][\E l \in Loaders : Choose(l) \/ Learn(l)]_<<chosen, trusted>>
=============================================================================
