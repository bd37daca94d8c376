---------------------------- MODULE EgressNetwork ----------------------------
(***************************************************************************)
(* The sidecar that carries the Agents' connections                        *)
(* (egress-network.ts): created on demand, shared by the runs, probes and  *)
(* terminations that call ensure() together, and found running by a server *)
(* that was started again, with the secrets of the one before.             *)
(***************************************************************************)
EXTENDS Naturals

CONSTANTS
  Callers,      \* calls of ensure()
  MaxRestarts   \* bound: restarts of the server

ASSUME NetworkAssumption == MaxRestarts \in Nat

VARIABLES
  network,    \* of the two networks, which exist
  proxy,      \* the container: "absent", "starting", "listening" or "exited"
  uplinked,   \* it is attached to the uplink too
  maker,      \* the server process that created it
  server,     \* the number of the current server process
  ready,      \* readyForCurrentProcess
  pending,    \* where the shared provision() is, "none" when there is none
  ensuring,   \* calls of ensure(): "idle", "waiting", "ensured", "failed"
  stopping    \* shutdown() was called

networkVars == <<network, proxy, uplinked, maker, server, ready, pending, ensuring, stopping>>
sidecar == <<network, proxy, uplinked, maker>>

ProvisionSteps == {"none", "checking", "internal", "uplink", "removing", "running",
                   "connecting", "waiting", "done", "failed"}

NetworkTypeOK ==
  /\ network \subseteq {"internal", "uplink"}
  /\ proxy \in {"absent", "starting", "listening", "exited"}
  /\ uplinked \in BOOLEAN /\ maker \in Nat /\ server \in Nat /\ ready \in BOOLEAN
  /\ pending \in ProvisionSteps /\ stopping \in BOOLEAN
  /\ ensuring \in [Callers -> {"idle", "waiting", "ensured", "failed"}]

NetworkInit ==
  /\ network = {} /\ proxy = "absent" /\ uplinked = FALSE /\ maker = 0
  /\ server = 0 /\ ready = FALSE /\ pending = "none" /\ stopping = FALSE
  /\ ensuring = [c \in Callers |-> "idle"]

Running == proxy \in {"starting", "listening"}

\* ensure: join the provision() under way, or start one.
Ensure(c) ==
  /\ ensuring[c] = "idle" /\ ensuring' = [ensuring EXCEPT ![c] = "waiting"]
  /\ pending' = IF pending = "none" THEN "checking" ELSE pending
  /\ UNCHANGED <<sidecar, server, ready, stopping>>

Advance(from, to) == pending = from /\ pending' = to

\* Slip: a proxy that runs is good enough.
CheckRunning ==
  /\ Advance("checking", IF Running THEN "done" ELSE "internal")
  /\ UNCHANGED <<sidecar, server, ready, ensuring, stopping>>

\* The proxy runs, and is known to be this process's own.  When the engine
\* cannot tell whether it runs, it is made again.
Check ==
  /\ \/ ready /\ Running /\ Advance("checking", "done")
     \/ Advance("checking", "internal")
  /\ UNCHANGED <<sidecar, server, ready, ensuring, stopping>>

CreateNetwork(name, next) ==
  /\ Advance(name, next) /\ network' = network \cup {name}
  /\ UNCHANGED <<proxy, uplinked, maker, server, ready, ensuring, stopping>>

\* removeProxy; its errors are swallowed.
RemoveProxy ==
  /\ Advance("removing", "running")
  /\ proxy' \in {proxy, "absent"}
  /\ UNCHANGED <<network, uplinked, maker, server, ready, ensuring, stopping>>

\* `run -d'; it fails when the name is taken.
RunProxy ==
  /\ proxy = "absent" /\ Advance("running", "connecting")
  /\ proxy' = "starting" /\ uplinked' = FALSE /\ maker' = server
  /\ UNCHANGED <<network, server, ready, ensuring, stopping>>

ConnectUplink ==
  /\ proxy # "absent" /\ Advance("connecting", "waiting")
  /\ uplinked' = TRUE
  /\ UNCHANGED <<network, proxy, maker, server, ready, ensuring, stopping>>

\* waitForProxyListening.  The log of a container that has exited since still
\* says that it listened.
Heard ==
  /\ proxy \in {"listening", "exited"} /\ Advance("waiting", "done") /\ ready' = TRUE
  /\ UNCHANGED <<sidecar, server, ensuring, stopping>>

\* The engine fails, the proxy has exited, or sixty seconds are over.  A proxy
\* that was started is left as it is, and so is `ready'.
ProvisionFails ==
  /\ pending \in {"internal", "uplink", "running", "connecting", "waiting"}
  /\ pending' = "failed"
  /\ UNCHANGED <<sidecar, server, ready, ensuring, stopping>>

\* provision() settles for everybody who waits.
Settle ==
  /\ pending \in {"done", "failed"} /\ pending' = "none"
  /\ ensuring' = [c \in Callers |->
       IF ensuring[c] # "waiting" THEN ensuring[c]
       ELSE IF pending = "done" THEN "ensured" ELSE "failed"]
  /\ UNCHANGED <<sidecar, server, ready, stopping>>

ProxyListens ==
  /\ proxy = "starting" /\ proxy' = "listening"
  /\ UNCHANGED <<network, uplinked, maker, server, ready, pending, ensuring, stopping>>

ProxyExits ==
  /\ Running /\ proxy' = "exited"
  /\ UNCHANGED <<network, uplinked, maker, server, ready, pending, ensuring, stopping>>

\* A call of ensure() has returned, and its caller calls again for its next run.
CallAgain(c) ==
  /\ ensuring[c] \in {"ensured", "failed"} /\ ensuring' = [ensuring EXCEPT ![c] = "idle"]
  /\ UNCHANGED <<sidecar, server, ready, pending, stopping>>

\* shutdown(): it does not wait for a provision() under way.
ShutDown ==
  /\ ~stopping /\ stopping' = TRUE /\ ready' = FALSE
  /\ proxy' \in {proxy, "absent"}
  /\ UNCHANGED <<network, uplinked, maker, server, pending, ensuring>>

\* The server dies, or has shut down, and starts again; the container stays.
ServerStartsAgain ==
  /\ server < MaxRestarts /\ server' = server + 1
  /\ ready' = FALSE /\ pending' = "none" /\ stopping' = FALSE
  /\ ensuring' = [c \in Callers |-> "idle"]
  /\ UNCHANGED sidecar

Provision ==
  \/ Check \/ CreateNetwork("internal", "uplink") \/ CreateNetwork("uplink", "removing")
  \/ RemoveProxy \/ RunProxy \/ ConnectUplink \/ Heard \/ ProvisionFails \/ Settle

NetworkNext ==
  \/ Provision \/ ProxyListens \/ ProxyExits \/ ShutDown \/ ServerStartsAgain
  \/ \E c \in Callers : Ensure(c) \/ CallAgain(c)

NetworkSpec == NetworkInit /\ [][NetworkNext]_networkVars

-----------------------------------------------------------------------------
\* Nobody is told that the sidecar is there when it is the one of an earlier
\* server process, whose secrets every Agent of this one would be refused with.
EnsuredIsOwn ==
  [][\A c \in Callers : ensuring[c] = "waiting" /\ ensuring'[c] = "ensured" => maker = server]_networkVars

=============================================================================
