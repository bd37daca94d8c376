------------------------------ MODULE Addresses ------------------------------
(***************************************************************************)
(* The addresses the proxy refuses whatever was granted                    *)
(* (egress-proxy.ts:121-205), against the blocks they are meant to be.     *)
(* An IPv6 address is its eight words; its text, the words left and right  *)
(* of `::'.  A behaviour looks one address up.                             *)
(***************************************************************************)
EXTENDS Integers, Sequences

CONSTANTS FirstWords, SixthWords, SeventhWords, LastWords   \* words tried

Word == 0..65535

ASSUME WordAssumption ==
  /\ FirstWords \subseteq Word /\ SixthWords \subseteq Word
  /\ SeventhWords \subseteq Word /\ LastWords \subseteq Word

VARIABLE looked   \* the address, or <<>>

AddressInit == looked = <<>>

LookUp ==
  /\ looked = <<>>
  /\ \E first \in FirstWords, middle \in {0, 1}, sixth \in SixthWords,
       seventh \in SeventhWords, last \in LastWords :
       looked' = <<first, 0, middle, 0, 0, sixth, seventh, last>>

AddressNext == LookUp

AddressSpec == AddressInit /\ [][AddressNext]_looked

High(word) == word \div 256
Low(word) == word % 256
Zeros(n) == [i \in 1..n |-> 0]
AllZero(words) == \A i \in DOMAIN words : words[i] = 0

\* Slip: the range of carrier-grade NAT taken for a prefix of eight bits.
IsPrivateIPv4WholeOctet(a, b) ==
  \/ a \in {127, 0, 10, 100} \/ a >= 224
  \/ a = 169 /\ b = 254
  \/ a = 172 /\ b \in 16..31
  \/ a = 192 /\ b = 168

IsPrivateIPv4(a, b) ==
  \/ a \in {127, 0, 10} \/ a >= 224
  \/ a = 100 /\ b \in 64..127
  \/ a = 169 /\ b = 254
  \/ a = 172 /\ b \in 16..31
  \/ a = 192 /\ b = 168

\* `word & mask' for a mask of leading ones, by the size of what it clears.
Masked(word, cleared) == word - (word % cleared)

IsMapped(w) == AllZero(SubSeq(w, 1, 5)) /\ w[6] = \hFFFF

IsCompatible(w) == AllZero(SubSeq(w, 1, 6)) /\ (w[7] # 0 \/ w[8] \notin {0, 1})

IsPrivateIPv6(w) ==
  IF IsMapped(w) \/ IsCompatible(w) THEN IsPrivateIPv4(High(w[7]), Low(w[7]))
  ELSE \/ AllZero(SubSeq(w, 1, 7)) /\ w[8] \in {0, 1}
       \/ Masked(w[1], 64) = \hFE80
       \/ Masked(w[1], 512) = \hFC00
       \/ Masked(w[1], 256) = \hFF00

\* Slip: `::' stands for as many words as the text has.
ParseIPv6Unfilled(left, right) == left \o Zeros(Len(left) + Len(right)) \o right

\* parseIPv6 of a text with `::': what is missing is filled with zeros.
ParseIPv6(left, right) == left \o Zeros(8 - Len(left) - Len(right)) \o right

-----------------------------------------------------------------------------
\* A block of IPv4 addresses by its first two octets and the bits that count.
Blocks == {<<0, 0, 8>>, <<10, 0, 8>>, <<127, 0, 8>>, <<100, 64, 10>>, <<169, 254, 16>>,
           <<172, 16, 12>>, <<192, 168, 16>>, <<224, 0, 3>>}
InBlock(a, b, block) ==
  LET size == 2 ^ (16 - block[3])
  IN (256 * a + b) \div size = (256 * block[1] + block[2]) \div size
ReservedIPv4(a, b) == \E block \in Blocks : InBlock(a, b, block)

\* Whatever run of its zeros its text leaves out, an address is read as itself, and
\* it is refused exactly when it is in one of the blocks an Agent must never reach; for
\* IPv6, link-local, unique local, multicast, loopback or unspecified, and
\* embedded addresses as the IPv4 address they stand for.
RefusedIsReserved ==
  looked # <<>> =>
    LET embedded == AllZero(SubSeq(looked, 1, 5)) /\ looked[6] \in {0, \hFFFF}
        reserved ==
          IF embedded THEN ReservedIPv4(High(looked[7]), Low(looked[7]))
          ELSE \/ looked[1] \in \hFE80..\hFEBF
               \/ looked[1] \in \hFC00..\hFDFF
               \/ looked[1] \in \hFF00..\hFFFF
        elided(i, j) == ParseIPv6(SubSeq(looked, 1, i - 1), SubSeq(looked, j + 1, 8))
    IN /\ IsPrivateIPv6(looked) <=> reserved
       /\ \A i \in 1..8 : \A j \in i..8 :
            AllZero(SubSeq(looked, i, j)) => elided(i, j) = looked
=============================================================================
