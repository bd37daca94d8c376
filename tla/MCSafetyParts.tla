---------------------------- MODULE MCSafetyParts ----------------------------
EXTENDS SafetyParts, SequencesExt

\* The words of an IPv6 address at and around the edges of every block.
MCFirstWords ==
  {0, 1, \hFBFF, \hFC00, \hFDFF, \hFE00, \hFE7F, \hFE80, \hFEBF, \hFEC0, \hFEFF, \hFF00}
MCSeventhWords ==
  {256 * octets[1] + octets[2] :
     octets \in {<<0, 0>>, <<0, 1>>, <<1, 0>>, <<9, 255>>, <<10, 0>>, <<10, 255>>, <<11, 0>>,
                 <<100, 63>>, <<100, 64>>, <<100, 127>>, <<100, 128>>, <<126, 255>>,
                 <<127, 0>>, <<128, 0>>, <<169, 253>>, <<169, 254>>, <<169, 255>>,
                 <<172, 15>>, <<172, 16>>, <<172, 31>>, <<172, 32>>, <<192, 167>>,
                 <<192, 168>>, <<192, 169>>, <<223, 255>>, <<224, 0>>, <<255, 255>>}}

\* Three grants of two agents, one scope and one target, granted by one of the
\* agents, with links that lead anywhere (out of a shorter array, too).  A revoked
\* grant is dead, whatever its lifetime.
MCDrafts ==
  {g \in [holder : Agents, grantedBy : {CHOOSE a \in Agents : TRUE}, scope : Scopes,
          target : Targets, expiresAt : {1, Forever}, revoked : BOOLEAN, parent : 0..3] :
     g.revoked => g.expiresAt = Forever}

\* Files of versions 1 and 2 with up to two chats per agent and one run, and files
\* of later versions with up to two grants and one run.
MCEmpty == [version |-> 5, agents |-> <<>>, chats |-> [a \in Agents |-> <<>>],
            runs |-> <<>>, grants |-> <<>>, memories |-> FALSE]
MCFiles ==
  {[MCEmpty EXCEPT !.version = v, !.agents = ag, !.chats = ch, !.runs = rs] :
     v \in {1, 2},
     ag \in UNION {[S -> ChatIds \cup {Null}] : S \in SUBSET Agents},
     ch \in [Agents -> BoundedSeq(ChatIds, 2)],
     rs \in BoundedSeq([agent : Agents, chat : ChatIds \cup {Null}, by : {Null}], 1)}
  \cup
  {[MCEmpty EXCEPT !.version = v, !.grants = gs, !.runs = rs] :
     v \in {3, 4, 5},
     gs \in BoundedSeq([holder : Agents, grantedBy : Principals, parent : 0..2,
                        revoked : BOOLEAN, lifted : {FALSE}], 2),
     rs \in BoundedSeq([agent : Agents, chat : {Null}, by : Humans \cup {Null}], 1)}
=============================================================================
