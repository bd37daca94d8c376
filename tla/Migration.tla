------------------------------ MODULE Migration ------------------------------
(***************************************************************************)
(* Loading a data file of any version (store.ts:60-304).  A file is what   *)
(* the migrations look at: agents with their active chat, the chats of     *)
(* each agent in their order, runs with their chat and who started them,   *)
(* and grants with their parents.  Null is a field that is null or not     *)
(* there.  A behaviour loads one file, and loads it again after it was     *)
(* written.                                                                *)
(***************************************************************************)
EXTENDS GrantRules

CONSTANTS
  ChatIds, Null,
  Files    \* the files tried; those that some version writes are loaded

Unverified == "legacy:unverified-initiator"
NewChat(a) == <<"new", a>>   \* a fresh id

VARIABLES
  database,    \* the data, or Null before a file was loaded
  loadedFrom   \* that file, remembered for the properties

migrationVars == <<database, loadedFrom>>

LiftRuns(runs) ==
  [i \in DOMAIN runs |->
     IF runs[i].by # Null THEN runs[i] ELSE [runs[i] EXCEPT !.by = Unverified]]
LiftGrants(grants) == [i \in DOMAIN grants |-> [grants[i] EXCEPT !.lifted = TRUE]]

MigrateV4ToV5(f) ==
  [version |-> 5, agents |-> f.agents, chats |-> f.chats, runs |-> LiftRuns(f.runs),
   grants |-> LiftGrants(f.grants), memories |-> TRUE]

\* Slip: a file of version 5 is taken as it is.
LoadV5AsIs(f) == f

\* By shape, as if it were older: another change stamps version 5 too.
LoadV5(f) == MigrateV4ToV5(f)

\* Slip: what an agent has issued without a parent keeps its authority.
CloseNothing(grants) == grants

\* Slip: whatever an agent issued is closed, carved from a human's grant or not.
CloseIssuedByAgents(grants) ==
  RevokeAll(grants, {i \in DOMAIN grants : grants[i].grantedBy \in Agents})

\* Version 4 knew no parents: an agent's root cannot be verified.
CloseUnsafeRoots(grants) ==
  RevokeAll(grants, {i \in DOMAIN grants : /\ grants[i].parent = NoParent
                                           /\ grants[i].grantedBy \in Agents})

\* Version 3 had no principals, grants or resources.
MigrateV3ToV4(f) ==
  [version |-> 4, agents |-> f.agents, chats |-> f.chats, runs |-> f.runs,
   grants |-> <<>>, memories |-> FALSE]

\* Slip: an agent that names a chat is taken to have it.
BareUnnamed(f) == {a \in DOMAIN f.agents : f.chats[a] = <<>> /\ f.agents[a] = Null}

\* The agents that get a chat.
Bare(f) == {a \in DOMAIN f.agents : f.chats[a] = <<>>}

\* Versions 1 and 2: every agent gets a chat, every run the first chat of its agent.
AttachChats(f) ==
  LET made(a) == <<IF f.agents[a] # Null THEN f.agents[a] ELSE NewChat(a)>>
      chats == [a \in Agents |-> IF a \in Bare(f) THEN made(a) ELSE f.chats[a]]
      first(a) == IF chats[a] = <<>> THEN Null ELSE Head(chats[a])
  IN [version |-> 3,
      chats |-> chats,
      agents |-> [a \in DOMAIN f.agents |->
                    IF f.agents[a] # Null THEN f.agents[a] ELSE first(a)],
      runs |-> [i \in DOMAIN f.runs |->
                  IF f.runs[i].chat # Null THEN f.runs[i]
                  ELSE [f.runs[i] EXCEPT !.chat = first(f.runs[i].agent)]],
      grants |-> <<>>, memories |-> FALSE]

Migrate(f) ==
  CASE f.version = 5 -> LoadV5(f)
    [] f.version = 4 -> MigrateV4ToV5([f EXCEPT !.grants = CloseUnsafeRoots(f.grants)])
    [] f.version = 3 -> MigrateV4ToV5(MigrateV3ToV4(f))
    [] f.version \in {1, 2} -> MigrateV4ToV5(MigrateV3ToV4(AttachChats(f)))

-----------------------------------------------------------------------------
(* Files that earlier versions wrote. *)

StoredRun == [agent : Agents, chat : ChatIds \cup {Null}, by : Humans \cup {Null}]
StoredGrant == [holder : Agents, grantedBy : Principals, parent : Nat,
                revoked : BOOLEAN, lifted : BOOLEAN]

StoredFile ==
  [version : 1..5, agents : UNION {[S -> ChatIds \cup {Null}] : S \in SUBSET Agents},
   chats : [Agents -> Seq(ChatIds)], runs : Seq(StoredRun), grants : Seq(StoredGrant),
   memories : BOOLEAN]

ASSUME MigrationAssumption ==
  /\ Null \notin ChatIds /\ Null # Unverified
  /\ \A a \in Agents : NewChat(a) # Null
  /\ Files \subseteq StoredFile

Has(f, a, chat) == \E i \in DOMAIN f.chats[a] : f.chats[a][i] = chat

\* Every agent has a chat of its own that it names, and every run is in a chat of
\* its agent.
EveryAgentHasItsChat(f) ==
  /\ \A a \in DOMAIN f.agents : Has(f, a, f.agents[a])
  /\ \A i \in DOMAIN f.runs : f.runs[i].agent \in DOMAIN f.agents =>
       Has(f, f.runs[i].agent, f.runs[i].chat)

\* Version 1 had one thread per agent and no chats; an agent of version 2 may
\* name a chat, which it has unless it has none.  From version 3 on they all do.
ChatsKept(f) ==
  /\ f.version = 1 => /\ \A a \in Agents : f.chats[a] = <<>>
                      /\ \A a \in DOMAIN f.agents : f.agents[a] = Null
  /\ f.version \in {1, 2} =>
       /\ \A a \in DOMAIN f.agents :
            f.agents[a] = Null \/ f.chats[a] = <<>> \/ Has(f, a, f.agents[a])
       /\ \A i \in DOMAIN f.runs : \/ f.runs[i].chat = Null
                                   \/ Has(f, f.runs[i].agent, f.runs[i].chat)
  /\ f.version \in 3..5 => EveryAgentHasItsChat(f)

\* Nothing was granted before version 4.  A parent comes before its child, which its
\* holder issued.  Who issued a root is open, for version 5 too: another change may
\* have written the file.
IssuedInOrder(f) ==
  /\ f.version < 4 => f.grants = <<>>
  /\ \A i \in DOMAIN f.grants :
        f.grants[i].parent # NoParent =>
          /\ f.grants[i].parent < i
          /\ f.grants[i].grantedBy = f.grants[f.grants[i].parent].holder

Load ==
  /\ database = Null
  /\ \E f \in Files :
        /\ ChatsKept(f) /\ IssuedInOrder(f)
        /\ database' = Migrate(f) /\ loadedFrom' = f

LoadAgain == database # Null /\ database' = Migrate(database) /\ UNCHANGED loadedFrom

MigrationInit == database = Null /\ loadedFrom = Null
MigrationNext == Load \/ LoadAgain

MigrationSpec == MigrationInit /\ [][MigrationNext]_migrationVars

-----------------------------------------------------------------------------
\* Grants whose chain nobody revoked, and those whose chain starts with a human.
InForce(gs) == {i \in DOMAIN gs : \A j \in Lineage(gs, i) : ~gs[j].revoked}
FromHuman(gs) ==
  {i \in DOMAIN gs :
     \E j \in Lineage(gs, i) : gs[j].parent = NoParent /\ gs[j].grantedBy \in Humans}

\* Loading revives no chain of grants and takes none that a human started; one that
\* an Agent started does not survive it (store.ts:211-231), unless the file has
\* version 5: such a file is taken as it is, whoever wrote it (store.ts:184-209).
LoadingKeepsHumanAuthority ==
  database # Null =>
    /\ InForce(database.grants) \subseteq InForce(loadedFrom.grants)
    /\ loadedFrom.version # 5 => InForce(database.grants) \subseteq FromHuman(database.grants)
    /\ InForce(loadedFrom.grants) \cap FromHuman(loadedFrom.grants)
         \subseteq InForce(database.grants)

\* What was loaded has the current shape, whichever change stamped its version,
\* every agent and run has its chat, and loading what was written changes nothing.
LoadedIsCurrent ==
  database # Null =>
    /\ database.version = 5 /\ database.memories /\ EveryAgentHasItsChat(database)
    /\ \A i \in DOMAIN database.runs : database.runs[i].by # Null
    /\ \A i \in DOMAIN database.grants : database.grants[i].lifted
    /\ Migrate(database) = database
=============================================================================
