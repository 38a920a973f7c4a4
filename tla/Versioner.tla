------------------------------ MODULE Versioner ------------------------------
(***************************************************************************)
(* controllers/java/version: the expected and the backup version of each    *)
(* cluster, set by API calls and by the events of a watch, all of them      *)
(* concurrent.  An entry is looked up under the read lock and changed later *)
(* under the write lock.  An entry names its versions by the calls that     *)
(* brought them; 0 is the VersionNone of a new one.                         *)
(***************************************************************************)
EXTENDS Integers, FiniteSets

CONSTANTS Clusters, MaxVersionCalls

ASSUME VersionerAssumption == MaxVersionCalls \in Nat

VersionCalls == 1..MaxVersionCalls

VARIABLES
  vmap,     \* vm.versionInfos: the call that made the entry's object, or 0
  info,     \* the VersionInfo that each call made, if it made one
  calling,  \* [op, cluster, obj, at] of each call: at is where it is
  before,   \* history: the calls that had returned when one was made
  mapRace   \* Go ended the process: a map read and written at once

versionVars == <<vmap, info, calling, before, mapRace>>

NoInfo == [expected |-> 0, backup |-> 0]

VersionInit ==
  /\ vmap = [k \in Clusters |-> 0]
  /\ info = [c \in VersionCalls |-> NoInfo]
  /\ calling = [c \in VersionCalls |->
               [op |-> "none", cluster |-> CHOOSE k \in Clusters : TRUE,
                obj |-> 0, at |-> "none"]]
  /\ before = [c \in VersionCalls |-> {}]
  /\ mapRace = FALSE

Deleting == {c \in VersionCalls : calling[c].at = "deleting"}
Returned == {c \in VersionCalls : calling[c].at = "done"}

\* SetExpected, AddVersion with one version, or what eventHandler does: it calls
\* AddVersion with the backup and the expected version of an event Added or
\* Modified, and delConfig for an event Deleted.
BeginCall(c, op, k) ==
  /\ calling[c].at = "none" /\ \A b \in 1..(c - 1) : calling[b].at # "none"
  /\ calling' = [calling EXCEPT ![c] =
                [op |-> op, cluster |-> k, obj |-> 0, at |-> "look"]]
  /\ before' = [before EXCEPT ![c] = Returned]
  /\ UNCHANGED <<vmap, info, mapRace>>

\* getVersionInfo, under the read lock: the entry, or a new object. A delConfig
\* at the same time holds only the read lock too.
LookUp(c) ==
  /\ calling[c].at = "look" /\ calling[c].op # "delete"
  /\ \/ /\ calling' = [calling EXCEPT ![c].at = "found",
                     ![c].obj = IF vmap[calling[c].cluster] # 0
                                THEN vmap[calling[c].cluster] ELSE c]
        /\ UNCHANGED mapRace
     \/ Deleting # {} /\ mapRace' = TRUE /\ UNCHANGED calling
  /\ UNCHANGED <<vmap, info, before>>

\* VersionInfo.AddVersion and SetExpected: whether the version is new, seen before
\* or none makes no difference.
Push(vi, v) == [expected |-> v, backup |-> vi.expected]

\* The loop of addVersion stops before the first of its versions: of the two
\* that an event carries the expected one is pushed, and of a single one none.
Writes(c) == calling[c].op \in {"set", "event"}

\* Mutant: an entry that is there is not changed.
StoreOnlyNew(c) ==
  /\ calling[c].at = "found" /\ Deleting = {}
  /\ vmap' = IF calling[c].obj = c THEN [vmap EXCEPT ![calling[c].cluster] = c]
             ELSE vmap
  /\ info' = IF Writes(c) /\ calling[c].obj = c THEN [info EXCEPT ![c] = Push(@, c)]
             ELSE info
  /\ calling' = [calling EXCEPT ![c].at = "done"]
  /\ UNCHANGED <<before, mapRace>>

\* Under the write lock: what was missing is inserted, what is there by now
\* replaced, and the object found or made is changed.
Store(c) ==
  /\ calling[c].at = "found" /\ Deleting = {}
  /\ vmap' = IF calling[c].obj = c THEN [vmap EXCEPT ![calling[c].cluster] = c]
             ELSE vmap
  /\ info' = IF Writes(c) THEN [info EXCEPT ![calling[c].obj] = Push(@, c)]
             ELSE info
  /\ calling' = [calling EXCEPT ![c].at = "done"]
  /\ UNCHANGED <<before, mapRace>>

\* delConfig changes the map under the read lock.
BeginDelete(c) ==
  /\ calling[c].at = "look" /\ calling[c].op = "delete"
  /\ \/ calling' = [calling EXCEPT ![c].at = "deleting"] /\ UNCHANGED mapRace
     \/ Deleting # {} /\ mapRace' = TRUE /\ UNCHANGED calling
  /\ UNCHANGED <<vmap, info, before>>
EndDelete(c) ==
  /\ calling[c].at = "deleting"
  /\ vmap' = [vmap EXCEPT ![calling[c].cluster] = 0]
  /\ calling' = [calling EXCEPT ![c].at = "done"]
  /\ UNCHANGED <<info, before, mapRace>>

VersionNext ==
  /\ ~mapRace
  /\ \E c \in VersionCalls :
       \/ \E op \in {"set", "add", "event", "delete"}, k \in Clusters : BeginCall(c, op, k)
       \/ LookUp(c) \/ Store(c) \/ BeginDelete(c) \/ EndDelete(c)

VersionSpec == VersionInit /\ [][VersionNext]_versionVars

---------------------------------------------------------------------------
(* Properties. *)

GetExpected(k) == IF vmap[k] = 0 THEN 0 ELSE info[vmap[k]].expected

\* Call c of a cluster was made after call b had returned, and has returned.
Supersedes(c, b) ==
  c \in Returned /\ b \in before[c] /\ calling[c].cluster = calling[b].cluster

\* Deletions, and calls of AddVersion that found no entry and put one without
\* versions in its place.
Empties(d) ==
  \/ calling[d].op = "delete"
  \/ calling[d].op = "add" /\ calling[d].obj = d

\* What GetExpected returns is never older than a SetExpected or an event that
\* has been handled: although calls may change an object that another call has
\* replaced or a deletion dropped meanwhile, such a call overlapped the one that
\* prevailed. It is VersionNone only after a call that empties the entry.
ExpectedRegular ==
  \A k \in Clusters :
    LET e == GetExpected(k)
        writers == {c \in VersionCalls : calling[c].cluster = k /\ Writes(c)}
        Latest(b) == \A c \in writers : ~Supersedes(c, b)
    IN IF e # 0 THEN Latest(e)
       ELSE (writers \cap Returned) # {} =>
              \E d \in Returned :
                calling[d].cluster = k /\ Empties(d) /\ Latest(d)
=============================================================================
