----------------------------- MODULE Directory -----------------------------
(***************************************************************************)
(* What the users of the store take it for (the comments of Interface in    *)
(* registry/generic/store.go): a directory that every call looks at or      *)
(* changes at one moment.  An object goes by itself only when its time is   *)
(* over, and a call that fails may have had its effect or not.  Get looks at *)
(* the directory as it is or as it was.                                     *)
(***************************************************************************)
EXTENDS Integers, FiniteSets

CONSTANTS Users, Keys, Objects

VARIABLES dir,   \* the objects that are there: a function of their keys
          late,  \* those that some Get may find
          reply  \* of each user's last call

Answer(u, err, found) == [reply EXCEPT ![u] = [err |-> err, found |-> found]]
Says(u, err, found) == reply' \in {Answer(u, err, found), Answer(u, "unavailable", {})}
Here(key) == IF key \in DOMAIN dir THEN {dir[key]} ELSE {}
Stays == UNCHANGED <<dir, late>>

DirectoryInit == dir = <<>> /\ late = <<>> /\ reply \in [Users -> [err : {"none"}, found : {{}}]]

\* It makes the object, or there is one.
DirectoryCreate(u, key, obj) ==
  \/ key \notin DOMAIN dir /\ Says(u, "none", {}) /\ UNCHANGED late
     /\ dir' = [k \in DOMAIN dir \cup {key} |-> IF k = key THEN obj ELSE dir[k]]
  \/ key \in DOMAIN dir /\ Says(u, "key exists", {}) /\ Stays

\* It returns the object that it replaced, if the user wants it.
DirectoryUpdate(u, key, obj) ==
  /\ dir' = [k \in DOMAIN dir \cup {key} |-> IF k = key THEN obj ELSE dir[k]]
  /\ Says(u, "none", Here(key)) /\ UNCHANGED late

\* It returns the object that it took away.
DirectoryDelete(u, key) ==
  \/ key \in DOMAIN dir /\ Says(u, "none", Here(key)) /\ UNCHANGED late
     /\ dir' = [k \in DOMAIN dir \ {key} |-> dir[k]]
  \/ key \notin DOMAIN dir /\ Says(u, "key not found", {}) /\ Stays

\* It returns objects that are there together.
DirectoryList(u, keys) == Stays /\ Says(u, "none", {dir[k] : k \in DOMAIN dir \cap keys})

\* It returns the object that is or was there.
DirectoryGet(u, key) ==
  /\ \E of \in {dir, late} :
       \/ key \in DOMAIN of /\ Says(u, "none", {of[key]})
       \/ key \notin DOMAIN of /\ \E err \in {"none", "key not found"} : Says(u, err, {})
  /\ Stays

DirectoryFail(u) ==
  Stays /\ \E err \in {"unavailable", "lease not found"} : reply' = Answer(u, err, {})

\* Time is over.
Vanish == \E keys \in SUBSET DOMAIN dir :
  dir' = [k \in DOMAIN dir \ keys |-> dir[k]] /\ UNCHANGED <<late, reply>>

\* A Get from here on finds what is there now.
CatchUp == late' = dir /\ UNCHANGED <<dir, reply>>

DirectoryNext ==
  \/ Vanish \/ CatchUp
  \/ \E u \in Users :
       \/ DirectoryFail(u)
       \/ \E keys \in SUBSET Keys : DirectoryList(u, keys)
       \/ \E key \in Keys :
            \/ DirectoryDelete(u, key) \/ DirectoryGet(u, key)
            \/ \E obj \in Objects : DirectoryCreate(u, key, obj) \/ DirectoryUpdate(u, key, obj)

DirectorySpec == DirectoryInit /\ [][DirectoryNext]_<<dir, late, reply>>
=============================================================================
