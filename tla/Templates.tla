------------------------------ MODULE Templates ------------------------------
(***************************************************************************)
(* deploy/conf/template: one resource, whose template is filled with values *)
(* of a store into a target file.  Each time, in an interval or after a     *)
(* change, a staged file is made, checked, put in the place of the target,  *)
(* and the service reloads it.  Every step may fail and the process crash.  *)
(***************************************************************************)
EXTENDS Integers, Sequences, SequencesExt

CONSTANTS
  Values, Passing,      \* what the store may have; what the check command accepts
  NoFile, Half,         \* no file, or nothing loaded; a file that is written in part
  Setups,               \* [watch, noop, syncOnly, mount]: processor, Config, kind of target
  MaxSets, MaxTroubles  \* bounds: values of the store, and failures and crashes

ASSUME TemplateAssumption ==
  /\ Passing \subseteq Values /\ NoFile \notin Values /\ Half \notin Values
  /\ MaxSets \in Nat \ {0} /\ MaxTroubles \in Nat

VARIABLES
  setup, set,  \* of Setups; the values that the store had, its index is their number
  doing,       \* where process is
  stored, staged, \* Resource.store and the staged file
  target, loaded, \* the target file, and what the service has loaded
  lastIndex, troubles,
  missed, unloaded \* history: the last change could not be processed; or not be reloaded

templateVars ==
  <<setup, set, doing, stored, staged, target, loaded, lastIndex, troubles, missed, unloaded>>

TemplateInit ==
  /\ setup \in Setups /\ set \in {<<v>> : v \in Values} /\ doing = "wait"
  /\ stored = NoFile /\ staged = NoFile /\ target = NoFile /\ loaded = NoFile
  /\ lastIndex = 0 /\ troubles = 0 /\ missed = FALSE /\ unloaded = FALSE

\* The store's users.
SetValue(v) ==
  /\ Len(set) < MaxSets /\ set' = Append(set, v)
  /\ UNCHANGED <<setup, doing, stored, staged, target, loaded, lastIndex, troubles, missed, unloaded>>

\* Mutant: the watch goes on behind the next change.
WakeUpAhead ==
  /\ doing = "wait" /\ doing' = "vars" /\ missed' = FALSE
  /\ IF setup.watch THEN \E i \in lastIndex + 1 .. Len(set) : lastIndex' = i + 1
     ELSE UNCHANGED lastIndex
  /\ UNCHANGED <<setup, set, stored, staged, target, loaded, troubles, unloaded>>

\* The interval is over, or WatchPrefix, asked again when it fails, returns an index
\* after the last one.
WakeUp ==
  /\ doing = "wait" /\ doing' = "vars" /\ missed' = FALSE
  /\ IF setup.watch THEN \E i \in lastIndex + 1 .. Len(set) : lastIndex' = i
     ELSE UNCHANGED lastIndex
  /\ UNCHANGED <<setup, set, stored, staged, target, loaded, troubles, unloaded>>

SetVars ==
  /\ doing = "vars" /\ doing' = "render" /\ stored' = Last(set)
  /\ UNCHANGED <<setup, set, staged, target, loaded, lastIndex, troubles, missed, unloaded>>

CreateStageFile ==
  /\ doing = "render" /\ doing' = "sync" /\ staged' = stored
  /\ UNCHANGED <<setup, set, stored, target, loaded, lastIndex, troubles, missed, unloaded>>

\* process returns, and sync has removed the staged file.
Ends == doing' = "wait" /\ staged' = NoFile

\* Mutant: nothing is checked where there is no file yet.
SyncFirstUnchecked ==
  /\ doing = "sync"
  /\ \/ (staged = target \/ setup.noop) /\ Ends
     \/ staged # target /\ ~setup.noop /\ UNCHANGED staged
        /\ doing' = IF setup.syncOnly \/ target = NoFile THEN "overwrite" ELSE "check"
  /\ UNCHANGED <<setup, set, stored, target, loaded, lastIndex, troubles, missed, unloaded>>

Sync ==
  /\ doing = "sync"
  /\ \/ (staged = target \/ setup.noop) /\ Ends
     \/ staged # target /\ ~setup.noop /\ UNCHANGED staged
        /\ doing' = IF setup.syncOnly THEN "overwrite" ELSE "check"
  /\ UNCHANGED <<setup, set, stored, target, loaded, lastIndex, troubles, missed, unloaded>>

RunCheck ==
  /\ doing = "check"
  /\ \/ staged \in Passing /\ doing' = "overwrite" /\ UNCHANGED staged
     \/ staged \notin Passing /\ Ends
  /\ UNCHANGED <<setup, set, stored, target, loaded, lastIndex, troubles, missed, unloaded>>

\* The target has what was staged.
Written ==
  /\ target' = staged /\ unloaded' = ~setup.syncOnly
  /\ IF setup.syncOnly THEN Ends ELSE doing' = "reload" /\ UNCHANGED staged

\* Rename replaces the target at once; a mount is busy, so it is written instead.
Overwrite ==
  /\ doing = "overwrite"
  /\ \/ ~setup.mount /\ Written
     \/ setup.mount /\ target' = Half /\ doing' = "write" /\ UNCHANGED <<staged, unloaded>>
  /\ UNCHANGED <<setup, set, stored, loaded, lastIndex, troubles, missed>>

WriteRest ==
  /\ doing = "write" /\ Written
  /\ UNCHANGED <<setup, set, stored, loaded, lastIndex, troubles, missed>>

RunReload ==
  /\ doing = "reload" /\ loaded' = target /\ unloaded' = FALSE /\ Ends
  /\ UNCHANGED <<setup, set, stored, target, lastIndex, troubles, missed>>

\* Any doing fails: the error is logged and nothing of it is tried again.
ProcessFails ==
  /\ doing # "wait" /\ troubles < MaxTroubles /\ troubles' = troubles + 1
  /\ Ends /\ missed' = setup.watch
  /\ UNCHANGED <<setup, set, stored, target, loaded, lastIndex, unloaded>>

\* The process ends at any moment, leaves its staged file and is started again.
Crash ==
  /\ troubles < MaxTroubles /\ troubles' = troubles + 1
  /\ Ends /\ stored' = NoFile /\ lastIndex' = 0 /\ missed' = FALSE
  /\ UNCHANGED <<setup, set, target, loaded, unloaded>>

Process ==
  \/ WakeUp \/ SetVars \/ CreateStageFile \/ Sync \/ RunCheck \/ Overwrite \/ WriteRest
  \/ RunReload

TemplateNext == Process \/ ProcessFails \/ Crash \/ \E v \in Values : SetValue(v)

TemplateSpec == TemplateInit /\ [][TemplateNext]_templateVars
-----------------------------------------------------------------------------
\* Neither the target, unless writing it was cut short, nor the service ever has what
\* the check command refuses, whatever fails between the check and the reload.
OnlyPassed ==
  ~setup.syncOnly =>
    /\ target \in Passing \cup {NoFile} \cup (IF setup.mount THEN {Half} ELSE {})
    /\ loaded \in Passing \cup {NoFile}

\* When the store stays as it is, the target gets its value, though changes come while
\* others are processed, files are written in part and the process starts again; and
\* the service loads it.  A watch does not try again what failed, and nobody a reload.
TargetCatchesUp ==
  <>[](LET settled == ~setup.noop /\ ~missed /\ (setup.syncOnly \/ Last(set) \in Passing) IN
       /\ settled => target = Last(set)
       /\ settled /\ ~setup.syncOnly /\ ~unloaded => loaded = target)
=============================================================================
