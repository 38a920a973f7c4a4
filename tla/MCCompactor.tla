---------------------------- MODULE MCCompactor ----------------------------
(* Small instances of what the processes of the system do to one etcd       *)
(* cluster: its compactors, the store API, the client that a process        *)
(* shares, the version manager, and a template of confd.  They share no     *)
(* state, so a behaviour uses one of them and leaves the others.            *)
EXTENDS Compactor, Store, StoreProvider, Versioner, Templates, TLC

CONSTANTS p1, p2, p3, u1, u2, g1, g2, g3, k1, v1, v2, nil \* model values

ThreeProcs == {p1, p2, p3}
TwoUsers == {u1, u2}
OneUser == {u1}
ThreeCallers == {g1, g2, g3}
OneCluster == {k1}

\* One key, given in full or without the directories of the stage, in the directory a.
StagePrefix == <<"dolphin", "s", "">>
WholeKey == <<"dolphin", "s", "a", "x">>
Request(op, key, ttl) == [op |-> op, key |-> key, ttl |-> ttl, ignore |-> FALSE]
SomeRequests ==
  {Request("create", WholeKey, 0), Request("create", WholeKey, 1),
   Request("update", WholeKey, 0), Request("update", <<"a", "x">>, 1),
   Request("delete", WholeKey, 0), Request("get", WholeKey, 0), Request("list", <<"a">>, 0)}

\* A file or a mount under either processor, without a check, or not to be touched; the
\* check refuses v2.
TwoValues == {v1, v2}
OneValue == {v1}
Setup(watch, noop, syncOnly, mount) ==
  [watch |-> watch, noop |-> noop, syncOnly |-> syncOnly, mount |-> mount]
SomeSetups == {Setup(w, FALSE, FALSE, m) : w, m \in BOOLEAN}
              \cup {Setup(TRUE, FALSE, TRUE, FALSE), Setup(FALSE, TRUE, FALSE, FALSE)}

VARIABLE used

etcdVars == <<vars, storeVars, providerVars, versionVars, templateVars, used>>

\* What is not used has one initial state.
EtcdInit ==
  /\ Init /\ StoreInit /\ ProviderInit /\ VersionInit /\ TemplateInit
  /\ used \in {"compactor", "store", "provider", "versions", "template"}
  /\ used # "template" => set = <<v1>> /\ setup = Setup(TRUE, FALSE, FALSE, FALSE)

EtcdNext ==
  \/ /\ used = "compactor" /\ Next
     /\ UNCHANGED <<storeVars, providerVars, versionVars, templateVars, used>>
  \/ /\ used = "store" /\ StoreNext
     /\ UNCHANGED <<vars, providerVars, versionVars, templateVars, used>>
  \/ /\ used = "provider" /\ ProviderNext
     /\ UNCHANGED <<vars, storeVars, versionVars, templateVars, used>>
  \/ /\ used = "versions" /\ VersionNext
     /\ UNCHANGED <<vars, storeVars, providerVars, templateVars, used>>
  \/ /\ used = "template" /\ TemplateNext
     /\ UNCHANGED <<vars, storeVars, providerVars, versionVars, used>>

\* Only a template has to go on.
EtcdSpec ==
  EtcdInit /\ [][EtcdNext]_etcdVars /\ WF_templateVars(used = "template" /\ Process)

\* Where a template is what runs, its target catches up (see TargetCatchesUp).
TemplateCatchesUp == used = "template" => TargetCatchesUp
=============================================================================
