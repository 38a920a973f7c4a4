----------------------------- MODULE HostSelect -----------------------------
(***************************************************************************)
(* controllers/scheduler: the scheduler that looks for a host with room for *)
(* one more instance, the hosts' entries in etcd it reads (written by the   *)
(* agents through registry/hosts), and the manager of the replica           *)
(* controllers.  What a host reports is kept for two minutes; its static    *)
(* information has no limit.                                                *)
(***************************************************************************)
EXTENDS DeployConfig, FiniteSets

CONSTANTS
  Hosts,
  HostOf,       \* HostInfo of a host: numOfCPUs, memory, swap, disk, labels, reserved
  Usages,       \* what a host may report: usedMemory, cpuUsage
  NetCapacity,  \* gb
  Asked,        \* the resources required and the labels to match, {} for any
  MaxTry,       \* 50
  MaxReports    \* bound: changes of the hosts' entries

ASSUME HostAssumption == IsFiniteSet(Hosts)

VARIABLES
  hostEtcd,     \* what etcd holds: of <<"stat", h>> and <<"info", h>>
  hosting,      \* the hosts that run an instance of the deployment, by RunningInstance
  available,    \* scheduler.avaliable
  search,       \* a call of NextHost: where it is
  answer,       \* what the last call returned
  fill,         \* history: the hosts of the last selectHost
  seen,         \* history: those of them that were drawn
  reports

hostVars == <<hostEtcd, hosting, available, search, answer, fill, seen, reports>>

NoCall == [at |-> "none", tries |-> 0, host |-> "", stat |-> {}]
Empty == [host |-> "", err |-> "none"]

HostInit ==
  /\ hostEtcd = <<>> /\ hosting \in SUBSET Hosts /\ available = <<>>
  /\ search = NoCall /\ answer = Empty /\ fill = {} /\ seen = {} /\ reports = 0
-----------------------------------------------------------------------------
(* registry/hosts, which the agents call *)

Report(entries) ==
  /\ reports < MaxReports /\ reports' = reports + 1 /\ hostEtcd' = entries
  /\ UNCHANGED <<hosting, available, search, answer, fill, seen>>
Hold(key, obj) == [k \in DOMAIN hostEtcd \cup {key} |-> IF k = key THEN obj ELSE hostEtcd[k]]
Drop(key) == [k \in DOMAIN hostEtcd \ {key} |-> hostEtcd[k]]

HostStatPath(h) == <<"stat", h>>
HostInfoPath(h) == <<"info", h>>

UpdateResource(h, usage) == Report(Hold(HostStatPath(h), usage))
StatExpires(h) == HostStatPath(h) \in DOMAIN hostEtcd /\ Report(Drop(HostStatPath(h)))
SaveHostInfo(h) == Report(Hold(HostInfoPath(h), HostOf[h]))
DelHostInfo(h) ==
  HostInfoPath(h) \in DOMAIN hostEtcd /\ Report(Drop(HostInfoPath(h)))
-----------------------------------------------------------------------------
\* GetResource and ResourceUsed
GetResource(info) ==
  [memory |-> info.memory + info.swap \div 2, cpu |-> info.numOfCPUs * 1073741824,
   disk |-> info.disk, in |-> NetCapacity, out |-> NetCapacity]
ResourceUsed(stat) ==
  [memory |-> stat.usedMemory, cpu |-> stat.cpuUsage, disk |-> 0, in |-> 0, out |-> 0]

\* getHostInfo reads the path of the status too; none of what a status holds has the
\* name of a field of HostInfo that counts.
NoInfo == [numOfCPUs |-> 0, memory |-> 0, swap |-> 0, disk |-> 0, labels |-> {},
           reserved |-> [k \in Kinds |-> 0]]
GetHostInfo(h) == IF HostStatPath(h) \in DOMAIN hostEtcd THEN {NoInfo} ELSE {}

\* checkHostStatus, with the status read before.
CheckHostStatus(h, stat, infos) ==
  IF stat = {} \/ infos = {} THEN "key not found"
  ELSE LET info == CHOOSE i \in infos : TRUE
           free == Subtract(Subtract(GetResource(info), info.reserved),
                            ResourceUsed(CHOOSE s \in stat : TRUE))
       IN IF Devide(free, Asked.resource) <= 0 THEN "short of resource"
          ELSE IF h \in hosting THEN "already exists" ELSE "none"

\* selectHost: the hosts whose static information is there.  A condition on labels
\* ends the process: the type the predicate expects is not the one it is given.
Selected == {h \in Hosts : HostInfoPath(h) \in DOMAIN hostEtcd}

NextHost ==
  /\ search.at = "none"
  /\ IF available # <<>> THEN
       /\ search' = [NoCall EXCEPT !.at = "draw"]
       /\ UNCHANGED <<available, answer, fill, seen>>
     ELSE IF Selected = {} THEN
       /\ answer' = [host |-> "", err |-> "no host meets the condition"]
       /\ UNCHANGED <<available, search, fill, seen>>
     ELSE IF Asked.labels # {} THEN
       /\ search' = [NoCall EXCEPT !.at = "panic"]
       /\ UNCHANGED <<available, answer, fill, seen>>
     ELSE
       /\ \E hosts \in SetToSeqs(Selected) : available' = hosts
       /\ fill' = Selected /\ seen' = {}
       /\ search' = [NoCall EXCEPT !.at = "draw"]
       /\ UNCHANGED answer
  /\ UNCHANGED <<hostEtcd, hosting, reports>>

\* findSuitableHost draws one: the last takes its place.
WithoutLast(s, i) == Front(s)
Without(s, i) == Front([s EXCEPT ![i] = Last(s)])

Draw(i) ==
  /\ search.at = "draw" /\ search.tries < MaxTry /\ i \in DOMAIN available
  /\ LET h == available[i] IN
     /\ search' = [search EXCEPT !.at = "stat", !.tries = @ + 1, !.host = h]
     /\ seen' = seen \cup {h}
  /\ available' = Without(available, i)
  /\ UNCHANGED <<hostEtcd, hosting, answer, fill, reports>>

\* getHostStatus
ReadStat ==
  /\ search.at = "stat"
  /\ search' = [search EXCEPT !.at = "info",
       !.stat = IF HostStatPath(search.host) \in DOMAIN hostEtcd
                THEN {hostEtcd[HostStatPath(search.host)]} ELSE {}]
  /\ UNCHANGED <<hostEtcd, hosting, available, answer, fill, seen, reports>>

\* getHostInfo and the comparison: the host that fits is the answer, otherwise the
\* next is drawn; a host that runs one already is not remembered, because its error
\* is not one that os.IsExist knows.
ReadInfo ==
  /\ search.at = "info"
  /\ LET err == CheckHostStatus(search.host, search.stat, GetHostInfo(search.host)) IN
     IF err = "none" THEN
       answer' = [host |-> search.host, err |-> "none"] /\ search' = NoCall
     ELSE IF available = <<>> \/ search.tries = MaxTry THEN
       answer' = [host |-> "", err |-> err] /\ search' = NoCall
     ELSE search' = [search EXCEPT !.at = "draw"] /\ UNCHANGED answer
  /\ UNCHANGED <<hostEtcd, hosting, available, fill, seen, reports>>

HostNext ==
  \/ NextHost \/ ReadStat \/ ReadInfo
  \/ \E i \in DOMAIN available : Draw(i)
  \/ \E h \in Hosts :
       \/ StatExpires(h) \/ SaveHostInfo(h) \/ DelHostInfo(h)
       \/ \E usage \in Usages : UpdateResource(h, usage)

HostSpec == HostInit /\ [][HostNext]_hostVars
-----------------------------------------------------------------------------
\* manager: Deploy, Update, RevokeLegacyLease, RenewLegacyLease and Destroy look for
\* the controller of the key in a map that NewSchedular never makes, so that a deploy
\* of a key that is not there yet is refused, and CheckStatus finds no key managed.
Controllers == {}
ManagerAnswer(dc) ==
  IF ~ValidConfig(dc) THEN "invalid"
  ELSE IF DeployKeyOf(dc) \notin Controllers THEN "unknown deployment" ELSE "none"
Unmanaged(keys) == keys \ Controllers
-----------------------------------------------------------------------------
\* Drawing neither loses a host nor draws one twice: until the list is filled anew
\* every host of the last list is either still in it, once, or was looked at (the
\* last host takes the place of the one drawn, over several calls of NextHost).
NoHostSkipped ==
  /\ ToSet(available) = fill \ seen
  /\ Cardinality(ToSet(available)) = Len(available)
=============================================================================
