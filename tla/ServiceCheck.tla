---------------------------- MODULE ServiceCheck ----------------------------
(***************************************************************************)
(* controllers/java/service and the probe interfaces of registry/java: the  *)
(* services loaded from zookeeper, the comparison of what zookeeper lists   *)
(* with what runs, one goroutine for each probed service that calls its     *)
(* interfaces in turn through an esb, and the reporting of the results.     *)
(* The averages are kept in units of 1/Scale.                               *)
(***************************************************************************)
EXTENDS Integers, Sequences, FiniteSets, SequencesExt, RouteCfg

CONSTANTS
  ServiceNames,
  ZkNodes,     \* the nodes zookeeper lists for a name
  Routes,      \* the route of a name, or NoRoute
  Running,     \* the versions of the instances that run, by instance
  NoRoute,
  Esbs,        \* the esbs for an API version
  Provided,    \* diProvider.interfaces: of a key, the interfaces to probe
  MChanCap,    \* the size of mchan, 200
  Scale,
  MaxProbes    \* bound: probes of a name

ASSUME CheckAssumption == \A k \in DOMAIN Provided : IsFiniteSet(Provided[k])

VARIABLES
  services,    \* by name, {} or the one service that is loaded
  alerts,
  interfaces,  \* diProvider.interfaces
  prober,      \* the goroutine of StartProbe
  ratio,       \* FailRatio of the service, by name
  esbRatio,    \* esbFailRatio, by name and esb
  mchan,
  unread,      \* the errors sent on ch
  probed,      \* history: how often an interface was probed since the list was made
  died

checkVars == <<services, alerts, interfaces, prober, ratio, esbRatio, mchan,
               unread, probed, died>>

Fresh == [count |-> 0, avg1 |-> 0, avg5 |-> 0, avg15 |-> 0]
NotStarted == [at |-> "none", list |-> <<>>, idx |-> 0, esbs |-> <<>>, timer |-> FALSE]

\* NewManager, NewDIProvider: a key without interfaces is left out.
CheckInit ==
  /\ services = [n \in ServiceNames |-> {}] /\ alerts = {} /\ died = FALSE
  /\ interfaces = [k \in {k \in DOMAIN Provided : Provided[k] # {}} |-> Provided[k]]
  /\ prober = [n \in ServiceNames |-> NotStarted]
  /\ ratio = [n \in ServiceNames |-> Fresh] /\ esbRatio = [n \in ServiceNames |-> <<>>]
  /\ mchan = <<>> /\ unread = {} /\ probed = [n \in ServiceNames |-> <<>>]
-----------------------------------------------------------------------------
\* The value of the first item that routes to a version.
RouteVersion(cfg) ==
  LET versions == SelectSeq(cfg.items, LAMBDA item : item.dst.key = "version") IN
  IF cfg = NoRoute \/ versions = <<>> \/ versions[1].dst.vals = <<>> THEN ""
  ELSE versions[1].dst.vals[1]

\* GetInstanceList appends the address of its loop variable: the last node, over
\* and over.
InstanceList(n) == [i \in DOMAIN ZkNodes[n] |-> Last(ZkNodes[n])]

\* load, called once; the first node stands for the service.
Load(n) ==
  /\ ~died /\ services[n] = {} /\ ZkNodes[n] # <<>>
  /\ LET s == InstanceList(n)[1] IN
     services' = [services EXCEPT ![n] =
       {[types |-> IF s.type = 1 \/ s.port > 0 THEN "service" ELSE "daemon",
         apiVersion |-> s.apiVersion, route |-> Routes[n], instances |-> Running[n]]}]
  /\ UNCHANGED <<alerts, interfaces, prober, ratio, esbRatio, mchan, unread, probed, died>>

\* checkHostRunningAndZKinstances sends an alert for every name whose numbers differ.
\* checkZKVersion, below, sends none of those it makes.
CheckInstances ==
  /\ ~died
  /\ alerts' = {n \in ServiceNames : Len(InstanceList(n)) # Cardinality(DOMAIN Running[n])}
  /\ UNCHANGED <<services, interfaces, prober, ratio, esbRatio, mchan, unread, probed, died>>

Mismatched(n) ==
  IF RouteVersion(Routes[n]) = "" THEN {}
  ELSE {i \in DOMAIN ZkNodes[n] : InstanceList(n)[i].version # RouteVersion(Routes[n])}

\* The handler of diProvider.watch: the interfaces of the key the event names.
InterfacesEvent(key, set) ==
  /\ ~died
  /\ interfaces' = [k \in (DOMAIN interfaces \cup {key}) \ (IF set = {} THEN {key} ELSE {}) |->
                      IF k = key THEN set ELSE interfaces[k]]
  /\ UNCHANGED <<services, alerts, prober, ratio, esbRatio, mchan, unread, probed, died>>
-----------------------------------------------------------------------------
GetProbeInterfaces(n) == IF n \in DOMAIN interfaces THEN interfaces[n] ELSE {}

\* toIterator: in the order of the map, the index behind the end.
Iterators(set) == {[list |-> l, idx |-> Len(l)] : l \in SetToSeqs(set)}

NextIdxEarly(idx, list) == IF idx + 1 >= Len(list) THEN 1 ELSE idx + 1

\* Next: one further, and from the end to the beginning.  Positions count from 0
\* in the code and from 1 here.
NextIdx(idx, list) == IF idx + 1 > Len(list) THEN 1 ELSE idx + 1

NewRound(n, list) ==
  probed' = [probed EXCEPT ![n] = [i \in ToSet(list) |-> 0]]

\* StartProbe: an unknown name or a version without an esb is an error.
StartProbe(n) ==
  /\ ~died /\ prober[n].at = "none"
  /\ IF services[n] = {} THEN
       /\ unread' = unread \cup {<<n, "not exist">>}
       /\ prober' = [prober EXCEPT ![n].at = "ended"] /\ UNCHANGED probed
     ELSE LET esbs == Esbs[(CHOOSE s \in services[n] : TRUE).apiVersion] IN
       IF esbs = <<>> THEN
         /\ unread' = unread \cup {<<n, "no esb">>}
         /\ prober' = [prober EXCEPT ![n].at = "ended"] /\ UNCHANGED probed
       ELSE \E it \in Iterators(GetProbeInterfaces(n)) :
         /\ prober' = [prober EXCEPT ![n] = [at |-> "select", list |-> it.list,
                         idx |-> it.idx, esbs |-> esbs, timer |-> TRUE]]
         /\ NewRound(n, it.list) /\ UNCHANGED unread
  /\ UNCHANGED <<services, alerts, interfaces, ratio, esbRatio, mchan, died>>

\* updateTimer fires once and the list is made anew.
RenewList(n) ==
  /\ ~died /\ prober[n].at = "select" /\ prober[n].timer
  /\ \E it \in Iterators(GetProbeInterfaces(n)) :
       /\ prober' = [prober EXCEPT ![n].list = it.list, ![n].idx = it.idx,
                                   ![n].timer = FALSE]
       /\ NewRound(n, it.list)
  /\ UNCHANGED <<services, alerts, interfaces, ratio, esbRatio, mchan, unread, died>>

\* calFailRatio
CalFailRatio(old, exp, n) == (old * exp + n * (2048 - exp)) \div 2048

Updated(fr, result) ==
  LET r == CASE result = "failure" -> Scale [] result = "warning" -> Scale \div 2
             [] OTHER -> 0 IN
  [count |-> fr.count + 1, avg1 |-> CalFailRatio(fr.avg1, 1884, r),
   avg5 |-> CalFailRatio(fr.avg5, 2014, r), avg15 |-> CalFailRatio(fr.avg15, 2037, r)]

Versions(n) == {Running[n][i] : i \in DOMAIN Running[n]}

\* The ticker: the next interface through the first esb (idx is never moved), the
\* ratios, and a metric that waits for room in mchan.
ProbeNext(n, result) ==
  /\ ~died /\ prober[n].at = "select" /\ prober[n].list # <<>>
  /\ ratio[n].count < MaxProbes
  /\ LET p == prober[n]
         next == NextIdx(p.idx, p.list)
         url == p.esbs[1]
         old == IF url \in DOMAIN esbRatio[n] THEN esbRatio[n][url] ELSE Fresh
     IN
     /\ prober' = [prober EXCEPT ![n].idx = next, ![n].at = "send"]
     /\ probed' = [probed EXCEPT ![n][p.list[next]] = @ + 1]
     /\ ratio' = [ratio EXCEPT ![n] = Updated(@, result)]
     /\ esbRatio' = [esbRatio EXCEPT ![n] =
          [u \in DOMAIN @ \cup {url} |-> IF u = url THEN Updated(old, result) ELSE @[u]]]
  /\ UNCHANGED <<services, alerts, interfaces, mchan, unread, died>>

SendMetricOf(n) ==
  /\ ~died /\ prober[n].at = "send" /\ Len(mchan) < MChanCap
  /\ mchan' = Append(mchan, [service |-> n, esb |-> "all",
                             probecount |-> esbRatio[n][prober[n].esbs[1]].count,
                             numVersions |-> Cardinality(Versions(n))])
  /\ prober' = [prober EXCEPT ![n].at = "select"]
  /\ UNCHANGED <<services, alerts, interfaces, ratio, esbRatio, unread, probed, died>>

Cancel(n) ==
  /\ ~died /\ prober[n].at = "select"
  /\ prober' = [prober EXCEPT ![n].at = "ended"]
  /\ UNCHANGED <<services, alerts, interfaces, ratio, esbRatio, mchan, unread, probed, died>>

\* report: one goroutine writes what comes from mchan; the other one, every 20 s,
\* makes a batch that begins with a nil for each service, which Write dereferences.
ReportOne ==
  /\ ~died /\ mchan # <<>> /\ mchan' = Tail(mchan)
  /\ UNCHANGED <<services, alerts, interfaces, prober, ratio, esbRatio, unread, probed, died>>
ReportAll ==
  /\ ~died /\ died' = (\E n \in ServiceNames : services[n] # {})
  /\ UNCHANGED <<services, alerts, interfaces, prober, ratio, esbRatio, mchan, unread, probed>>

CheckNext ==
  \/ CheckInstances \/ ReportOne \/ ReportAll
  \/ \E k \in DOMAIN Provided : \E set \in {{}, Provided[k]} : InterfacesEvent(k, set)
  \/ \E n \in ServiceNames :
       \/ Load(n) \/ StartProbe(n) \/ RenewList(n) \/ SendMetricOf(n) \/ Cancel(n)
       \/ \E result \in {"success", "warning", "failure"} : ProbeNext(n, result)

CheckSpec == CheckInit /\ [][CheckNext]_checkVars
-----------------------------------------------------------------------------
\* No interface of a service is probed twice before every other has been probed
\* once more, from the first tick on (toIterator starts behind the end) and over
\* the end of the list (Next).
ProbedInTurn ==
  \A n \in ServiceNames : \A i, j \in DOMAIN probed[n] : probed[n][i] - probed[n][j] <= 1
=============================================================================
