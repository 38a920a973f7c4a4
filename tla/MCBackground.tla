---------------------------- MODULE MCBackground ----------------------------
(* Small instances of what runs beside the deployments: the process scanner *)
(* of a host, the synchronisation with zookeeper, the checks of services,   *)
(* the search for a host, and the formats their data is stored in.  They    *)
(* share no state, so a behaviour uses one of them.                         *)
EXTENDS Scanner, ZkSync, ServiceCheck, HostSelect, Formats, TLC

CONSTANTS z, k1, h1, h2, h3 \* model values

\* Two processes have one pid after the other: a child of the agent's own parent, or
\* one of a process that listens as well.
Program(env, ppid) == [env |-> env, registered |-> {"java/a"}, identified |-> TRUE,
                       ppid |-> ppid, sockets |-> {"i1"}]
OnePid == {1}
TwoPrograms == {Program(<<<<"A", "1">>, <<"B", "1">>, <<"">>>>, 1),
                Program(<<<<"A", "1">>, <<"">>>>, 7)}
OneParent == [sockets |-> {"i2"}]
Row(listens, inode, addr) == [listens |-> listens, inode |-> inode, addr |-> addr]
SmallTable == <<Row(TRUE, "i2", "a2"), Row(FALSE, "i3", "a3"), Row(TRUE, "i1", "a1")>>
SomeRequired == [memory |-> 2, maxMemory |-> 10, cpu |-> 10, maxCPU |-> 100,
                 maxThreads |-> 10, disk |-> 300]
OneReading == {[rss |-> 1, cpu |-> 1, threads |-> 1, written |-> 1]}

OneKid == {k1}

\* A service of two versions, its route, one running instance and two esbs.
OneName == {"p/b"}
Instance(v) == [nodeName |-> "i", version |-> v, type |-> 1, port |-> 80,
                apiVersion |-> "4.0"]
TwoNodes == [n \in OneName |-> <<Instance("1"), Instance("2")>>]
Matching(key, op, vals) == [key |-> key, op |-> op, vals |-> vals]
OneRoute == [n \in OneName |-> [version |-> "4.0", items |->
  <<[src |-> NoMatch, dst |-> Matching("version", "=", <<"1">>)]>>]]
EmptyRoute == [version |-> "", items |-> <<>>]
OneRuns == [n \in OneName |-> [i \in {"i1"} |-> "1"]]
TwoEsbs == [v \in {"2.0", "4.0"} |-> IF v = "4.0" THEN <<"e1", "e2">> ELSE <<>>]
TwoInterfaces == [n \in OneName |-> {"f", "g"}]

\* Three hosts of one kind with room for one more instance.
ThreeHosts == {h1, h2, h3}
Amount(m) == [memory |-> m, cpu |-> 1, disk |-> 1, in |-> 1, out |-> 1]
SmallHost == [h \in ThreeHosts |-> [numOfCPUs |-> 2, memory |-> 8, swap |-> 2, disk |-> 9,
                                    labels |-> {}, reserved |-> Amount(1)]]
OneUsage == {[usedMemory |-> 1, cpuUsage |-> 1]}
SomeAsked == [resource |-> Amount(2), labels |-> {}]

\* Values to write and read back: routes of up to two items, paths of every kind,
\* names and keys, update options at and beyond their limits and around the
\* percentages that a float does not carry, and amounts around every unit.
OneService == [s |-> "p2"]
Matches == {Matching("version", "=", <<"1">>), Matching("version", "=", <<"1", "2">>),
            Matching("version", "!=", <<"1", "2">>)}
Items == [src : Matches \cup {NoMatch}, dst : Matches]
SomeRoutes == [version : {"2.0", "4.0"}, items : UNION {[1..n -> Items] : n \in 0..2}]
SomePaths == {<<"biz", "p", "b", t>> \o rest : t \in {"config", "policy", "instance", "daemon"},
                                               rest \in {<<>>, <<"x">>, <<"default", "route">>}}
             \cup {<<"service", "s">>, <<"service", "s", <<"b", 1>>>>, <<"config", "s">>,
                   <<"config", "s", "x">>, <<"config", "other">>}
SomeNames == {<<"p", "b">>, <<"p2", "b">>, <<"p">>}
SomeKeys == [type : {"java"}, name : {<<"a">>, <<"a", "b">>}]
SomeUpdates == [policy : Policies, step : 0..3, percent : {0, 1, 28, 29, 30, 56, 57, 58, 59, 100, 101}, timeout : 0..3]
SomeRestarts == [type : {"", "onetime", "always"}, until : {NoTime}]
                \cup [type : {"until"}, until : [at : 0..2, utc : BOOLEAN]]
SomeAmounts == {0, 1, 1023, 1024, 1535, 1536, 1537, 1048575, 1048576, 1572863, 1572864,
                104857600}
SomeVersions == [number : 0..1, build : {<<>>, <<"prd">>, <<"qa", "1">>}]
SomeImages == [name : {<<"java/a">>} \cup {<<"java/a", v>> : v \in SomeVersions},
               policy : {"", "always"}, version : SomeVersions \cup {NoVersion}]

VARIABLE used

usedVars == <<scanVars, zkSyncVars, checkVars, hostVars, formatVars, used>>

\* What is not used has one initial state.
UsedInit ==
  /\ used \in {"processes", "zookeeper", "services", "hosts", "formats"}
  /\ ScanInit /\ CheckInit
  /\ HostInit /\ (used # "hosts" => hosting = {})
  /\ ZkSyncInit /\ (used # "zookeeper" => ~Exists(k1))
  /\ FormatInit /\ (used # "formats" => kind = "key" /\ sample = [type |-> "java", name |-> <<"a">>])

UsedNext ==
  \/ /\ used = "processes" /\ ScanNext
     /\ UNCHANGED <<zkSyncVars, checkVars, hostVars, formatVars, used>>
  \/ /\ used = "zookeeper" /\ ZkSyncNext
     /\ UNCHANGED <<scanVars, checkVars, hostVars, formatVars, used>>
  \/ /\ used = "services" /\ CheckNext
     /\ UNCHANGED <<scanVars, zkSyncVars, hostVars, formatVars, used>>
  \/ /\ used = "hosts" /\ HostNext
     /\ UNCHANGED <<scanVars, zkSyncVars, checkVars, formatVars, used>>

UsedSpec == UsedInit /\ [][UsedNext]_usedVars

\* Nothing is owed by what is not used.  The scanner's channels serve blocked senders
\* in order, and the agent goes on receiving.
UsedFairSpec ==
  /\ UsedSpec
  /\ \A n \in Procs : SF_scanVars(used = "processes" /\ ~crashed /\ Watch(n))
  /\ WF_scanVars(used = "processes" /\ ~crashed /\ ReceiveEvent)
  /\ WF_scanVars(used = "processes" /\ ~crashed /\ ReceiveMetric)
  /\ WF_zkSyncVars(used = "zookeeper" /\ Watchers)
  /\ WF_zkSyncVars(used = "zookeeper" /\ Handler)
  /\ WF_zkSyncVars(used = "zookeeper" /\ SetRouteTable)
  /\ WF_zkSyncVars(used = "zookeeper" /\ Reload)

\* Where the synchronisation is what runs, and has not failed, etcd ends up with the
\* value of every node (see EtcdCatchesUp).
CatchesUp == used = "zookeeper" => EtcdCatchesUp
=============================================================================
