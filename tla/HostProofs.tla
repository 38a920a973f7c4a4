---------------------------- MODULE HostProofs ----------------------------
(***************************************************************************)
(* Proofs about the hosts: the scanner of processes, the search for a host *)
(* and the templates, for any number of processes, pids, hosts and         *)
(* contents.                                                               *)
(***************************************************************************)
EXTENDS Scanner, HostSelect, Templates, WellFoundedInduction, FiniteSetTheorems, TLAPS

---------------------------------------------------------------------------
(* The scanner of processes. *)

Statuses == {"unknown", "error", "warning", "success"}
EventTypes == {"starting", "probeErr", "probeWarn", "started", "stopped"}

ScanTyped ==
  /\ born \in 0..MaxBorn /\ pidOf \in [Procs -> Pids \cup {Min(Pids)}] /\ runs \in [Pids -> 0..born]
  /\ procs \in [Pids -> Nat] /\ scan \in {"idle", "prune", "scan", "parse", "send"}
  /\ todo \subseteq Pids /\ scanned \in Nat
  /\ watch \in [Procs -> {"none", "sleep", "wait", "probed", "failed", "tell", "stop", "done"}]
  /\ status \in [Procs -> Statuses] /\ told \in [Procs -> Statuses]
  /\ last \in [Procs -> EventTypes \cup {"none"}]
  /\ events \in Seq([ins : Procs, type : EventTypes])

\* A process that is watched keeps the entry its pid has in s.procs as long as it
\* lives, so that update never takes it for a new one.
FoundOnce ==
  /\ \A p \in Pids : runs[p] # 0 => pidOf[runs[p]] = p
  /\ \A n \in Procs : watch[n] # "none" => n <= born
  /\ \A p \in Pids : runs[p] # 0 /\ procs[p] = 0 => watch[runs[p]] = "none"
  /\ scan = "parse" =>
       /\ scanned \in Pids /\ procs[scanned] # 0
       /\ runs[scanned] # 0 => watch[runs[scanned]] = "none"
  /\ scan = "send" =>
       /\ scanned \in 1..born /\ watch[scanned] = "none"
       /\ pidOf[scanned] \in Pids /\ procs[pidOf[scanned]] # 0

\* What was sent last of an instance, by where its goroutine is.
LastTold(n) ==
  /\ last[n] = "none" <=> watch[n] = "none"
  /\ last[n] = "stopped" <=> watch[n] = "done"
  /\ watch[n] = "none" => told[n] = "unknown"
  /\ watch[n] \in {"sleep", "wait", "probed", "failed"} =>
       last[n] = IF told[n] = "unknown" THEN "starting" ELSE EventOf(told[n])
  /\ watch[n] = "probed" => status[n] # "unknown"
  /\ watch[n] = "tell" =>
       status[n] = told[n] /\ told[n] # "unknown" /\ last[n] # EventOf(told[n])

ScanInv == ScanTyped /\ FoundOnce /\ \A n \in Procs : LastTold(n)

LEMMA MinIsIn ==
  ASSUME NEW S \in SUBSET Nat, S # {}
  PROVE  Min(S) \in S
<1> DEFINE R == OpToRel(<, Nat)
<1>1. \A x, y \in Nat : <<x, y>> \in R <=> x < y
  BY DEF OpToRel
<1>2. IsWellFoundedOn(R, Nat)
  BY NatLessThanWellFounded
<1> HIDE DEF R
<1>3. PICK x \in S : \A y \in S : ~(<<y, x>> \in R)
  BY <1>2, WFMin
<1>4. \A y \in S : ~(y < x)
  BY <1>1, <1>3
<1>5. \A y \in S : x <= y
  BY <1>4
<1> QED
  BY <1>5 DEF Min

LEMMA ScanStart ==
  ASSUME ScanInit
  PROVE  ScanInv
<1> USE ScannerAssumption DEF ScanInit
<1>1. ScanTyped
  <2>1. 0 \in 0..MaxBorn
    OBVIOUS
  <2> QED
    BY <2>1 DEF ScanTyped, Statuses, EventTypes
<1>2. FoundOnce
  BY DEF FoundOnce, Procs
<1>3. \A n \in Procs : LastTold(n)
  BY DEF LastTold
<1> QED
  BY <1>1, <1>2, <1>3 DEF ScanInv

LEMMA ScanFork ==
  ASSUME ScanInv, NEW pid \in Pids, NEW prog, Fork(pid, prog)
  PROVE  ScanInv'
<1> USE ScannerAssumption DEF ScanInv, Fork, updateVars, watchVars, chanVars
<1>1. /\ born' = born + 1 /\ born' \in Procs /\ born \in 0..MaxBorn
      /\ pidOf' = [pidOf EXCEPT ![born + 1] = pid]
      /\ runs' = [runs EXCEPT ![pid] = born + 1] /\ runs[pid] = 0
  BY DEF ScanTyped, Procs
<1>2. /\ \A n \in Procs : pidOf'[n] = IF n = born + 1 THEN pid ELSE pidOf[n]
      /\ \A p \in Pids : runs'[p] = IF p = pid THEN born + 1 ELSE runs[p]
  BY <1>1 DEF ScanTyped
<1>3. ScanTyped'
  BY <1>1 DEF ScanTyped
<1>4. watch[born + 1] = "none"
  BY <1>1 DEF FoundOnce, ScanTyped
<1>5. FoundOnce'
  <2>1. \A p \in Pids : runs[p] # 0 => runs[p] \in 1..born
    BY <1>1 DEF ScanTyped
  <2> QED
    BY <1>1, <1>2, <1>4, <2>1 DEF FoundOnce, ScanTyped, Procs
<1>6. \A n \in Procs : LastTold(n)'
  BY DEF LastTold
<1> QED
  BY <1>3, <1>5, <1>6

LEMMA ScanExit ==
  ASSUME ScanInv, NEW pid \in Pids, Exit(pid)
  PROVE  ScanInv'
<1> USE DEF ScanInv, Exit, updateVars, watchVars, chanVars
<1>1. ScanTyped'
  BY DEF ScanTyped
<1>2. FoundOnce'
  BY DEF FoundOnce, ScanTyped
<1>3. \A n \in Procs : LastTold(n)'
  BY DEF LastTold
<1> QED
  BY <1>1, <1>2, <1>3

\* The steps of update in which nothing is sent.
LEMMA ScanUpdate ==
  ASSUME ScanInv, Tick \/ Prune \/ ScanPid \/ EndScan \/ ParseNew
  PROVE  ScanInv'
<1> USE DEF ScanInv
<1>1. UNCHANGED <<born, pidOf, runs, watch, status, told, last, events>>
  BY DEF Tick, Prune, ScanPid, EndScan, ParseNew, sourceVars, watchVars, chanVars
<1>2. \A n \in Procs : LastTold(n)'
  BY <1>1 DEF LastTold
<1>3. CASE Tick \/ EndScan
  BY <1>1, <1>2, <1>3 DEF Tick, EndScan, ScanTyped, FoundOnce
<1>4. CASE Prune
  <2>1. ScanTyped'
    BY <1>1, <1>4 DEF Prune, ScanTyped
  <2>2. FoundOnce'
    BY <1>1, <1>4 DEF Prune, ScanTyped, FoundOnce
  <2> QED
    BY <1>2, <2>1, <2>2
<1>5. CASE ScanPid
  <2> DEFINE pid == Min(todo)
  <2>1. pid \in todo /\ pid \in Pids
    BY <1>5, MinIsIn, ScannerAssumption DEF ScanPid, ScanTyped
  <2>2. /\ scan = "scan" /\ todo' = todo \ {pid}
        /\ \/ UNCHANGED <<procs, scan, scanned>>
           \/ /\ procs[pid] = 0 /\ runs[pid] # 0
              /\ procs' = [procs EXCEPT ![pid] = runs[pid]]
              /\ scan' = "parse" /\ scanned' = pid
    BY <1>5 DEF ScanPid
  <2> HIDE DEF pid
  <2>3. ScanTyped'
    BY <1>1, <2>1, <2>2, ScannerAssumption DEF ScanTyped
  <2>4. FoundOnce'
    BY <1>1, <2>1, <2>2 DEF ScanTyped, FoundOnce
  <2> QED
    BY <1>2, <2>3, <2>4
<1>6. CASE ParseNew
  <2> DEFINE n == runs[scanned]
  <2>1. /\ scan = "parse" /\ UNCHANGED <<procs, todo>>
        /\ \/ scan' = "scan" /\ scanned' = 0
           \/ UNCHANGED <<scan, scanned>>
           \/ n # 0 /\ scan' = "send" /\ scanned' = n
    BY <1>6 DEF ParseNew, Outcome
  <2>2. scanned \in Pids /\ procs[scanned] # 0 /\ (n # 0 => watch[n] = "none" /\ pidOf[n] = scanned)
    BY <2>1 DEF FoundOnce
  <2>3. ScanTyped'
    BY <1>1, <2>1, <2>2 DEF ScanTyped
  <2>4. FoundOnce'
    BY <1>1, <2>1, <2>2 DEF ScanTyped, FoundOnce
  <2> QED
    BY <1>2, <2>3, <2>4
<1> QED
  BY <1>3, <1>4, <1>5, <1>6

\* What is received is not sent again.
LEMMA ScanReceive ==
  ASSUME ScanInv, ReceiveEvent \/ ReceiveMetric
  PROVE  ScanInv' /\ Len(events') <= Len(events)
<1> USE DEF ScanInv
<1> DEFINE Event == [ins : Procs, type : EventTypes]
<1>1. /\ UNCHANGED <<born, pidOf, runs, procs, scan, todo, scanned, watch, status, told, last>>
      /\ \/ events' = events
         \/ events # <<>> /\ events' = Tail(events)
  BY DEF ReceiveEvent, ReceiveMetric, sourceVars, updateVars, watchVars
<1>2. events' \in Seq(Event) /\ Len(events') <= Len(events)
  <2>1. events \in Seq(Event)
    BY DEF ScanTyped
  <2> HIDE DEF Event
  <2> QED
    BY <1>1, <2>1
<1>3. ScanTyped'
  BY <1>1, <1>2 DEF ScanTyped
<1> QED
  BY <1>1, <1>2, <1>3 DEF FoundOnce, LastTold

\* A step of the goroutine of instance n: what is told of the others stays.
LEMMA WatchStep ==
  ASSUME ScanInv, NEW n \in Procs, watch[n] # "none",
         UNCHANGED <<sourceVars, updateVars>>, ScanTyped', watch'[n] # "none",
         \A m \in Procs \ {n} : UNCHANGED <<watch[m], status[m], told[m], last[m]>>,
         LastTold(n)'
  PROVE  ScanInv'
<1> USE DEF sourceVars, updateVars
<1>1. FoundOnce'
  <2>1. /\ \A p \in Pids : runs[p] # 0 => runs[p] \in Procs
        /\ \A m \in 1..born : m \in Procs
    BY ScannerAssumption DEF ScanInv, ScanTyped, Procs
  <2>2. \A m \in Procs : watch[m] = "none" => watch'[m] = "none"
    OBVIOUS
  <2>3. \A m \in Procs : watch'[m] # "none" => watch[m] # "none"
    OBVIOUS
  <2> QED
    BY <2>1, <2>2, <2>3 DEF ScanInv, FoundOnce
<1>2. \A m \in Procs : LastTold(m)'
  BY DEF ScanInv, LastTold
<1> QED
  BY <1>1, <1>2 DEF ScanInv

\* A step in which nothing is sent.
LEMMA WatchSilent ==
  ASSUME ScanInv, NEW n \in Procs,
         Lookup(n) \/ Gone(n) \/ Probe(n) \/ ProbeNil(n) \/ SendMetric(n)
           \/ Look(n) \/ GiveUp(n)
  PROVE  ScanInv' /\ UNCHANGED events
<1> USE DEF ScanInv, GoesTo
<1>1. UNCHANGED <<sourceVars, updateVars, last, events>>
  BY DEF Lookup, Gone, Probe, ProbeNil, SendMetric, Look, GiveUp, chanVars
<1>2. CASE ProbeNil(n) \/ Look(n) \/ GiveUp(n)
  <2>1. /\ UNCHANGED <<watch, status, told>> /\ watch[n] # "none"
    BY <1>2 DEF ProbeNil, Look, GiveUp, watchVars
  <2> QED
    BY <1>1, <2>1 DEF ScanTyped, FoundOnce, LastTold, sourceVars, updateVars
<1>3. CASE Lookup(n) \/ Gone(n)
  <2>1. /\ UNCHANGED <<status, told>> /\ watch[n] \in {"sleep", "wait"}
        /\ \E pc \in {"sleep", "wait", "stop"} : watch' = [watch EXCEPT ![n] = pc]
    <3>1. CASE Lookup(n)
      BY <3>1 DEF Lookup, ScanTyped
    <3>2. CASE Gone(n)
      BY <3>2 DEF Gone
    <3> QED
      BY <1>3, <3>1, <3>2
  <2>2. ScanTyped'
    BY <1>1, <2>1 DEF ScanTyped, sourceVars, updateVars
  <2>3. LastTold(n)'
    BY <1>1, <2>1 DEF LastTold, ScanTyped
  <2> QED
    BY <1>1, <2>1, <2>2, <2>3, WatchStep DEF ScanTyped
<1>4. CASE Probe(n)
  <2>1. /\ UNCHANGED told /\ watch[n] = "wait"
        /\ \/ watch' = [watch EXCEPT ![n] = "failed"] /\ UNCHANGED status
           \/ /\ watch' = [watch EXCEPT ![n] = "probed"]
              /\ \E new \in Statuses \ {"unknown"} : status' = [status EXCEPT ![n] = new]
    BY <1>4 DEF Probe, StatusOf, Statuses
  <2>2. ScanTyped'
    BY <1>1, <2>1 DEF ScanTyped, sourceVars, updateVars
  <2>3. LastTold(n)'
    BY <1>1, <2>1 DEF LastTold, ScanTyped
  <2> QED
    BY <1>1, <2>1, <2>2, <2>3, WatchStep DEF ScanTyped
<1>5. CASE SendMetric(n)
  <2>1. /\ UNCHANGED status /\ watch[n] \in {"probed", "failed"}
        /\ \/ /\ watch[n] = "probed" /\ status[n] # told[n]
              /\ watch' = [watch EXCEPT ![n] = "tell"]
              /\ told' = [told EXCEPT ![n] = status[n]]
           \/ watch' = [watch EXCEPT ![n] = "wait"] /\ UNCHANGED told
    BY <1>5 DEF SendMetric
  <2>2. ScanTyped'
    BY <1>1, <2>1 DEF ScanTyped, sourceVars, updateVars
  <2>3. LastTold(n)'
    BY <1>1, <2>1 DEF LastTold, ScanTyped, EventOf, Statuses
  <2> QED
    BY <1>1, <2>1, <2>2, <2>3, WatchStep DEF ScanTyped
<1> QED
  BY <1>1, <1>2, <1>3, <1>4, <1>5

\* What a step that sends does with the channel.
LEMMA Told ==
  ASSUME ScanInv, NEW n \in Procs, NEW type \in EventTypes, Tell(n, type)
  PROVE  /\ events' \in Seq([ins : Procs, type : EventTypes])
         /\ events'[Len(events')].ins = n
         /\ last' = [last EXCEPT ![n] = type]
<1> DEFINE Event == [ins : Procs, type : EventTypes]
           e == [ins |-> n, type |-> type]
<1>1. events \in Seq(Event) /\ e \in Event /\ e.ins = n
  BY DEF ScanInv, ScanTyped
<1>2. events' = Append(events, e) /\ last' = [last EXCEPT ![n] = type]
  BY DEF Tell
<1>3. events' \in Seq(Event) /\ events'[Len(events')] = e
  <2> HIDE DEF Event, e
  <2> QED
    BY <1>1, <1>2
<1> QED
  BY <1>1, <1>2, <1>3

InOrder(n) ==
  CASE last[n] = "none" -> last'[n] = "starting"
    [] last[n] = "stopped" -> FALSE
    [] OTHER -> last'[n] \notin {last[n], "starting"}

LEMMA ScanAnnounce ==
  ASSUME ScanInv, Announce
  PROVE  /\ ScanInv'
         /\ \A n \in Procs : events'[Len(events')].ins = n => InOrder(n)
<1> USE DEF ScanInv
<1> DEFINE n == scanned
<1>1. /\ UNCHANGED <<sourceVars, procs, todo, status, told>>
      /\ scan = "send" /\ scan' = "scan" /\ scanned' = 0
      /\ watch' = [watch EXCEPT ![n] = "sleep"] /\ Tell(n, "starting")
  BY DEF Announce
<1>2. /\ n \in Procs /\ n <= born /\ watch[n] = "none"
      /\ pidOf[n] \in Pids /\ procs[pidOf[n]] # 0
  BY <1>1, ScannerAssumption DEF FoundOnce, ScanTyped, Procs
<1>3. /\ events' \in Seq([ins : Procs, type : EventTypes])
      /\ events'[Len(events')].ins = n /\ last' = [last EXCEPT ![n] = "starting"]
  BY <1>1, <1>2, Told DEF EventTypes
<1> HIDE DEF n
<1>4. ScanTyped'
  BY <1>1, <1>2, <1>3 DEF ScanTyped, sourceVars, EventTypes
<1>5. FoundOnce'
  BY <1>1, <1>2 DEF FoundOnce, ScanTyped, sourceVars
<1>6. \A m \in Procs : LastTold(m)'
  BY <1>1, <1>2, <1>3 DEF LastTold, ScanTyped
<1>7. last[n] = "none" /\ last'[n] = "starting"
  BY <1>2, <1>3 DEF LastTold, ScanTyped
<1> QED
  BY <1>3, <1>4, <1>5, <1>6, <1>7 DEF InOrder

LEMMA ScanTell ==
  ASSUME ScanInv, NEW n \in Procs, TellStatus(n) \/ TellStopped(n)
  PROVE  /\ ScanInv'
         /\ \A m \in Procs : events'[Len(events')].ins = m => InOrder(m)
<1> USE DEF ScanInv, GoesTo
<1>1. UNCHANGED <<sourceVars, updateVars, status, told>>
  BY DEF TellStatus, TellStopped
<1>2. CASE TellStatus(n)
  <2> DEFINE type == EventOf(status[n])
  <2>1. /\ watch[n] = "tell" /\ watch' = [watch EXCEPT ![n] = "wait"]
        /\ Tell(n, type) /\ type \in EventTypes \ {"starting", "stopped"}
    BY <1>2 DEF TellStatus, EventOf, EventTypes
  <2>2. /\ events' \in Seq([ins : Procs, type : EventTypes])
        /\ events'[Len(events')].ins = n /\ last' = [last EXCEPT ![n] = type]
    BY <2>1, Told
  <2> HIDE DEF type
  <2>3. ScanTyped'
    BY <1>1, <2>1, <2>2 DEF ScanTyped, sourceVars, updateVars
  <2>4. /\ last[n] \notin {"none", "stopped", type} /\ type = EventOf(told[n])
        /\ told[n] # "unknown"
    BY <2>1 DEF LastTold, type
  <2>5. LastTold(n)'
    <3>1. watch'[n] = "wait" /\ last'[n] = type /\ told'[n] = told[n]
      BY <1>1, <2>1, <2>2 DEF ScanTyped
    <3>2. type \notin {"none", "stopped"}
      BY <2>1 DEF EventTypes
    <3> QED
      BY <2>4, <3>1, <3>2 DEF LastTold
  <2>6. ScanInv'
    BY <1>1, <2>1, <2>2, <2>3, <2>5, WatchStep DEF ScanTyped
  <2> QED
    BY <2>1, <2>2, <2>4, <2>6 DEF InOrder, ScanTyped
<1>3. CASE TellStopped(n)
  <2>1. /\ watch[n] = "stop" /\ watch' = [watch EXCEPT ![n] = "done"]
        /\ Tell(n, "stopped")
    BY <1>3 DEF TellStopped
  <2>2. /\ events' \in Seq([ins : Procs, type : EventTypes])
        /\ events'[Len(events')].ins = n /\ last' = [last EXCEPT ![n] = "stopped"]
    BY <2>1, Told DEF EventTypes
  <2>3. ScanTyped'
    BY <1>1, <2>1, <2>2 DEF ScanTyped, sourceVars, updateVars, EventTypes
  <2>4. LastTold(n)' /\ last[n] \notin {"none", "stopped"}
    BY <1>1, <2>1, <2>2 DEF LastTold, ScanTyped
  <2>5. ScanInv'
    BY <1>1, <2>1, <2>2, <2>3, <2>4, WatchStep DEF ScanTyped
  <2> QED
    BY <2>1, <2>2, <2>4, <2>5 DEF InOrder, ScanTyped
<1> QED
  BY <1>2, <1>3

LEMMA ScanStep ==
  ASSUME ScanInv, [ScanNext]_scanVars
  PROVE  /\ ScanInv'
         /\ \A n \in Procs :
              Len(events') > Len(events) /\ events'[Len(events')].ins = n => InOrder(n)
<1>1. CASE \E p \in Pids : Exit(p) \/ \E prog \in Programs : Fork(p, prog)
  <2>1. ScanInv'
    BY <1>1, ScanExit, ScanFork
  <2>2. UNCHANGED events
    BY <1>1 DEF Exit, Fork, chanVars
  <2> QED
    BY <2>1, <2>2 DEF ScanInv, ScanTyped
<1>2. CASE Update
  <2>1. CASE Announce
    BY <2>1, ScanAnnounce
  <2>2. CASE Tick \/ Prune \/ ScanPid \/ EndScan \/ ParseNew
    <3>1. UNCHANGED events
      BY <2>2 DEF Tick, Prune, ScanPid, EndScan, ParseNew, chanVars
    <3> QED
      BY <2>2, <3>1, ScanUpdate DEF ScanInv, ScanTyped
  <2> QED
    BY <1>2, <2>1, <2>2 DEF Update
<1>3. ASSUME NEW n \in Procs, Watch(n) \/ Look(n) \/ GiveUp(n)
      PROVE  /\ ScanInv'
             /\ \A m \in Procs :
                  Len(events') > Len(events) /\ events'[Len(events')].ins = m => InOrder(m)
  <2>1. CASE TellStatus(n) \/ TellStopped(n)
    BY <2>1, ScanTell
  <2>2. CASE Lookup(n) \/ Gone(n) \/ Probe(n) \/ ProbeNil(n) \/ SendMetric(n)
               \/ Look(n) \/ GiveUp(n)
    BY <2>2, WatchSilent DEF ScanInv, ScanTyped
  <2> QED
    BY <1>3, <2>1, <2>2 DEF Watch
<1>4. CASE ReceiveEvent \/ ReceiveMetric
  <2>1. ScanInv' /\ Len(events') <= Len(events)
    BY <1>4, ScanReceive
  <2> QED
    BY <2>1 DEF ScanInv, ScanTyped
<1>5. CASE UNCHANGED scanVars
  BY <1>5 DEF scanVars, sourceVars, updateVars, watchVars, chanVars, ScanInv, ScanTyped,
     FoundOnce, LastTold
<1> QED
  BY <1>1, <1>2, <1>3, <1>4, <1>5 DEF ScanNext

\* Whoever receives the scanner's events hears of every instance that it starts,
\* then of statuses that differ from one to the next, then that it stopped, and
\* then nothing (scan.go), for any number of pids and processes, any sizes of the
\* channels and whatever the probes say.
THEOREM InstancesToldInOrder == ScanSpec => ToldInOrder
<1>1. ScanInit => ScanInv
  BY ScanStart
<1>2. ScanInv /\ [ScanNext]_scanVars => ScanInv'
  BY ScanStep
<1>3. ScanInv /\ [ScanNext]_scanVars =>
        [\A n \in Procs :
           Len(events') > Len(events) /\ events'[Len(events')].ins = n =>
           CASE last[n] = "none" -> last'[n] = "starting"
             [] last[n] = "stopped" -> FALSE
             [] OTHER -> last'[n] \notin {last[n], "starting"}]_scanVars
  BY ScanStep DEF InOrder
<1> QED
  BY <1>1, <1>2, <1>3, PTL DEF ScanSpec, ToldInOrder

---------------------------------------------------------------------------
(* The search for a host. *)

OneEach(list) == \A i, j \in DOMAIN list : list[i] = list[j] => i = j

DrawInv ==
  /\ available \in Seq(Hosts) /\ OneEach(available)
  /\ ToSet(available) = fill \ seen

\* A list of the elements of a finite set has each of them once.
LEMMA ListsAll ==
  ASSUME NEW S, IsFiniteSet(S), NEW list \in SetToSeqs(S)
  PROVE  list \in Seq(S) /\ OneEach(list) /\ ToSet(list) = S
<1> DEFINE n == Cardinality(S)
<1>1. n \in Nat
  BY FS_CardinalityType
<1>2. /\ list \in [1..n -> S]
      /\ \A i, j \in 1..n : i # j => list[i] # list[j]
  BY DEF SetToSeqs
<1>3. list \in Injection(1..n, S)
  BY <1>2 DEF Injection, IsInjective
<1>4. IsFiniteSet(1..n) /\ Cardinality(1..n) = n
  BY <1>1, FS_Interval
<1>5. list \in Surjection(1..n, S)
  BY <1>3, <1>4, FS_Injection
<1> HIDE DEF n
<1>6. ToSet(list) = S
  BY <1>2, <1>5 DEF Surjection, ToSet
<1> QED
  BY <1>1, <1>2, <1>6 DEF OneEach

\* Taking one out leaves all the others.
LEMMA WithoutOne ==
  ASSUME NEW s \in Seq(Hosts), OneEach(s), NEW i \in DOMAIN s
  PROVE  /\ Without(s, i) \in Seq(Hosts) /\ OneEach(Without(s, i))
         /\ ToSet(Without(s, i)) = ToSet(s) \ {s[i]}
<1> DEFINE m == Len(s)
           e == [s EXCEPT ![i] = s[m]]
           r == Without(s, i)
<1>1. m \in Nat \ {0} /\ DOMAIN s = 1..m /\ i \in 1..m /\ m - 1 \in Nat
  OBVIOUS
<1>2. e \in Seq(Hosts) /\ Len(e) = m /\ \A j \in 1..m : e[j] = IF j = i THEN s[m] ELSE s[j]
  BY <1>1
<1>3. r = SubSeq(e, 1, m - 1)
  BY <1>2 DEF Without, Front, Last
<1> HIDE DEF e, m, r
<1>4. /\ r \in Seq(Hosts) /\ Len(r) = m - 1 /\ DOMAIN r = 1..(m - 1)
      /\ \A j \in 1..(m - 1) : r[j] = IF j = i THEN s[m] ELSE s[j]
  BY <1>1, <1>2, <1>3
<1>5. OneEach(r)
  BY <1>1, <1>4 DEF OneEach
<1>6. ASSUME NEW h \in ToSet(r)
      PROVE  h \in ToSet(s) \ {s[i]}
  <2>1. PICK j \in 1..(m - 1) : h = r[j]
    BY <1>4 DEF ToSet
  <2>2. h = IF j = i THEN s[m] ELSE s[j]
    BY <1>4, <2>1
  <2> QED
    BY <1>1, <2>1, <2>2 DEF ToSet, OneEach
<1>7. ASSUME NEW h \in ToSet(s), h # s[i]
      PROVE  h \in ToSet(r)
  <2>1. PICK j \in 1..m : h = s[j] /\ j # i
    BY <1>1, <1>7 DEF ToSet
  <2>2. CASE j = m
    BY <1>1, <1>4, <2>1, <2>2 DEF ToSet
  <2>3. CASE j # m
    BY <1>1, <1>4, <2>1, <2>3 DEF ToSet
  <2> QED
    BY <2>2, <2>3
<1>8. r \in Seq(Hosts) /\ OneEach(r) /\ ToSet(r) = ToSet(s) \ {s[i]}
  BY <1>4, <1>5, <1>6, <1>7
<1> QED
  BY <1>8 DEF r

\* No host is skipped and none drawn twice until the list is filled anew
\* (findSuitableHost), for any finite set of hosts, whatever they report meanwhile
\* and however many tries a call has.
THEOREM EveryHostDrawnOnce == HostSpec => []NoHostSkipped
<1>1. HostInit => DrawInv
  BY DEF HostInit, DrawInv, OneEach, ToSet
<1>2. DrawInv /\ [HostNext]_hostVars => DrawInv'
  <2> SUFFICES ASSUME DrawInv, [HostNext]_hostVars PROVE DrawInv'
    OBVIOUS
  <2>1. CASE UNCHANGED <<available, fill, seen>>
    BY <2>1 DEF DrawInv
  <2>2. ASSUME NEW hosts \in SetToSeqs(Selected),
               available' = hosts, fill' = Selected, seen' = {}
        PROVE  DrawInv'
    <3>1. IsFiniteSet(Selected) /\ Selected \subseteq Hosts
      BY HostAssumption, FS_Subset DEF Selected
    <3>2. PICK S : S = Selected
      OBVIOUS
    <3>3. hosts \in Seq(Hosts) /\ OneEach(hosts) /\ ToSet(hosts) = S
      BY <3>1, <3>2, ListsAll
    <3> QED
      BY <2>2, <3>2, <3>3 DEF DrawInv
  <2>3. ASSUME NEW i \in DOMAIN available, Draw(i)
        PROVE  DrawInv'
    <3>1. PICK s \in Seq(Hosts) : s = available
      BY DEF DrawInv
    <3>2. available' = Without(s, i) /\ seen' = seen \cup {s[i]} /\ UNCHANGED fill
      BY <2>3, <3>1 DEF Draw
    <3>3. /\ Without(s, i) \in Seq(Hosts) /\ OneEach(Without(s, i))
          /\ ToSet(Without(s, i)) = ToSet(s) \ {s[i]}
      BY <3>1, WithoutOne DEF DrawInv
    <3> QED
      BY <3>1, <3>2, <3>3 DEF DrawInv
  <2>4. CASE NextHost
    BY <2>1, <2>2, <2>4 DEF NextHost
  <2>5. CASE ReadStat \/ ReadInfo \/ UNCHANGED hostVars
    BY <2>1, <2>5 DEF ReadStat, ReadInfo, hostVars
  <2>6. ASSUME NEW h \in Hosts,
               \/ StatExpires(h) \/ SaveHostInfo(h) \/ DelHostInfo(h)
               \/ \E usage \in Usages : UpdateResource(h, usage)
        PROVE  DrawInv'
    BY <2>1, <2>6 DEF StatExpires, SaveHostInfo, DelHostInfo, UpdateResource, Report
  <2> QED
    BY <2>3, <2>4, <2>5, <2>6 DEF HostNext
<1>3. DrawInv => NoHostSkipped
  <2> SUFFICES ASSUME DrawInv PROVE Cardinality(ToSet(available)) = Len(available)
    BY DEF DrawInv, NoHostSkipped
  <2> DEFINE n == Len(available)
  <2>1. n \in Nat /\ DOMAIN available = 1..n /\ available \in [1..n -> ToSet(available)]
    BY DEF DrawInv, ToSet
  <2>2. available \in Bijection(1..n, ToSet(available))
    BY <2>1 DEF DrawInv, OneEach, ToSet, Bijection, Injection, Surjection, IsInjective
  <2>3. IsFiniteSet(1..n) /\ Cardinality(1..n) = n
    BY <2>1, FS_Interval
  <2> QED
    BY <2>2, <2>3, FS_Bijection DEF ExistsBijection
<1> QED
  BY <1>1, <1>2, <1>3, PTL DEF HostSpec

---------------------------------------------------------------------------
(* The configuration templates. *)

\* What is on its way to the target, and to the service, has passed the check.
PassInv ==
  ~setup.syncOnly =>
    /\ target \in Passing \cup {NoFile} \cup (IF setup.mount THEN {Half} ELSE {})
    /\ loaded \in Passing \cup {NoFile}
    /\ doing \in {"overwrite", "write"} => staged \in Passing
    /\ doing = "reload" => target \in Passing

\* Neither the target nor the service ever has what the check command refuses
\* (process), for any values of the store and any number of failures and crashes
\* between the check and the reload.
THEOREM NothingRefusedIsUsed == TemplateSpec => []OnlyPassed
<1>1. TemplateInit => PassInv
  BY DEF TemplateInit, PassInv
<1>2. PassInv /\ [TemplateNext]_templateVars => PassInv'
  <2> SUFFICES ASSUME PassInv, [TemplateNext]_templateVars PROVE PassInv'
    OBVIOUS
  <2> USE DEF PassInv
  <2>1. CASE WakeUp \/ SetVars \/ CreateStageFile
    BY <2>1 DEF WakeUp, SetVars, CreateStageFile
  <2>2. CASE Sync
    BY <2>2 DEF Sync, Ends
  <2>3. CASE RunCheck
    BY <2>3 DEF RunCheck, Ends
  <2>4. CASE Overwrite
    BY <2>4 DEF Overwrite, Written, Ends
  <2>5. CASE WriteRest
    BY <2>5 DEF WriteRest, Written, Ends
  <2>6. CASE RunReload
    BY <2>6 DEF RunReload, Ends
  <2>7. CASE ProcessFails \/ Crash
    BY <2>7 DEF ProcessFails, Crash, Ends
  <2>8. CASE (\E v \in Values : SetValue(v)) \/ UNCHANGED templateVars
    BY <2>8 DEF SetValue, templateVars
  <2> QED
    BY <2>1, <2>2, <2>3, <2>4, <2>5, <2>6, <2>7, <2>8 DEF TemplateNext, Process
<1>3. PassInv => OnlyPassed
  BY DEF PassInv, OnlyPassed
<1> QED
  BY <1>1, <1>2, <1>3, PTL DEF TemplateSpec

=============================================================================
