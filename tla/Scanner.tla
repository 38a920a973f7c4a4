------------------------------- MODULE Scanner -------------------------------
(***************************************************************************)
(* process/scan.go: the scanner of a host.  Every five seconds update looks *)
(* for processes it has not seen and starts a goroutine that watches each   *)
(* new instance; they tell what they see on two bounded channels.           *)
(*                                                                         *)
(* Processes are numbered as they are born, pids are used again.            *)
(***************************************************************************)
EXTENDS ProcessCheck

CONSTANTS Pids, MaxBorn,  \* pids and the number of processes ever born
          Programs,       \* what a process may be (see IsInstance, PortsOf)
          Parent, Table,  \* the parent of all of them, /proc/net/tcp
          Readings,       \* the states getProcessState may read
          ProbeResults,   \* what the prober may say, if not an error
          EventCap, MetricCap

ASSUME ScannerAssumption ==
  /\ IsFiniteSet(Pids) /\ Pids \subseteq Nat \ {0}
  /\ {MaxBorn, EventCap, MetricCap} \subseteq Nat \ {0}

Procs == 1..MaxBorn

VARIABLES
  born, pidOf, program, \* of each process: how many there were, pid, program
  runs,                 \* the process that has a pid, 0 for none
  procs,                \* s.procs: the process a handle was made for, or 0
  scan, todo, scanned, \* update: where it is, pids it has left, the current
  watch,                \* where the goroutine of each instance is
  handle, status, told, \* its proc, ins.Status, and prevSt
  life,                 \* ins.LifeCycle
  written,              \* lastDiskWrite of each pid, -1 for none
  events, metricsIn,    \* the two channels, the second one as a number
  last,                 \* history: the last event of each instance
  crashed               \* the agent died of a panic

sourceVars == <<born, pidOf, program, runs>>
updateVars == <<procs, scan, todo, scanned>>
watchVars == <<watch, handle, status, told, life, written>>
chanVars == <<events, metricsIn, last>>
scanVars == <<sourceVars, updateVars, watchVars, chanVars, crashed>>

ScanInit ==
  /\ born = 0 /\ pidOf = [n \in Procs |-> Min(Pids)]
  /\ program = [n \in Procs |-> CHOOSE p \in Programs : TRUE]
  /\ runs = [p \in Pids |-> 0] /\ procs = [p \in Pids |-> 0]
  /\ scan = "idle" /\ todo = {} /\ scanned = 0
  /\ watch = [n \in Procs |-> "none"] /\ handle = [n \in Procs |-> 0]
  /\ status = [n \in Procs |-> "unknown"] /\ told = [n \in Procs |-> "unknown"]
  /\ life = [n \in Procs |-> "starting"]
  /\ written = [p \in Pids |-> -1]
  /\ events = <<>> /\ metricsIn = 0 /\ last = [n \in Procs |-> "none"]
  /\ crashed = FALSE

Stopped(n) == runs[pidOf[n]] = 0 \* isProcessStopped(ins.Pid)

---------------------------------------------------------------------------
(* The host: a process is born with a free pid, or ends.                    *)

Fork(pid, prog) ==
  /\ runs[pid] = 0 /\ born < MaxBorn
  /\ born' = born + 1
  /\ pidOf' = [pidOf EXCEPT ![born'] = pid]
  /\ program' = [program EXCEPT ![born'] = prog]
  /\ runs' = [runs EXCEPT ![pid] = born']
  /\ UNCHANGED <<updateVars, watchVars, chanVars, crashed>>

Exit(pid) ==
  /\ runs[pid] # 0 /\ runs' = [runs EXCEPT ![pid] = 0]
  /\ UNCHANGED <<born, pidOf, program, updateVars, watchVars, chanVars, crashed>>

---------------------------------------------------------------------------
(* update, which holds s.lock from Tick to EndScan.                         *)

\* Each step of update that writes s.procs takes time: until it is done a
\* read of the map elsewhere races with it.
Tick ==
  /\ scan = "idle" /\ scan' = "prune"
  /\ UNCHANGED <<sourceVars, procs, todo, scanned, watchVars, chanVars, crashed>>

\* /proc: the processes, then directories and files of other names.
Listing ==
  LET dirs == SetToSortSeq({p \in Pids : runs[p] # 0}, LAMBDA a, b : a < b)
  IN [i \in DOMAIN dirs |-> [dir |-> TRUE, pid |-> dirs[i]]]
     \o <<[dir |-> TRUE, pid |-> -1], [dir |-> FALSE, pid |-> -1]>>

\* Pid 0, where the walk ends, is no process: its entry of s.procs goes with
\* the next tick and parse finds nothing.
Prune ==
  /\ scan = "prune"
  /\ procs' = [p \in Pids |-> IF runs[p] = 0 THEN 0 ELSE procs[p]]
  /\ todo' = WalkedPids(Listing) \cap Pids
  /\ scan' = "scan"
  /\ UNCHANGED <<sourceVars, scanned, watchVars, chanVars, crashed>>

\* A pid that has an entry, or no process any more, is passed over.
ScanPid ==
  /\ scan = "scan" /\ todo # {}
  /\ LET pid == Min(todo) IN
     /\ todo' = todo \ {pid}
     /\ IF procs[pid] # 0 \/ runs[pid] = 0 THEN UNCHANGED <<procs, scan, scanned>>
        ELSE /\ procs' = [procs EXCEPT ![pid] = runs[pid]]
             /\ scan' = "parse" /\ scanned' = pid
  /\ UNCHANGED <<sourceVars, watchVars, chanVars, crashed>>

EndScan ==
  /\ scan = "scan" /\ todo = {} /\ scan' = "idle"
  /\ UNCHANGED <<sourceVars, procs, todo, scanned, watchVars, chanVars, crashed>>

\* parse, of the process that has the pid by now: nothing, an instance, or an
\* environment that getEnvMap trips over. It is not tried again.
Outcome(n) ==
  IF n = 0 THEN "nothing"
  ELSE IF EnvPanics(program[n].env) THEN "panic"
  ELSE IF IsInstance(program[n]) THEN "instance" ELSE "nothing"
ParseNew ==
  LET n == runs[scanned] IN
  /\ scan = "parse"
  /\ \/ Outcome(n) = "nothing" /\ scan' = "scan" /\ scanned' = 0 /\ UNCHANGED crashed
     \/ Outcome(n) = "panic" /\ crashed' = TRUE /\ UNCHANGED <<scan, scanned>>
     \/ Outcome(n) = "instance" /\ scan' = "send" /\ scanned' = n
        /\ UNCHANGED crashed
  /\ UNCHANGED <<sourceVars, procs, todo, watchVars, chanVars>>

\* Sends an event of process n. It blocks while the channel is full.
Tell(n, type) ==
  /\ Len(events) < EventCap
  /\ events' = Append(events, [ins |-> n, type |-> type])
  /\ last' = [last EXCEPT ![n] = type]
  /\ UNCHANGED metricsIn

\* Mutant: the goroutine starts before the event is sent.
AnnounceLate ==
  /\ scan = "send"
  /\ \/ /\ watch[scanned] = "none" /\ watch' = [watch EXCEPT ![scanned] = "sleep"]
        /\ UNCHANGED <<chanVars, scan>>
     \/ /\ watch[scanned] # "none" /\ Tell(scanned, "starting")
        /\ scan' = "scan" /\ UNCHANGED watch
  /\ UNCHANGED <<sourceVars, procs, todo, scanned, handle, status, told, life,
                 written, crashed>>

\* The instance is told of and its goroutine started, the lock still held.
Announce ==
  /\ scan = "send" /\ Tell(scanned, "starting")
  /\ scan' = "scan" /\ scanned' = 0
  /\ watch' = [watch EXCEPT ![scanned] = "sleep"]
  /\ UNCHANGED <<sourceVars, procs, todo, handle, status, told, life,
                 written, crashed>>

Update == Tick \/ Prune \/ ScanPid \/ EndScan \/ ParseNew \/ Announce

---------------------------------------------------------------------------
(* watchInstance of instance n.                                             *)

GoesTo(n, pc) == watch' = [watch EXCEPT ![n] = pc]

\* Up to four seconds later: s.procs[ins.Pid] without the lock. If update is
\* writing the map, Go may end the process.
Lookup(n) ==
  /\ watch[n] = "sleep"
  /\ \/ /\ handle' = [handle EXCEPT ![n] = procs[pidOf[n]]]
        /\ GoesTo(n, "wait") /\ UNCHANGED crashed
     \/ /\ scan \in {"prune", "scan"} /\ crashed' = TRUE
        /\ UNCHANGED <<watch, handle>>
  /\ UNCHANGED <<sourceVars, updateVars, status, told, life, written,
                 chanVars>>

\* The timer: the process has stopped.
Gone(n) ==
  /\ watch[n] = "wait" /\ Stopped(n) /\ GoesTo(n, "stop")
  /\ UNCHANGED <<sourceVars, updateVars, handle, status, told, life,
                 written, chanVars, crashed>>

\* The timer: its state is read and probed. An error of the probe leaves the
\* status alone.
Probe(n) ==
  LET pid == pidOf[n] IN
  /\ watch[n] = "wait" /\ ~Stopped(n) /\ handle[n] # 0
  /\ \E st \in Readings, recent \in BOOLEAN :
       /\ written' = IF Renews(st, written[pid], recent)
                     THEN [written EXCEPT ![pid] = st.written] ELSE written
       /\ \/ GoesTo(n, "failed") /\ UNCHANGED status
          \/ \E probed \in ProbeResults :
               /\ GoesTo(n, "probed")
               /\ status' = [status EXCEPT ![n] =
                               StatusOf(st, written[pid], recent, probed)]
  /\ UNCHANGED <<sourceVars, updateVars, handle, told, life, chanVars,
                 crashed>>

\* The timer, when the lookup found nothing and another process has the pid:
\* getProcessState(nil).
ProbeNil(n) ==
  /\ watch[n] = "wait" /\ ~Stopped(n) /\ handle[n] = 0
  /\ crashed' = TRUE
  /\ UNCHANGED <<sourceVars, updateVars, watchVars, chanVars>>

\* The metric is sent. Then the status is told if it is a new one.
SendMetric(n) ==
  /\ watch[n] \in {"probed", "failed"}
  /\ metricsIn < MetricCap /\ metricsIn' = metricsIn + 1
  /\ IF watch[n] = "probed" /\ status[n] # told[n]
     THEN GoesTo(n, "tell") /\ told' = [told EXCEPT ![n] = status[n]]
     ELSE GoesTo(n, "wait") /\ UNCHANGED told
  /\ UNCHANGED <<sourceVars, updateVars, handle, status, life, written,
                 events, last, crashed>>

TellStatus(n) ==
  /\ watch[n] = "tell" /\ Tell(n, EventOf(status[n])) /\ GoesTo(n, "wait")
  /\ UNCHANGED <<sourceVars, updateVars, handle, status, told, life,
                 written, crashed>>

\* Mutant: an instance that never came up is not told of.
TellStoppedIfTold(n) ==
  /\ watch[n] = "stop" /\ told[n] # "unknown" /\ Tell(n, "stopped")
  /\ GoesTo(n, "done")
  /\ UNCHANGED <<sourceVars, updateVars, handle, status, told, life,
                 written, crashed>>

TellStopped(n) ==
  /\ watch[n] = "stop" /\ Tell(n, "stopped") /\ GoesTo(n, "done")
  /\ UNCHANGED <<sourceVars, updateVars, handle, status, told, life,
                 written, crashed>>

Watch(n) ==
  \/ Lookup(n) \/ Gone(n) \/ Probe(n) \/ ProbeNil(n)
  \/ SendMetric(n) \/ TellStatus(n) \/ TellStopped(n)

\* listenPorts: it looks again and again (4, 12, 28, 60 and 124 seconds after
\* it began) until it finds something, and gives up after 125 seconds. Both
\* make the instance a running one, only the first sets ins.Listening.
Look(n) ==
  /\ watch[n] \notin {"none", "sleep"} /\ life[n] = "starting" /\ ~Stopped(n)
  /\ ListenPortsOfPid(program[runs[pidOf[n]]], Parent, Table) # {}
  /\ life' = [life EXCEPT ![n] = "running"]
  /\ UNCHANGED <<sourceVars, updateVars, watch, handle, status, told, written,
                 chanVars, crashed>>

GiveUp(n) ==
  /\ watch[n] \notin {"none", "sleep"} /\ life[n] = "starting"
  /\ life' = [life EXCEPT ![n] = "running"]
  /\ UNCHANGED <<sourceVars, updateVars, watch, handle, status, told, written,
                 chanVars, crashed>>

---------------------------------------------------------------------------
(* Whoever asked for the channels.                                          *)

ReceiveEvent ==
  /\ events # <<>> /\ events' = Tail(events)
  /\ UNCHANGED <<sourceVars, updateVars, watchVars, metricsIn, last, crashed>>
ReceiveMetric ==
  /\ metricsIn > 0 /\ metricsIn' = metricsIn - 1
  /\ UNCHANGED <<sourceVars, updateVars, watchVars, events, last, crashed>>

ScanNext ==
  /\ ~crashed
  /\ \/ \E p \in Pids : Exit(p) \/ \E prog \in Programs : Fork(p, prog)
     \/ Update
     \/ \E n \in Procs : Watch(n) \/ Look(n) \/ GiveUp(n)
     \/ ReceiveEvent \/ ReceiveMetric

ScanSpec == ScanInit /\ [][ScanNext]_scanVars

---------------------------------------------------------------------------
(* Properties. *)

\* Whoever receives hears of an instance that it starts, then of statuses that
\* differ from one to the next, then that it stopped, and then nothing,
\* although two goroutines send and all instances share the channel.
ToldInOrder ==
  [][\A n \in Procs :
       Len(events') > Len(events) /\ events'[Len(events')].ins = n =>
       CASE last[n] = "none" -> last'[n] = "starting"
         [] last[n] = "stopped" -> FALSE
         [] OTHER -> last'[n] \notin {last[n], "starting"}]_scanVars

\* A watched process that ends is reported stopped, wherever its goroutine
\* is, unless the pid goes to another process first (then it takes that one
\* for its own) or the agent dies.
StopReported ==
  \A n \in Procs :
    (watch[n] \notin {"none", "done"} /\ Stopped(n))
      ~> (watch[n] = "done" \/ ~Stopped(n) \/ crashed)
=============================================================================
