----------------------------- MODULE ProcessCheck -----------------------------
(***************************************************************************)
(* process: what is read from /proc and what is concluded from it.  Every  *)
(* operator is a function of the code or a case of one.                    *)
(***************************************************************************)
EXTENDS Integers, Sequences, FiniteSets, FiniteSetsExt, SequencesExt

CONSTANTS Required, \* the DeployResource of the instances
          Wrap      \* how many values an unsigned counter has (2^64)

ASSUME RequiredAssumption ==
  /\ Wrap \in Nat \ {0}
  /\ Required.memory \in Nat \ {0}
  /\ \A r \in {"maxMemory", "cpu", "maxCPU", "maxThreads", "disk"} :
       Required[r] \in Nat

---------------------------------------------------------------------------
(* probe.go: ProcessState.check.  An event warns, a condition is an error.  *)

MemoryEvent(st) ==
  /\ (st.rss * 100) \div Required.memory > 150
  /\ st.rss <= Required.maxMemory

\* The code compares the two configured values, not the memory in use.
MemoryCondition(st) ==
  ~MemoryEvent(st) /\ Required.memory >= Required.maxMemory

ThreadsCondition(st) == st.threads > Required.maxThreads
ThreadsEvent(st) ==
  ~ThreadsCondition(st) /\ st.threads > (Required.maxThreads * 8) \div 10

CPUCondition(st) == st.cpu > Required.maxCPU
CPUEvent(st) ==
  /\ ~CPUCondition(st)
  /\ st.cpu > (Required.maxCPU * 8) \div 10 \/ st.cpu > Required.cpu * 5

\* What was written since last, at that rate for a day, in unsigned numbers.
DiskEvent(st, last, recent) ==
  LET size == (st.written - last) % Wrap
  IN last >= 0 /\ recent /\ (size * 288) % Wrap > Required.disk

\* The entry of the pid is kept only while it is recent and no event arises.
Renews(st, last, recent) == last < 0 \/ ~recent \/ DiskEvent(st, last, recent)

(* scan.go: Probe.  What the prober of the type says counts too: a failure  *)
(* is a condition, a warning an event.  Events hide conditions.             *)
StatusOf(st, last, recent, probed) ==
  IF \/ MemoryEvent(st) \/ ThreadsEvent(st) \/ CPUEvent(st)
     \/ DiskEvent(st, last, recent) \/ probed = "warning"
  THEN "warning"
  ELSE IF \/ MemoryCondition(st) \/ ThreadsCondition(st) \/ CPUCondition(st)
          \/ probed = "failure"
  THEN "error"
  ELSE "success"

\* The event that tells a status.
EventOf(status) ==
  CASE status = "error" -> "probeErr"
    [] status = "success" -> "started"
    [] OTHER -> "probeWarn"

---------------------------------------------------------------------------
(* scan.go: parse of one process.                                           *)

\* getEnvMap of an environment that its NUL bytes split into parts, each
\* the sequence of what SplitN(part, "=", 2) gives. It compares the number of
\* parts where it means the halves of one, and so reads only an environment of
\* two parts; one of them without "=" is an index out of range.
EnvPanics(parts) == Len(parts) = 2 /\ \E i \in 1..2 : Len(parts[i]) < 2
EnvMap(parts) == IF Len(parts) = 2 THEN {<<parts[i][1], parts[i][2]>> : i \in 1..2}
                 ELSE {}

\* Whether an instance comes of it: by its deploy key if the environment has
\* one of a registered type, else by its executable and arguments.
IsInstance(p) ==
  LET keys == {e \in EnvMap(p.env) : e[1] = "_depolyKey" /\ e[2] # ""}
  IN IF keys # {} THEN \A e \in keys : e[2] \in p.registered
     ELSE p.identified

---------------------------------------------------------------------------
(* process_net_linux.go                                                     *)

\* getListenPort: the table of TCP sockets up to the sixth in a row that does
\* not listen. The result is in terms of the rows read, an inode's last row
\* being the one that counts.
Quiet(rows, i) ==
  LET Count(n, row) == IF row.listens THEN 0 ELSE IF n > 5 THEN n ELSE n + 1
  IN FoldLeft(Count, 0, SubSeq(rows, 1, i))
ListenPorts(rows) ==
  {rows[i] : i \in {j \in DOMAIN rows :
                      /\ rows[j].listens
                      /\ \A k \in 1..(j - 1) : Quiet(rows, k) <= 5}}

\* The addresses behind the sockets a process has open.
PortsOf(sockets, rows) ==
  {r.addr : r \in {q \in ListenPorts(rows) : q.inode \in sockets}}

\* ListenPortsOfPid. The walk over the parent's sockets appends to the list
\* that has the child's, so that all of those are taken for the parent's.
ListenPortsOfPid(p, parent, rows) ==
  IF p.ppid \in {0, 1} THEN PortsOf(p.sockets, rows)
  ELSE LET both == PortsOf(p.sockets, rows) \cup PortsOf(parent.sockets, rows)
       IN PortsOf(p.sockets, rows) \ both

---------------------------------------------------------------------------
(* process_scan.go: getPids walks /proc in the order of names. A file that  *)
(* is not a directory counts as pid 0 and ends the walk.                    *)
WalkedPids(entries) ==
  LET file(i) == ~entries[i].dir
      upto == {i \in DOMAIN entries : \A j \in 1..(i - 1) : ~file(j)}
  IN {IF file(i) THEN 0 ELSE entries[i].pid :
        i \in {j \in upto : file(j) \/ entries[j].pid >= 0}}
=============================================================================
