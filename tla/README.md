# dolphin in TLA+

dolphin is the back end of a deployment system.  Hosts run instances of
versioned services; what should run where is kept in etcd.  A server process
changes that configuration, an agent on every host carries it out, and both
watch etcd for changes.  This directory holds TLA+ models of the parts whose
correctness depends on the order of things, the TLC runs that check them and
the TLAPS proofs about them.

## The system

| part | source | state it keeps | operations | who it talks to |
|---|---|---|---|---|
| registry watch | registry/generic/watcher.go, event.go | one context, four channels, three goroutines per watch | Watch, Stop, sync, startWatching, processEvent, run | the etcd server; the user who receives from ResultChan |
| store, store provider | registry/generic/store.go, store_provider.go | the shared etcd client and its destroy function | GetStoreInstance, Create, Get, List, Update, Delete | etcd; everything above the registry |
| compactor | registry/generic/compact.go | per process a logical time and a revision; in etcd compact_rev_key | StartCompactor, compactor, compact | the compactors of the other processes, through etcd |
| key layout, typed directories | registry/etcdkey, hosts, instances, java | none | paths; load and watch of one directory | store, watch |
| host configurations | controllers/types/impl/hc.go | cache of the expected configuration per key and host | List, Set, Delete, load | etcd; replica controllers |
| instance and deploy caches | controllers/types/impl/instance.go, dc.go | caches fed by watches | load, watchEvent, lookups | watch; scheduler |
| replica controller | controllers/scheduler/replica.go | deploy config, expected version, legacy timer | Deploy (rolling, new, mixed), checkStatus, Destroy, leases | host configurations, NextHost |
| manager, host selection | controllers/scheduler/manager.go, scheduler.go | the controllers by key | Deploy, Update, Destroy, CheckStatus; NextHost | replica controllers |
| java services | controllers/java | probe tables, versions, zookeeper trees | probe rounds, version manager, zookeeper sync | zookeeper, alerts, report |
| scanner | process | processes, instances, event and metric channels | update, watchInstance, listenPorts, Probe | /proc; the host agent |
| report | report, report/influx, report/metric | clients; a reader over a batch of metrics | Connect, Write; Read, Split | InfluxDB servers |
| synchronisation helpers | deploy/sync | mutex pool; status table and channel | CheckIn, CheckOut; Add, AddFunc, Queue, Remove | deploy/image |
| deploy agent, images, templates | deploy/deploy, deploy/image, deploy/conf | working copies, staged files | deployment steps, git, rendering | file system, commands |
| APIs and commands | api, cmd, logger | none | handlers, wiring | the parts above |

`PROJECT.json` lists every part with its status.

What makes them correct, and where it is hard:

* *Watch.*  A user keeps a picture of the store from the events alone.  Nothing
  may be lost between the listing and the etcd watch, no stale object may stay
  behind a filter, the channel must not be closed under a sender, and every
  goroutine must end when the user leaves.  Three goroutines race over four
  channels in selects; the server compacts what the watch still needs; the
  client may be closed by somebody else.
* *Compactor.*  All processes compact one etcd without talking to each other:
  once per interval, and never what was written since the last tick.
  Responses are lost, processes restart, and requests arrive late.
* *Replica controller.*  A deployment goes through many hosts, one write each,
  pausing in between, with no lock, while timers and other calls do the same
  over Info maps they share with the cache.  Old versions must go and not come
  back, an update must not take the service down, a cancelled one must return.
* *Helpers.*  One goroutine per identity in the pool; one entry per identity in
  the queue; nobody waits for ever.
* *Report.*  Every metric reaches a server once, whatever buffers the transport
  reads with and whichever servers fail.
* *Store.*  Calls that were done but look failed, leases that begin before
  their object is put, members that are late: still one directory.
* *Store provider.*  One client, replaced by whoever finds it dead; none may be
  left open, and no compactor may outlive its client.
* *Java services.*  One-shot watches of zookeeper that must be set again before
  anything is missed; a reload that writes what it read a while ago; a lock
  given up between looking a version up and changing it; probes that go round
  a list that is replaced meanwhile.
* *Scanner.*  Two goroutines report on one bounded channel while pids are used
  again; one holds the lock across a send.
* *Templates.*  Render, check, replace, reload: each may fail or be cut short.
* *Formats.*  What one part writes, another reads: the line protocol, routes,
  paths, images, resources.  Texts with every special character must come
  back.

## Modules

| module | models | extends |
|---|---|---|
| WatchChan | one watch, the etcd server beside it, its user | |
| WatchFeed | what the user of a watch takes it for (abstract) | |
| WatchChanProofs | types, no send after close, no silent death, the order of events, what the user makes of them, refinement of WatchFeed | WatchChan |
| MCWatchChan | small instances of WatchChan | WatchChan |
| Directory | what the store's users take it for (abstract) | |
| EtcdKeys | the paths of deployments and what the store makes of a key | |
| Store | the calls of the store API, their leases, a late member | EtcdKeys |
| StoreProvider | the shared client, its callers and compactors | |
| Compactor | the compactors of one etcd | |
| RegistryProofs | compactors, store (leases, refinement of Directory), provider | Compactor, Store, StoreProvider |
| Versioner | expected and backup versions | |
| Templates | one template resource of confd | |
| MCCompactor | small instances of Compactor, Store, StoreProvider, Versioner, Templates | these five |
| HostConfig, MCHostConfig | the cache of host configurations over etcd, and the restart | EtcdKeys |
| ReplicaCtrl, MCReplicaCtrl | one replica controller over the host configurations | |
| ReplicaCtrlProofs | types, old versions, cache and etcd; sums over hosts; one rolling update | ReplicaCtrl |
| ExclusivePool | the pool with its locks | |
| UniqueQueue | the queue and its status table | |
| DeployProofs | the pool and the queue | ExclusivePool, UniqueQueue |
| MCDeploySync | small instances of both helpers | ExclusivePool, UniqueQueue |
| MetricReader | the reader over a batch of metrics | |
| InfluxWrite | Write, over a cluster of servers | MetricReader |
| ReaderProofs | sums and cuts by folds; the reader, and the writes that share it | InfluxWrite |
| LineProtocol | a metric as bytes: writing, searching, reading | |
| MetricObject | a metric its user changes, beside what it should hold | LineProtocol |
| MetricProofs | texts and rows of texts; a metric reads back | MetricObject |
| LineParser | the parser (recursive scanners) | MetricObject |
| MCReport | small batches, buffers, clusters, metrics | InfluxWrite, LineParser |
| ProcessCheck | what is concluded from /proc | |
| Scanner | the scanner of a host | ProcessCheck |
| ZkPath, RouteCfg | names and paths of zookeeper; routes as text | |
| ZkSync | the watching goroutines, the handler, the reload, the route API | |
| ServiceCheck | services, checks, probes and their averages | RouteCfg |
| DeployConfig | a deployment's configuration, resources, their JSON | |
| HostSelect | the search for a host, the hosts' entries, the manager | DeployConfig |
| Images | images, versions, stages | |
| JavaProofs | versions, zookeeper, probes | Versioner, ZkSync, ServiceCheck |
| HostProofs | scanner, search for a host, template | Scanner, HostSelect, Templates |
| Formats | samples of all that is written and read back | RouteCfg, ZkPath, DeployConfig, Images |
| MCBackground | small instances of Scanner, ZkSync, ServiceCheck, HostSelect, Formats | these five |

One action is, throughout, what a goroutine does between two points where
another may run: a select, a send, a lock, a call of etcd or zookeeper, or a
process that starts or ends.

**WatchChan.**  Variables are grouped by owner: the history of etcd
(`hist[r]` is the write that made revision r), the context and the channels,
and a program counter with locals for each goroutine.  A channel is a bounded
sequence; `resultChan` is kept as all that was ever sent (`sent`) and how much
was received (`taken`).  An error of etcd may be a lost connection, a compacted
revision or a closed client.  `call` holds the arguments of Watch: the revision
to start at, whether the predicate is empty, and which stored values do not fit
the type.  The server's writes, compactions and the closing of the client are
actions of their own at any moment.

**WatchFeed.**  No goroutine, channel, context or compaction: only the log of
the store, the last result the user was told, and four flags.  The feed tells
the objects that the selection sees at one revision (`TellListed`, in key
order), then each later change that it sees (`TellChange`), one by one.  It may
leave changes out once it is `broken`; it may break only after an error, when
the user leaves or the client is closed, when a value does not fit the type, or
under a filter; it may end only after an error or a leave.  The refinement
mapping is in WatchChan: `log <- hist`, `start <- initialRev`, `last` is the
last result of `sent` that is no error, `failed <- ErrorSent`,
`excused <- stopped \/ clientClosed`, `over <- closed`.  `broken` is `Lossy`,
which is tighter than the feed has to be: the context is done, or a filtered
watch has met a compaction, or a value that does not fit was written.

**Store, Directory.**  A call is begun, asks for a lease if its object has a
time to live, and does its one transaction, put or read; its answer may be
lost.  `kvs` is what etcd has, `behind` what a late member has, which a read
without a quorum may see.  `Tick` and `Expire` end leases.  Keys go through
`KeyWithPrefix` as in the code: a key may be given whole or without the
directories of the stage.  The refinement mapping forgets leases and
revisions: `dir <- ObjectsOf(kvs)`, `late <- ObjectsOf(behind)`.  Each object
is the number of the call that put it.

**StoreProvider.**  The package's variables etcdClient, destroyFunc and cliLock
are variables; `open` and `compactors` say which clients and compactors live.
A caller dials on the quick path, and takes the lock to dial again and replace
the client only if that failed.

**Compactor.**  A transaction on compact_rev_key either advances the version
(`Advance`, with its answer received or lost) or fails and returns what is
there.  Between the transaction and the Compact call anything may happen.
`roundRev` and `compactedBy` are history variables.

**Versioner.**  SetExpected, AddVersion with one version, and what the handler
of the watch does: AddVersion with the two versions of an event, or a deletion.
A call looks the entry up under the read lock, and changes it or stores a new
one under the write lock.  An object that was replaced meanwhile is still what
the first call changes.  The loop of addVersion (versioner.go:80) ends before
the first of its versions, so only SetExpected and an event push one
(`Writes`); AddVersion with one version may put an empty entry in the map and
does nothing else.  `before` records which calls had returned when a call was
made.

**HostConfig.**  `kvs` is etcd, `cfgs` and `dc` the caches of the host
configurations and of the deploy configurations, `up` whether a server runs;
every call that changes something, with the write refused or not, and the two
loads of a start.

**ReplicaCtrl.**  `Deploy` computes, from the counts it reads once, the calls
its policy makes (`plan`); each call then goes host by host: it changes the
Info map in place (`Change`), writes it through SetHostConfig or
DeleteHostConfigs (`Save`), and pauses.  Go's maps are references, so `info[h]`
is one object whoever reads it; `cached` and `stored` say who still refers to
it and what etcd holds.  A write may be refused, and the delete of a key that
etcd does not have is an error too (`Missing`).  The manager never puts a
controller into its map, so in the program as it stands its `Deploy` answers
"unknown deployment" to every key (manager.go:74-77) and does not get here; the
model is of the controller as Manager's code calls it.  NextHost is any host of
`Offered`, or none for now.

**HostSelect.**  `hostEtcd` is what the agents have written of each host, which
comes, changes and goes; a call of NextHost fills its list of hosts
(`available`), draws one, asks etcd for it, and swaps the last into its place.
What the manager answers is an operator: no controller is ever kept.

**ExclusivePool, UniqueQueue.**  One action per critical section, or per
operation that blocks.  A mutex of the pool is an object the heap hands out
when nothing refers to it.

**MetricReader, InfluxWrite.**  A metric is the lengths of what each of its
lines repeats and of its fields; what was read is a sequence of parts of lines.
`Read` is one action per case of the code.  A field is what Split takes for
one: the bytes between unescaped commas.  Write goes from server to server with
the one reader; a server may fail before, in or after the body, with or without
having stored it.

**LineProtocol, MetricObject, LineParser.**  Here a text is a sequence of bytes, of which
those the code looks at (comma, space, equals sign, quote, backslash, digits)
are themselves; in a run `Bytes` are those and some letters, in the proofs any
set that has what is escaped and the backslash.  The getters, RemoveTag and
RemoveField search bytes as the code does; their loops are recursive functions
of the number of rounds.  MetricObject keeps beside the bytes the maps that a
user believes the metric to be.  The scanners of LineParser are RECURSIVE
operators, so no module with a theorem reaches it.

**Scanner, ProcessCheck.**  Processes are numbered as they are born, pids are
used again.  `update` looks at all pids, holds the lock while it tells of a new
instance, and starts its watcher; a watcher reads the table without the lock,
probes and sends.  Both channels are bounded; the reads of /proc are what a
probe finds.

**ZkSync, ZkPath, RouteCfg.**  Every node has its goroutine: it arms a one-shot
watch, waits, reads and sends on `ech`; the root's lists the children and
starts theirs.  The handler writes to etcd what it received; the timer reads
all of zookeeper again; SetRouteConfig writes a route.  A value is the number of
the change that wrote it.  `sync` tells whether the watch runs, is closing, or
died of a send on a closed channel.  Calls of zookeeper fail at each place where
the code makes one, with what the code makes of it: a GetW that fails is only
logged and leaves the walk without a watch on the data (zk.go:196), the errors
of children are dropped by nodeWalk (zk.go:82), that of the root ends the
reload.  Paths and routes are functions.

**ServiceCheck.**  Services are loaded, compared with what runs, and probed: a
goroutine per service (`prober`) goes round its interfaces, calls one
through an esb, adds the result to the averages and reports.

**DeployConfig, Images, Formats.**  Validation, defaults, and both directions
of every text and JSON form.  A percentage goes through a float and
`int(100*p)`, which makes 29, 57 and 58 one less (`Truncated`).  A behaviour of
Formats has one sample and makes no step; SamplesReadBack compares what is read
with what was written, and says of each kind exactly which samples come back
and which do not.

**Templates.**  `doing` follows process: gather the values, render the staged
file, compare, check, rename (or write, when the target is a mount), reload.
`WakeUp` is the interval or WatchPrefix; a watch may sleep through several
changes.  Any step may fail, and the process may end at any moment, also in the
middle of writing a mount.  `missed` and `unloaded` record what the code never
tries again.

## Runs

| run | bounds | shows |
|---|---|---|
| WatchAll | 2 keys, 2 values, 2 revisions, buffers of 1; unfiltered where one value does not fit, or filtered where both fit, from a listing or from revision 1 | a watch implements WatchFeed; an error before every end the user did not ask for; no send after close |
| WatchKinds | 1 key, 2 values, 2 revisions, filter and undecodable value in turn | faithful picture under a filter; Stop reaps every goroutine; changes arrive |
| ReplicaRolling | 3 hosts, 3 versions, one deployment of 2 or 3, one failing write, every distribution of up to 1 instance of each version | a rolling update keeps the service up and completes |
| ReplicaShared | 2 hosts, 2 callers, 3 calls of any policy, no failing write | cache and etcd agree; old versions never come back |
| ReplicaLive | 2 hosts, 3 calls, one failing write; 1 caller and 1 timer goroutine, or 2 callers of rolling updates (`Overlap`) | the lease ends; a cancelled call returns, unless another has emptied the listing that it waits for |
| ReplicaRollingNum | hosts with up to 2 old instances | *violated*: an update that returned nil reaches the number asked for |
| Compactor | compactors: 3 processes, 6 revisions, 4 ticks; store: 2 users, one of them reading with a quorum, one key given in two ways, 3 calls, 1 tick of the clock; provider: 3 callers, 3 clients, 3 failures; versions: 4 calls of one cluster; template: 3 values of which the check refuses some, 2 failures or crashes | one compaction per tick, never of the last round; the calls are a directory's and leases end in time; one client; the expected version is that of the last SetExpected or event; nothing unchecked in the target, and the target catches up |
| HostConfigReload | 2 hosts, 1 key | *violated*: a restarted server knows the configurations |
| DeploySync | 3 goroutines on 2 identities; 2 adders, 2 consumers, a channel of 1 | exclusion, right counts, nobody waits for ever; no stale mark, a sole adder's identity once in line, work gets done |
| Report | 3 batches of up to 3 metrics, 4 buffer sizes, 2 servers; metrics of 2 names, tags and fields with every special character, one call after New | the bytes are the batch, in order, once; pieces fit; no server takes in what another has; every body ends; a metric reads back and parses back |
| ReportLoses | the same | *violated*: a Write that returned nil was taken in |
| Background | scanner: 2 processes with one pid, channels of 1; zookeeper: a service and an instance, 2 changes or failures, a channel of 1; services: 2 interfaces, 2 esbs, 4 probes; hosts: 3, 3 changes of their entries, 2 tries; formats: all samples of MCBackground | what is told of an instance is in order and its end is reported; no node is left unwatched and etcd catches up; interfaces in turn; no host passed over; everything sampled reads back, but for what SamplesReadBack names |

Components that share no state are checked in one run: its behaviours choose
one of them by `used` (DeploySync and Report do the same) and the others keep
their one initial state.

Why these bounds are enough.  Buffers of 1 are full after one item, so every
send meets both a free and a full channel, and two events fill the results and
leave one in the hand of the goroutine that sends.  Two keys give the listing
an order and a change on either side of it.  Three hosts let a rolling update
add on one, update on the second and prune the third; two hosts and three calls
are the least with which one goroutine can find a host that another deleted
after it listed it, or a listing that another has emptied.  Four ticks let a
late Compact meet two later rounds.  Three goroutines on two identities make
one wait for the mutex while the last user of it leaves.  The four buffers are
smaller than any line, just enough for one field, for two, and for two whole
metrics, over batches that need each state of the reader; two servers are one
that fails and one that gets the rest.  Three store calls are a create with a
lease, its loss, and a create or update that comes while the first lease still
runs; three clients and failures let a caller replace a client which a second
replaced and a third still holds.  Four version calls let one change an object
that another has dropped, after a third has returned.  Three values and two
troubles let a template fail on one change, be killed on the next while it
writes, and catch up with the last.  Two changes of zookeeper on a channel of 1
let one arrive while a watch is not set and one while the handler is busy.
Three hosts are needed for a swap that is neither the first nor the last.

`CHECK_DEADLOCK FALSE` is set where the program stops: a watch that has ended,
callers that have made all their calls, a Write that has returned, samples that
make no step.

The picture a watch gives (`ViewFaithful`) is promised for decodable values
and, under a filter, as long as etcd has not compacted: a filtered watch needs
the previous value, which etcd leaves out of an event when the revision before
it is gone.  The antecedent of the property says so.  FeedPromise has no
antecedent: it says what holds of a watch that loses events, too (the order,
and that the watch ends with an error or a leave), and when one may start to
lose them.

## Fairness

* A goroutine that can go on does: weak fairness of each goroutine's step
  (WatchChan: W, P, R; ReplicaCtrl: the work of every task).  An RPC to etcd
  returns.  No error and no compaction is owed.
* The user owes nothing: `ChangesArrive` assumes in the property itself that
  the user receives.
* removeExpectInstances asks for its listing again as long as it is empty, and
  looks at its context only inside the loop over it (replica.go:470-491).  A
  goroutine in that loop (`Spinning`) runs for ever and gets nowhere: no
  fairness helps, and `CancelReturns` excuses exactly it.
* Timers run out.  No host need ever be suitable: `NoHost` may repeat, and
  `AddOne` is not fair.
* sync.Mutex hands a mutex to a waiter that has waited long, so Grab and
  CheckOut are strongly fair; channels serve blocked senders and receivers in
  order, so the queue's send and receive are too, and so are the watchers of
  the Scanner, which share one channel.  A goroutine inside
  the pool leaves it, a consumer ends its work, the agent receives.
* net/http reads a request's body as long as the connection holds.
* ZkSync: the watching goroutines and the handler go on, calls of zookeeper and
  etcd return, the reload timer fires.  Nobody must change zookeeper.
* Templates: process goes on and a watch is asked again until it returns.
  Failures and crashes are bounded; nobody must set a value.
* The part of a composed run that is not used owes nothing (`UsedFairSpec`).

## Proofs

Constants are arbitrary, under the ASSUMEs of each module.

* **WatchChan.**  `TypeCorrect`: types, and the capacities of the channels.
  The types alone are not inductive: an event in W's hand must be a real one
  when it is sent (`HandOK`).  `SendersGone`: after the close nothing is sent,
  because the close waits for P (`closed => ppc = "done" /\ rpc = "done"`).
  `NoSilentDeath`: R ends without the user's or the client's doing only with
  an error that was sent; the invariant `DInv` follows an error from W or P
  through errChan into the hand of R.
* **Order.**  `Ordered`: events reach the user in the order of keys within
  the listing, then of revisions.  The invariant `OInv` places every event of
  the pipe: sent, offered by P, queued, held by W, and still to be listed or
  watched; each stage precedes the next.
* **Compactor.**  `RoundKept`, `CompactedOnce`, `Apart`.  What a process
  knows (`Knows`) is bounded by what the version it holds stood for; a process
  that compacts a round has advanced it, and nobody else can
  (`Once`); what is compacted is older than the last tick (`Behind`).
* **StoreProvider.**  `OneClientOpen`: whoever is between Lock and Unlock is
  the holder, and only the holder may have a client open that is not
  etcdClient, or a compactor of a closed one.
* **Store.**  `ObjectsLiveTheirTime` and `Implements`.  Each call asks for a
  lease of its own number, so a lease that ends takes away only the object of
  its call (`LeaseInv`, `ObjectInv`); with that, every step of Store is one of
  Directory or changes nothing a user sees.
* **ExclusivePool.**  `Exclusive`, `OwnMutex`, `CountsRight`.  The invariant
  says that the pool's mutex of an identity is the one all its registered
  goroutines hold, that two identities never share one, and that the count is
  the number of them.
* **UniqueQueue.**  `NoMarkIsStale`: a marked identity is at an adder that will
  send it, in line, or with a consumer (`MarkedInv`).  `SoleIsInLineOnce`: the
  identity of a sole adder is in at most one of these places, so a second send
  would need a mark that is not there.  `Adders` is assumed finite, for
  `OneInLine` counts them.
* **ReplicaCtrl.**  `ConfigTyped`, and `OldGoneForGood`: what etcd asks a host
  to run of an old version never increases.  The invariant `NoneReturns` says
  that the shared map is never above what etcd has, which holds because all
  goroutines change one object; a private copy would break it.
  `CacheAndEtcdAgree`: beside the property, the invariant `Agree` says that
  the cache lists exactly the hosts that have something in etcd, so a delete
  by one goroutine and a change by another leave the two alike.
* **Rolling.**  `RollingKeepsUp` and `RollingDone`, under `OneRolling`: at most
  one call is made, and what is asked for is the rolling policy, as in the run
  ReplicaRolling; with two calls TLC finds both properties violated.  The
  invariant `RollInv` has a disjunct for each phase.  While instances are added
  (`Adding`), expected ones, those still to come and the legacy ones of the
  beginning make up what is asked for; while legacy ones are replaced
  (`Updating`), expected ones and those still to come do, and the hosts the loop
  has left behind have no legacy instance; while the rest goes (`Pruning`), the
  expected ones do.  Between the change of a map and its write the two differ
  in one host.  A write that failed leaves etcd with what it had, in all never
  less than the phase has to keep, but not with what the map has: hence
  `RollingCompletes` needs `fails = 0` and `RollingKeepsRunning` does not.  The
  counts are sums over the hosts by a fold of the library.  What a sum is
  (`SumRemove`, `SumChange`, `SumAtMost`, ...) is proved without an induction
  theorem: a set of subsets that has each one whose proper subsets it has is
  all of them (`SubsetInduction`), or there would be a least one that it lacks.
  Hosts and versions are assumed finite.
* **View.**  `FaithfulView`: a result says what its user should believe.  The
  invariant `PictureAt` cuts the history at a revision: what was sent is a
  picture of etcd at the cut, but for the keys of the listing still to come,
  and the pipe (todo, W's hand, the queue, P's hand, nextRev) holds exactly the
  revisions above the cut.  A filter's Deleted needs the value before, which a
  compaction may take: hence the hypothesis `compacted = 0` of a filtered watch.
* **Feed.**  `KeepsPromise`: every step of a watch is one of WatchFeed or
  changes nothing a user sees.  The promise is exact, so the invariant (`FInv`)
  has to account for each change that has happened.  It cuts the pipe as View
  does (`IsCut`), and says of the cut (`CaughtUp`) that no revision between the
  one the user knows of (`Reached`) and the cut is a change the selection sees,
  and that what is left to be listed (`Left`) is still on its way (`Unseen`).
  An event that the filter drops moves the cut, not the user; one that is
  delivered is then the next change the selection sees, and has the kind that the
  feed gives it (`KindFits`), which takes that only existing keys are deleted
  (`LInv`).  Once the watch is lossy the cut is lost, and the order (`OInv`) is
  all that is kept.  An end is excused by `DInv`.  FeedPromise covers what
  `Ordered` says, which is a step of its proof.
* **Versioner.**  `ExpectedIsRegular`: what GetExpected returns is never older
  than a SetExpected or an event that was handled before it, and it is none
  only after a deletion, or after an AddVersion that found no entry and put an
  empty one in the place of what was stored meanwhile.  Nothing orders the calls
  but the lock.  The invariant `VersionInv` keeps what a later call may still
  do: an entry's version is that of a call which wrote it (`Origin`); one made
  after that version was set has not returned, and has found that very entry or
  will put its own in its place (`StoredLast`, `Behind`); likewise after the
  call that left no version (`DeletedLast`).
* **ZkSync.**  `NodesAreWatched`: for each node that exists the invariant
  (`WatchInv`) has a walk with its watch armed and no deletion pending, or a
  root that will list or is walking to it.  It has to bound the walks of a node
  by the changes it saw (`WalksBound`), or a new walk might find none free.
* **ServiceCheck.**  `InterfacesProbedInTurn`: those the iterator has passed
  have been probed once more than the others (`InTurn`), over every change of
  the list.  What a service provides is assumed finite.
* **Scanner.**  `InstancesToldInOrder`: a process that the map of handles does
  not know is not watched yet (`FoundOnce`), so no second goroutine starts for
  it; and what a goroutine has told is what was last sent (`LastTold`).
* **HostSelect.**  `EveryHostDrawnOnce`: the list has no host twice
  (`OneEach`); the host drawn gives its place to the last one.  The hosts are
  assumed finite.
* **Templates.**  `NothingRefusedIsUsed`: what is on its way to the target has
  passed the check (`PassInv`).

* **MetricReader, InfluxWrite.**  `BatchReadInFull`: for each of its states
  the invariant (`ReaderInv`) says what the reader holds beside what it has
  given: between two lines (`Ready`), the next field of the batch is the first
  one it has not given, and within a line (`Started`), the last part given ends
  at the offset it goes on from.  `PiecesFit`: Split is a fold over the fields,
  and the invariant of its steps (`Cutting`) is that the pieces done cover the
  fields before the open one and fit.  `FieldsTakenInOnce`: what a server has
  taken in is lines of the reader's output (`StoredInv`), and a whole line is
  given once, for each begins behind the others.  What a fold computes is shown
  without an induction theorem over operators: the library's fold is a CHOOSE
  of a function, one exists on the subsets of a range, and a set of numbers that
  has 0 and the next of each of its members has all (`UpTo`).  A batch is
  assumed not to be empty, for Read indexes its first metric (reader.go:63)
  before anything else.  A metric has at least one field, and all lengths are
  positive, as NewMetric makes them.  RemoveField of the first field leaves its
  comma, so an empty field, in front: such metrics are MetricObject's.

* **MetricObject.**  `ReadsBackAlways`: the getters give what was put in.
  - *Texts.*  Unescaping gives back any text that was escaped.  If the text is
    `Plain`, each of its special characters is then behind an odd number of
    backslashes, and no search stops inside it; names are never searched and
    may be any text.
  - *Rows.*  Tags are a row of `,key=value`, fields of `key=value` between
    commas.  A search from the beginning of a row stops at the end of its first
    member, so one round of the getter's loop takes one member off, and as many
    rounds as there are bytes take all.
  - *Invariant* (`MetricInv`).  The name is the escaped one; the tags are a row
    with one member for each key of `tagged`; the fields are a row in which the
    last member of a key is that of `fielded`, for AddField only appends.
    RemoveTag takes out one member: it looks for `key=` anywhere in the bytes,
    and finds it first in the member of that key.
  - *Assumptions* (`TextsAssumption`).  A tag has a key and a value, for New
    leaves others out and AddTag does not.  No backslash stands before what is
    escaped or at the end of a key or value, for the code does not escape
    backslashes.  No tag key ends another one, or RemoveTag cuts into the
    other.  Numbers and booleans are written without commas and backslashes.
    The maps are finite.  RemoveField breaks the fields; after it the property
    is of the name and the tags only.

Type invariants are proved, as parts of these invariants, and not run.

Only model-checked: liveness (the prover has no ENABLED); the parser of the line
protocol (`ParsesBack`: its scanners are RECURSIVE operators); the formats
(`SamplesReadBack`: conversions of given samples).

## Disagreements with the code's own words, and what else the models show

Shown by a run:

* The scheduler's doc says the configured number of instances runs; a rolling
  update converts one instance per host and prunes the rest (`ReachesNum`).
* client.go's Write goes on until a successful write; the next server gets
  what the failed one left of the reader (`OkIsTaken`).
* hc.go:180 takes `host/type/name` apart at its last slash, etcdkey/deploy.go:15
  says `hosts/{hostID}/{deployID}`: a restarted server knows no configuration
  (`KnowsHostConfigs`).

Part of the models, each as the code has it:

* *Watch, queue.*  watch/watcher.go:35 says an event's key has the watched
  prefix stripped; only the events of the listing have.  unique_queue.go:16
  guarantees one instance of an identity in the line; check and mark are two
  critical sections (:53), and two adders may both find it absent.
* *Store provider.*  endpointsMap is never cleared, so no compactor uses a
  client that replaced another.  A dial that fails once closes the client all
  others use, and a caller may be handed a client that another has just closed.
  MemberList under the lock has no deadline.
* *Configurations.*  The API keeps deploy configurations under instances/, the
  manager of deploy configurations loads config/, and nothing starts its watch.
  Every production caller reads without a quorum.
* *Scheduler.*  getHostInfo reads the path of the host's status, so that no
  host is ever found; a label predicate panics.  Nothing is ever put into the
  manager's map of controllers, so that Deploy answers "unknown deployment"
  (manager.go:74-77).  removeExpectInstances never looks at its context once
  another deployment has emptied its listing (replica.go:470-491): a deployment
  that is cancelled there does not return.
* *Scanner.*  An environment entry without exactly one "=" panics.  The ports
  of a process whose parent is neither 0 nor 1 are not found.  The condition on
  memory compares two configured values.  The table is read without the lock.
  The bytes a process wrote are subtracted unsigned, across a reused pid.
* *Line protocol.*  RemoveField cuts strings at commas and leaves the comma of
  the first field.  RemoveTag, and so AddTag, of a key that ends another key
  finds it inside that one (metric.go:425) and cuts the tag in two.
* *Java.*  An entry of the versions may be inserted twice, and what the first
  caller wrote to it is lost; an AddVersion that adds nothing may insert an
  empty one.  addVersion's loop stops before the first of the versions it is given
  (versioner.go:80), so that AddVersion, which "add[s] a new version to vm"
  (:128), does nothing with a single one, and of an event pushes the expected
  version and drops the backup.  A version that was seen before, or none, should
  just return (version.go:69); it is pushed, and the backup is lost.
  No package imports this one, eventHandler is given to no watch, and
  watchVersionInfo (versioner.go:153) only calls itself.  GetEtcdPath keeps a
  path of API 2 under its project, from which getZKPath0 gives another path;
  getEtcdPath gives all of them the base directory of the stage, for its
  parseZKPathv2 is empty (path_util.go:44).  getZKPath, which path_util.go:22
  calls the inverse of getEtcdPath, takes off the type besides the stage (:61-65)
  and gives no path back (`SamplesReadBack` says so of each).  Services should be
  probed through every esb (service/doc.go:12); the index of the esb is never
  moved on (service.go:495), so all probes go through the first.  Daemons and instances of one name
  share a key.  The route of an API 2 service is never parsed, ListKeys finds no
  key, a handler that fails closes a channel that watchers still send on.
* *Formats.*  An until-time in UTC is written and cannot be read; a percentage
  of 29, 57 or 58 loses one (deploy.go:484); a restart policy of no type is read
  as always; a selector value loses its operator; Devide starts from the memory
  asked for, so that its count is never above that number;
  ResourceSize.MarshalJSON calls itself; limits called MaxAllowed are not kept.
  A version with one build tag, which is a sample of version.go:23, has an
  unknown stage (:122).  An image whose name has a version is valid and is not
  read back.
* *Templates.*  A reload that failed is never tried again, since the target is
  already what it should be; a watch does not try a change again that it failed
  to process; stopping the interval processor leaves only its select and starts
  the next round at once.

## Not modelled

* The data races of Go's maps (two goroutines writing one Info map,
  replica.go:393, end the process), and net/http still reading the body of an
  abandoned request (influx/http.go:199): the models have steps, not memory
  accesses.
* The instance manager: it watches with a type that makes the decoder end the
  process at the first event.  The deploy agent: it is made without an image
  manager, and the list of images it looks in is always empty, so that every
  Deploy ends with the same error.  Worktrees and the image repository: git
  commands, in a package that does not compile.  cmd/server, controllers/host,
  api/release and api/java do not compile either.
* HTTP handlers beyond their calls of the components, commands, flags, logging,
  alerts, TLS and proxies, reading /proc and hostinfo, template functions, the
  list of projects, the key paths of java projects.
* In the line protocol a backslash at the end of a text, newlines, NaN and
  infinities, precision and range; in types the registries of instances.

## Left to do

1. The caches (instance.go, dc.go) as consumers of a WatchFeed, which WatchChan
   implements.
2. Larger instances of ZkSync (three nodes) outside the run that it shares.
