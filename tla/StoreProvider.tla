--------------------------- MODULE StoreProvider ---------------------------
(***************************************************************************)
(* registry/generic/store_provider.go: the etcd client that all stores and  *)
(* watches of a process share.  GetStoreInstance dials it; who finds it     *)
(* missing or dead looks again under the lock, closes it with its compactor *)
(* and makes the next one.                                                  *)
(***************************************************************************)
EXTENDS Integers, FiniteSets

CONSTANTS
  Callers,                 \* goroutines that ask for a store
  MaxClients, MaxFailures  \* bounds: clients made, and dials that fail though the client is open

Nobody == "nobody"

ASSUME StoreProviderAssumption ==
  Nobody \notin Callers /\ MaxClients \in Nat /\ MaxFailures \in Nat

VARIABLES
  configured, \* clientConfig # nil
  etcdClient, \* the number of the client, 0 for nil
  open,       \* the clients that are not closed
  compactors, \* the clients whose compactor runs
  endpoints,  \* endpointsMap has those of the configuration
  cliLock,    \* who holds the lock, or Nobody
  step,       \* where each caller is
  got,        \* the client of the store it got last, 0 for an error
  made, failures

providerVars ==
  <<configured, etcdClient, open, compactors, endpoints, cliLock, step, got, made, failures>>
clients == <<configured, etcdClient, open, compactors, endpoints, made>>

ProviderInit ==
  /\ configured = FALSE /\ etcdClient = 0 /\ open = {} /\ compactors = {} /\ endpoints = FALSE
  /\ cliLock = Nobody /\ made = 0 /\ failures = 0
  /\ step = [g \in Callers |-> "idle"] /\ got = [g \in Callers |-> 0]

SetEtcdConfig ==
  /\ ~configured /\ cliLock = Nobody /\ configured' = TRUE
  /\ UNCHANGED <<etcdClient, open, compactors, endpoints, cliLock, step, got, made, failures>>

\* dialClient asks the client in etcdClient for its members; one that is closed fails.
DialFails ==
  \/ etcdClient \notin open /\ UNCHANGED failures
  \/ etcdClient \in open /\ failures < MaxFailures /\ failures' = failures + 1

\* The quick path looks without the lock, and reads etcdClient once more for the store.
QuickDial(g) ==
  /\ step[g] = "idle" /\ UNCHANGED <<cliLock, got>> /\ UNCHANGED clients
  /\ \/ etcdClient \in open /\ step' = [step EXCEPT ![g] = "quick"] /\ UNCHANGED failures
     \/ DialFails /\ step' = [step EXCEPT ![g] = "lock"]
QuickStore(g) ==
  /\ step[g] = "quick" /\ step' = [step EXCEPT ![g] = "idle"]
  /\ got' = [got EXCEPT ![g] = etcdClient]
  /\ UNCHANGED <<cliLock, failures>> /\ UNCHANGED clients

\* Mutant: whoever gets the lock makes a client.
LockOnly(g) ==
  /\ step[g] = "lock" /\ cliLock = Nobody /\ cliLock' = g
  /\ step' = [step EXCEPT ![g] = "make"]
  /\ UNCHANGED <<got, failures>> /\ UNCHANGED clients

Lock(g) ==
  /\ step[g] = "lock" /\ cliLock = Nobody /\ cliLock' = g
  /\ step' = [step EXCEPT ![g] = IF etcdClient = 0 THEN "make" ELSE "dial"]
  /\ UNCHANGED <<got, failures>> /\ UNCHANGED clients

Unlock(g, client) ==
  /\ cliLock' = Nobody /\ step' = [step EXCEPT ![g] = "idle"]
  /\ got' = [got EXCEPT ![g] = client]

\* Here etcdClient may be just created.
DialAgain(g) ==
  /\ step[g] = "dial"
  /\ \/ /\ etcdClient \in open /\ Unlock(g, etcdClient)
        /\ UNCHANGED failures /\ UNCHANGED clients
     \/ /\ DialFails /\ step' = [step EXCEPT ![g] = "make"]
        /\ open' = open \ {etcdClient} /\ compactors' = compactors \ {etcdClient}
        /\ UNCHANGED <<configured, etcdClient, endpoints, cliLock, got, made>>

\* Without a configuration, or if clientv3.New fails, the closed client stays.
MakeFails(g) ==
  /\ step[g] = "make" /\ (configured => failures < MaxFailures)
  /\ failures' = IF configured THEN failures + 1 ELSE failures
  /\ Unlock(g, 0) /\ UNCHANGED clients

\* One compactor for the endpoints in a process: they stay in endpointsMap.
StartCompactor(client) ==
  /\ compactors' = IF endpoints THEN compactors ELSE compactors \cup {client}
  /\ endpoints' = TRUE

\* newEtcdClient opens a client and starts its compactor.
NewEtcdClient ==
  /\ configured /\ made < MaxClients /\ made' = made + 1
  /\ open' = open \cup {made + 1} /\ StartCompactor(made + 1)

Make(g) ==
  /\ step[g] = "make" /\ NewEtcdClient /\ etcdClient' = made + 1
  /\ Unlock(g, made + 1) /\ UNCHANGED <<configured, failures>>

ProviderNext ==
  \/ SetEtcdConfig
  \/ \E g \in Callers : \/ QuickDial(g) \/ QuickStore(g) \/ Lock(g)
                        \/ DialAgain(g) \/ MakeFails(g) \/ Make(g)

ProviderSpec == ProviderInit /\ [][ProviderNext]_providerVars
-----------------------------------------------------------------------------
\* No client is lost while it is open: whichever callers find the client dead at once,
\* all but the one in etcdClient are closed and their compactors ended when nobody
\* replaces it, and there is one compactor at most.
OneClient ==
  cliLock = Nobody =>
    /\ open \subseteq {etcdClient} /\ compactors \subseteq open
=============================================================================
