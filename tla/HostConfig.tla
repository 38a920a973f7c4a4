----------------------------- MODULE HostConfig -----------------------------
(***************************************************************************)
(* The configurations of one stage in etcd, and the caches a server keeps   *)
(* of them (controllers/types/impl/hc.go, dc.go, and the handlers of        *)
(* api/deploy/config.go).  The server loads its caches when it starts,      *)
(* writes through the host configurations and never hears of the deploy     *)
(* configurations again, as nothing calls deployConfigManager.watch.        *)
(***************************************************************************)
EXTENDS EtcdKeys

CONSTANTS
  Stage,
  DeployKeys,  \* <<type, name>>
  HostIDs, Specs,
  NoSpec       \* the zero types.DeploySpec

VARIABLES
  kvs,   \* etcd: the value of each key
  up,    \* a server runs
  cfgs,  \* hcManager.cfgs: of each key, the spec of each host
  dc,    \* deployConfigManager.dc: the keys it has a configuration of
  failed \* history: a write failed

configVars == <<kvs, up, cfgs, dc, failed>>

ConfigInit == kvs = <<>> /\ up = FALSE /\ cfgs = <<>> /\ dc = {} /\ failed = FALSE

PathOf(host, key) == DeployHostExpectPathOf(Stage, host, key)
Put(key, value) == [k \in DOMAIN kvs \cup {key} |-> IF k = key THEN value ELSE kvs[k]]
Without(keys) == [k \in DOMAIN kvs \ keys |-> kvs[k]]

\* The map of a deploy key, empty if there is none.
KeyMap(key) == IF key \in DOMAIN cfgs THEN cfgs[key] ELSE <<>>
GetHostConfig(key, host) == IF host \in DOMAIN KeyMap(key) THEN {cfgs[key][host]}
                            ELSE IF KeyMap(key) = <<>> THEN {} ELSE {NoSpec}

\* The cache changes whether etcd takes the write or not.
SetHostConfig(key, host, spec) ==
  /\ up
  /\ cfgs' = [k \in DOMAIN cfgs \cup {key} |->
                IF k # key THEN cfgs[k]
                ELSE [h \in DOMAIN KeyMap(key) \cup {host} |->
                        IF h = host THEN spec ELSE cfgs[key][h]]]
  /\ \/ kvs' = Put(PathOf(host, key), spec) /\ UNCHANGED failed
     \/ failed' = TRUE /\ UNCHANGED kvs
  /\ UNCHANGED <<up, dc>>

\* One delete after the other; a key goes with its last host.
DeleteHostConfigs(key, hosts) ==
  /\ up /\ key \in DOMAIN cfgs
  /\ LET left == DOMAIN cfgs[key] \ hosts IN
     cfgs' = [k \in DOMAIN cfgs \ (IF left = {} THEN {key} ELSE {}) |->
                IF k = key THEN [h \in left |-> cfgs[key][h]] ELSE cfgs[k]]
  /\ \E lost \in SUBSET hosts :
       /\ kvs' = Without({PathOf(h, key) : h \in hosts \ lost})
       /\ failed' = (failed \/ lost # {})
  /\ UNCHANGED <<up, dc>>

\* addDeployConfig creates, and deleteDeployConfig deletes, at one path of its own.
AddDeployConfig(key) ==
  /\ DeployInstanceDirOfKey(Stage, key) \notin DOMAIN kvs
  /\ kvs' = Put(DeployInstanceDirOfKey(Stage, key), key)
  /\ UNCHANGED <<up, cfgs, dc, failed>>
DeleteDeployConfig(key) ==
  /\ DeployInstanceDirOfKey(Stage, key) \in DOMAIN kvs
  /\ kvs' = Without({DeployInstanceDirOfKey(Stage, key)})
  /\ UNCHANGED <<up, cfgs, dc, failed>>

\* loadHostDeploySpec cuts the rest of a path at its last slash: what comes before
\* is the key, what comes after the host.
Rest(dir, path) == SubSeq(path, Len(dir), Len(path))
Loaded(dir) ==
  LET paths == {p \in ListedIn(DOMAIN kvs, dir) : Len(Rest(dir, p)) > 1}
      KeyIn(p) == SubSeq(Rest(dir, p), 1, Len(Rest(dir, p)) - 1)
      HostIn(p) == p[Len(p)]
  IN  [key \in {KeyIn(p) : p \in paths} |->
         [host \in {HostIn(p) : p \in {q \in paths : KeyIn(q) = key}} |->
            kvs[Below(dir, key \o <<host>>)]]]

Start ==
  /\ ~up /\ up' = TRUE
  /\ cfgs' = Loaded(DeployHostExpectDir(Stage))
  /\ dc' = {kvs[p] : p \in ListedIn(DOMAIN kvs, DeployConfigDir(Stage))}
  /\ UNCHANGED <<kvs, failed>>

Stop == up /\ up' = FALSE /\ cfgs' = <<>> /\ dc' = {} /\ UNCHANGED <<kvs, failed>>

ConfigNext ==
  \/ Start \/ Stop
  \/ \E key \in DeployKeys :
       \/ AddDeployConfig(key) \/ DeleteDeployConfig(key)
       \/ \E host \in HostIDs, spec \in Specs : SetHostConfig(key, host, spec)
       \/ \E hosts \in SUBSET HostIDs : DeleteHostConfigs(key, hosts)

ConfigSpec == ConfigInit /\ [][ConfigNext]_configVars
-----------------------------------------------------------------------------
\* What the comment of registry/etcdkey says of hosts/{hostID}/{deployID}: a server
\* that runs knows the configuration of every host, if no write failed.
KnowsHostConfigs ==
  up /\ ~failed =>
    \A key \in DeployKeys, host \in HostIDs :
      PathOf(host, key) \in DOMAIN kvs =>
        GetHostConfig(key, host) = {kvs[PathOf(host, key)]}
=============================================================================
