------------------------------ MODULE EtcdKeys ------------------------------
(***************************************************************************)
(* registry/etcdkey: where things are in etcd, and what the store does with *)
(* a key (registry/generic/store.go).  A key is the sequence of what its    *)
(* slashes part, the empty text before the first one left out: that of a    *)
(* directory ends with the empty text.                                      *)
(***************************************************************************)
EXTENDS Integers, Sequences, FiniteSets

IsDirectory(key) == key # <<>> /\ key[Len(key)] = ""
Below(dir, name) == SubSeq(dir, 1, Len(dir) - 1) \o name

BaseDir == <<"dolphin", "">>
StageBaseDir(stage) == Below(BaseDir, <<stage, "">>)
DeployDir(stage) == Below(StageBaseDir(stage), <<"deploy", "">>)
DeployConfigDir(stage) == Below(DeployDir(stage), <<"config", "">>)
DeployHostExpectDir(stage) == Below(DeployDir(stage), <<"hosts", "">>)
DeployInstanceDir(stage) == Below(DeployDir(stage), <<"instances", "">>)

\* A deploy key is <<type, name>>.
DeployInstanceDirOfKey(stage, key) == Below(DeployInstanceDir(stage), key \o <<"">>)
DeployHostExpectPathOf(stage, hostID, key) ==
  Below(DeployHostExpectDir(stage), <<hostID>> \o key)

\* keyWithPrefix: a key that begins with the prefix is whole, any other is joined to
\* it, which takes the slash at the end away.
KeyBegins(key, prefix) ==
  LET n == IF IsDirectory(prefix) THEN Len(prefix) - 1 ELSE Len(prefix) IN
  /\ Len(key) >= Len(prefix) /\ SubSeq(key, 1, n) = SubSeq(prefix, 1, n)
Clean(key) == IF IsDirectory(key) THEN SubSeq(key, 1, Len(key) - 1) ELSE key
KeyWithPrefix(prefix, key) ==
  IF KeyBegins(key, prefix) THEN key ELSE Clean(prefix) \o Clean(key)

\* List and ListKeys: what is asked for becomes a directory, and what begins with it
\* is in it, however deep.
AsDirectory(key) == IF IsDirectory(key) THEN key ELSE key \o <<"">>
ListedIn(keys, dir) == {key \in keys : KeyBegins(key, AsDirectory(dir))}
=============================================================================
