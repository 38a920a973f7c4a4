------------------------------- MODULE ZkPath -------------------------------
(***************************************************************************)
(* controllers/java/zk: which etcd key a zookeeper node is kept under, what *)
(* it holds and which deployment it belongs to.  A path is the sequence of  *)
(* its components, an error is NoPath; a "/" at its end makes the last one  *)
(* empty.  A name is a sequence too: a deployment of project p and binary b *)
(* is <<p, b>>, and no binary has a dot in it.  getEtcdPath of path_util.go *)
(* does what simplePathInfo.GetEtcdPath does with a version 4 path.         *)
(***************************************************************************)
EXTENDS Integers, Sequences, SequencesExt

CONSTANT ServiceMap  \* simplePathInfo.serviceMap: the project of an API 2 service

NoPath == <<>>

\* parseZKPathv4 and parseZKPathv2: the type.
ZkType(path) ==
  IF path[1] = "biz"
  THEN CASE Len(path) < 4 -> "none"
         [] path[4] \in {"daemon", "instance"} -> "instance"
         [] path[4] = "policy" -> "route"
         [] path[4] = "config" -> "config"
         [] OTHER -> "none"
  ELSE CASE Len(path) < 2 \/ path[1] \notin {"config", "service"} -> "none"
         [] path[2] \notin DOMAIN ServiceMap -> "none"
         [] path[1] = "config" -> "config"
         [] Len(path) = 2 -> "route"
         [] OTHER -> "instance"

\* GetEtcdPath, below the zookeeper directory of the stage.
GetEtcdPath(path) ==
  IF ZkType(path) = "none" THEN NoPath
  ELSE IF path[1] = "biz"
  THEN <<ZkType(path), "4", <<path[2], path[3]>>>> \o SubSeq(path, 5, Len(path))
  ELSE <<ZkType(path), "2", ServiceMap[path[2]]>> \o SubSeq(path, 3, Len(path))

\* GetDeployName: without the number of the instance.
GetDeployName(path) ==
  IF Len(path) < 2 THEN NoPath
  ELSE IF path[1] = "biz"
  THEN IF Len(path) < 3 THEN NoPath ELSE <<path[2], path[3]>>
  ELSE IF path[2] \notin DOMAIN ServiceMap THEN NoPath
  ELSE IF Len(path) = 2 \/ path[1] # "service" THEN <<ServiceMap[path[2]]>>
  ELSE <<ServiceMap[path[2]], path[3][1]>>

\* getServiceName and GetAPIVersion: the service that has the project, if any; the
\* name of a project alone has no version.
ServicesOf(project) == {s \in DOMAIN ServiceMap : ServiceMap[s] = project}
GetAPIVersion(name) ==
  CASE Len(name) # 2 -> ""
    [] Len(name) = 2 /\ ServicesOf(name[1]) # {} -> "2.0"
    [] OTHER -> "4.0"

\* GetRoutePath and GetInstancePath.
GetRoutePath(name) ==
  IF Len(name) # 2 THEN NoPath
  ELSE IF GetAPIVersion(name) = "2.0"
  THEN <<"service", CHOOSE s \in ServicesOf(name[1]) : TRUE>>
  ELSE <<"biz", name[1], name[2], "policy", "default", "route">>
GetInstancePath(name) ==
  IF Len(name) # 2 THEN NoPath
  ELSE IF GetAPIVersion(name) = "2.0" THEN Append(GetRoutePath(name), <<"">>)
  ELSE <<"biz", name[1], name[2], "instance", "">>

\* getZKPath0: the path a key of this directory came from; instances are not
\* written back.
GetZKPath0(key) ==
  IF Len(key) < 3 \/ key[1] \notin {"config", "route"} THEN NoPath
  ELSE IF key[2] = "2"
  THEN IF key[1] = "config" THEN <<"config">> \o SubSeq(key, 3, Len(key))
       ELSE IF Len(key) > 3 THEN NoPath ELSE <<"service", key[3]>>
  ELSE IF key[2] = "4" /\ Len(key[3]) = 2
  THEN <<"biz", key[3][1], key[3][2],
         IF key[1] = "route" THEN "policy" ELSE "config">> \o SubSeq(key, 4, Len(key))
  ELSE NoPath

\* getZKPath takes off the first component as the stage's, which was in the prefix
\* that it has taken off before: what goes is the type.
GetZKPath(key) == GetZKPath0(IF Len(key) > 1 THEN Tail(key) ELSE key)
=============================================================================
