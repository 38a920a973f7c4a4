------------------------------ MODULE Formats ------------------------------
(***************************************************************************)
(* What one part of the server writes another part, or the same one after a *)
(* restart, reads: routes in zookeeper, paths of zookeeper and keys of      *)
(* etcd, deploy keys, and the JSON of images, stages, update options,       *)
(* restart policies and resources.  A behaviour has one sample of them.     *)
(***************************************************************************)
EXTENDS RouteCfg, ZkPath, DeployConfig, Images

CONSTANTS
  SampleRoutes, SamplePaths, SampleNames, SampleKeys,
  SampleUpdates, SampleRestarts, SampleAmounts, SampleImages

VARIABLES kind, sample

formatVars == <<kind, sample>>

FormatInit ==
  \/ kind = "route" /\ sample \in SampleRoutes
  \/ kind = "path" /\ sample \in SamplePaths
  \/ kind = "name" /\ sample \in SampleNames
  \/ kind = "key" /\ sample \in SampleKeys
  \/ kind = "update" /\ sample \in SampleUpdates
  \/ kind = "restart" /\ sample \in SampleRestarts
  \/ kind = "amount" /\ sample \in SampleAmounts
  \/ kind = "image" /\ sample \in SampleImages
  \/ kind = "stage" /\ sample \in 0..Len(Stages)

Within(a, b, distance) == a - b <= distance /\ b - a <= distance

\* A route of version 2 has no text for a condition, nor for an operator but "=".
RouteFits(cfg) ==
  cfg.version = "2.0" =>
    \A i \in DOMAIN cfg.items : cfg.items[i].src = NoMatch /\ cfg.items[i].dst.op = "="

\* The step belongs to two of the policies, the percentage to the other one; three
\* percentages lose one.
UpdateFits(uo) ==
  /\ ValidUpdate(uo)
  /\ IF uo.policy = "mixed" THEN uo.step = 0 /\ uo.percent \notin {29, 57, 58}
     ELSE uo.percent = 0

\* What is written is read back, and what is not is exactly this: a version 2 route
\* with a condition or another operator; the path of an instance or of a version 2
\* node from its key in etcd (getZKPath0), and no path at all by getZKPath; the name of a version 2 deployment, or of
\* no deployment, from its path; update options that are not valid, that have what
\* belongs to another policy, or with a percentage of 29, 57 or 58; a restart policy
\* until a time in UTC, or of no type; an image without a policy whose name has a
\* version of its own.  An amount is read back to half of the unit it is written in.
SamplesReadBack ==
  CASE kind = "route" ->
         ParseRoute(CfgText(sample), sample.version) = [cfg |-> sample, ok |-> TRUE]
           <=> RouteFits(sample)
    [] kind = "path" ->
         /\ GetZKPath0(GetEtcdPath(sample)) = sample
              <=> sample[1] = "biz" /\ ZkType(sample) \in {"config", "route"}
         /\ GetZKPath(GetEtcdPath(sample)) # sample
    [] kind = "name" -> \A path \in {GetRoutePath(sample), GetInstancePath(sample)} :
         GetDeployName(path) = sample <=> GetAPIVersion(sample) = "4.0"
    [] kind = "key" ->
         ParseDeployKey(DeployKeyOf(sample)) =
           [ok |-> TRUE, type |-> sample.type, name |-> sample.name]
    [] kind = "update" ->
         UnmarshalUpdate(MarshalUpdate(sample)) = [ok |-> TRUE, uo |-> sample]
           <=> UpdateFits(sample)
    [] kind = "restart" ->
         UnmarshalRestart(MarshalRestart(sample)) = [ok |-> TRUE, rp |-> sample]
           <=> sample.type # "" /\ (sample.type = "until" => ~sample.until.utc)
    [] kind = "amount" ->
         Within(2 * ParseResource(ResUnitString(sample)), 2 * sample, Factor(UnitOf(sample)))
    [] kind = "image" ->
         UnmarshalImage(MarshalImage(sample)) = [ok |-> TRUE, image |-> sample]
           <=> Len(sample.name) = 1 \/ sample.policy # ""
    [] kind = "stage" ->
         /\ ParseStage(StageString(sample)) = [ok |-> TRUE, stage |-> sample]
         /\ GetStage([number |-> 1, build |-> <<StageString(sample), "1">>]) = sample
    [] OTHER -> TRUE
=============================================================================
