------------------------------- MODULE Images -------------------------------
(***************************************************************************)
(* types/version.go, types/image.go and types/namespace.go: images and      *)
(* their versions, and the stages they may be deployed to.  A version is    *)
(* [number, build]: what semver orders it by, and the sequence of its build *)
(* tags.  A name is what its colons part.                                   *)
(***************************************************************************)
EXTENDS Integers, Sequences

Stages == <<"dev", "test", "int", "qa", "uat", "prd">>
UnknownStage == 0

\* Stage.String and ParseStage
StageString(s) == IF s \in DOMAIN Stages THEN Stages[s] ELSE "unknown"
ParseStage(text) ==
  IF \E s \in DOMAIN Stages : Stages[s] = text
  THEN [ok |-> TRUE, stage |-> CHOOSE s \in DOMAIN Stages : Stages[s] = text]
  ELSE [ok |-> text = "unknown", stage |-> UnknownStage]

\* Version.GetStage: without a build tag every stage, with one tag alone none.
GetStage(v) ==
  CASE v.build = <<>> -> Len(Stages)
    [] Len(v.build) > 1 -> ParseStage(v.build[1]).stage
    [] OTHER -> UnknownStage

NoVersion == [number |-> -1, build |-> <<>>]

\* Image.Validate looks at the name alone, which a version may end.
ValidImage(image) == Len(image.name) \in {1, 2}

\* Image.MarshalJSON: its name and version in a string, or an object with the policy.
MarshalImage(image) ==
  CASE ~ValidImage(image) -> [kind |-> "error"]
    [] ValidImage(image) /\ image.policy = "" ->
         [kind |-> "string",
          parts |-> image.name \o IF image.version = NoVersion THEN <<>> ELSE <<image.version>>]
    [] OTHER -> [kind |-> "object", image |-> image]

\* ParseImageName
ParseImageName(parts) ==
  IF Len(parts) \in {1, 2}
  THEN [ok |-> TRUE,
        image |-> [name |-> <<parts[1]>>, policy |-> "",
                   version |-> IF Len(parts) = 2 THEN parts[2] ELSE NoVersion]]
  ELSE [ok |-> FALSE]

\* Image.UnmarshalJSON: an object is taken as it is.
UnmarshalImage(json) ==
  CASE json.kind = "string" -> ParseImageName(json.parts)
    [] json.kind = "object" -> [ok |-> TRUE, image |-> json.image]
    [] OTHER -> [ok |-> FALSE]
=============================================================================
