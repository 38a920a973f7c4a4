---------------------------- MODULE DeployConfig ----------------------------
(***************************************************************************)
(* types/deploy.go and types/resource.go: a deployment's configuration, its *)
(* checks and defaults, the JSON its parts are kept as, and the arithmetic  *)
(* of resources.  A text is the sequence of what its separators part.  A    *)
(* time is [at, utc]; only one with a time zone has the 25 characters that  *)
(* reading expects of RFC 3339, one in UTC ends in "Z" and has 20.          *)
(***************************************************************************)
EXTENDS Integers, Sequences, SequencesExt

Policies == {"rollingUpdate", "deployNew", "mixed"}
NoTime == [at |-> 0, utc |-> TRUE]
ReadFails == [ok |-> FALSE]
NoJSON == <<>>

\* RestartPolicy.MarshalJSON: a string, or an object with the time.
MarshalRestart(rp) ==
  IF rp.type \in {"onetime", "always"} THEN [kind |-> "string", type |-> rp.type]
  ELSE IF rp.type = "" /\ rp.until = NoTime THEN [kind |-> "string", type |-> "always"]
  ELSE [kind |-> "object", type |-> rp.type,
        value |-> [form |-> IF rp.until.utc THEN 20 ELSE 25, at |-> rp.until.at]]

\* RestartPolicy.UnmarshalJSON: a time of the day, a date or both is taken as UTC and
\* moved by eight hours; a number (form 0) counts the seconds in local time.
UnmarshalRestart(json) ==
  IF json.kind = "string" THEN
    IF json.type \in {"", "onetime", "always"}
    THEN [ok |-> TRUE, rp |-> [type |-> IF json.type = "" THEN "always" ELSE json.type,
                               until |-> NoTime]]
    ELSE ReadFails
  ELSE IF json.type # "until" THEN ReadFails
  ELSE CASE json.value.form \in {5, 10, 16} ->
              [ok |-> TRUE, rp |-> [type |-> "until",
                                    until |-> [at |-> json.value.at + 8, utc |-> TRUE]]]
         [] json.value.form \in {25, 0} ->
              [ok |-> TRUE, rp |-> [type |-> "until",
                                    until |-> [at |-> json.value.at, utc |-> FALSE]]]
         [] OTHER -> ReadFails

\* UpdateOption.Validate
ValidUpdate(uo) ==
  CASE uo.policy \in {"rollingUpdate", "deployNew"} -> uo.step <= uo.timeout
    [] uo.policy = "mixed" -> uo.percent \in 0..100
    [] OTHER -> FALSE

\* int(100 * NewPercent), where NewPercent is a float, the quotient of a whole
\* percentage and 100: for three of them the product is less than it was.
Truncated(percent) == IF percent \in {29, 57, 58} THEN percent - 1 ELSE percent

\* UpdateOption.MarshalJSON: three parts, the second the step or the percentage.
MarshalUpdateSwapped(uo) ==
  IF ~ValidUpdate(uo) THEN NoJSON
  ELSE <<uo.policy, uo.timeout, IF uo.policy = "mixed" THEN Truncated(uo.percent) ELSE uo.step>>
MarshalUpdate(uo) ==
  IF ~ValidUpdate(uo) THEN NoJSON
  ELSE <<uo.policy, IF uo.policy = "mixed" THEN Truncated(uo.percent) ELSE uo.step, uo.timeout>>

\* UpdateOption.UnmarshalJSON: the last part of two or three is the timeout; what is
\* left out is 30 s, half of the instances and 5 min.
UnmarshalUpdate(parts) ==
  IF Len(parts) \notin 1..3 THEN ReadFails
  ELSE LET uo == [policy |-> parts[1],
                  step |-> CASE parts[1] \notin {"rollingUpdate", "deployNew"} -> 0
                             [] Len(parts) = 3 -> parts[2] [] OTHER -> 30,
                  percent |-> CASE parts[1] # "mixed" -> 0
                                [] Len(parts) = 3 -> parts[2] [] OTHER -> 50,
                  timeout |-> IF Len(parts) > 1 THEN Last(parts) ELSE 300]
       IN IF ValidUpdate(uo) THEN [ok |-> TRUE, uo |-> uo] ELSE ReadFails

\* GetDefaultUpdateOption
DefaultUpdate(serviceType) ==
  IF serviceType \in {"service", "daemon", "unknown", "script"}
  THEN {[policy |-> IF serviceType = "service" THEN "deployNew" ELSE "rollingUpdate",
         step |-> 30, percent |-> 0, timeout |-> 300]}
  ELSE {}

\* Selector.ToSelector: a value that begins with an operator is left out.
ToSelector(selector) ==
  IF "" \in DOMAIN selector THEN ReadFails
  ELSE [ok |-> TRUE,
        terms |-> {<<k, selector[k].value>> : k \in {k \in DOMAIN selector :
                                                      selector[k].op = ""}}]

\* DeployConfig.Validate; it keeps the parsed selector and sets the restart policy.
ValidConfig(dc) ==
  /\ dc.type # "" /\ dc.name # "" /\ dc.serviceType # "" /\ dc.numOfInstance > 0
  /\ dc.stage # "unknown"
  /\ DOMAIN dc.selector # {} => ToSelector(dc.selector).ok
Validated(dc) ==
  [dc EXCEPT !.restartPolicy = IF @ = {} THEN {[type |-> "always", until |-> NoTime]} ELSE @]

\* GetDeployDir: below the base directory.
DeployDir(dir) == IF IsPrefix(<<"data", "deploy">>, dir) THEN dir ELSE <<"data", "deploy">> \o dir

\* Key and ParseDeployKey: up to the first "/", which is not the last character.
DeployKeyOf(dc) == <<dc.type>> \o dc.name
ParseDeployKey(key) ==
  IF Len(key) < 2 \/ key = <<key[1], "">> THEN ReadFails
  ELSE [ok |-> TRUE, type |-> key[1], name |-> Tail(key)]
-----------------------------------------------------------------------------
(* Resources: a record of memory, cpu, disk, in and out. *)

Kinds == {"memory", "cpu", "disk", "in", "out"}

AddResource(dr, operand) == [k \in Kinds |-> dr[k] + operand[k]]

\* Subtract stops at zero.
Subtract(dr, operand) ==
  [k \in Kinds |-> IF dr[k] > operand[k] THEN dr[k] - operand[k] ELSE 0]

\* Devide: the least quotient, and never more than the memory asked for.
Devide(dr, operand) ==
  LET quotients == {operand["memory"]}
        \cup {dr[k] \div operand[k] : k \in {k \in Kinds : operand[k] # 0}} IN
  CHOOSE q \in quotients : \A other \in quotients : q <= other

\* resUnit.String rounds to whole units of the largest unit not above the amount;
\* ParseResoureValue reads K, M, G as powers of 1024 and k, m, g of 1000.
Factor(unit) ==
  CASE unit = "" -> 1 [] unit = "k" -> 1000 [] unit = "K" -> 1024
    [] unit = "m" -> 1000000 [] unit = "M" -> 1048576
UnitOf(amount) == CASE amount < 1024 -> "" [] amount < 1048576 -> "K" [] OTHER -> "M"
ResUnitString(amount) ==
  LET f == Factor(UnitOf(amount)) IN
  [num |-> (2 * amount + f) \div (2 * f), unit |-> UnitOf(amount)]
ParseResource(text) == text.num * Factor(text.unit)
=============================================================================
