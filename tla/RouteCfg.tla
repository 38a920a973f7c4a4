------------------------------ MODULE RouteCfg ------------------------------
(***************************************************************************)
(* controllers/java/router: the route of a java service as the manager has *)
(* it and as zookeeper keeps it, and a node's description of itself.  A     *)
(* match is a key, an operator and its values; a line of text is a comment, *)
(* a blank or what stands before and after an arrow, the values joined by   *)
(* a separator.                                                             *)
(***************************************************************************)
EXTENDS Sequences, SequencesExt

NoMatch == [key |-> "", op |-> "", vals |-> <<>>]
NoText == [key |-> "", op |-> "", vals |-> <<>>, sep |-> ""]
Comment == [kind |-> "comment"]
Blank == [kind |-> "blank"]

\* Match.getValue
MatchText(match, sep) ==
  IF match = NoMatch THEN NoText
  ELSE [key |-> match.key, op |-> match.op, vals |-> match.vals, sep |-> sep]

\* Mutant: the separator of version 4 for both.
ItemTextComma(item, version) ==
  [kind |-> "item", arrow |-> version = "4.0",
   src |-> MatchText(item.src, ","), dst |-> MatchText(item.dst, ",")]

\* RouteItem.getValue: an arrow for version 4 only.
ItemText(item, version) ==
  LET sep == IF version = "4.0" THEN "," ELSE ";" IN
  [kind |-> "item", arrow |-> version = "4.0",
   src |-> MatchText(item.src, sep), dst |-> MatchText(item.dst, sep)]

\* RouteCfg.String; the text ends in a newline, after which a line is blank.
CfgText(cfg) ==
  (IF cfg.version = "2.0" THEN <<Comment>> ELSE <<>>)
  \o [i \in DOMAIN cfg.items |-> ItemText(cfg.items[i], cfg.version)] \o <<Blank>>

\* Values split at sep: those that another separator joins stay one value.
SplitAt(text, sep) ==
  IF text.sep = sep \/ Len(text.vals) < 2 THEN text.vals ELSE <<text.vals>>
TextMatch(text, sep) ==
  IF text = NoText THEN NoMatch
  ELSE [key |-> text.key, op |-> text.op, vals |-> SplitAt(text, sep)]

Nothing == [ok |-> TRUE, items |-> <<>>]
Unknown == [ok |-> FALSE, items |-> <<>>]

\* v2Re knows neither a condition nor "!="; v4Re does not know ";".
FitsV2(line) == ~line.arrow /\ line.src = NoText /\ line.dst.op = "="
FitsV4(line) ==
  line.arrow /\ \A text \in {line.src, line.dst} : text.sep = ";" => Len(text.vals) < 2

\* parseRouteItem: version 4 has no comments, another version not even blanks.
ParseRouteItem(line, version) ==
  CASE version = "2.0" /\ line.kind # "item" -> Nothing
    [] version = "2.0" /\ line.kind = "item" ->
         IF ~FitsV2(line) THEN Unknown
         ELSE [ok |-> TRUE,
               items |-> <<[src |-> NoMatch, dst |-> TextMatch(line.dst, ";")]>>]
    [] version = "4.0" /\ line.kind = "blank" -> Nothing
    [] version = "4.0" /\ line.kind = "item" /\ FitsV4(line) ->
         [ok |-> TRUE,
          items |-> <<[src |-> TextMatch(line.src, ","), dst |-> TextMatch(line.dst, ",")]>>]
    [] OTHER -> Unknown

\* Parse: the lines that can be read, and whether all could.
ParseRoute(lines, version) ==
  LET parsed == [i \in DOMAIN lines |-> ParseRouteItem(lines[i], version)] IN
  [cfg |-> [version |-> version,
            items |-> FlattenSeq([i \in DOMAIN lines |-> parsed[i].items])],
   ok |-> \A i \in DOMAIN lines : parsed[i].ok]

\* ServiceNode.UnmarshalJSON: the first of the three names of the time and of the
\* two of the address; parseZKData adds the name of the node and the version.
NodeOf(json, path) ==
  LET time == SelectSeq(<<json.startTime, json.time, json.start_time>>,
                        LAMBDA t : t # "")
      host == IF json.address # "" THEN json.address ELSE json.report_ip IN
  [ok |-> time = <<>> \/ time[1] # "bad",
   node |-> [nodeName |-> path[Len(path)],
             apiVersion |-> IF path[1] = "biz" THEN "4.0" ELSE "2.0",
             host |-> host, startTime |-> IF time = <<>> THEN "" ELSE time[1]]]
=============================================================================
