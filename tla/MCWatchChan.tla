---------------------------- MODULE MCWatchChan ----------------------------
(* Small instances of one registry watch.                                  *)
EXTENDS WatchChan

CONSTANTS a, b, nil \* model values

KeysOne == {1}
KeysTwo == {1, 2}
ValuesTwo == {a, b}
PassingA == {a}

\* Of a type that a fits and b does not; or of one that both fit, filtered,
\* from a full sync or from revision 1.
Feeds == {[rev |-> 0, acceptAll |-> TRUE, undecodable |-> {b}]} \cup
         {[rev |-> r, acceptAll |-> FALSE, undecodable |-> {}] : r \in {0, 1}}
\* Filtered or not, b fits the type or not.
AllKinds == {[rev |-> 0, acceptAll |-> all, undecodable |-> bad] :
               all \in BOOLEAN, bad \in {{}, {b}}}
=============================================================================
