------------------------- MODULE MCMessageProcessor -------------------------
(* An instance of MessageProcessor for TLC. *)
EXTENDS MessageProcessor

Pair(l, r) == [eqs |-> 1, left |-> l, right |-> r]

(* The requests of README.md:83-114, lists of ids with blank and missing    *)
(* fields, values that are absent or unknown, and each kind of ill-formed   *)
(* piece.                                                                   *)
Pieces ==
    {Pair(<<"action">>, <<a>>) :
        a \in {"subscribe", "unsubscribe", "unsubscribeAll", "unsubscribeType", ""}}
    \cup {Pair(<<"type">>, <<t>>) : t \in {"1", "9"}}
    \cup {Pair(<<"id">>, v) : v \in {<<"1">>, <<"1", " ", "2">>, <<"2", "">>, <<"">>}}
    \cup {Pair(<<"health_check">>, <<"1">>), Pair(<<"">>, <<"1">>),
          Pair(<<" ">>, <<"">>), Pair(<<"">>, <<"">>)}
    \cup {[eqs |-> n, left |-> <<"action">>, right |-> <<"">>] : n \in {0, 2}}

(* TopicType has one constant, of the type "1". *)
OneTopicType == [t \in {<<"1">>} |-> "topic.example.prefix."]
=============================================================================
