--------------------------- MODULE MCTopicManager ---------------------------
(* Instances of TopicManager for TLC. *)
EXTENDS TopicManager, TLC

CONSTANTS n1, n2   \* names

(* Every name has the type "1", as with the one constant of TopicType. *)
OneType == [n \in Name |-> "1"]

(* Two names of two types, as in TopicManagerTest.java:103-121. *)
TwoTypes == [n \in Name |-> IF n = n1 THEN "1" ELSE "2"]

Alike == Permutations(Session) \cup Permutations(Topic) \cup Permutations(Handler)
=============================================================================
