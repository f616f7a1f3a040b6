-------------------------- MODULE MessageProcessor --------------------------
(***************************************************************************)
(* MessageProcessor.onMessage and parse (ws/MessageProcessor.java) with     *)
(* Topic.buildTopic and splitString (ws/Topic.java) and the four actions of *)
(* ws/action/: from the text of a web socket message to the calls it makes  *)
(* of the topic manager. One thread runs one message; what several do to    *)
(* the manager is TopicManager's matter.                                    *)
(*                                                                         *)
(* A text is the sequence of its fields between commas, and a field is a    *)
(* word, "" or " ": so "1, ,2" is <<"1", " ", "2">>. A piece is what stands *)
(* between two "&": a text, and another one after the first "=".            *)
(***************************************************************************)
EXTENDS Naturals, Sequences

CONSTANTS
    Id,        \* the words that serve as topic ids
    Piece,     \* the pieces [eqs, left, right] a message is made of
    MaxLen,    \* bound: pieces in one message
    Prefix     \* TopicType: the prefix of the topics of each type

ASSUME PieceAssumption ==
    \A p \in Piece :
        p.eqs \in 0..2 /\ {p.left, p.right} \subseteq Seq(STRING)

ASSUME IdAssumption == Id \subseteq STRING \ {"", " "}

ASSUME BoundAssumption == MaxLen \in Nat

(* A topic is of one type.                                                  *)
ASSUME PrefixAssumption ==
    \A t, u \in DOMAIN Prefix : Prefix[t] = Prefix[u] => t = u

Nothing == <<"">>

(* String.trim.                                                             *)
Trim(text) == [k \in DOMAIN text |-> IF text[k] = " " THEN "" ELSE text[k]]

VARIABLES
    phase,     \* where onMessage is
    message,   \* the pieces of the message
    at,        \* the piece parse looks at
    params,    \* the map it fills
    calls      \* what the message had the manager, or the session, do, at the
               \* places of the fields

vars == <<phase, message, at, params, calls>>

Method == {"sendText", "subscribeTopic", "unsubscribeTopic", "unsubscribeAllTopic",
           "unsubscribeTypeTopic"}

(* The types, and that no parameter is without a name.                      *)
TypeOK ==
    /\ phase \in {"waiting", "parsing", "thrown", "returned"}
    /\ message \in Seq(Piece) /\ Len(message) <= MaxLen
    /\ at \in 1..(Len(message) + 1)
    /\ DOMAIN params \subseteq {Trim(p.left) : p \in Piece} \ {Nothing}
    /\ \A k \in DOMAIN calls : calls[k].method \in Method

Init ==
    /\ phase = "waiting"
    /\ message = <<>>
    /\ at = 1
    /\ params = [k \in {} |-> Nothing]
    /\ calls = <<>>

Receive ==
    /\ phase = "waiting"
    /\ phase' = "parsing"
    /\ \E n \in 0..MaxLen : message' \in [1..n -> Piece]
    /\ UNCHANGED <<at, params, calls>>

-----------------------------------------------------------------------------
(* parse.                                                                   *)

(* Mutant: a key that is there keeps its value.                             *)
WithPair_firstWins(map, key, value) ==
    [k \in DOMAIN map \cup {key} |-> IF k \in DOMAIN map THEN map[k] ELSE value]

WithPair(map, key, value) ==
    [k \in DOMAIN map \cup {key} |-> IF k = key THEN value ELSE map[k]]

Parsing == phase = "parsing" /\ at <= Len(message)

Skip ==
    /\ Parsing
    /\ message[at].eqs # 1 \/ Trim(message[at].left) = Nothing
    /\ message[at].eqs = 1 => message[at].left # Nothing \/ message[at].right # Nothing
    /\ at' = at + 1
    /\ UNCHANGED <<phase, message, params, calls>>

(* Mutant: the key is not looked at.                                        *)
Put_anyKey ==
    /\ Parsing
    /\ message[at].eqs = 1
    /\ message[at].left # Nothing \/ message[at].right # Nothing
    /\ at' = at + 1
    /\ params' = WithPair(params, Trim(message[at].left), Trim(message[at].right))
    /\ UNCHANGED <<phase, message, calls>>

Put ==
    /\ Parsing
    /\ message[at].eqs = 1
    /\ Trim(message[at].left) # Nothing
    /\ at' = at + 1
    /\ params' = WithPair(params, Trim(message[at].left), Trim(message[at].right))
    /\ UNCHANGED <<phase, message, calls>>

(* "=".split("=") is an array without elements: keyValue[0] throws.         *)
Throw ==
    /\ Parsing
    /\ message[at].eqs = 1
    /\ message[at].left = Nothing
    /\ message[at].right = Nothing
    /\ phase' = "thrown"
    /\ UNCHANGED <<message, at, params, calls>>

(* onMessage is done with this message, or the container calls onError,     *)
(* which logs. Nothing of a message is left for the next one.               *)
Forget ==
    /\ phase \in {"returned", "thrown"}
    /\ phase' = "waiting"
    /\ message' = <<>>
    /\ at' = 1
    /\ params' = [k \in {} |-> Nothing]
    /\ calls' = <<>>

-----------------------------------------------------------------------------
(* The rest of onMessage.                                                   *)

Has(key) == <<key>> \in DOMAIN params

Param(key) == params[<<key>>]

(* The fields that are left, at the places where they stand.                *)
SplitString(text) == [k \in {j \in DOMAIN text : Trim(text)[j] # ""} |-> Trim(text)[k]]

(* A topic is the prefix of its type and an id, "" when none was asked for. *)
BuildTopic ==
    IF ~Has("type") \/ Param("type") \notin DOMAIN Prefix THEN <<>>
    ELSE LET prefix == Prefix[Param("type")]
             ids == IF Has("id") THEN SplitString(Param("id")) ELSE Nothing
         IN  [k \in DOMAIN ids |-> <<prefix, ids[k]>>]

Each(method) ==
    LET topics == BuildTopic IN
    [k \in DOMAIN topics |-> [method |-> method, arg |-> topics[k]]]

DoAction ==
    CASE Param("action") = <<"subscribe">> -> Each("subscribeTopic")
      [] Param("action") = <<"unsubscribe">> -> Each("unsubscribeTopic")
      [] Param("action") = <<"unsubscribeAll">> ->
            <<[method |-> "unsubscribeAllTopic", arg |-> <<>>]>>
      [] Param("action") = <<"unsubscribeType">> ->
            IF Has("type")
            THEN <<[method |-> "unsubscribeTypeTopic", arg |-> Param("type")]>>
            ELSE <<>>
      [] OTHER -> <<>>

Parsed == phase = "parsing" /\ at = Len(message) + 1

(* A health check is answered and anything else in the message is dropped.  *)
AnswerHealthCheck ==
    /\ Parsed
    /\ Has("health_check")
    /\ calls' = <<[method |-> "sendText", arg |-> <<>>]>>
    /\ phase' = "returned"
    /\ UNCHANGED <<message, at, params>>

Act ==
    /\ Parsed
    /\ ~Has("health_check")
    /\ calls' = IF Has("action") THEN DoAction ELSE <<>>
    /\ phase' = "returned"
    /\ UNCHANGED <<message, at, params>>

Next == Receive \/ Skip \/ Put \/ Throw \/ AnswerHealthCheck \/ Act \/ Forget

Spec == Init /\ [][Next]_vars

-----------------------------------------------------------------------------
(* Properties.                                                             *)

WellFormed(p) == p.eqs = 1 /\ Trim(p.left) # Nothing

(* The value a message gives a word: that of the last well-formed piece     *)
(* with the word for a key.                                                 *)
Gives(word, value) ==
    \E i \in 1..Len(message) :
        /\ WellFormed(message[i])
        /\ Trim(message[i].left) = <<word>>
        /\ value = Trim(message[i].right)
        /\ \A j \in (i + 1)..Len(message) :
              WellFormed(message[j]) => Trim(message[j].left) # <<word>>

Mentions(word) == \E p \in Piece : Gives(word, Trim(p.right))

(* Whatever order, repetition or malformed pieces a message has, a topic is *)
(* subscribed exactly when the last word on each parameter asks for it: the *)
(* action and the type, and the id among those listed, or no id at all      *)
(* (README.md:83-92, Topic.java:11-35).                                     *)
SubscribesWhatIsAsked ==
    [][phase = "parsing" /\ phase' = "returned" =>
          \A ty \in DOMAIN Prefix, w \in Id \cup {""} :
              (\E k \in DOMAIN calls' :
                  calls'[k] = [method |-> "subscribeTopic", arg |-> <<Prefix[ty], w>>])
              <=> /\ Gives("action", <<"subscribe">>)
                  /\ Gives("type", ty)
                  /\ ~Mentions("health_check")
                  /\ \/ w = "" /\ ~Mentions("id")
                     \/ w # "" /\ \E p \in Piece :
                           /\ Gives("id", Trim(p.right))
                           /\ \E f \in DOMAIN p.right : p.right[f] = w]_vars
=============================================================================
