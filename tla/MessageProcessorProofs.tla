----------------------- MODULE MessageProcessorProofs -----------------------
(***************************************************************************)
(* Theorems about MessageProcessor, for messages of any pieces and length   *)
(* and for any topic types.                                                 *)
(***************************************************************************)
EXTENDS MessageProcessor, SequenceTheorems, TLAPS

(* Piece i is the last of the first n to give key a value.                  *)
LastOf(i, key, n) ==
    /\ WellFormed(message[i])
    /\ Trim(message[i].left) = key
    /\ \A j \in (i + 1)..n : WellFormed(message[j]) => Trim(message[j].left) # key

(* What parse has made of the pieces before at.                             *)
ParamsRead ==
    /\ \A i \in 1..(at - 1) :
          WellFormed(message[i]) => Trim(message[i].left) \in DOMAIN params
    /\ \A key \in DOMAIN params :
          \E i \in 1..(at - 1) : /\ LastOf(i, key, at - 1)
                                 /\ params[key] = Trim(message[i].right)

Word == Id \cup {""}

MessageInv ==
    /\ TypeOK
    /\ ParamsRead
    /\ phase = "waiting" => /\ message = <<>> /\ at = 1
                            /\ params = [k \in {} |-> Nothing] /\ calls = <<>>
    /\ phase = "parsing" => calls = <<>>

-----------------------------------------------------------------------------
(* Texts.                                                                   *)

LEMMA TrimKeeps ==
  ASSUME NEW text, NEW w, w # "", w # " "
  PROVE  /\ DOMAIN Trim(text) = DOMAIN text
         /\ \A k \in DOMAIN text : Trim(text)[k] = w <=> text[k] = w
  BY DEF Trim

(* What splitString makes of a trimmed text: its words, and no blank.       *)
LEMMA Split ==
  ASSUME NEW text
  PROVE  /\ \A k \in DOMAIN SplitString(Trim(text)) : SplitString(Trim(text))[k] # ""
         /\ \A w : w # "" /\ w # " " =>
               ((\E k \in DOMAIN SplitString(Trim(text)) : SplitString(Trim(text))[k] = w)
                  <=> \E k \in DOMAIN text : text[k] = w)
<1> DEFINE t == Trim(text)
           f == SplitString(t)
<1>1. /\ DOMAIN f = {j \in DOMAIN t : Trim(t)[j] # ""}
      /\ \A k \in DOMAIN f : f[k] = Trim(t)[k]
  BY DEF SplitString
<1>2. ASSUME NEW w, w # "", w # " "
      PROVE  (\E k \in DOMAIN f : f[k] = w) <=> \E k \in DOMAIN text : text[k] = w
  <2>1. DOMAIN t = DOMAIN text /\ \A k \in DOMAIN text : t[k] = w <=> text[k] = w
    BY <1>2, TrimKeeps
  <2>2. \A k \in DOMAIN t : Trim(t)[k] = w <=> t[k] = w
    BY <1>2, TrimKeeps
  <2> HIDE DEF t, f
  <2> QED BY <1>1, <1>2, <2>1, <2>2
<1>3. \A k \in DOMAIN f : f[k] # ""
  BY <1>1
<1> QED BY <1>2, <1>3

LEMMA OneBlank == ASSUME NEW w PROVE (\E k \in DOMAIN Nothing : Nothing[k] = w) <=> w = ""
<1> DEFINE blank == ""
<1>1. Nothing = <<blank>>
  BY DEF Nothing
<1> HIDE DEF blank
<1>2. (\E k \in DOMAIN Nothing : Nothing[k] = w) <=> w = blank
  BY <1>1
<1> QED BY <1>2 DEF blank

-----------------------------------------------------------------------------
(* parse.                                                                   *)

LEMMA InitMessage == Init => MessageInv
<1> SUFFICES ASSUME Init PROVE MessageInv
  OBVIOUS
<1>1. message \in Seq(Piece) /\ Len(message) = 0 /\ DOMAIN calls = {}
  BY EmptySeq DEF Init
<1>2. TypeOK
  BY <1>1, BoundAssumption DEF Init, TypeOK
<1>3. ParamsRead
  BY DEF Init, ParamsRead
<1> QED BY <1>2, <1>3 DEF MessageInv, Init

LEMMA ReceiveKeeps == MessageInv /\ Receive => MessageInv'
<1> SUFFICES ASSUME MessageInv, Receive PROVE MessageInv'
  OBVIOUS
<1>1. PICK n \in 0..MaxLen : message' \in [1..n -> Piece]
  BY DEF Receive
<1>2. n \in Nat /\ message' \in Seq(Piece) /\ Len(message') = n
  BY <1>1, BoundAssumption
<1>3. /\ phase' = "parsing" /\ UNCHANGED <<at, params, calls>>
      /\ at = 1 /\ params = [k \in {} |-> Nothing] /\ calls = <<>>
  BY DEF Receive, MessageInv
<1>4. TypeOK'
  BY <1>2, <1>3, BoundAssumption DEF TypeOK
<1>5. ParamsRead'
  BY <1>3 DEF ParamsRead
<1> QED BY <1>3, <1>4, <1>5 DEF MessageInv

LEMMA PieceAt ==
  ASSUME MessageInv, Parsing
  PROVE  /\ at \in 1..Len(message) /\ Len(message) \in Nat /\ message[at] \in Piece
         /\ message \in Seq(Piece)
         /\ at + 1 - 1 = at /\ at \in Nat
BY ElementOfSeq, LenProperties DEF MessageInv, TypeOK, Parsing

LEMMA SkipKeeps == MessageInv /\ Skip => MessageInv'
<1> SUFFICES ASSUME MessageInv, Skip PROVE MessageInv'
  OBVIOUS
<1>1. /\ at \in 1..Len(message) /\ Len(message) \in Nat /\ at' = at + 1 /\ at' - 1 = at
      /\ UNCHANGED <<phase, message, params, calls>> /\ phase = "parsing"
      /\ ~WellFormed(message[at])
  BY PieceAt DEF Skip, Parsing, WellFormed
<1>2. TypeOK'
  BY <1>1 DEF MessageInv, TypeOK
<1>3. \A i \in 1..at : i = at \/ i \in 1..(at - 1)
  BY <1>1
<1>4. \A i \in 1..(at' - 1) : WellFormed(message'[i]) => Trim(message'[i].left) \in DOMAIN params'
  BY <1>1, <1>3 DEF MessageInv, ParamsRead
<1>5. ASSUME NEW key \in DOMAIN params'
      PROVE  \E i \in 1..(at' - 1) : LastOf(i, key, at - 1)' /\ params'[key] = Trim(message'[i].right)
  <2>1. PICK i \in 1..(at - 1) : LastOf(i, key, at - 1) /\ params[key] = Trim(message[i].right)
    BY <1>1, <1>5 DEF MessageInv, ParamsRead
  <2>2. i \in 1..(at' - 1)
    BY <1>1, <2>1
  <2>3. \A j \in (i + 1)..at : j = at \/ j \in (i + 1)..(at - 1)
    BY <1>1, <2>1
  <2>4. LastOf(i, key, at - 1)'
    BY <1>1, <2>1, <2>3 DEF LastOf, WellFormed
  <2> QED BY <1>1, <2>1, <2>2, <2>4
<1>6. ParamsRead'
  BY <1>4, <1>5 DEF ParamsRead
<1> QED BY <1>1, <1>2, <1>6 DEF MessageInv

LEMMA PutKeeps == MessageInv /\ Put => MessageInv'
<1> SUFFICES ASSUME MessageInv, Put PROVE MessageInv'
  OBVIOUS
<1> DEFINE p == message[at]
           new == Trim(p.left)
<1>1. /\ at \in 1..Len(message) /\ Len(message) \in Nat /\ at' = at + 1 /\ at' - 1 = at
      /\ UNCHANGED <<phase, message, calls>> /\ phase = "parsing"
      /\ p \in Piece /\ WellFormed(p) /\ new # Nothing
  BY PieceAt DEF Put, Parsing, WellFormed
<1>2. /\ DOMAIN params' = DOMAIN params \cup {new}
      /\ params'[new] = Trim(p.right)
      /\ \A key \in DOMAIN params : key # new => params'[key] = params[key]
  BY DEF Put, WithPair
<1>3. TypeOK'
  BY <1>1, <1>2 DEF MessageInv, TypeOK
<1>4. \A i \in 1..at : i = at \/ i \in 1..(at - 1)
  BY <1>1
<1>5. \A i \in 1..(at' - 1) : WellFormed(message'[i]) => Trim(message'[i].left) \in DOMAIN params'
  BY <1>1, <1>2, <1>4 DEF MessageInv, ParamsRead
<1>6. ASSUME NEW key \in DOMAIN params'
      PROVE  \E i \in 1..(at' - 1) : LastOf(i, key, at - 1)' /\ params'[key] = Trim(message'[i].right)
  <2>1. CASE key = new
    <3>1. PICK i \in 1..(at' - 1) : i = at
      BY <1>1
    <3>2. (i + 1)..at = {}
      BY <1>1, <3>1
    <3>3. LastOf(i, key, at - 1)'
      BY <1>1, <2>1, <3>1, <3>2 DEF LastOf, WellFormed
    <3> QED BY <1>1, <1>2, <2>1, <3>1, <3>3
  <2>2. CASE key # new
    <3>1. PICK i \in 1..(at - 1) : LastOf(i, key, at - 1) /\ params[key] = Trim(message[i].right)
      BY <1>2, <1>6, <2>2 DEF MessageInv, ParamsRead
    <3>2. i \in 1..(at' - 1)
      BY <1>1, <3>1
    <3>3. \A j \in (i + 1)..at : j = at \/ j \in (i + 1)..(at - 1)
      BY <1>1, <3>1
    <3>4. LastOf(i, key, at - 1)'
      BY <1>1, <2>2, <3>1, <3>3 DEF LastOf, WellFormed
    <3> QED BY <1>1, <1>2, <1>6, <2>2, <3>1, <3>2, <3>4
  <2> QED BY <2>1, <2>2
<1>7. ParamsRead'
  BY <1>5, <1>6 DEF ParamsRead
<1> QED BY <1>1, <1>3, <1>7 DEF MessageInv

LEMMA ForgetKeeps == MessageInv /\ Forget => MessageInv'
<1> SUFFICES ASSUME MessageInv, Forget PROVE MessageInv'
  OBVIOUS
<1>1. /\ phase' = "waiting" /\ message' = <<>> /\ at' = 1
      /\ params' = [k \in {} |-> Nothing] /\ calls' = <<>>
  BY DEF Forget
<1>2. message' \in Seq(Piece) /\ Len(message') = 0 /\ DOMAIN calls' = {}
  BY <1>1, EmptySeq
<1>3. TypeOK'
  BY <1>1, <1>2, BoundAssumption DEF TypeOK
<1>4. ParamsRead'
  BY <1>1 DEF ParamsRead
<1> QED BY <1>1, <1>3, <1>4 DEF MessageInv

-----------------------------------------------------------------------------
(* What is called.                                                          *)

LEMMA EachIs ==
  ASSUME NEW method
  PROVE  /\ DOMAIN Each(method) = DOMAIN BuildTopic
         /\ \A k \in DOMAIN Each(method) :
               Each(method)[k] = [method |-> method, arg |-> BuildTopic[k]]
  BY DEF Each

LEMMA ActionCalls ==
  /\ \A k \in DOMAIN DoAction : DoAction[k].method \in Method
  /\ \A k \in DOMAIN DoAction :
        DoAction[k].method = "subscribeTopic" => Param("action") = <<"subscribe">>
  /\ Param("action") = <<"subscribe">> => DoAction = Each("subscribeTopic")
<1>1. <<"subscribe">> # <<"unsubscribe">> /\ <<"subscribe">> # <<"unsubscribeAll">>
      /\ <<"subscribe">> # <<"unsubscribeType">> /\ <<"unsubscribe">> # <<"unsubscribeAll">>
      /\ <<"unsubscribe">> # <<"unsubscribeType">> /\ <<"unsubscribeAll">> # <<"unsubscribeType">>
  OBVIOUS
<1>2. CASE Param("action") = <<"subscribe">>
  <2>1. DoAction = Each("subscribeTopic")
    BY <1>1, <1>2 DEF DoAction
  <2> QED BY <1>2, <2>1, EachIs DEF Method
<1>3. CASE Param("action") = <<"unsubscribe">>
  <2>1. DoAction = Each("unsubscribeTopic")
    BY <1>1, <1>3 DEF DoAction
  <2> QED BY <1>1, <1>3, <2>1, EachIs DEF Method
<1>4. CASE Param("action") = <<"unsubscribeAll">>
  <2>1. DoAction = <<[method |-> "unsubscribeAllTopic", arg |-> <<>>]>>
    BY <1>1, <1>4 DEF DoAction
  <2> QED BY <1>1, <1>4, <2>1 DEF Method
<1>5. CASE Param("action") = <<"unsubscribeType">>
  <2>1. \/ DoAction = <<[method |-> "unsubscribeTypeTopic", arg |-> Param("type")]>>
        \/ DoAction = <<>>
    BY <1>1, <1>5 DEF DoAction
  <2> QED BY <1>1, <1>5, <2>1 DEF Method
<1>6. CASE /\ Param("action") # <<"subscribe">> /\ Param("action") # <<"unsubscribe">>
           /\ Param("action") # <<"unsubscribeAll">> /\ Param("action") # <<"unsubscribeType">>
  <2>1. DoAction = <<>>
    BY <1>6 DEF DoAction
  <2> QED BY <1>6, <2>1 DEF Method
<1> QED BY <1>2, <1>3, <1>4, <1>5, <1>6

LEMMA StopKeeps ==
  MessageInv /\ (Throw \/ AnswerHealthCheck \/ Act) => MessageInv'
<1> SUFFICES ASSUME MessageInv, Throw \/ AnswerHealthCheck \/ Act PROVE MessageInv'
  OBVIOUS
<1>1. UNCHANGED <<message, at, params>> /\ phase' \in {"thrown", "returned"}
  BY DEF Throw, AnswerHealthCheck, Act
<1>2. \A k \in DOMAIN calls' : calls'[k].method \in Method
  <2>1. CASE Throw
    BY <2>1 DEF Throw, MessageInv, TypeOK
  <2>2. CASE AnswerHealthCheck
    BY <2>2 DEF AnswerHealthCheck, Method
  <2>3. CASE Act
    <3>1. calls' = DoAction \/ calls' = <<>>
      BY <2>3 DEF Act
    <3> QED BY <3>1, ActionCalls
  <2> QED BY <2>1, <2>2, <2>3
<1>3. TypeOK'
  BY <1>1, <1>2 DEF MessageInv, TypeOK
<1>4. ParamsRead'
  BY <1>1 DEF MessageInv, ParamsRead, LastOf, WellFormed
<1> QED BY <1>1, <1>3, <1>4 DEF MessageInv

(* Every step of onMessage keeps the invariant (MessageProcessor.java:39-91). *)
THEOREM MessageNext == MessageInv /\ [Next]_vars => MessageInv'
<1> SUFFICES ASSUME MessageInv, [Next]_vars PROVE MessageInv'
  OBVIOUS
<1>1. CASE Receive
  BY <1>1, ReceiveKeeps
<1>2. CASE Skip
  BY <1>2, SkipKeeps
<1>3. CASE Put
  BY <1>3, PutKeeps
<1>4. CASE Throw \/ AnswerHealthCheck \/ Act
  BY <1>4, StopKeeps
<1>5. CASE Forget
  BY <1>5, ForgetKeeps
<1>6. CASE UNCHANGED vars
  BY <1>6 DEF vars, MessageInv, TypeOK, ParamsRead, LastOf, WellFormed
<1> QED BY <1>1, <1>2, <1>3, <1>4, <1>5, <1>6 DEF Next

(* The invariant holds always: while parse runs, the map has of each key    *)
(* the value of the last well-formed piece so far (MessageProcessor.java:   *)
(* 75-91).                                                                  *)
THEOREM MessageInvariance == Spec => []MessageInv
BY InitMessage, MessageNext, PTL DEF Spec

LEMMA InvMessageTypes == MessageInv => TypeOK
BY DEF MessageInv

(* The types, and that no parameter is without a name (MessageProcessor.java: *)
(* 84-88).                                                                  *)
THEOREM MessageTypes == Spec => []TypeOK
BY MessageInvariance, InvMessageTypes, PTL

-----------------------------------------------------------------------------
(* What a message asks for.                                                 *)

(* When parse is done the map is what the message says.                     *)
LEMMA MapIsMessage ==
  ASSUME MessageInv, Parsed, NEW word
  PROVE  /\ \A value : Gives(word, value) <=> Has(word) /\ Param(word) = value
         /\ Has(word) => \E p \in Piece : Param(word) = Trim(p.right)
         /\ Mentions(word) <=> Has(word)
<1>1. /\ at - 1 = Len(message) /\ Len(message) \in Nat /\ message \in Seq(Piece)
  BY LenProperties DEF Parsed, MessageInv, TypeOK
<1>2. ParamsRead
  BY DEF MessageInv
<1>3. ASSUME Has(word)
      PROVE  \E i \in 1..Len(message) : LastOf(i, <<word>>, Len(message))
                                          /\ Param(word) = Trim(message[i].right)
  BY <1>1, <1>2, <1>3 DEF ParamsRead, Has, Param
<1>4. ASSUME Has(word) PROVE Gives(word, Param(word)) /\ \E p \in Piece : Param(word) = Trim(p.right)
  <2>1. PICK i \in 1..Len(message) : /\ LastOf(i, <<word>>, Len(message))
                                     /\ Param(word) = Trim(message[i].right)
    BY <1>3, <1>4
  <2>2. message[i] \in Piece
    BY <1>1, <2>1, ElementOfSeq
  <2> QED BY <2>1, <2>2 DEF Gives, LastOf
<1>5. ASSUME NEW value, Gives(word, value) PROVE Has(word) /\ Param(word) = value
  <2>1. PICK i \in 1..Len(message) : LastOf(i, <<word>>, Len(message)) /\ value = Trim(message[i].right)
    BY <1>5 DEF Gives, LastOf
  <2>2. Has(word)
    BY <1>1, <1>2, <2>1 DEF ParamsRead, LastOf, Has
  <2>3. PICK j \in 1..Len(message) : /\ LastOf(j, <<word>>, Len(message))
                                     /\ Param(word) = Trim(message[j].right)
    BY <1>3, <2>2
  <2>4. ~(i < j)
    <3>1. i < j => j \in (i + 1)..Len(message)
      BY <1>1, <2>1, <2>3
    <3> QED BY <2>1, <2>3, <3>1 DEF LastOf
  <2>5. ~(j < i)
    <3>1. j < i => i \in (j + 1)..Len(message)
      BY <1>1, <2>1, <2>3
    <3> QED BY <2>1, <2>3, <3>1 DEF LastOf
  <2>6. i = j
    BY <1>1, <2>1, <2>3, <2>4, <2>5
  <2> QED BY <2>1, <2>2, <2>3, <2>6
<1> QED BY <1>4, <1>5 DEF Mentions

(* The topics of a message.                                                 *)
LEMMA TopicsAsked ==
  ASSUME MessageInv, Parsed, NEW ty \in DOMAIN Prefix, NEW w \in Word
  PROVE  (\E k \in DOMAIN BuildTopic : BuildTopic[k] = <<Prefix[ty], w>>)
         <=> /\ Gives("type", ty)
             /\ \/ w = "" /\ ~Mentions("id")
                \/ w # "" /\ \E p \in Piece :
                      /\ Gives("id", Trim(p.right))
                      /\ \E f \in DOMAIN p.right : p.right[f] = w
<1>1. /\ \A value : Gives("type", value) <=> Has("type") /\ Param("type") = value
      /\ \A value : Gives("id", value) <=> Has("id") /\ Param("id") = value
      /\ Mentions("id") <=> Has("id")
      /\ Has("id") => \E p \in Piece : Param("id") = Trim(p.right)
  BY MapIsMessage
<1>2. w # "" => w # " "
  BY IdAssumption DEF Word
<1>3. CASE ~Has("type") \/ Param("type") \notin DOMAIN Prefix
  <2>1. BuildTopic = <<>>
    BY <1>3 DEF BuildTopic
  <2>2. ~Gives("type", ty)
    BY <1>1, <1>3
  <2>3. DOMAIN BuildTopic = {}
    BY <2>1
  <2> QED BY <2>2, <2>3
<1>4. CASE Has("type") /\ Param("type") \in DOMAIN Prefix
  <2> DEFINE ids == IF Has("id") THEN SplitString(Param("id")) ELSE Nothing
  <2>1. /\ DOMAIN BuildTopic = DOMAIN ids
        /\ \A k \in DOMAIN ids : BuildTopic[k] = <<Prefix[Param("type")], ids[k]>>
    BY <1>4 DEF BuildTopic
  <2>2. Prefix[Param("type")] = Prefix[ty] <=> Gives("type", ty)
    BY <1>1, <1>4, PrefixAssumption
  <2>3. (\E k \in DOMAIN ids : ids[k] = w)
        <=> \/ w = "" /\ ~Mentions("id")
            \/ w # "" /\ \E p \in Piece :
                  /\ Gives("id", Trim(p.right))
                  /\ \E f \in DOMAIN p.right : p.right[f] = w
    <3>1. CASE ~Has("id")
      <4>1. ids = Nothing
        BY <3>1
      <4> HIDE DEF ids
      <4>2. (\E k \in DOMAIN ids : ids[k] = w) <=> w = ""
        BY <4>1, OneBlank
      <4> QED BY <1>1, <3>1, <4>2
    <3>2. CASE Has("id")
      <4>1. PICK p \in Piece : Param("id") = Trim(p.right)
        BY <1>1, <3>2
      <4>2. \A k \in DOMAIN ids : ids[k] # ""
        BY <3>2, <4>1, Split
      <4>3. ASSUME NEW q \in Piece, Gives("id", Trim(q.right)), w # ""
            PROVE  (\E k \in DOMAIN ids : ids[k] = w) <=> \E f \in DOMAIN q.right : q.right[f] = w
        <5>1. ids = SplitString(Trim(q.right))
          BY <1>1, <3>2, <4>3
        <5>2. w # "" /\ w # " "
          BY <1>2, <4>3
        <5>3. /\ DOMAIN ids = DOMAIN SplitString(Trim(q.right))
              /\ \A k \in DOMAIN ids : ids[k] = SplitString(Trim(q.right))[k]
          BY <5>1
        <5>4. (\E k \in DOMAIN SplitString(Trim(q.right)) : SplitString(Trim(q.right))[k] = w)
              <=> \E f \in DOMAIN q.right : q.right[f] = w
          BY <5>2, Split
        <5> HIDE DEF ids
        <5> QED BY <5>3, <5>4
      <4>4. Gives("id", Trim(p.right))
        BY <1>1, <3>2, <4>1
      <4> HIDE DEF ids
      <4>5. CASE w = ""
        BY <1>1, <3>2, <4>2, <4>5
      <4>6. CASE w # ""
        BY <4>1, <4>3, <4>4, <4>6
      <4> QED BY <4>5, <4>6
    <3> QED BY <3>1, <3>2
  <2> HIDE DEF ids
  <2>4. (\E k \in DOMAIN BuildTopic : BuildTopic[k] = <<Prefix[ty], w>>)
        <=> Prefix[Param("type")] = Prefix[ty] /\ \E k \in DOMAIN ids : ids[k] = w
    BY <2>1
  <2> QED BY <2>2, <2>3, <2>4
<1> QED BY <1>3, <1>4

LEMMA CallsAsked ==
  ASSUME MessageInv, Next, phase = "parsing", phase' = "returned",
         NEW ty \in DOMAIN Prefix, NEW w \in Word
  PROVE  (\E k \in DOMAIN calls' :
             calls'[k] = [method |-> "subscribeTopic", arg |-> <<Prefix[ty], w>>])
         <=> /\ Gives("action", <<"subscribe">>)
             /\ Gives("type", ty)
             /\ ~Mentions("health_check")
             /\ \/ w = "" /\ ~Mentions("id")
                \/ w # "" /\ \E p \in Piece :
                      /\ Gives("id", Trim(p.right))
                      /\ \E f \in DOMAIN p.right : p.right[f] = w
<1> DEFINE asked == \/ w = "" /\ ~Mentions("id")
                    \/ w # "" /\ \E p \in Piece :
                          /\ Gives("id", Trim(p.right))
                          /\ \E f \in DOMAIN p.right : p.right[f] = w
           call == [method |-> "subscribeTopic", arg |-> <<Prefix[ty], w>>]
<1>1. Parsed /\ (AnswerHealthCheck \/ Act)
  BY DEF Next, Receive, Skip, Put, Throw, Forget, AnswerHealthCheck, Act
<1>2. /\ Mentions("health_check") <=> Has("health_check")
      /\ Gives("action", <<"subscribe">>) <=> Has("action") /\ Param("action") = <<"subscribe">>
  BY <1>1, MapIsMessage
<1>3. (\E k \in DOMAIN BuildTopic : BuildTopic[k] = <<Prefix[ty], w>>) <=> Gives("type", ty) /\ asked
  BY <1>1, TopicsAsked
<1>4. call.method = "subscribeTopic" /\ call.arg = <<Prefix[ty], w>>
  OBVIOUS
<1>5. (\E k \in DOMAIN calls' : calls'[k] = call)
      <=> Gives("action", <<"subscribe">>) /\ Gives("type", ty) /\ ~Mentions("health_check") /\ asked
  <2> HIDE DEF asked
  <2>1. CASE AnswerHealthCheck
    <3>1. calls' = <<[method |-> "sendText", arg |-> <<>>]>> /\ Has("health_check")
      BY <2>1 DEF AnswerHealthCheck
    <3>2. \A k \in DOMAIN calls' : calls'[k].method = "sendText"
      BY <3>1
    <3> HIDE DEF call
    <3> QED BY <1>2, <1>4, <3>1, <3>2
  <2>2. CASE Act /\ (~Has("action") \/ Param("action") # <<"subscribe">>)
    <3>1. calls' = DoAction \/ calls' = <<>>
      BY <2>2 DEF Act
    <3>2. ~Has("action") => calls' = <<>>
      BY <2>2 DEF Act
    <3>3. \A k \in DOMAIN calls' : calls'[k].method # "subscribeTopic"
      BY <2>2, <3>1, <3>2, ActionCalls
    <3> HIDE DEF call
    <3> QED BY <1>2, <1>4, <2>2, <3>3
  <2>3. CASE Act /\ Has("action") /\ Param("action") = <<"subscribe">>
    <3>1. calls' = Each("subscribeTopic") /\ ~Has("health_check")
      BY <2>3, ActionCalls DEF Act
    <3>2. (\E k \in DOMAIN calls' : calls'[k] = call)
          <=> \E k \in DOMAIN BuildTopic : BuildTopic[k] = <<Prefix[ty], w>>
      <4>1. DOMAIN calls' = DOMAIN BuildTopic
        BY <3>1, EachIs
      <4>2. \A k \in DOMAIN calls' : calls'[k] = [method |-> "subscribeTopic", arg |-> BuildTopic[k]]
        BY <3>1, EachIs
      <4> QED BY <4>1, <4>2
    <3> HIDE DEF call
    <3> QED BY <1>2, <1>3, <2>3, <3>1, <3>2
  <2> QED BY <1>1, <2>1, <2>2, <2>3
<1> QED BY <1>5

(* Whatever order, repetition or malformed pieces a message has, a topic is *)
(* subscribed exactly when the last word on each parameter asks for it      *)
(* (README.md:83-92, Topic.java:11-35).                                     *)
THEOREM SubscribesAsAsked == Spec => SubscribesWhatIsAsked
<1>1. MessageInv /\ [Next]_vars =>
        [phase = "parsing" /\ phase' = "returned" =>
          \A ty \in DOMAIN Prefix, w \in Id \cup {""} :
              (\E k \in DOMAIN calls' :
                  calls'[k] = [method |-> "subscribeTopic", arg |-> <<Prefix[ty], w>>])
              <=> /\ Gives("action", <<"subscribe">>)
                  /\ Gives("type", ty)
                  /\ ~Mentions("health_check")
                  /\ \/ w = "" /\ ~Mentions("id")
                     \/ w # "" /\ \E p \in Piece :
                           /\ Gives("id", Trim(p.right))
                           /\ \E f \in DOMAIN p.right : p.right[f] = w]_vars
  BY CallsAsked DEF Word
<1> QED BY <1>1, MessageInvariance, PTL DEF Spec, SubscribesWhatIsAsked
=============================================================================
