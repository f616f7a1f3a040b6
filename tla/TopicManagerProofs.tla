------------------------- MODULE TopicManagerProofs -------------------------
(* Theorems about TopicManager, for any sessions, names, types, objects.    *)
EXTENDS TopicManager, TLAPS

(* Initially the invariant holds: the map is empty and no thread runs.      *)
LEMMA InitAlive == Init => Alive
  BY NoneAssumption
  DEF Init, Alive, TypeOK, EntriesAlive, HandlersAlive, FiledUnderOwnKey,
      LocalsAlive, ThreadAlive, SubscribedWhileSessions, NoCall, Call,
      Operation, Location

-----------------------------------------------------------------------------
(* Steps of a thread that touch no object.                                  *)

(* A step that leaves the heap alone keeps what is said of the heap only.   *)
LEMMA HeapUnchanged ==
  ASSUME Alive, UNCHANGED heap
  PROVE  /\ EntriesAlive'
         /\ HandlersAlive'
         /\ FiledUnderOwnKey'
         /\ SubscribedWhileSessions'
  BY DEF Alive, heap, EntriesAlive, HandlersAlive, FiledUnderOwnKey,
         SubscribedWhileSessions

(* A thread that takes no step keeps its locals alive while no object goes. *)
LEMMA OtherThread ==
  ASSUME NEW u \in Thread, ThreadAlive(u), UNCHANGED <<topic, name>>,
         pc'[u] = pc[u], call'[u] = call[u]
  PROVE  ThreadAlive(u)'
  BY DEF ThreadAlive

(* A request or a close starts with the locals of its first step.           *)
LEMMA EnterStep ==
  ASSUME Alive, NEW t \in Thread, NEW o \in Operation \ {"none"},
         NEW w \in SUBSET Name, NEW l \in SUBSET (Name \cup {None}),
         NEW xs \in SUBSET Topic, Enter(t, o, w, l, xs)
  PROVE  /\ pc' \in [Thread -> Location]
         /\ call' \in [Thread -> Call]
         /\ \A u \in Thread : pc'[u] = "invoking" => call'[u].handler \in Handler
         /\ \A u \in Thread \ {t} : pc'[u] = pc[u] /\ call'[u] = call[u]
         /\ pc'[t] = "looping"
         /\ call'[t] = [op |-> o, want |-> w, left |-> l, held |-> xs, todo |-> xs,
                        cur |-> None, handler |-> None, raced |-> FALSE]
  BY DEF Alive, Enter, TypeOK, NoCall, Call, Location, Operation

(* Unsubscribe requests and onClose hold no topic yet.                      *)
LEMMA EnterInv ==
  ASSUME Alive, NEW t \in Thread, NEW o \in Operation \ {"none", "subscribe"},
         NEW w \in SUBSET Name, NEW l \in SUBSET (Name \cup {None}),
         Enter(t, o, w, l, {}), UNCHANGED heap,
         status' \in [Session -> {"open", "closing", "closed", "failed"}]
  PROVE  Alive'
<1>0. /\ pc' \in [Thread -> Location]
      /\ call' \in [Thread -> Call]
      /\ \A u \in Thread : pc'[u] = "invoking" => call'[u].handler \in Handler
      /\ \A u \in Thread \ {t} : pc'[u] = pc[u] /\ call'[u] = call[u]
      /\ pc'[t] = "looping"
      /\ call'[t] = [op |-> o, want |-> w, left |-> l, held |-> {}, todo |-> {},
                     cur |-> None, handler |-> None, raced |-> FALSE]
  <2>1. o \in Operation \ {"none"} /\ {} \in SUBSET Topic
    OBVIOUS
  <2> QED BY <2>1, EnterStep
<1>1. TypeOK'
  BY <1>0 DEF Alive, TypeOK, heap
<1>2. LocalsAlive'
  <2> SUFFICES ASSUME NEW u \in Thread PROVE ThreadAlive(u)'
    BY DEF LocalsAlive
  <2>1. CASE u = t
    BY <2>1, <1>0 DEF ThreadAlive
  <2>2. CASE u # t
    <3>1. ThreadAlive(u) /\ UNCHANGED <<topic, name>> /\ pc'[u] = pc[u] /\ call'[u] = call[u]
      BY <2>2, <1>0 DEF Alive, LocalsAlive, heap
    <3> QED BY <3>1, OtherThread
  <2> QED BY <2>1, <2>2
<1> QED BY <1>1, <1>2, HeapUnchanged DEF Alive

(* A subscribe request makes new Topic objects, free until now.             *)
LEMMA SubscribeInv ==
  ASSUME Alive, NEW s \in Session, Subscribe(s) PROVE Alive'
<1> DEFINE t == <<s, "onMessage">>
<1>a. PICK new \in (SUBSET {x \in Topic : name[x] = None}) \ {{}} :
        \E f \in [new -> Name] :
        /\ Enter(t, "subscribe", {f[x] : x \in new}, {}, new)
        /\ name' = [x \in Topic |-> IF x \in new THEN f[x] ELSE name[x]]
        /\ UNCHANGED <<key, ref, topic, sessions, subscribed, leaked, filed, status>>
  BY DEF Subscribe
<1>1. PICK f \in [new -> Name] :
        /\ Enter(t, "subscribe", {f[x] : x \in new}, {}, new)
        /\ name' = [x \in Topic |-> IF x \in new THEN f[x] ELSE name[x]]
        /\ UNCHANGED <<key, ref, topic, sessions, subscribed, leaked, filed, status>>
  BY <1>a
<1>2. t \in Thread
  BY DEF Thread
<1> DEFINE w == {f[x] : x \in new}
<1>3. w \in SUBSET Name
  OBVIOUS
<1>4. /\ pc' \in [Thread -> Location]
      /\ call' \in [Thread -> Call]
      /\ \A u \in Thread : pc'[u] = "invoking" => call'[u].handler \in Handler
      /\ \A u \in Thread \ {t} : pc'[u] = pc[u] /\ call'[u] = call[u]
      /\ pc'[t] = "looping"
      /\ call'[t] = [op |-> "subscribe", want |-> w, left |-> {}, held |-> new,
                     todo |-> new, cur |-> None, handler |-> None, raced |-> FALSE]
  <2>1. Enter(t, "subscribe", w, {}, new)
    BY <1>1
  <2>2. /\ "subscribe" \in Operation \ {"none"}
        /\ {} \in SUBSET (Name \cup {None})
        /\ new \in SUBSET Topic
    BY DEF Operation
  <2> HIDE DEF t, w
  <2> QED BY <2>1, <2>2, <1>2, <1>3, EnterStep
<1>5. \A x \in Topic : name[x] # None => name'[x] = name[x]
  BY <1>1 DEF Alive, TypeOK
<1>6. TypeOK'
  BY <1>1, <1>4 DEF Alive, TypeOK
<1>7. EntriesAlive' /\ HandlersAlive' /\ FiledUnderOwnKey' /\ SubscribedWhileSessions'
  BY <1>1, <1>5, NoneAssumption
  DEF Alive, TypeOK, EntriesAlive, HandlersAlive, FiledUnderOwnKey, SubscribedWhileSessions
<1>8. LocalsAlive'
  <2> SUFFICES ASSUME NEW u \in Thread PROVE ThreadAlive(u)'
    BY DEF LocalsAlive
  <2>1. CASE u = t
    BY <1>1, <1>4, <2>1, NoneAssumption DEF ThreadAlive
  <2>2. CASE u # t
    <3>1. ThreadAlive(u) /\ call[u] \in Call
      BY DEF Alive, LocalsAlive, TypeOK
    <3>2. pc'[u] = pc[u] /\ call'[u] = call[u]
      BY <1>4, <2>2
    <3>3. \A h \in Handler : topic[h] # None => topic[h] \in Topic /\ name[topic[h]] # None
      BY DEF Alive, TypeOK, HandlersAlive
    <3> HIDE DEF t
    <3> QED BY <1>1, <1>5, <3>1, <3>2, <3>3 DEF ThreadAlive, Call
  <2> QED BY <2>1, <2>2
<1> QED BY <1>6, <1>7, <1>8 DEF Alive
-----------------------------------------------------------------------------
(* A step of one thread that touches no object keeps the invariant when the *)
(* thread's own locals stay alive.                                          *)
LEMMA LocalStep ==
  ASSUME Alive, NEW t \in Thread, NEW l \in Location, NEW c \in Call,
         UNCHANGED heap,
         status' \in [Session -> {"open", "closing", "closed", "failed"}],
         pc' = [pc EXCEPT ![t] = l],
         call' = [call EXCEPT ![t] = c],
         l = "invoking" => c.handler \in Handler,
         ThreadAlive(t)'
  PROVE  Alive'
<1>1. TypeOK'
  BY DEF Alive, TypeOK, heap
<1>2. LocalsAlive'
  <2> SUFFICES ASSUME NEW u \in Thread, u # t PROVE ThreadAlive(u)'
    BY DEF LocalsAlive
  <2>1. /\ ThreadAlive(u)
        /\ UNCHANGED <<topic, name>>
        /\ pc'[u] = pc[u]
        /\ call'[u] = call[u]
    BY DEF Alive, TypeOK, LocalsAlive, heap
  <2> QED BY <2>1, OtherThread
<1> QED BY <1>1, <1>2, HeapUnchanged DEF Alive

(* What a closing session's status becomes is a status.                     *)
LEMMA EndStatusType ==
  ASSUME Alive, NEW t \in Thread, NEW how \in {"closed", "failed"}, EndStatus(t, how)
  PROVE  status' \in [Session -> {"open", "closing", "closed", "failed"}]
  BY DEF Alive, TypeOK, EndStatus, Thread

(* A call that ends leaves no locals.                                       *)
LEMMA EndInv ==
  ASSUME Alive, NEW t \in Thread, UNCHANGED heap,
         status' \in [Session -> {"open", "closing", "closed", "failed"}],
         pc' = [pc EXCEPT ![t] = "idle"], call' = [call EXCEPT ![t] = NoCall]
  PROVE  Alive'
<1>1. "idle" \in Location /\ NoCall \in Call
  BY DEF Location, NoCall, Call, Operation
<1>2. pc'[t] = "idle" /\ call'[t] = NoCall
  BY DEF Alive, TypeOK
<1>3. ThreadAlive(t)'
  BY <1>2 DEF ThreadAlive, NoCall
<1> QED BY <1>1, <1>3, LocalStep

LEMMA CopyThrowInv ==
  ASSUME Alive, NEW t \in Thread, CopyThrow(t) PROVE Alive'
  BY EndStatusType, EndInv DEF CopyThrow

LEMMA ReturnInv ==
  ASSUME Alive, NEW t \in Thread, Return(t) PROVE Alive'
  BY EndStatusType, EndInv DEF Return

(* A new pass forgets the topics of the one before.                         *)
LEMMA StartPassInv ==
  ASSUME Alive, NEW t \in Thread, StartPass(t) PROVE Alive'
<1>1. PICK n \in call[t].left :
        /\ pc[t] = "looping"
        /\ call[t].todo = {}
        /\ pc' = [pc EXCEPT ![t] = "copying"]
        /\ call' = [call EXCEPT ![t].left = @ \ {n}, ![t].held = {}, ![t].raced = FALSE]
        /\ UNCHANGED <<heap, status>>
  BY DEF StartPass
<1> DEFINE c == [call[t] EXCEPT !.left = @ \ {n}, !.held = {}, !.raced = FALSE]
<1>2. call[t] \in Call /\ ThreadAlive(t)
  BY DEF Alive, TypeOK, LocalsAlive
<1>3. c \in Call /\ "copying" \in Location
  BY <1>2 DEF Call, Location
<1>4. call' = [call EXCEPT ![t] = c]
  BY <1>1 DEF Alive, TypeOK
<1>5. pc'[t] = "copying" /\ call'[t] = c
  BY <1>1, <1>4 DEF Alive, TypeOK
<1>6. ThreadAlive(t)'
  <2>1. /\ c.op = call[t].op /\ c.want = call[t].want /\ c.todo = {} /\ c.held = {}
        /\ c.left \subseteq call[t].left
        /\ c.cur = call[t].cur /\ c.handler = call[t].handler
    BY <1>1, <1>2 DEF Call
  <2> HIDE DEF c
  <2> QED BY <1>1, <1>2, <1>5, <2>1 DEF ThreadAlive, heap
<1>7. status' \in [Session -> {"open", "closing", "closed", "failed"}] /\ UNCHANGED heap
  BY <1>1 DEF Alive, TypeOK
<1> HIDE DEF c
<1> QED BY <1>1, <1>3, <1>4, <1>6, <1>7, LocalStep

(* A copy holds keys of the map, which are alive.                           *)
LEMMA CopyDoneInv ==
  ASSUME Alive, NEW t \in Thread, CopyDone(t) PROVE Alive'
<1>1. PICK seen \in SUBSET Keys :
        /\ pc[t] = "copying"
        /\ pc' = [pc EXCEPT ![t] = "looping"]
        /\ call' = [call EXCEPT ![t].held = seen, ![t].todo = {x \in seen : Wanted(t, x)}]
        /\ UNCHANGED <<heap, status>>
  BY DEF CopyDone
<1> DEFINE todo == {x \in seen : Wanted(t, x)}
           c == [call[t] EXCEPT !.held = seen, !.todo = todo]
<1>2. call[t] \in Call /\ ThreadAlive(t)
  BY DEF Alive, TypeOK, LocalsAlive
<1>3. \A x \in seen : x \in Topic /\ name[x] # None
  BY NoneAssumption DEF Alive, EntriesAlive, Keys
<1>4. c \in Call /\ "looping" \in Location
  BY <1>2, <1>3 DEF Call, Location
<1>5. call' = [call EXCEPT ![t] = c]
  BY <1>1 DEF Alive, TypeOK
<1>6. pc'[t] = "looping" /\ call'[t] = c
  BY <1>1, <1>5 DEF Alive, TypeOK
<1>7. ThreadAlive(t)'
  <2>1. /\ c.op = call[t].op /\ c.want = call[t].want /\ c.left = call[t].left
        /\ c.cur = call[t].cur /\ c.handler = call[t].handler
        /\ c.held = seen /\ c.todo = todo
    BY <1>2 DEF Call
  <2>2. todo \subseteq seen /\ (call[t].op = "unsubscribeType" =>
                                    \A x \in todo : name[x] \in call[t].want)
    BY DEF Wanted
  <2> HIDE DEF c, todo
  <2> QED BY <1>1, <1>2, <1>3, <1>6, <2>1, <2>2 DEF ThreadAlive, heap
<1>8. status' \in [Session -> {"open", "closing", "closed", "failed"}] /\ UNCHANGED heap
  BY <1>1 DEF Alive, TypeOK
<1> HIDE DEF c
<1> QED BY <1>1, <1>4, <1>5, <1>7, <1>8, LocalStep

(* The handler an entry yields has a topic of the name looked up.           *)
LEMMA FetchInv ==
  ASSUME Alive, NEW t \in Thread, Fetch(t) PROVE Alive'
<1>1. PICK x \in call[t].todo :
        LET n == name[x]
            next == [call EXCEPT ![t].todo = @ \ {x}, ![t].cur = x]
        IN  /\ pc[t] = "looping"
            /\ \/ /\ ref[n] # None
                  /\ pc' = [pc EXCEPT ![t] = "invoking"]
                  /\ call' = [next EXCEPT ![t].handler = ref[n]]
               \/ /\ pc' = [pc EXCEPT ![t] = "generating"]
                  /\ call' = next
            /\ UNCHANGED <<heap, status>>
  BY DEF Fetch
<1> DEFINE n == name[x]
           miss == [call[t] EXCEPT !.todo = @ \ {x}, !.cur = x]
           hit == [call[t] EXCEPT !.todo = @ \ {x}, !.cur = x, !.handler = ref[n]]
<1>2. call[t] \in Call /\ ThreadAlive(t)
  BY DEF Alive, TypeOK, LocalsAlive
<1>3. x \in call[t].held /\ x \in Topic /\ n \in Name
  BY <1>2, NoneAssumption DEF Alive, TypeOK, ThreadAlive, Call
<1>4. status' \in [Session -> {"open", "closing", "closed", "failed"}] /\ UNCHANGED heap
  BY <1>1 DEF Alive, TypeOK
<1>5. CASE /\ ref[n] # None
           /\ pc' = [pc EXCEPT ![t] = "invoking"]
           /\ call' = [call EXCEPT ![t].todo = @ \ {x}, ![t].cur = x, ![t].handler = ref[n]]
  <2>1. ref[n] \in Handler /\ topic[ref[n]] # None /\ name[topic[ref[n]]] = n
    BY <1>3, <1>5 DEF Alive, TypeOK, EntriesAlive
  <2>2. hit \in Call /\ "invoking" \in Location /\ hit.handler \in Handler
    BY <1>2, <1>3, <2>1 DEF Call, Location
  <2>3. call' = [call EXCEPT ![t] = hit]
    BY <1>5 DEF Alive, TypeOK
  <2>4. pc'[t] = "invoking" /\ call'[t] = hit
    BY <1>5, <2>3 DEF Alive, TypeOK
  <2>5. ThreadAlive(t)'
    <3>1. /\ hit.op = call[t].op /\ hit.want = call[t].want /\ hit.left = call[t].left
          /\ hit.held = call[t].held /\ hit.todo = call[t].todo \ {x}
          /\ hit.cur = x /\ hit.handler = ref[n]
      BY <1>2 DEF Call
    <3> HIDE DEF hit
    <3> QED BY <1>1, <1>2, <1>3, <1>4, <2>1, <2>4, <3>1, NoneAssumption DEF ThreadAlive, heap
  <2> HIDE DEF hit, n
  <2> QED BY <1>4, <1>5, <2>2, <2>3, <2>5, LocalStep
<1>6. CASE /\ pc' = [pc EXCEPT ![t] = "generating"]
           /\ call' = [call EXCEPT ![t].todo = @ \ {x}, ![t].cur = x]
  <2>2. miss \in Call /\ "generating" \in Location
    BY <1>2, <1>3 DEF Call, Location
  <2>3. call' = [call EXCEPT ![t] = miss]
    BY <1>6 DEF Alive, TypeOK
  <2>4. pc'[t] = "generating" /\ call'[t] = miss
    BY <1>6, <2>3 DEF Alive, TypeOK
  <2>5. ThreadAlive(t)'
    <3>1. /\ miss.op = call[t].op /\ miss.want = call[t].want /\ miss.left = call[t].left
          /\ miss.held = call[t].held /\ miss.todo = call[t].todo \ {x}
          /\ miss.cur = x /\ miss.handler = call[t].handler
      BY <1>2 DEF Call
    <3> HIDE DEF miss
    <3> QED BY <1>1, <1>2, <1>3, <1>4, <2>4, <3>1 DEF ThreadAlive, heap
  <2> HIDE DEF miss
  <2> QED BY <1>4, <1>6, <2>2, <2>3, <2>5, LocalStep
<1>7. \/ /\ ref[n] # None
         /\ pc' = [pc EXCEPT ![t] = "invoking"]
         /\ call' = [call EXCEPT ![t].todo = @ \ {x}, ![t].cur = x, ![t].handler = ref[n]]
      \/ /\ pc' = [pc EXCEPT ![t] = "generating"]
         /\ call' = [call EXCEPT ![t].todo = @ \ {x}, ![t].cur = x]
  BY <1>1 DEF Alive, TypeOK
<1> QED BY <1>5, <1>6, <1>7
-----------------------------------------------------------------------------
(* Steps that change the heap.                                              *)

(* The handler that generateHandler answers has a topic of the loop         *)
(* variable's name, new or found once the lock is taken.                    *)
LEMMA GenerateInv ==
  ASSUME Alive, NEW t \in Thread, Generate(t) PROVE Alive'
<1> DEFINE x == call[t].cur
           n == name[x]
           found == [call[t] EXCEPT !.handler = ref[n]]
           races(u) == u # t /\ pc[u] = "copying" /\ key[n] = None
           calls(h) == [u \in Thread |->
                           IF u = t THEN [call[u] EXCEPT !.handler = h]
                           ELSE [call[u] EXCEPT !.raced = @ \/ races(u)]]
<1>1. /\ pc[t] = "generating"
      /\ pc' = [pc EXCEPT ![t] = "invoking"]
      /\ UNCHANGED <<sessions, subscribed, leaked, name, status>>
      /\ \/ /\ ref[n] # None
            /\ call' = [call EXCEPT ![t].handler = ref[n]]
            /\ UNCHANGED <<key, ref, topic, filed>>
         \/ \E h \in Handler :
              /\ ref[n] = None
              /\ topic[h] = None
              /\ topic' = [topic EXCEPT ![h] = x]
              /\ Put(t, x, h)
              /\ call' = calls(h)
  BY DEF Generate
<1>2. call[t] \in Call /\ ThreadAlive(t)
  BY DEF Alive, TypeOK, LocalsAlive
<1>3. x \in call[t].held /\ x \in Topic /\ n \in Name
  BY <1>1, <1>2, NoneAssumption DEF Alive, TypeOK, ThreadAlive, Call
<1>4. "invoking" \in Location
  BY DEF Location
<1>5. CASE /\ ref[n] # None
           /\ call' = [call EXCEPT ![t].handler = ref[n]]
           /\ UNCHANGED <<key, ref, topic, filed>>
  <2>1. ref[n] \in Handler /\ topic[ref[n]] # None /\ name[topic[ref[n]]] = n
    BY <1>3, <1>5 DEF Alive, TypeOK, EntriesAlive
  <2>2. found \in Call /\ found.handler \in Handler
    BY <1>2, <2>1 DEF Call
  <2>3. call' = [call EXCEPT ![t] = found]
    BY <1>5 DEF Alive, TypeOK
  <2>4. pc'[t] = "invoking" /\ call'[t] = found
    BY <1>1, <2>3 DEF Alive, TypeOK
  <2>5. /\ found.op = call[t].op /\ found.want = call[t].want
        /\ found.left = call[t].left /\ found.held = call[t].held
        /\ found.todo = call[t].todo /\ found.cur = x /\ found.handler = ref[n]
    BY <1>2 DEF Call
  <2>6. status' \in [Session -> {"open", "closing", "closed", "failed"}] /\ UNCHANGED heap
    BY <1>1, <1>5 DEF Alive, TypeOK, heap
  <2> HIDE DEF found
  <2>7. ThreadAlive(t)'
    BY <1>1, <1>2, <1>3, <1>5, <2>1, <2>4, <2>5, NoneAssumption DEF ThreadAlive
  <2> QED BY <1>1, <1>4, <2>2, <2>3, <2>6, <2>7, LocalStep
<1>6. ASSUME NEW h \in Handler, ref[n] = None, topic[h] = None,
             topic' = [topic EXCEPT ![h] = x], Put(t, x, h), call' = calls(h)
      PROVE  Alive'
  <2>1. \A u \in Thread :
          /\ call[u] \in Call
          /\ call'[u] \in Call
          /\ call'[u].op = call[u].op /\ call'[u].want = call[u].want
          /\ call'[u].left = call[u].left /\ call'[u].held = call[u].held
          /\ call'[u].todo = call[u].todo /\ call'[u].cur = call[u].cur
          /\ call'[u].handler = IF u = t THEN h ELSE call[u].handler
    BY ZenonT(40), <1>6 DEF Alive, TypeOK, Call
  <2>2. \A u \in Thread : pc'[u] = IF u = t THEN "invoking" ELSE pc[u]
    BY <1>1 DEF Alive, TypeOK
  <2>3. /\ key' \in [Name -> Topic \cup {None}]
        /\ ref' \in [Name -> Handler \cup {None}]
        /\ filed' \in SUBSET Handler
    BY <1>3, <1>6 DEF Put, Alive, TypeOK
  <2>4. TypeOK'
    <3>1. call' \in [Thread -> Call]
      BY <1>6, <2>1
    <3>2. pc' \in [Thread -> Location] /\ topic' \in [Handler -> Topic \cup {None}]
      BY <1>1, <1>3, <1>4, <1>6 DEF Alive, TypeOK
    <3>3. \A u \in Thread : pc'[u] = "invoking" => call'[u].handler \in Handler
      BY <2>1, <2>2 DEF Alive, TypeOK
    <3> QED BY <1>1, <2>3, <3>1, <3>2, <3>3 DEF Alive, TypeOK
  <2>5. /\ topic'[h] = x
        /\ \A g \in Handler : topic[g] # None => g # h /\ topic'[g] = topic[g]
    BY <1>3, <1>6 DEF Alive, TypeOK
  <2>6. EntriesAlive'
    BY <1>1, <1>3, <1>6, <2>5, NoneAssumption DEF Put, Alive, TypeOK, EntriesAlive
  <2>7. HandlersAlive'
    BY <1>1, <1>3, <1>6, <2>5, NoneAssumption DEF Alive, TypeOK, HandlersAlive
  <2>8. FiledUnderOwnKey'
    <3> SUFFICES ASSUME NEW g \in filed'
                 PROVE  /\ topic'[g] # None
                        /\ key'[name[topic'[g]]] = topic'[g]
                        /\ ref'[name[topic'[g]]] = g
      BY <1>1 DEF FiledUnderOwnKey
    <3>1. CASE g \in filed
      <4>1. /\ g \in Handler /\ topic[g] \in Topic
            /\ key[name[topic[g]]] = topic[g] /\ ref[name[topic[g]]] = g
        BY <3>1 DEF Alive, TypeOK, FiledUnderOwnKey
      <4>2. name[topic[g]] \in Name /\ name[topic[g]] # n
        BY <4>1, <1>6, NoneAssumption DEF Alive, TypeOK, HandlersAlive
      <4>3. topic'[g] = topic[g]
        BY <4>1, <2>5, NoneAssumption
      <4> QED BY <4>1, <4>2, <4>3, <1>3, <1>6, NoneAssumption DEF Put, Alive, TypeOK
    <3>2. CASE g \notin filed
      <4>1. g = h /\ key'[n] = x /\ ref'[n] = h
        BY <3>2, <1>3, <1>6 DEF Put, Alive, TypeOK
      <4> QED BY <4>1, <2>5, <1>3, NoneAssumption
    <3> QED BY <3>1, <3>2
  <2>9. LocalsAlive'
    <3> SUFFICES ASSUME NEW u \in Thread PROVE ThreadAlive(u)'
      BY DEF LocalsAlive
    <3>1. ThreadAlive(u)
      BY DEF Alive, LocalsAlive
    <3>2. call[u].handler # None => call[u].handler \in Handler
      BY <2>1 DEF Call
    <3> HIDE DEF calls
    <3>3. CASE u = t
      BY <1>1, <1>2, <1>3, <2>1, <2>2, <2>5, <3>1, <3>3, NoneAssumption DEF ThreadAlive
    <3>4. CASE u # t
      BY <1>1, <2>1, <2>2, <2>5, <3>1, <3>2, <3>4, NoneAssumption DEF ThreadAlive
    <3> QED BY <3>3, <3>4
  <2>10. SubscribedWhileSessions'
    BY <1>1 DEF Alive, SubscribedWhileSessions
  <2> QED BY <2>4, <2>6, <2>7, <2>8, <2>9, <2>10 DEF Alive
<1> QED BY <1>1, <1>5, <1>6
(* register and disregister forget the loop variable and its handler.       *)
LEMMA FinishStep ==
  ASSUME Alive, NEW t \in Thread, Finish(t), UNCHANGED <<topic, name>>
  PROVE  /\ pc' \in [Thread -> Location]
         /\ call' \in [Thread -> Call]
         /\ \A u \in Thread : pc'[u] = "invoking" => call'[u].handler \in Handler
         /\ LocalsAlive'
         /\ call[t].handler \in Handler
         /\ topic[call[t].handler] # None
<1> DEFINE c == [call[t] EXCEPT !.cur = None, !.handler = None]
<1>1. call[t] \in Call /\ ThreadAlive(t) /\ pc[t] = "invoking"
  BY DEF Alive, TypeOK, LocalsAlive, Finish
<1>2. c \in Call /\ "looping" \in Location
  BY <1>1 DEF Call, Location
<1>3. pc' = [pc EXCEPT ![t] = "looping"] /\ call' = [call EXCEPT ![t] = c]
  BY DEF Finish, Alive, TypeOK
<1>4. /\ pc' \in [Thread -> Location]
      /\ call' \in [Thread -> Call]
      /\ \A u \in Thread : pc'[u] = "invoking" => call'[u].handler \in Handler
  BY <1>2, <1>3 DEF Alive, TypeOK
<1>5. /\ c.op = call[t].op /\ c.want = call[t].want /\ c.left = call[t].left
      /\ c.held = call[t].held /\ c.todo = call[t].todo
      /\ c.cur = None /\ c.handler = None
  BY <1>1 DEF Call
<1>6. pc'[t] = "looping" /\ call'[t] = c
  BY <1>3 DEF Alive, TypeOK
<1> HIDE DEF c
<1>7. ThreadAlive(t)'
  BY <1>1, <1>5, <1>6 DEF ThreadAlive
<1>8. LocalsAlive'
  <2> SUFFICES ASSUME NEW u \in Thread, u # t PROVE ThreadAlive(u)'
    BY <1>7 DEF LocalsAlive
  <2>1. ThreadAlive(u) /\ pc'[u] = pc[u] /\ call'[u] = call[u]
    BY <1>3 DEF Alive, TypeOK, LocalsAlive
  <2> QED BY <2>1, OtherThread
<1>9. call[t].handler \in Handler /\ topic[call[t].handler] # None
  BY <1>1 DEF Alive, TypeOK, ThreadAlive
<1> QED BY <1>4, <1>8, <1>9

LEMMA RegisterInv ==
  ASSUME Alive, NEW t \in Thread, Register(t) PROVE Alive'
<1> DEFINE h == call[t].handler
<1>1. /\ pc' \in [Thread -> Location]
      /\ call' \in [Thread -> Call]
      /\ \A u \in Thread : pc'[u] = "invoking" => call'[u].handler \in Handler
      /\ LocalsAlive'
      /\ h \in Handler
      /\ topic[h] # None
  BY FinishStep DEF Register
<1>2. /\ UNCHANGED <<key, ref, topic, name, filed, status>>
      /\ \/ /\ subscribed' = subscribed \cup {h}
            /\ sessions' = [sessions EXCEPT ![h] = @ \cup {t[1]}]
            /\ UNCHANGED leaked
         \/ /\ leaked' \in {leaked, leaked \cup {h}}
            /\ UNCHANGED <<subscribed, sessions>>
  BY DEF Register
<1>3. t[1] \in Session
  BY DEF Thread
<1> HIDE DEF h
<1>4. TypeOK'
  BY <1>1, <1>2, <1>3 DEF Alive, TypeOK
<1>5. EntriesAlive' /\ FiledUnderOwnKey'
  BY <1>2 DEF Alive, EntriesAlive, FiledUnderOwnKey
<1>6. HandlersAlive' /\ SubscribedWhileSessions'
  BY <1>1, <1>2 DEF Alive, TypeOK, HandlersAlive, SubscribedWhileSessions
<1> QED BY <1>1, <1>4, <1>5, <1>6 DEF Alive

LEMMA DisregisterInv ==
  ASSUME Alive, NEW t \in Thread, Disregister(t) PROVE Alive'
<1> DEFINE h == call[t].handler
           rest == sessions[h] \ {t[1]}
<1>1. /\ pc' \in [Thread -> Location]
      /\ call' \in [Thread -> Call]
      /\ \A u \in Thread : pc'[u] = "invoking" => call'[u].handler \in Handler
      /\ LocalsAlive'
      /\ h \in Handler
      /\ topic[h] # None
  BY FinishStep DEF Disregister
<1>2. /\ UNCHANGED <<key, ref, topic, leaked, name, filed, status>>
      /\ sessions' = [sessions EXCEPT ![h] = rest]
      /\ \/ UNCHANGED subscribed
         \/ rest = {} /\ subscribed' = subscribed \ {h}
  BY DEF Disregister
<1> HIDE DEF h
<1>4. TypeOK'
  BY <1>1, <1>2 DEF Alive, TypeOK
<1>5. EntriesAlive' /\ FiledUnderOwnKey'
  BY <1>2 DEF Alive, EntriesAlive, FiledUnderOwnKey
<1>6. HandlersAlive' /\ SubscribedWhileSessions'
  BY <1>1, <1>2 DEF Alive, TypeOK, HandlersAlive, SubscribedWhileSessions
<1> QED BY <1>1, <1>4, <1>5, <1>6 DEF Alive

(* The collector takes a handler only when no local variable refers to it   *)
(* and the connection does not: it has no sessions then.                    *)
LEMMA CollectHandlerInv ==
  ASSUME Alive, NEW h \in Handler, CollectHandler(h) PROVE Alive'
<1>1. /\ h \notin subscribed \cup leaked
      /\ \A t \in Thread : call[t].handler # h
      /\ topic' = [topic EXCEPT ![h] = None]
      /\ sessions' = [sessions EXCEPT ![h] = {}]
      /\ ref' = [n \in Name |-> IF ref[n] = h THEN None ELSE ref[n]]
      /\ filed' = filed \ {h}
      /\ UNCHANGED <<key, subscribed, leaked, name, status, pc, call>>
  BY DEF CollectHandler, HandlerReachable
<1>2. TypeOK'
  BY <1>1 DEF Alive, TypeOK
<1>3. \A g \in Handler : g # h => topic'[g] = topic[g]
  BY <1>1 DEF Alive, TypeOK
<1>4. EntriesAlive'
  BY <1>1, <1>3, NoneAssumption DEF Alive, TypeOK, EntriesAlive
<1>5. HandlersAlive' /\ SubscribedWhileSessions'
  BY <1>1 DEF Alive, TypeOK, HandlersAlive, SubscribedWhileSessions
<1>6. FiledUnderOwnKey'
  <2> SUFFICES ASSUME NEW g \in filed, g # h
               PROVE  /\ topic'[g] # None
                      /\ key'[name'[topic'[g]]] = topic'[g]
                      /\ ref'[name'[topic'[g]]] = g
    BY <1>1 DEF FiledUnderOwnKey
  <2>1. /\ g \in Handler /\ topic[g] \in Topic /\ topic'[g] = topic[g]
        /\ key[name[topic[g]]] = topic[g] /\ ref[name[topic[g]]] = g
    BY <1>3 DEF Alive, TypeOK, FiledUnderOwnKey
  <2>2. name[topic[g]] \in Name
    BY <2>1, NoneAssumption DEF Alive, TypeOK, HandlersAlive
  <2> QED BY <2>1, <2>2, <1>1, NoneAssumption
<1>7. LocalsAlive'
  <2> SUFFICES ASSUME NEW u \in Thread PROVE ThreadAlive(u)'
    BY DEF LocalsAlive
  <2>1. ThreadAlive(u) /\ call[u] \in Call /\ pc'[u] = pc[u] /\ call'[u] = call[u]
    BY <1>1 DEF Alive, TypeOK, LocalsAlive
  <2>2. call[u].handler # None =>
            call[u].handler \in Handler /\ topic'[call[u].handler] = topic[call[u].handler]
    BY <1>1, <1>3, <2>1 DEF Call
  <2> QED BY <1>1, <2>1, <2>2 DEF ThreadAlive
<1> QED BY <1>2, <1>4, <1>5, <1>6, <1>7 DEF Alive

(* The collector takes a Topic that no local variable and no live handler   *)
(* refers to. Its entry goes, which is no live filed handler's.             *)
LEMMA CollectTopicInv ==
  ASSUME Alive, NEW x \in Topic, CollectTopic(x) PROVE Alive'
<1>1. /\ name[x] # None
      /\ \A t \in Thread : x \notin call[t].held /\ x # call[t].cur
      /\ \A h \in Handler : topic[h] # x
      /\ name' = [name EXCEPT ![x] = None]
      /\ key' = [n \in Name |-> IF key[n] = x THEN None ELSE key[n]]
      /\ ref' = [n \in Name |-> IF key[n] = x THEN None ELSE ref[n]]
      /\ UNCHANGED <<topic, sessions, subscribed, leaked, filed, status, pc, call>>
  BY DEF CollectTopic, TopicReachable
<1>2. TypeOK'
  BY <1>1 DEF Alive, TypeOK
<1>3. \A y \in Topic : y # x => name'[y] = name[y]
  BY <1>1 DEF Alive, TypeOK
<1>4. EntriesAlive'
  BY <1>1, <1>3, NoneAssumption DEF Alive, TypeOK, EntriesAlive
<1>5. HandlersAlive' /\ SubscribedWhileSessions'
  BY <1>1, <1>3 DEF Alive, TypeOK, HandlersAlive, SubscribedWhileSessions
<1>6. FiledUnderOwnKey'
  <2> SUFFICES ASSUME NEW g \in filed
               PROVE  /\ topic'[g] # None
                      /\ key'[name'[topic'[g]]] = topic'[g]
                      /\ ref'[name'[topic'[g]]] = g
    BY <1>1 DEF FiledUnderOwnKey
  <2>1. /\ g \in Handler /\ topic[g] \in Topic /\ topic'[g] = topic[g] /\ topic[g] # x
        /\ key[name[topic[g]]] = topic[g] /\ ref[name[topic[g]]] = g
    BY <1>1 DEF Alive, TypeOK, FiledUnderOwnKey
  <2>2. name[topic[g]] \in Name /\ name'[topic[g]] = name[topic[g]]
    BY <1>3, <2>1, NoneAssumption DEF Alive, TypeOK, HandlersAlive
  <2> QED BY <2>1, <2>2, <1>1, NoneAssumption
<1>7. LocalsAlive'
  <2> SUFFICES ASSUME NEW u \in Thread PROVE ThreadAlive(u)'
    BY DEF LocalsAlive
  <2>1. ThreadAlive(u) /\ call[u] \in Call /\ pc'[u] = pc[u] /\ call'[u] = call[u]
    BY <1>1 DEF Alive, TypeOK, LocalsAlive
  <2>2. \A y \in call[u].held : y \in Topic /\ name'[y] = name[y]
    BY <1>1, <1>3, <2>1 DEF Call
  <2>3. ASSUME call[u].handler # None, topic[call[u].handler] # None
        PROVE  name'[topic[call[u].handler]] = name[topic[call[u].handler]]
    <3>1. call[u].handler \in Handler /\ topic[call[u].handler] \in Topic
      BY <2>1, <2>3 DEF Call, Alive, TypeOK
    <3> QED BY <1>1, <1>3, <3>1
  <2> QED BY <1>1, <2>1, <2>2, <2>3 DEF ThreadAlive
<1> QED BY <1>2, <1>4, <1>5, <1>6, <1>7 DEF Alive
-----------------------------------------------------------------------------
(* The invariant holds throughout.                                          *)

(* What a session asks for, and its close, start a call.                    *)
LEMMA RequestInv ==
  ASSUME Alive, NEW s \in Session, Ask(s) \/ OnClose(s) PROVE Alive'
<1>1. <<s, "onMessage">> \in Thread /\ <<s, "onClose">> \in Thread
  BY DEF Thread
<1>2. /\ "unsubscribe" \in Operation \ {"none", "subscribe"}
      /\ "unsubscribeType" \in Operation \ {"none", "subscribe"}
      /\ "unsubscribeAll" \in Operation \ {"none", "subscribe"}
  BY DEF Operation
<1>3. status \in [Session -> {"open", "closing", "closed", "failed"}]
  BY DEF Alive, TypeOK
<1>4. CASE Subscribe(s)
  BY <1>4, SubscribeInv
<1>5. CASE Unsubscribe(s)
  <2>1. PICK ids \in SUBSET Name : /\ Enter(<<s, "onMessage">>, "unsubscribe", ids, ids, {})
                                   /\ UNCHANGED <<heap, status>>
    BY <1>5 DEF Unsubscribe
  <2>2. ids \in SUBSET (Name \cup {None})
    OBVIOUS
  <2> QED BY <1>1, <1>2, <1>3, <2>1, <2>2, EnterInv
<1>6. CASE UnsubscribeType(s)
  <2>1. PICK ty \in Type :
          /\ Enter(<<s, "onMessage">>, "unsubscribeType",
                   {n \in Name : TypeOf[n] = ty}, {None}, {})
          /\ UNCHANGED <<heap, status>>
    BY <1>6 DEF UnsubscribeType
  <2>2. {n \in Name : TypeOf[n] = ty} \in SUBSET Name /\ {None} \in SUBSET (Name \cup {None})
    OBVIOUS
  <2> QED BY <1>1, <1>2, <1>3, <2>1, <2>2, EnterInv
<1>7. CASE UnsubscribeAll(s)
  <2>1. Name \in SUBSET Name /\ {None} \in SUBSET (Name \cup {None})
    OBVIOUS
  <2> QED BY <1>1, <1>2, <1>3, <1>7, <2>1, EnterInv DEF UnsubscribeAll
<1>8. CASE OnClose(s)
  <2>1. Name \in SUBSET Name /\ {None} \in SUBSET (Name \cup {None})
    OBVIOUS
  <2>2. status' \in [Session -> {"open", "closing", "closed", "failed"}]
    BY <1>3, <1>8 DEF OnClose
  <2> QED BY <1>1, <1>2, <1>8, <2>1, <2>2, EnterInv DEF OnClose
<1> QED BY <1>4, <1>5, <1>6, <1>7, <1>8 DEF Ask

(* Every step of the specification keeps the invariant.                     *)
LEMMA NextAlive == Alive /\ [Next]_vars => Alive'
<1> SUFFICES ASSUME Alive, [Next]_vars PROVE Alive'
  OBVIOUS
<1>1. CASE \E s \in Session : Ask(s) \/ OnClose(s)
  BY <1>1, RequestInv
<1>2. CASE \E t \in Thread : Run(t)
  BY <1>2, StartPassInv, CopyDoneInv, CopyThrowInv, ReturnInv, FetchInv,
     GenerateInv, RegisterInv, DisregisterInv DEF Run
<1>3. CASE \E h \in Handler : CollectHandler(h)
  BY <1>3, CollectHandlerInv
<1>4. CASE \E x \in Topic : CollectTopic(x)
  BY <1>4, CollectTopicInv
<1>5. CASE UNCHANGED vars
  BY <1>5 DEF vars, Alive, TypeOK, EntriesAlive, HandlersAlive, FiledUnderOwnKey,
              LocalsAlive, ThreadAlive, SubscribedWhileSessions
<1> QED BY <1>1, <1>2, <1>3, <1>4, <1>5 DEF Next

LEMMA AliveAlways == Spec => []Alive
  BY InitAlive, NextAlive, PTL DEF Spec

(* Type correctness; getHandler never answers null.                         *)
THEOREM TypeCorrect == Spec => []TypeOK
  BY AliveAlways, PTL DEF Alive

(* A handler filed under its own topic can be looked up for as long as it   *)
(* lives, whatever the collector does to keys and handlers.                 *)
THEOREM FiledStayFindable == Spec => []FiledFindable
<1>1. Alive => FiledFindable
  <2> SUFFICES ASSUME Alive, NEW h \in filed
               PROVE  \E n \in Name : key[n] = topic[h] /\ ref[n] = h /\ name[topic[h]] = n
    BY DEF FiledFindable
  <2>1. name[topic[h]] \in Name
    BY NoneAssumption DEF Alive, TypeOK, HandlersAlive, FiledUnderOwnKey
  <2> QED BY <2>1 DEF Alive, FiledUnderOwnKey
<1> QED BY <1>1, AliveAlways, PTL

(* A handler with sessions is subscribed at NATS.                           *)
THEOREM SessionsAreServed == Spec => []SubscribedWhileSessions
  BY AliveAlways, PTL DEF Alive

(* The weak references lose no registration: a handler with sessions is     *)
(* never reclaimed.                                                         *)
THEOREM HandlersAreNotLost == Spec => NoLostHandler
<1>1. ASSUME Alive, Next, NEW h \in Handler, topic[h] # None, topic'[h] # topic[h]
      PROVE  sessions[h] = {}
  <2>1. CASE \E t \in Thread : Generate(t)
    BY <1>1, <2>1 DEF Alive, TypeOK, Generate
  <2>2. CASE \E g \in Handler : CollectHandler(g)
    BY <1>1, <2>2 DEF Alive, TypeOK, SubscribedWhileSessions, CollectHandler, HandlerReachable
  <2>3. CASE UNCHANGED topic
    BY <1>1, <2>3
  <2>4. \/ \E t \in Thread : Generate(t)
        \/ \E g \in Handler : CollectHandler(g)
        \/ UNCHANGED topic
    BY <1>1 DEF Next, Ask, Run, Subscribe, Unsubscribe, UnsubscribeType, UnsubscribeAll,
                OnClose, heap, StartPass, CopyDone, CopyThrow, Return, Fetch, Register,
                Disregister, CollectTopic
  <2> QED BY <2>1, <2>2, <2>3, <2>4
<1>2. Alive /\ [Next]_vars =>
        [\A h \in Handler : topic[h] # None /\ topic'[h] # topic[h] => sessions[h] = {}]_vars
  BY <1>1
<1> QED BY <1>2, AliveAlways, PTL DEF Spec, NoLostHandler
-----------------------------------------------------------------------------
(* What an unsubscribeAll leaves.                                           *)

(* A step that adds session s to no handler, files none that has it, and    *)
(* gives those that have it no other topic.                                 *)
AddsNot(s) ==
    \A h \in filed' :
        s \in sessions'[h] => h \in filed /\ s \in sessions[h] /\ topic'[h] = topic[h]

LEMMA InitLeaving == Init => LeavingInv
  BY DEF Init, LeavingInv, Leaving, Closing, NoCall, Thread

(* A thread that takes no step, but for a put that its copy meets.          *)
LEMMA LeavingStays ==
  ASSUME NEW t \in Thread, Leaving(t), AddsNot(t[1]), pc'[t] = pc[t],
         call'[t] = call[t] \/ pc[t] = "copying"
  PROVE  Leaving(t)'
  BY DEF Leaving, AddsNot

LEMMA ClosingStays ==
  ASSUME NEW s \in Session, Closing(s), AddsNot(s), status'[s] = status[s],
         \A t \in {<<s, "onMessage">>, <<s, "onClose">>} :
            pc'[t] = "idle" \/ pc[t] # "idle",
         call'[<<s, "onClose">>].op \in {call[<<s, "onClose">>].op, "none"}
  PROVE  Closing(s)'
  BY DEF Closing, AddsNot, Thread

(* A step of a running thread that registers nobody: only the end of an     *)
(* onClose changes a status.                                                *)
LEMMA RunLeaves ==
  ASSUME LeavingInv, NEW t \in Thread, pc[t] # "idle",
         \A u \in Thread \ {t} :
            /\ pc'[u] = pc[u]
            /\ call'[u] = call[u] \/ (pc[u] = "copying" /\ call'[u].op = call[u].op),
         \A s \in Session : AddsNot(s),
         call'[t].op \in {call[t].op, "none"},
         \/ UNCHANGED status
         \/ /\ t[2] = "onClose"
            /\ \A s \in Session : status'[s] # status[s] => s = t[1] /\ status'[s] # "open"
            /\ status'[t[1]] = "closed" /\ ~ConcurrentClose =>
                  \A h \in filed' : t[1] \notin sessions'[h],
         Leaving(t)'
  PROVE  LeavingInv'
<1>1. ASSUME NEW u \in Thread PROVE Leaving(u)'
  <2>1. CASE u = t
    BY <2>1
  <2>2. CASE u # t
    <3>1. u[1] \in Session /\ Leaving(u)
      BY DEF Thread, LeavingInv
    <3> QED BY <2>2, <3>1, LeavingStays
  <2> QED BY <2>1, <2>2
<1>2. ASSUME NEW s \in Session PROVE Closing(s)'
  <2> DEFINE m == <<s, "onMessage">>
             c == <<s, "onClose">>
  <2>1. m \in Thread /\ c \in Thread /\ m # c /\ Closing(s) /\ AddsNot(s)
    BY DEF Thread, LeavingInv
  <2>2. \A u \in {m, c} : pc'[u] = "idle" \/ pc[u] # "idle"
    BY <2>1
  <2>3. call'[c].op \in {call[c].op, "none"}
    BY <2>1
  <2>4. CASE status'[s] = status[s]
    BY <2>1, <2>2, <2>3, <2>4, ClosingStays
  <2>5. CASE status'[s] # status[s]
    <3>1. t = c /\ status'[s] # "open"
      BY <2>5 DEF Thread
    <3>2. status'[s] = "closed" /\ ~ConcurrentClose => \A h \in filed' : s \notin sessions'[h]
      BY <2>5, <3>1
    <3>3. pc'[m] = pc[m]
      BY <2>1, <3>1
    <3>4. status[s] # "open"
      BY <2>1, <3>1 DEF Closing
    <3> QED BY <2>1, <2>3, <3>1, <3>2, <3>3, <3>4 DEF Closing
  <2> QED BY <2>4, <2>5
<1> QED BY <1>1, <1>2 DEF LeavingInv

(* A step that leaves the heap alone adds no session.                       *)
LEMMA HeapAddsNot ==
  ASSUME UNCHANGED heap PROVE \A s \in Session : AddsNot(s)
  BY DEF heap, AddsNot

LEMMA StartPassLeaves ==
  ASSUME Alive, LeavingInv, NEW t \in Thread, StartPass(t) PROVE LeavingInv'
<1>1. PICK n \in call[t].left :
        /\ pc[t] = "looping"
        /\ call[t].todo = {}
        /\ pc' = [pc EXCEPT ![t] = "copying"]
        /\ call' = [call EXCEPT ![t].left = @ \ {n}, ![t].held = {}, ![t].raced = FALSE]
        /\ UNCHANGED <<heap, status>>
  BY DEF StartPass
<1>2. /\ pc'[t] = "copying" /\ call'[t].op = call[t].op
      /\ \A u \in Thread \ {t} : pc'[u] = pc[u] /\ call'[u] = call[u]
  BY <1>1 DEF Alive, TypeOK, Call
<1>3. Leaving(t)'
  BY <1>2 DEF Leaving
<1> QED BY <1>1, <1>2, <1>3, HeapAddsNot, RunLeaves

(* The copy that no put raced has the key of every handler that is filed.   *)
LEMMA CopyDoneLeaves ==
  ASSUME Alive, LeavingInv, NEW t \in Thread, CopyDone(t) PROVE LeavingInv'
<1>1. PICK seen \in SUBSET Keys :
        /\ pc[t] = "copying"
        /\ seen = Keys \/ call[t].raced
        /\ pc' = [pc EXCEPT ![t] = "looping"]
        /\ call' = [call EXCEPT ![t].held = seen, ![t].todo = {x \in seen : Wanted(t, x)}]
        /\ UNCHANGED <<heap, status>>
  BY DEF CopyDone
<1>2. /\ pc'[t] = "looping" /\ call'[t].op = call[t].op /\ call'[t].raced = call[t].raced
      /\ call'[t].todo = {x \in seen : Wanted(t, x)}
      /\ \A u \in Thread \ {t} : pc'[u] = pc[u] /\ call'[u] = call[u]
  BY <1>1 DEF Alive, TypeOK, Call
<1>3. ASSUME NEW h \in filed PROVE topic[h] \in Keys
  <2>1. topic[h] \in Topic /\ name[topic[h]] \in Name /\ key[name[topic[h]]] = topic[h]
    BY NoneAssumption DEF Alive, TypeOK, HandlersAlive, FiledUnderOwnKey
  <2> QED BY <2>1 DEF Keys
<1>4. Leaving(t)'
  BY <1>1, <1>2, <1>3 DEF Leaving, Wanted, heap
<1> QED BY <1>1, <1>2, <1>4, HeapAddsNot, RunLeaves

LEMMA CopyThrowLeaves ==
  ASSUME Alive, LeavingInv, NEW t \in Thread, CopyThrow(t) PROVE LeavingInv'
<1>1. /\ pc[t] = "copying" /\ pc'[t] = "idle" /\ call'[t].op = "none"
      /\ \A u \in Thread \ {t} : pc'[u] = pc[u] /\ call'[u] = call[u]
      /\ UNCHANGED heap
  BY DEF Alive, TypeOK, CopyThrow, NoCall
<1>2. Leaving(t)'
  BY <1>1 DEF Leaving
<1>3. \/ UNCHANGED status
      \/ /\ t[2] = "onClose" /\ status'[t[1]] = "failed"
         /\ \A s \in Session : status'[s] # status[s] => s = t[1] /\ status'[s] # "open"
  BY DEF Alive, TypeOK, CopyThrow, EndStatus, Thread
<1> QED BY <1>1, <1>2, <1>3, HeapAddsNot, RunLeaves

(* When the loop has nothing left, no filed handler has the session.        *)
LEMMA ReturnLeaves ==
  ASSUME Alive, LeavingInv, NEW t \in Thread, Return(t) PROVE LeavingInv'
<1>1. /\ pc[t] = "looping" /\ pc'[t] = "idle" /\ call'[t].op = "none"
      /\ call[t].todo = {} /\ call[t].left = {}
      /\ \A u \in Thread \ {t} : pc'[u] = pc[u] /\ call'[u] = call[u]
      /\ UNCHANGED heap
  BY DEF Alive, TypeOK, Return, NoCall
<1>2. Leaving(t)'
  BY <1>1 DEF Leaving
<1>3. \/ UNCHANGED status
      \/ /\ t[2] = "onClose"
         /\ status'[t[1]] = IF call[t].raced THEN "failed" ELSE "closed"
         /\ \A s \in Session : status'[s] # status[s] => s = t[1] /\ status'[s] # "open"
  BY DEF Alive, TypeOK, Return, EndStatus, Thread
<1>4. ASSUME t[2] = "onClose", ~call[t].raced, ~ConcurrentClose
      PROVE  \A h \in filed' : t[1] \notin sessions'[h]
  <2>1. t = <<t[1], "onClose">> /\ t[1] \in Session
    BY <1>4 DEF Thread
  <2>2. ThreadAlive(t) /\ Closing(t[1])
    BY <2>1 DEF Alive, LocalsAlive, LeavingInv
  <2>3. call[t].op = "unsubscribeAll"
    BY <1>1, <2>1, <2>2 DEF ThreadAlive, Closing
  <2> QED BY <1>1, <1>4, <2>3 DEF LeavingInv, Leaving, heap
<1> QED BY <1>1, <1>2, <1>3, <1>4, HeapAddsNot, RunLeaves

(* What is filed under the topic in hand is what its name yields.           *)
LEMMA FetchLeaves ==
  ASSUME Alive, LeavingInv, NEW t \in Thread, Fetch(t) PROVE LeavingInv'
<1>1. PICK x \in call[t].todo :
        LET n == name[x]
            next == [call EXCEPT ![t].todo = @ \ {x}, ![t].cur = x]
        IN  /\ pc[t] = "looping"
            /\ \/ /\ ref[n] # None
                  /\ pc' = [pc EXCEPT ![t] = "invoking"]
                  /\ call' = [next EXCEPT ![t].handler = ref[n]]
               \/ /\ ref[n] = None \/ PutRaces(t)
                  /\ pc' = [pc EXCEPT ![t] = "generating"]
                  /\ call' = next
            /\ UNCHANGED <<heap, status>>
  BY DEF Fetch
<1>2. /\ pc[t] = "looping"
      /\ call'[t].op = call[t].op /\ call'[t].left = call[t].left
      /\ call'[t].raced = call[t].raced
      /\ call'[t].todo = call[t].todo \ {x} /\ call'[t].cur = x
      /\ \A u \in Thread \ {t} : pc'[u] = pc[u] /\ call'[u] = call[u]
      /\ \/ pc'[t] = "invoking" /\ call'[t].handler = ref[name[x]]
         \/ pc'[t] = "generating"
  BY <1>1 DEF Alive, TypeOK, Call
<1>3. ASSUME NEW h \in filed, topic[h] = x PROVE ref[name[x]] = h
  BY <1>3 DEF Alive, FiledUnderOwnKey
<1>4. Leaving(t)'
  BY <1>1, <1>2, <1>3 DEF LeavingInv, Leaving, heap
<1> QED BY <1>1, <1>2, <1>4, HeapAddsNot, RunLeaves

(* A handler that is made has no session, and one that is found is the one  *)
(* that is filed.                                                           *)
LEMMA GenerateLeaves ==
  ASSUME Alive, LeavingInv, NEW t \in Thread, Generate(t) PROVE LeavingInv'
<1> DEFINE x == call[t].cur
           n == name[x]
<1>1. /\ pc[t] = "generating" /\ pc'[t] = "invoking"
      /\ UNCHANGED <<sessions, status>>
      /\ \A u \in Thread \ {t} : pc'[u] = pc[u]
  BY DEF Alive, TypeOK, Generate
<1>2. CASE /\ ref[n] # None
           /\ call' = [call EXCEPT ![t].handler = ref[n]]
           /\ UNCHANGED <<key, ref, topic, filed>>
  <2>1. /\ call'[t].op = call[t].op /\ call'[t].left = call[t].left
        /\ call'[t].raced = call[t].raced /\ call'[t].todo = call[t].todo
        /\ call'[t].handler = ref[n]
        /\ \A u \in Thread \ {t} : call'[u] = call[u]
    BY <1>2 DEF Alive, TypeOK, Call
  <2>2. \A h \in filed : topic[h] = x => ref[n] = h
    BY DEF Alive, FiledUnderOwnKey
  <2>3. Leaving(t)'
    BY <1>1, <1>2, <2>1, <2>2 DEF LeavingInv, Leaving
  <2>4. \A s \in Session : AddsNot(s)
    BY <1>1, <1>2 DEF AddsNot
  <2> QED BY <1>1, <2>1, <2>3, <2>4, RunLeaves
<1>3. ASSUME NEW h \in Handler, ref[n] = None, topic[h] = None,
             topic' = [topic EXCEPT ![h] = x], Put(t, x, h),
             call' = [u \in Thread |->
                        IF u = t THEN [call[u] EXCEPT !.handler = h]
                        ELSE [call[u] EXCEPT !.raced =
                                @ \/ (u # t /\ pc[u] = "copying" /\ key[n] = None)]]
      PROVE  LeavingInv'
  <2>1. /\ call'[t].op = call[t].op /\ call'[t].left = call[t].left
        /\ call'[t].raced = call[t].raced /\ call'[t].todo = call[t].todo
    BY <1>3 DEF Alive, TypeOK, Call
  <2>2. ASSUME NEW u \in Thread \ {t}
        PROVE  call'[u] = call[u] \/ (pc[u] = "copying" /\ call'[u].op = call[u].op)
    <3>1. call[u] \in Call /\ call'[u] = [call[u] EXCEPT !.raced =
                                @ \/ (pc[u] = "copying" /\ key[n] = None)]
      BY <1>3 DEF Alive, TypeOK
    <3>2. CASE pc[u] = "copying"
      BY <3>1, <3>2 DEF Call
    <3>3. CASE pc[u] # "copying"
      <4>1. call'[u] = [call[u] EXCEPT !.raced = @ \/ FALSE]
        BY <3>1, <3>3
      <4>2. call[u].raced \in BOOLEAN /\ call'[u] = [call[u] EXCEPT !.raced = @]
        BY <4>1, <3>1 DEF Call
      <4> QED BY <4>2, <3>1 DEF Call
    <3> QED BY <3>2, <3>3
  <2>3. sessions[h] = {} /\ filed' \subseteq filed \cup {h}
    BY <1>3 DEF Alive, HandlersAlive, Put
  <2>4. \A g \in filed : topic[g] # None /\ g # h /\ g \in Handler
    BY <1>3 DEF Alive, TypeOK, FiledUnderOwnKey
  <2>5. \A s \in Session : AddsNot(s)
    BY <1>1, <1>3, <2>3, <2>4 DEF AddsNot, Alive, TypeOK
  <2>6. ASSUME NEW g \in filed PROVE topic[g] # x
    <3>1. ref[name[topic[g]]] = g
      BY DEF Alive, FiledUnderOwnKey
    <3> QED BY <1>3, <2>4, <3>1, NoneAssumption
  <2>7. Leaving(t)'
    <3> SUFFICES ASSUME call[t].op = "unsubscribeAll", call[t].left = {}, ~call[t].raced,
                        t[2] = "onClose" => ~ConcurrentClose,
                        NEW g \in filed', t[1] \in sessions'[g]
                 PROVE  topic'[g] \in call'[t].todo
      BY <2>1 DEF Leaving
    <3>1. g \in filed /\ t[1] \in sessions[g] /\ topic'[g] = topic[g]
      BY <2>5 DEF Thread, AddsNot
    <3>2. topic[g] \in call[t].todo
      BY <1>1, <2>6, <3>1 DEF LeavingInv, Leaving
    <3> QED BY <2>1, <3>1, <3>2
  <2> QED BY <1>1, <2>1, <2>2, <2>5, <2>7, RunLeaves
<1> QED BY <1>2, <1>3 DEF Generate

(* Who registers is in no unsubscribeAll, and is not closed.                *)
LEMMA RegisterLeaves ==
  ASSUME Alive, LeavingInv, NEW t \in Thread, Register(t) PROVE LeavingInv'
<1> DEFINE h == call[t].handler
           s == t[1]
<1>1. /\ pc[t] = "invoking" /\ pc'[t] = "looping"
      /\ call[t].op = "subscribe" /\ call'[t].op = "subscribe"
      /\ \A u \in Thread \ {t} : pc'[u] = pc[u] /\ call'[u] = call[u]
      /\ UNCHANGED <<topic, filed, status>>
      /\ h \in Handler
      /\ \/ sessions' = [sessions EXCEPT ![h] = @ \cup {s}]
         \/ UNCHANGED sessions
  BY DEF Alive, TypeOK, Call, Register, Finish
<1>2. \A r \in Session : r # s => AddsNot(r)
  BY <1>1 DEF Alive, TypeOK, AddsNot
<1>3. s \in Session /\ t = <<s, "onMessage">>
  <2>1. s \in Session /\ (t = <<s, "onMessage">> \/ t = <<s, "onClose">>)
    BY DEF Thread
  <2>2. call[<<s, "onClose">>].op \in {"none", "unsubscribeAll"}
    BY <2>1 DEF LeavingInv, Closing
  <2> QED BY <1>1, <2>1, <2>2
<1> DEFINE c == <<s, "onClose">>
<1>4. /\ c \in Thread /\ c # t /\ Closing(s)
      /\ pc[c] = "idle" <=> call[c].op = "none"
  BY <1>3 DEF Thread, LeavingInv, Alive, LocalsAlive, ThreadAlive
<1>5. ~ConcurrentClose => status[s] = "open" /\ pc[c] = "idle"
  BY <1>1, <1>3, <1>4 DEF Closing
<1>6. ASSUME NEW u \in Thread PROVE Leaving(u)'
  <2>1. CASE u = t
    BY <1>1, <2>1 DEF Leaving
  <2>2. CASE u = c
    BY <1>1, <1>4, <1>5, <2>2 DEF Leaving
  <2>3. CASE u # t /\ u # c
    <3>1. u[1] \in Session /\ u[1] # s /\ Leaving(u)
      BY <1>3, <2>3 DEF Thread, LeavingInv
    <3> QED BY <1>1, <1>2, <2>3, <3>1, LeavingStays
  <2> QED BY <2>1, <2>2, <2>3
<1>7. ASSUME NEW r \in Session PROVE Closing(r)'
  <2>1. CASE r = s
    BY <1>1, <1>3, <1>4, <1>5, <2>1 DEF Closing
  <2>2. CASE r # s
    <3>1. /\ <<r, "onMessage">> \in Thread \ {t} /\ <<r, "onClose">> \in Thread \ {t}
          /\ Closing(r)
      BY <1>3, <2>2 DEF Thread, LeavingInv
    <3> QED BY <1>1, <1>2, <2>2, <3>1, ClosingStays
  <2> QED BY <2>1, <2>2
<1> QED BY <1>6, <1>7 DEF LeavingInv

(* The handler in hand is left.                                             *)
LEMMA DisregisterLeaves ==
  ASSUME Alive, LeavingInv, NEW t \in Thread, Disregister(t) PROVE LeavingInv'
<1> DEFINE h == call[t].handler
<1>1. /\ pc[t] = "invoking" /\ pc'[t] = "looping"
      /\ call'[t].op = call[t].op /\ call'[t].left = call[t].left
      /\ call'[t].raced = call[t].raced /\ call'[t].todo = call[t].todo
      /\ \A u \in Thread \ {t} : pc'[u] = pc[u] /\ call'[u] = call[u]
      /\ UNCHANGED <<topic, filed, status>>
      /\ h \in Handler
      /\ sessions' = [sessions EXCEPT ![h] = @ \ {t[1]}]
  BY DEF Alive, TypeOK, Call, Disregister, Finish
<1>2. \A s \in Session : AddsNot(s)
  BY <1>1 DEF Alive, TypeOK, AddsNot
<1>3. Leaving(t)'
  BY <1>1 DEF Alive, TypeOK, LeavingInv, Leaving
<1> QED BY <1>1, <1>2, <1>3, RunLeaves

(* A request starts with no topics copied, and a close with no message      *)
(* under way or, when ConcurrentClose, with no claim.                       *)
LEMMA RequestLeaves ==
  ASSUME Alive, LeavingInv, NEW s \in Session, Ask(s) \/ OnClose(s) PROVE LeavingInv'
<1> DEFINE m == <<s, "onMessage">>
           c == <<s, "onClose">>
<1>1. m \in Thread /\ c \in Thread /\ m # c
  BY DEF Thread
<1>2. ASSUME NEW t \in {m, c}, NEW o, NEW w, NEW l, NEW xs, Enter(t, o, w, l, xs),
             o = "unsubscribeAll" => l # {}
      PROVE  /\ pc[t] = "idle" /\ pc'[t] = "looping" /\ call'[t].op = o
             /\ \A u \in Thread \ {t} : pc'[u] = pc[u] /\ call'[u] = call[u]
             /\ Leaving(t)'
  BY <1>1, <1>2 DEF Enter, Alive, TypeOK, NoCall, Leaving
<1>3. \A r \in Session : Closing(r) /\ AddsNot(r)
  BY DEF LeavingInv, AddsNot, Ask, Subscribe, Unsubscribe, UnsubscribeType, UnsubscribeAll,
         OnClose, heap
<1>4. CASE Ask(s)
  <2> DEFINE Begun == /\ pc[m] = "idle"
                      /\ \A u \in Thread \ {m} : pc'[u] = pc[u] /\ call'[u] = call[u]
                      /\ Leaving(m)'
  <2>1. Begun
    <3>1. ASSUME NEW o \in {"subscribe", "unsubscribe", "unsubscribeType"},
                 NEW w, NEW l, NEW xs, Enter(m, o, w, l, xs)
          PROVE  Begun
      BY <1>1, <1>2, <3>1
    <3>2. CASE Subscribe(s)
      <4>1. \E w, new : Enter(m, "subscribe", w, {}, new)
        BY <3>2 DEF Subscribe
      <4> QED BY <3>1, <4>1
    <3>3. CASE Unsubscribe(s)
      BY <3>1, <3>3 DEF Unsubscribe
    <3>4. CASE UnsubscribeType(s)
      <4>1. PICK w : Enter(m, "unsubscribeType", w, {None}, {})
        BY <3>4 DEF UnsubscribeType
      <4> QED BY <3>1, <4>1
    <3>5. CASE UnsubscribeAll(s)
      <4>1. Enter(m, "unsubscribeAll", Name, {None}, {})
        BY <3>5 DEF UnsubscribeAll
      <4> QED BY <1>1, <1>2, <4>1
    <3> QED BY <1>4, <3>2, <3>3, <3>4, <3>5 DEF Ask
  <2>2. status[s] = "open" /\ UNCHANGED status
    BY <1>4 DEF Ask, Subscribe, Unsubscribe, UnsubscribeType, UnsubscribeAll
  <2>3. ASSUME NEW u \in Thread PROVE Leaving(u)'
    <3>1. u[1] \in Session /\ Leaving(u)
      BY DEF Thread, LeavingInv
    <3> QED BY <1>3, <2>1, <3>1, LeavingStays
  <2>4. ASSUME NEW r \in Session PROVE Closing(r)'
    <3>1. <<r, "onMessage">> \in Thread /\ <<r, "onClose">> \in Thread \ {m}
      BY DEF Thread
    <3>2. CASE r = s
      BY <1>3, <2>1, <2>2, <3>1, <3>2 DEF Closing
    <3>3. CASE r # s
      <4>1. <<r, "onMessage">> # m
        BY <3>3
      <4> QED BY <1>3, <2>1, <2>2, <3>1, <4>1, ClosingStays
    <3> QED BY <3>2, <3>3
  <2> QED BY <2>3, <2>4 DEF LeavingInv
<1>5. CASE OnClose(s)
  <2>1. /\ pc'[c] = "looping" /\ call'[c].op = "unsubscribeAll"
        /\ \A u \in Thread \ {c} : pc'[u] = pc[u] /\ call'[u] = call[u]
        /\ Leaving(c)'
    BY <1>1, <1>2, <1>5 DEF OnClose
  <2>2. /\ status'[s] = "closing"
        /\ ~ConcurrentClose => pc[m] = "idle"
        /\ \A r \in Session \ {s} : status'[r] = status[r]
    BY <1>5 DEF OnClose, Alive, TypeOK
  <2>3. ASSUME NEW u \in Thread PROVE Leaving(u)'
    <3>1. u[1] \in Session /\ Leaving(u)
      BY DEF Thread, LeavingInv
    <3> QED BY <1>3, <2>1, <3>1, LeavingStays
  <2>4. ASSUME NEW r \in Session PROVE Closing(r)'
    <3>1. CASE r = s
      BY <1>1, <2>1, <2>2, <3>1 DEF Closing
    <3>2. CASE r # s
      <4>1. <<r, "onMessage">> \in Thread \ {c} /\ <<r, "onClose">> \in Thread \ {c}
        BY <3>2 DEF Thread
      <4> QED BY <1>3, <2>1, <2>2, <3>2, <4>1, ClosingStays
    <3> QED BY <3>1, <3>2
  <2> QED BY <2>3, <2>4 DEF LeavingInv
<1> QED BY <1>4, <1>5

(* The collector takes no handler that a session is in, and no topic of one. *)
LEMMA CollectLeaves ==
  ASSUME Alive, LeavingInv,
         (\E h \in Handler : CollectHandler(h)) \/ (\E x \in Topic : CollectTopic(x))
  PROVE  LeavingInv'
<1>1. UNCHANGED <<status, pc, call>>
  BY DEF CollectHandler, CollectTopic
<1>2. ASSUME NEW s \in Session PROVE AddsNot(s)
  BY DEF AddsNot, CollectHandler, CollectTopic, Alive, TypeOK
<1>3. ASSUME NEW t \in Thread PROVE Leaving(t)'
  <2>1. t[1] \in Session /\ Leaving(t)
    BY DEF Thread, LeavingInv
  <2> QED BY <1>1, <1>2, <2>1, LeavingStays
<1>4. ASSUME NEW s \in Session PROVE Closing(s)'
  <2>1. Closing(s)
    BY DEF LeavingInv
  <2> QED BY <1>1, <1>2, <2>1, ClosingStays
<1> QED BY <1>3, <1>4 DEF LeavingInv

LEMMA NextLeaving == Alive /\ LeavingInv /\ [Next]_vars => LeavingInv'
<1> SUFFICES ASSUME Alive, LeavingInv, [Next]_vars PROVE LeavingInv'
  OBVIOUS
<1>1. CASE \E s \in Session : Ask(s) \/ OnClose(s)
  BY <1>1, RequestLeaves
<1>2. CASE \E t \in Thread : Run(t)
  BY <1>2, StartPassLeaves, CopyDoneLeaves, CopyThrowLeaves, ReturnLeaves, FetchLeaves,
     GenerateLeaves, RegisterLeaves, DisregisterLeaves DEF Run
<1>3. CASE (\E h \in Handler : CollectHandler(h)) \/ (\E x \in Topic : CollectTopic(x))
  BY <1>3, CollectLeaves
<1>4. CASE UNCHANGED vars
  BY <1>4 DEF vars, LeavingInv, Leaving, Closing
<1> QED BY <1>1, <1>2, <1>3, <1>4 DEF Next

LEMMA LeavingAlways == Spec => []LeavingInv
  BY InitLeaving, NextLeaving, AliveAlways, PTL DEF Spec

(* The inductive invariant holds throughout: objects in use are alive, and  *)
(* who leaves has what is left to leave at hand.                            *)
THEOREM Invariance == Spec => []Inv
  BY AliveAlways, LeavingAlways, PTL DEF Inv

(* When the container closes a session only between its messages, a session *)
(* whose onClose returned, and met no put while it copied the key set, is   *)
(* in no handler filed under its topic, then or later.                      *)
THEOREM ClosedStayForgotten ==
  ASSUME ~ConcurrentClose PROVE Spec => []ClosedIsForgotten
<1>1. LeavingInv => ClosedIsForgotten
  BY DEF LeavingInv, Closing, ClosedIsForgotten
<1> QED BY <1>1, LeavingAlways, PTL

(* When unsubscribeAll returns, and no put raced the copy of its key set,   *)
(* the session is in no handler filed under its own topic, whatever other   *)
(* threads and the collector did meanwhile.                                 *)
THEOREM UnsubscribeAllLeavesAll == Spec => UnsubscribeAllCompletes
<1> DEFINE Done == \A s \in Session :
             LET t == <<s, "onMessage">> IN
             /\ call[t].op = "unsubscribeAll" /\ ~call[t].raced
             /\ pc[t] = "looping" /\ pc'[t] = "idle"
             => \A h \in filed : s \notin sessions[h]
<1>1. ASSUME Alive, LeavingInv, Next PROVE Done
  <2> SUFFICES ASSUME NEW s \in Session, NEW t \in Thread, t = <<s, "onMessage">>,
                      call[t].op = "unsubscribeAll", ~call[t].raced,
                      pc[t] = "looping", pc'[t] = "idle"
               PROVE  \A h \in filed : s \notin sessions[h]
    BY DEF Thread
  <2>0. pc \in [Thread -> Location]
    BY <1>1 DEF Alive, TypeOK
  <2>1. ASSUME NEW u \in Thread, Run(u) PROVE Return(t)
    <3>1. Return(u) \/ CopyThrow(u) \/
          \E l \in {"copying", "looping", "invoking", "generating"} : pc' = [pc EXCEPT ![u] = l]
      <4>1. StartPass(u) => pc' = [pc EXCEPT ![u] = "copying"]
        BY DEF StartPass
      <4>2. CopyDone(u) => pc' = [pc EXCEPT ![u] = "looping"]
        BY DEF CopyDone
      <4>3. Fetch(u) => \/ pc' = [pc EXCEPT ![u] = "invoking"]
                        \/ pc' = [pc EXCEPT ![u] = "generating"]
        BY DEF Fetch
      <4>4. Generate(u) => pc' = [pc EXCEPT ![u] = "invoking"]
        BY DEF Generate
      <4>5. Register(u) \/ Disregister(u) => pc' = [pc EXCEPT ![u] = "looping"]
        BY DEF Register, Disregister, Finish
      <4> QED BY <2>1, <4>1, <4>2, <4>3, <4>4, <4>5 DEF Run
    <3>2. Return(u) \/ CopyThrow(u) => pc' = [pc EXCEPT ![u] = "idle"]
      BY DEF Return, CopyThrow
    <3>3. u = t
      BY <2>0, <3>1, <3>2
    <3> QED BY <2>0, <3>1, <3>3 DEF CopyThrow
  <2>2. ASSUME NEW r \in Session, Ask(r) \/ OnClose(r) PROVE FALSE
    <3>1. <<r, "onMessage">> \in Thread /\ <<r, "onClose">> \in Thread
      BY DEF Thread
    <3>2. \/ pc' = [pc EXCEPT ![<<r, "onMessage">>] = "looping"]
          \/ pc' = [pc EXCEPT ![<<r, "onClose">>] = "looping"]
      BY <2>2 DEF Ask, Subscribe, Unsubscribe, UnsubscribeType, UnsubscribeAll, OnClose, Enter
    <3> QED BY <2>0, <3>1, <3>2
  <2>3. ~UNCHANGED pc
    OBVIOUS
  <2>4. Return(t)
    BY <1>1, <2>1, <2>2, <2>3 DEF Next, CollectHandler, CollectTopic
  <2> QED BY <1>1, <2>4 DEF Return, LeavingInv, Leaving
<1>2. Alive /\ LeavingInv /\ [Next]_vars => [Done]_vars
  BY <1>1
<1> QED BY <1>2, AliveAlways, LeavingAlways, PTL DEF Spec, UnsubscribeAllCompletes

-----------------------------------------------------------------------------
(* The registry implements Registrations.                                   *)

LEMMA SamePairs ==
  ASSUME \A s \in Session, n \in Name : Registered(s, n)' <=> Registered(s, n)
  PROVE  Pairs' = Pairs
  BY DEF Pairs

(* Requests and their names are those of the calls.                         *)
LEMMA SameRequests ==
  ASSUME Alive, \A u \in Thread : call'[u].op = call[u].op /\ call'[u].want = call[u].want
  PROVE  OpOf' = OpOf /\ WantOf' = WantOf
  BY DEF OpOf, WantOf

(* No step but register and disregister changes who is registered: a        *)
(* handler that comes or goes has no sessions, a topic that goes has no     *)
(* handler.                                                                 *)
LEMMA OnlyHandlersRegister ==
  ASSUME Alive, Next, ~\E t \in Thread : Register(t) \/ Disregister(t)
  PROVE  Pairs' = Pairs
<1> SUFFICES ASSUME NEW s \in Session, NEW n \in Name
             PROVE  Registered(s, n)' <=> Registered(s, n)
  BY SamePairs
<1>1. \A h \in Handler : sessions[h] # {} => topic[h] \in Topic /\ name[topic[h]] \in Name
  BY DEF Alive, TypeOK, HandlersAlive
<1>2. CASE UNCHANGED <<topic, name, sessions>>
  BY <1>2 DEF Registered
<1>3. CASE \E r \in Session : Subscribe(r)
  <2>1. UNCHANGED <<topic, sessions>> /\ \A x \in Topic : name[x] # None => name'[x] = name[x]
    BY <1>3 DEF Subscribe, Alive, TypeOK
  <2> QED BY <2>1, <1>1, NoneAssumption DEF Registered
<1>4. CASE \E t \in Thread : Generate(t)
  <2>1. /\ UNCHANGED <<name, sessions>>
        /\ \A h \in Handler : topic[h] # None => topic'[h] = topic[h]
    BY <1>4 DEF Generate, Alive, TypeOK
  <2> QED BY <2>1, <1>1, NoneAssumption DEF Registered
<1>5. CASE \E h \in Handler : CollectHandler(h)
  <2>1. PICK g \in Handler : CollectHandler(g)
    BY <1>5
  <2>2. sessions[g] = {}
    BY <2>1 DEF CollectHandler, HandlerReachable, Alive, SubscribedWhileSessions
  <2>3. /\ UNCHANGED name
        /\ \A h \in Handler : sessions'[h] = sessions[h]
        /\ \A h \in Handler : h # g => topic'[h] = topic[h]
    BY <2>1, <2>2 DEF CollectHandler, Alive, TypeOK
  <2> QED BY <2>2, <2>3 DEF Registered
<1>6. CASE \E x \in Topic : CollectTopic(x)
  <2>1. PICK y \in Topic : CollectTopic(y)
    BY <1>6
  <2>2. /\ UNCHANGED <<topic, sessions>>
        /\ \A h \in Handler : topic[h] # y
        /\ \A x \in Topic : x # y => name'[x] = name[x]
    BY <2>1 DEF CollectTopic, TopicReachable, Alive, TypeOK
  <2> QED BY <2>2, <1>1 DEF Registered
<1> QED
  BY <1>2, <1>3, <1>4, <1>5, <1>6
  DEF Next, Ask, Run, Unsubscribe, UnsubscribeType, UnsubscribeAll, OnClose, heap,
      StartPass, CopyDone, CopyThrow, Return, Fetch

(* A call that starts is an abstract request that begins.                   *)
LEMMA EnterBegins ==
  ASSUME Alive, NEW t \in Thread, NEW o \in Operation \ {"none"},
         NEW w \in SUBSET Name, NEW l \in SUBSET (Name \cup {None}),
         NEW xs \in SUBSET Topic, Enter(t, o, w, l, xs),
         t[2] = "onClose" => o = "unsubscribeAll", Pairs' = Pairs
  PROVE  Abstract!Next
<1>1. OpOf[t] = "none" /\ call[t] \in Call
  BY DEF OpOf, Enter, Alive, TypeOK, LocalsAlive, ThreadAlive
<1>2. OpOf' = [OpOf EXCEPT ![t] = o] /\ WantOf' = [WantOf EXCEPT ![t] = w]
  <2>1. /\ \A u \in Thread \ {t} : pc'[u] = pc[u] /\ call'[u] = call[u]
        /\ call'[t] = [op |-> o, want |-> w, left |-> l, held |-> xs, todo |-> xs,
                       cur |-> None, handler |-> None, raced |-> FALSE]
    BY EnterStep
  <2>2. \A u \in Thread : /\ call'[u].op = IF u = t THEN o ELSE call[u].op
                          /\ call'[u].want = IF u = t THEN w ELSE call[u].want
    BY <2>1
  <2> QED BY <2>2 DEF OpOf, WantOf
<1> QED BY <1>1, <1>2 DEF Abstract!Next, Abstract!Begin, Abstract!Thread, Thread

(* A call that ends, with an exception or without, ends the request.        *)
LEMMA EndEnds ==
  ASSUME Alive, NEW t \in Thread, pc[t] # "idle", call' = [call EXCEPT ![t] = NoCall],
         Pairs' = Pairs
  PROVE  Abstract!Next
<1>1. OpOf[t] # "none"
  BY DEF OpOf, Alive, LocalsAlive, ThreadAlive
<1>2. OpOf' = [OpOf EXCEPT ![t] = "none"] /\ WantOf' = [WantOf EXCEPT ![t] = {}]
  BY DEF OpOf, WantOf, NoCall, Alive, TypeOK
<1> QED BY <1>1, <1>2 DEF Abstract!Next, Abstract!End, Abstract!Thread, Thread
(* The steps of a session and its close implement Begin.                    *)
LEMMA RequestImplements ==
  ASSUME Alive, NEW s \in Session, Ask(s) \/ OnClose(s), Pairs' = Pairs
  PROVE  Abstract!Next
<1>1. <<s, "onMessage">> \in Thread /\ <<s, "onClose">> \in Thread
  BY DEF Thread
<1>2. /\ {"subscribe", "unsubscribe", "unsubscribeType", "unsubscribeAll"}
            \subseteq Operation \ {"none"}
      /\ {} \in SUBSET (Name \cup {None}) /\ {None} \in SUBSET (Name \cup {None})
      /\ {} \in SUBSET Topic
  BY DEF Operation
<1>3. CASE Subscribe(s)
  <2>1. PICK new \in (SUBSET {x \in Topic : name[x] = None}) \ {{}} :
          \E f \in [new -> Name] :
              Enter(<<s, "onMessage">>, "subscribe", {f[x] : x \in new}, {}, new)
    BY <1>3 DEF Subscribe
  <2>2. PICK f \in [new -> Name] :
              Enter(<<s, "onMessage">>, "subscribe", {f[x] : x \in new}, {}, new)
    BY <2>1
  <2>3. {f[x] : x \in new} \in SUBSET Name /\ new \in SUBSET Topic
    OBVIOUS
  <2> QED BY <1>1, <1>2, <2>2, <2>3, EnterBegins
<1>4. CASE Unsubscribe(s)
  <2>1. PICK ids \in SUBSET Name : Enter(<<s, "onMessage">>, "unsubscribe", ids, ids, {})
    BY <1>4 DEF Unsubscribe
  <2>2. ids \in SUBSET (Name \cup {None})
    OBVIOUS
  <2> QED BY <1>1, <1>2, <2>1, <2>2, EnterBegins
<1>5. CASE UnsubscribeType(s)
  <2>1. PICK ty \in Type : Enter(<<s, "onMessage">>, "unsubscribeType",
                                 {n \in Name : TypeOf[n] = ty}, {None}, {})
    BY <1>5 DEF UnsubscribeType
  <2>2. {n \in Name : TypeOf[n] = ty} \in SUBSET Name
    OBVIOUS
  <2> QED BY <1>1, <1>2, <2>1, <2>2, EnterBegins
<1>6. CASE UnsubscribeAll(s)
  <2>1. Name \in SUBSET Name
    OBVIOUS
  <2> QED BY <1>1, <1>2, <1>6, <2>1, EnterBegins DEF UnsubscribeAll
<1>7. CASE OnClose(s)
  <2>1. Name \in SUBSET Name
    OBVIOUS
  <2> QED BY <1>1, <1>2, <1>7, <2>1, EnterBegins DEF OnClose
<1> QED BY <1>3, <1>4, <1>5, <1>6, <1>7 DEF Ask

(* Registered after a step of one handler: only that handler's pairs move.  *)
LEMMA HandlerStep ==
  ASSUME Alive, NEW t \in Thread, Finish(t), UNCHANGED <<topic, name>>
  PROVE  LET h == call[t].handler
             n == name[topic[h]]
         IN  /\ h \in Handler /\ topic[h] # None
             /\ n \in Name
             /\ OpOf[t] # "none" /\ OpOf[t] = call[t].op
             /\ OpOf[t] = "subscribe" => n \in WantOf[t]
             /\ OpOf[t] = "unsubscribeType" => n \in WantOf[t]
             /\ OpOf' = OpOf /\ WantOf' = WantOf
<1>1. call[t] \in Call /\ ThreadAlive(t) /\ pc[t] = "invoking"
  BY DEF Alive, TypeOK, LocalsAlive, Finish
<1>2. call[t].handler \in Handler /\ topic[call[t].handler] # None
  BY FinishStep
<1>3. name[topic[call[t].handler]] \in Name
  BY <1>2, NoneAssumption DEF Alive, TypeOK, HandlersAlive
<1>4. OpOf[t] = call[t].op /\ WantOf[t] = call[t].want
  BY DEF OpOf, WantOf
<1>5. OpOf' = OpOf /\ WantOf' = WantOf
  <2>1. \A u \in Thread : call[u] \in Call
    BY DEF Alive, TypeOK
  <2>2. \A u \in Thread : call'[u].op = call[u].op /\ call'[u].want = call[u].want
    BY <2>1 DEF Finish, Alive, TypeOK, Call
  <2> QED BY <2>2, SameRequests
<1> QED BY <1>1, <1>2, <1>3, <1>4, <1>5 DEF ThreadAlive

(* register implements Add, or nothing.                                     *)
LEMMA RegisterImplements ==
  ASSUME Alive, NEW t \in Thread, Register(t)
  PROVE  Abstract!Next \/ UNCHANGED <<Pairs, OpOf, WantOf>>
<1> DEFINE h == call[t].handler
           n == name[topic[h]]
<1>1. /\ h \in Handler /\ topic[h] # None /\ n \in Name
      /\ OpOf[t] = "subscribe" /\ n \in WantOf[t]
      /\ OpOf' = OpOf /\ WantOf' = WantOf
  BY HandlerStep DEF Register
<1>2. /\ UNCHANGED <<topic, name>>
      /\ \/ sessions' = [sessions EXCEPT ![h] = @ \cup {t[1]}]
         \/ UNCHANGED sessions
  BY DEF Register
<1> HIDE DEF h
<1>3. CASE UNCHANGED sessions
  BY <1>1, <1>2, <1>3, SamePairs DEF Registered
<1>4. CASE sessions' = [sessions EXCEPT ![h] = @ \cup {t[1]}]
  <2>1. \A s \in Session, m \in Name :
          Registered(s, m)' <=> Registered(s, m) \/ (s = t[1] /\ m = n)
    BY <1>1, <1>2, <1>4 DEF Registered, Alive, TypeOK
  <2>2. t[1] \in Session
    BY DEF Thread
  <2>3. Pairs' = Pairs \cup {<<t[1], n>>}
    BY <2>1, <2>2, <1>1 DEF Pairs
  <2> HIDE DEF n
  <2> QED BY <2>3, <1>1 DEF Abstract!Next, Abstract!Add, Abstract!Thread, Thread
<1> QED BY <1>2, <1>3, <1>4

(* disregister implements Remove, or nothing.                               *)
LEMMA DisregisterImplements ==
  ASSUME Alive, NEW t \in Thread, Disregister(t)
  PROVE  Abstract!Next \/ UNCHANGED <<Pairs, OpOf, WantOf>>
<1> DEFINE h == call[t].handler
           n == name[topic[h]]
<1>1. /\ h \in Handler /\ topic[h] # None /\ n \in Name
      /\ OpOf[t] \notin {"none", "subscribe"}
      /\ OpOf[t] = "unsubscribeType" => n \in WantOf[t]
      /\ OpOf' = OpOf /\ WantOf' = WantOf
  BY HandlerStep DEF Disregister
<1>2. /\ UNCHANGED <<topic, name>>
      /\ sessions' = [sessions EXCEPT ![h] = @ \ {t[1]}]
  BY DEF Disregister
<1> HIDE DEF h
<1>3. PICK k \in Name : k = n
  BY <1>1
<1>4. PICK r \in Session : r = t[1]
  BY DEF Thread
<1>5. \A s \in Session, m \in Name :
          ~(s = r /\ m = k) => (Registered(s, m)' <=> Registered(s, m))
  BY <1>1, <1>2, <1>3, <1>4 DEF Registered, Alive, TypeOK
<1> HIDE DEF n
<1>6. CASE Registered(r, k)' <=> Registered(r, k)
  <2>1. \A s \in Session, m \in Name : Registered(s, m)' <=> Registered(s, m)
    BY <1>5, <1>6
  <2> QED BY <2>1, <1>1, SamePairs
<1>7. CASE Registered(r, k) /\ ~Registered(r, k)'
  <2>1. \A s \in Session, m \in Name :
          Registered(s, m)' <=> Registered(s, m) /\ ~(s = r /\ m = k)
    BY <1>5, <1>7
  <2>2. Pairs' = Pairs \ {<<t[1], k>>}
    BY <2>1, <1>4 DEF Pairs
  <2> QED BY <2>2, <1>1, <1>3 DEF Abstract!Next, Abstract!Remove, Abstract!Thread, Thread
<1>8. Registered(r, k)' => Registered(r, k)
  BY <1>1, <1>2 DEF Registered, Alive, TypeOK
<1> QED BY <1>6, <1>7, <1>8

(* Every other step of a thread either ends its request or is unseen.       *)
LEMMA RunImplements ==
  ASSUME Alive, NEW t \in Thread, Run(t), ~Register(t), ~Disregister(t), Pairs' = Pairs
  PROVE  Abstract!Next \/ UNCHANGED <<Pairs, OpOf, WantOf>>
<1>1. CASE CopyThrow(t) \/ Return(t)
  BY <1>1, EndEnds DEF CopyThrow, Return
<1>2. CASE StartPass(t) \/ CopyDone(t) \/ Fetch(t) \/ Generate(t)
  <2>1. \A u \in Thread : call[u] \in Call
    BY DEF Alive, TypeOK
  <2>2. \A u \in Thread : call'[u].op = call[u].op /\ call'[u].want = call[u].want
    <3>1. CASE StartPass(t)
      BY <2>1, <3>1 DEF StartPass, Alive, TypeOK, Call
    <3>2. CASE CopyDone(t)
      BY <2>1, <3>2 DEF CopyDone, Alive, TypeOK, Call
    <3>3. CASE Fetch(t)
      BY SMTT(30), <2>1, <3>3 DEF Fetch, Alive, TypeOK, Call
    <3>4. CASE Generate(t)
      BY <2>1, <3>4 DEF Generate, Alive, TypeOK, Call
    <3> QED BY <1>2, <3>1, <3>2, <3>3, <3>4
  <2> QED BY <2>2, SameRequests
<1> QED BY <1>1, <1>2 DEF Run

(* The registry implements the abstract registrations: a session becomes    *)
(* registered only by its own running subscribe request for that name, and  *)
(* loses a registration only by its own running unsubscribe request or      *)
(* close, never by the collector or by another session.                     *)
THEOREM Refinement == Spec => RegistrySpec
<1>1. Init => Abstract!Init
  <2> SUFFICES ASSUME Init PROVE Abstract!Init
    OBVIOUS
  <2>1. Pairs = {}
    BY DEF Init, Pairs, Registered
  <2>2. OpOf = [t \in Thread |-> "none"] /\ WantOf = [t \in Thread |-> {}]
    BY DEF Init, OpOf, WantOf, NoCall
  <2> QED BY <2>1, <2>2 DEF Abstract!Init, Abstract!Thread, Thread
<1>2. Alive /\ [Next]_vars => [Abstract!Next]_Abstract!vars
  <2> SUFFICES ASSUME Alive, [Next]_vars
               PROVE  Abstract!Next \/ UNCHANGED <<Pairs, OpOf, WantOf>>
    BY DEF Abstract!vars
  <2>1. CASE \E t \in Thread : Register(t) \/ Disregister(t)
    BY <2>1, RegisterImplements, DisregisterImplements
  <2>2. CASE Next /\ ~\E t \in Thread : Register(t) \/ Disregister(t)
    <3>1. Pairs' = Pairs
      BY <2>2, OnlyHandlersRegister
    <3>2. CASE \E s \in Session : Ask(s) \/ OnClose(s)
      BY <3>1, <3>2, RequestImplements
    <3>3. CASE \E t \in Thread : Run(t)
      BY <2>2, <3>1, <3>3, RunImplements
    <3>4. CASE \/ \E h \in Handler : CollectHandler(h)
               \/ \E x \in Topic : CollectTopic(x)
      <4>1. UNCHANGED call
        BY <3>4 DEF CollectHandler, CollectTopic
      <4> QED BY <3>1, <4>1, SameRequests
    <3> QED BY <2>2, <3>2, <3>3, <3>4 DEF Next
  <2>3. CASE UNCHANGED vars
    BY <2>3 DEF vars, Pairs, Registered, OpOf, WantOf
  <2> QED BY <2>1, <2>2, <2>3
<1> QED BY <1>1, <1>2, AliveAlways, PTL DEF Spec, RegistrySpec, Abstract!Spec
=============================================================================
