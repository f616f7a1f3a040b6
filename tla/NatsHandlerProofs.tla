-------------------------- MODULE NatsHandlerProofs --------------------------
(* Theorems about NatsHandler, for any threads, sessions, handlers and      *)
(* connections.                                                             *)
EXTENDS NatsHandler, TLAPS

(* The monitor: one thread at a time is inside a handler.                   *)
Mutex ==
    \A t, u \in Thread :
        Inside(t) /\ Inside(u) /\ call[t].handler = call[u].handler => t = u

(* What a call holds, and what the handler's fields are meanwhile: who      *)
(* subscribes found no subscription; who unsubscribes found one, and has    *)
(* removed the last session.                                                *)
CallOK(t) ==
    LET h == call[t].handler IN
    /\ pc[t] # "idle" =>
          /\ call[t].op \in {"register", "disregister"}
          /\ h \in Handler
          /\ call[t].session \in Session
    /\ pc[t] # "adding" => call[t].sid = None
    /\ pc[t] \in {"checking", "building", "connecting", "using"} =>
          IF call[t].op = "register" THEN subId[h] = None
                                     ELSE subId[h] # None /\ sessions[h] = {}

CallsOK == \A t \in Thread : CallOK(t)

(* A round that has met no change of the set has passed sessions that are   *)
(* in it, and has fetched one it has not passed, or none when there is none.*)
RoundOK(c) ==
    LET r == round[c]
        S == sessions[r.handler]
    IN  r.handler # None /\ ~r.raced =>
            /\ r.seen \subseteq S
            /\ reader[c] \in {"looking", "waiting", "sending"} =>
                  IF r.next = None THEN r.seen = S ELSE r.next \in S \ r.seen

RoundsOK == \A c \in Conn : RoundOK(c)

HandlerInv == TypeOK /\ Mutex /\ CallsOK /\ RoundsOK

(* The manager's lock: one thread at a time connects, and only where the    *)
(* manager has no connection or one that has been lost.                     *)
ConnInv ==
    /\ \A t, u \in Thread : pc[t] = "connecting" /\ pc[u] = "connecting" => t = u
    /\ \A t \in Thread : pc[t] = "connecting" => conn = None \/ conn \in lost
    /\ conn # None => reader[conn] # "none" /\ (conn \in up \/ conn \in lost)
    /\ OneConnection

(* The id that a thread has from subscribe and has yet to assign.           *)
Holds(t, h, i) == pc[t] = "adding" /\ call[t].handler = h /\ call[t].sid = i

(* Where no call fails and the connection is not replaced, NATS holds for   *)
(* each handler the subscription it knows and no other, and a handler that  *)
(* no thread is inside knows one exactly when it has sessions.              *)
Subscriptions ==
    /\ \A t \in Thread : pc[t] = "adding" => conn # None
    /\ \A h \in Handler : subId[h] # None => conn # None
    /\ \A h \in Handler, c \in Conn, i \in Sid :
          subs[c][i] = h <=>
              c = conn /\ (subId[h] = i \/ \E t \in Thread : Holds(t, h, i))
    /\ \A h \in Handler :
          /\ sessions[h] # {} => subId[h] # None
          /\ subId[h] # None /\ sessions[h] = {} => Locked(h)

-----------------------------------------------------------------------------
(* Initially no thread runs, no connection exists and every set is empty.   *)
LEMMA InitInv == Init => HandlerInv
  BY NoneAssumption
  DEF Init, HandlerInv, TypeOK, Mutex, Inside, CallsOK, CallOK, RoundsOK, RoundOK,
      NoCall, Call, NoRound, Round

(* The lock: a thread comes to be inside only when nobody is.               *)
LEMMA MutexStep ==
  ASSUME HandlerInv, NEW t \in Thread,
         \A u \in Thread \ {t} : pc'[u] = pc[u] /\ call'[u] = call[u],
         Inside(t)' => /\ call'[t].handler = call[t].handler
                       /\ Inside(t) \/ ~Locked(call[t].handler)
  PROVE  Mutex'
<1> SUFFICES ASSUME NEW u \in Thread, NEW v \in Thread, Inside(u)', Inside(v)',
                    call'[u].handler = call'[v].handler
             PROVE  u = v
  BY DEF Mutex
<1>1. CASE u # t /\ v # t
  BY <1>1 DEF HandlerInv, Mutex, Inside
<1>2. CASE u = t /\ v # t
  BY <1>2 DEF HandlerInv, Mutex, Inside, Locked
<1>3. CASE u # t /\ v = t
  BY <1>3 DEF HandlerInv, Mutex, Inside, Locked
<1> QED BY <1>1, <1>2, <1>3

(* A thread that takes no step keeps what it holds, unless the handler it   *)
(* is inside is changed.                                                    *)
LEMMA OtherCall ==
  ASSUME HandlerInv, NEW u \in Thread, pc'[u] = pc[u], call'[u] = call[u],
         Inside(u) => /\ subId'[call[u].handler] = subId[call[u].handler]
                      /\ sessions'[call[u].handler] = sessions[call[u].handler]
  PROVE  CallOK(u)'
  BY DEF HandlerInv, CallsOK, CallOK, Inside

(* Where a thread is inside, no other is: the handlers of the others keep   *)
(* their fields when it changes its own.                                    *)
LEMMA OthersApart ==
  ASSUME HandlerInv, NEW t \in Thread, NEW u \in Thread \ {t}, Inside(u),
         Inside(t) \/ ~Locked(call[t].handler)
  PROVE  call[u].handler # call[t].handler
  BY DEF HandlerInv, Mutex, Locked

(* A change of a HashSet is noticed by the rounds over it, so what is said  *)
(* of rounds that met no change remains.                                    *)
LEMMA SetSessionsKeeps ==
  ASSUME HandlerInv, NEW h \in Handler, NEW S \in SUBSET Session,
         SetSessions(h, S), UNCHANGED reader
  PROVE  /\ sessions' \in [Handler -> SUBSET Session]
         /\ round' \in [Conn -> Round]
         /\ \A c \in Conn : round'[c].handler = round[c].handler /\ round'[c].cur = round[c].cur
         /\ RoundsOK'
<1>1. sessions' \in [Handler -> SUBSET Session]
  BY DEF HandlerInv, TypeOK, SetSessions
<1>2. ASSUME NEW c \in Conn
      PROVE  /\ round'[c] \in Round
             /\ round'[c].handler = round[c].handler
             /\ round'[c].cur = round[c].cur
             /\ round'[c].next = round[c].next
             /\ round'[c].seen = round[c].seen
             /\ ~round'[c].raced => round'[c] = round[c]
                                    /\ (round[c].handler = h => S = sessions[h])
  <2> round[c] \in Round
    BY DEF HandlerInv, TypeOK
  <2> QED BY DEF SetSessions, Round
<1>3. round' \in [Conn -> Round]
  BY <1>2 DEF SetSessions
<1>4. RoundsOK'
  <2> SUFFICES ASSUME NEW c \in Conn PROVE RoundOK(c)'
    BY DEF RoundsOK
  <2>1. RoundOK(c)
    BY DEF HandlerInv, RoundsOK
  <2>2. CASE round'[c].raced \/ round'[c].handler = None
    BY <2>2 DEF RoundOK
  <2>3. CASE ~round'[c].raced /\ round'[c].handler # None
    <3>1. round'[c] = round[c] /\ reader'[c] = reader[c]
      BY <2>3, <1>2
    <3>2. round[c].handler \in Handler
      BY <2>3, <3>1 DEF HandlerInv, TypeOK, Round
    <3>3. sessions'[round[c].handler] = sessions[round[c].handler]
      BY <2>3, <1>2, <3>2 DEF SetSessions, HandlerInv, TypeOK
    <3> QED BY <2>1, <3>1, <3>3 DEF RoundOK
  <2> QED BY <2>2, <2>3
<1> QED BY <1>1, <1>2, <1>3, <1>4

-----------------------------------------------------------------------------
(* What the container's threads do.                                         *)

(* Where a thread goes, and what it forgets when its call returns.          *)
LEMMA GotoStep ==
  ASSUME TypeOK, NEW t \in Thread, NEW where, Goto(t, where),
         where \in {"idle", "entering", "checking", "building", "connecting", "using", "adding"}
  PROVE  /\ pc' \in [Thread -> {"idle", "entering", "checking", "building", "connecting", "using", "adding"}]
         /\ call' \in [Thread -> Call]
         /\ pc'[t] = where /\ call'[t] = call[t]
         /\ \A u \in Thread \ {t} : pc'[u] = pc[u] /\ call'[u] = call[u]
  BY DEF TypeOK, Goto

LEMMA LeaveStep ==
  ASSUME TypeOK, NEW t \in Thread, Leave(t)
  PROVE  /\ pc' \in [Thread -> {"idle", "entering", "checking", "building", "connecting", "using", "adding"}]
         /\ call' \in [Thread -> Call]
         /\ pc'[t] = "idle" /\ call'[t] = NoCall
         /\ \A u \in Thread \ {t} : pc'[u] = pc[u] /\ call'[u] = call[u]
<1>1. NoCall \in Call
  BY DEF NoCall, Call
<1> QED BY <1>1 DEF TypeOK, Leave

(* A step of t that leaves the sets, the ids and the readers alone.         *)
LEMMA MoveStep ==
  ASSUME HandlerInv, NEW t \in Thread,
         UNCHANGED <<sessions, subId, round>>,
         \A u \in Thread \ {t} : pc'[u] = pc[u] /\ call'[u] = call[u],
         CallOK(t)'
  PROVE  CallsOK'
<1> SUFFICES ASSUME NEW u \in Thread \ {t} PROVE CallOK(u)'
  BY DEF CallsOK
<1> QED BY OtherCall

LEMMA RoundsStay ==
  ASSUME HandlerInv, UNCHANGED <<sessions, reader, round>>
  PROVE  RoundsOK'
  BY DEF HandlerInv, RoundsOK, RoundOK

LEMMA StartInv ==
  ASSUME HandlerInv, NEW t \in Thread, Start(t) PROVE HandlerInv'
<1>1. PICK op \in {"register", "disregister"}, h \in Handler, s \in Session :
        /\ pc[t] = "idle"
        /\ pc' = [pc EXCEPT ![t] = "entering"]
        /\ call' = [call EXCEPT ![t] =
              [op |-> op, handler |-> h, session |-> s, sid |-> None]]
        /\ UNCHANGED <<sessions, subId, conn, up, lost, subs, reader, round>>
  BY DEF Start
<1>2. TypeOK'
  BY <1>1 DEF HandlerInv, TypeOK, Call
<1>3. \A u \in Thread \ {t} : pc'[u] = pc[u] /\ call'[u] = call[u]
  BY <1>1 DEF HandlerInv, TypeOK
<1>4. pc'[t] = "entering" /\ call'[t] = [op |-> op, handler |-> h, session |-> s, sid |-> None]
  BY <1>1 DEF HandlerInv, TypeOK
<1>5. Mutex'
  <2>1. ~Inside(t)'
    BY <1>4 DEF Inside
  <2> QED BY <2>1, <1>3, MutexStep
<1>6. CallsOK'
  <2>1. CallOK(t)'
    BY <1>4 DEF CallOK
  <2> QED BY <2>1, <1>1, <1>3, MoveStep
<1> QED BY <1>1, <1>2, <1>5, <1>6, RoundsStay DEF HandlerInv

LEMMA EnterRegisterInv ==
  ASSUME HandlerInv, NEW t \in Thread, EnterRegister(t) PROVE HandlerInv'
<1> DEFINE h == call[t].handler
<1> DEFINE where == IF subId[h] = None THEN "checking" ELSE "adding"
<1>1. /\ pc[t] = "entering"
      /\ call[t].op = "register"
      /\ ~Locked(h)
      /\ pc' = [pc EXCEPT ![t] = where]
      /\ UNCHANGED <<call, sessions, subId, conn, up, lost, subs, reader, round>>
  BY DEF EnterRegister, Goto
<1>2. TypeOK'
  <2>1. call[t].sid = None
    BY <1>1 DEF HandlerInv, CallsOK, CallOK
  <2> QED BY <1>1, <2>1 DEF HandlerInv, TypeOK
<1>3. pc'[t] = where /\ \A u \in Thread \ {t} : pc'[u] = pc[u] /\ call'[u] = call[u]
  BY <1>1 DEF HandlerInv, TypeOK
<1>4. Mutex'
  BY <1>1, <1>3, MutexStep
<1>5. CallsOK'
  <2>1. CallOK(t)'
    BY <1>1, <1>3 DEF HandlerInv, CallsOK, CallOK
  <2> QED BY <2>1, <1>1, <1>3, MoveStep
<1> QED BY <1>1, <1>2, <1>4, <1>5, RoundsStay DEF HandlerInv

LEMMA EnterDisregisterInv ==
  ASSUME HandlerInv, NEW t \in Thread, EnterDisregister(t) PROVE HandlerInv'
<1> DEFINE h == call[t].handler
           s == call[t].session
           last == sessions[h] = {s} /\ subId[h] # None
<1>1. /\ pc[t] = "entering"
      /\ call[t].op = "disregister"
      /\ ~Locked(h)
      /\ SetSessions(h, sessions[h] \ {s})
      /\ IF last THEN Goto(t, "checking") ELSE Leave(t)
      /\ UNCHANGED <<subId, conn, up, lost, subs, reader>>
  BY DEF EnterDisregister
<1>2. h \in Handler /\ s \in Session /\ call[t].sid = None
  BY <1>1 DEF HandlerInv, CallsOK, CallOK
<1>3. sessions[h] \in SUBSET Session
  BY <1>2 DEF HandlerInv, TypeOK
<1>4. /\ sessions' \in [Handler -> SUBSET Session]
      /\ round' \in [Conn -> Round]
      /\ \A c \in Conn : round'[c].handler = round[c].handler /\ round'[c].cur = round[c].cur
      /\ RoundsOK'
  <2>1. sessions[h] \ {s} \in SUBSET Session
    BY <1>3
  <2> QED BY <2>1, <1>1, <1>2, SetSessionsKeeps
<1>5. /\ pc'[t] = IF last THEN "checking" ELSE "idle"
      /\ call'[t] = IF last THEN call[t] ELSE NoCall
      /\ \A u \in Thread \ {t} : pc'[u] = pc[u] /\ call'[u] = call[u]
      /\ pc' \in [Thread -> {"idle", "entering", "checking", "building", "connecting", "using", "adding"}]
      /\ call' \in [Thread -> Call]
  <2>1. CASE last
    BY <2>1, <1>1, GotoStep DEF HandlerInv
  <2>2. CASE ~last
    BY <2>2, <1>1, LeaveStep DEF HandlerInv
  <2> QED BY <2>1, <2>2
<1>6. TypeOK'
  <2>1. \A u \in Thread : pc'[u] = "adding" => pc[u] = "adding" /\ call'[u] = call[u]
    BY <1>5
  <2>2. TypeOK
    BY DEF HandlerInv
  <2> HIDE DEF last, h, s
  <2>3. \A u \in Thread :
           pc'[u] = "adding" =>
              /\ call'[u].op = "register"
              /\ call'[u].sid = None <=> subId'[call'[u].handler] # None
    BY <2>1, <2>2, <1>1 DEF TypeOK
  <2>4. \A c \in Conn :
           reader'[c] \in {"none", "reading", "dead"} <=> round'[c].handler = None
    BY <2>2, <1>1, <1>4 DEF TypeOK
  <2> QED BY <2>2, <2>3, <2>4, <1>1, <1>4, <1>5 DEF TypeOK
<1>7. Mutex'
  <2>1. Inside(t)' => call'[t].handler = h
    BY <1>5 DEF Inside
  <2> QED BY <2>1, <1>1, <1>5, MutexStep
<1>8. sessions'[h] = sessions[h] \ {s} /\ \A g \in Handler \ {h} : sessions'[g] = sessions[g]
  BY <1>1, <1>2 DEF SetSessions, HandlerInv, TypeOK
<1>9. CallsOK'
  <2> SUFFICES ASSUME NEW u \in Thread PROVE CallOK(u)'
    BY DEF CallsOK
  <2>1. CASE u = t
    <3>1. CASE last
      BY <2>1, <3>1, <1>1, <1>2, <1>5, <1>8 DEF CallOK
    <3>2. CASE ~last
      BY <2>1, <3>2, <1>5 DEF CallOK, NoCall
    <3> QED BY <3>1, <3>2
  <2>2. CASE u # t
    <3>1. pc'[u] = pc[u] /\ call'[u] = call[u]
      BY <2>2, <1>5
    <3>2. Inside(u) => call[u].handler \in Handler /\ call[u].handler # h
      BY <2>2, <1>1, OthersApart DEF Inside, HandlerInv, CallsOK, CallOK
    <3> QED BY <3>1, <3>2, <1>1, <1>8, OtherCall
  <2> QED BY <2>1, <2>2
<1> QED BY <1>4, <1>6, <1>7, <1>9 DEF HandlerInv

LEMMA CheckConnInv ==
  ASSUME HandlerInv, NEW t \in Thread, CheckConn(t) PROVE HandlerInv'
<1> DEFINE where == IF conn \in up THEN "using" ELSE "building"
<1>1. /\ pc[t] = "checking"
      /\ Goto(t, where)
      /\ UNCHANGED <<sessions, subId, conn, up, lost, subs, reader, round>>
  BY DEF CheckConn
<1>2. /\ pc' \in [Thread -> {"idle", "entering", "checking", "building", "connecting", "using", "adding"}]
      /\ call' \in [Thread -> Call]
      /\ pc'[t] = where /\ call'[t] = call[t]
      /\ \A u \in Thread \ {t} : pc'[u] = pc[u] /\ call'[u] = call[u]
  BY <1>1, GotoStep DEF HandlerInv
<1>3. TypeOK'
  <2>1. \A u \in Thread : pc'[u] = "adding" => pc[u] = "adding" /\ call'[u] = call[u]
    BY <1>2
  <2> QED BY <2>1, <1>1, <1>2 DEF HandlerInv, TypeOK
<1>4. Mutex'
  BY <1>1, <1>2, MutexStep DEF Inside
<1>5. CallsOK'
  <2>1. CallOK(t)'
    BY <1>1, <1>2 DEF HandlerInv, CallsOK, CallOK
  <2> QED BY <2>1, <1>1, <1>2, MoveStep
<1> QED BY <1>1, <1>3, <1>4, <1>5, RoundsStay DEF HandlerInv

(* The manager's lock, and the second look.                                 *)
LEMMA EnterBuildInv ==
  ASSUME HandlerInv, NEW t \in Thread, EnterBuild(t) PROVE HandlerInv'
<1> DEFINE where == IF conn \in up THEN "using" ELSE "connecting"
<1>1. /\ pc[t] = "building"
      /\ Goto(t, where)
      /\ UNCHANGED <<sessions, subId, conn, up, lost, subs, reader, round>>
  BY DEF EnterBuild
<1>2. /\ pc' \in [Thread -> {"idle", "entering", "checking", "building", "connecting", "using", "adding"}]
      /\ call' \in [Thread -> Call]
      /\ pc'[t] = where /\ call'[t] = call[t]
      /\ \A u \in Thread \ {t} : pc'[u] = pc[u] /\ call'[u] = call[u]
  BY <1>1, GotoStep DEF HandlerInv
<1>3. TypeOK'
  <2>1. \A u \in Thread : pc'[u] = "adding" => pc[u] = "adding" /\ call'[u] = call[u]
    BY <1>2
  <2> QED BY <2>1, <1>1, <1>2 DEF HandlerInv, TypeOK
<1>4. Mutex'
  BY <1>1, <1>2, MutexStep DEF Inside
<1>5. CallsOK'
  <2>1. CallOK(t)'
    BY <1>1, <1>2 DEF HandlerInv, CallsOK, CallOK
  <2> QED BY <2>1, <1>1, <1>2, MoveStep
<1> QED BY <1>1, <1>3, <1>4, <1>5, RoundsStay DEF HandlerInv

(* What a connection that has been made changes.                            *)
LEMMA ConnectStep ==
  ASSUME TypeOK, NEW t \in Thread, Connect(t)
  PROVE  /\ pc[t] = "connecting" /\ Goto(t, "using")
         /\ UNCHANGED <<sessions, subId, lost, subs, round>>
         /\ \/ /\ Failing \/ Unused = {}
               /\ UNCHANGED <<conn, up, reader>>
            \/ \E c \in Conn :
                  /\ reader[c] = "none" /\ reader'[c] = "reading"
                  /\ \A d \in Conn \ {c} : reader'[d] = reader[d]
                  /\ reader' \in [Conn -> {"none", "reading", "looking", "advancing",
                                           "waiting", "sending", "dead"}]
                  /\ conn' = c /\ up' = up \cup {c}
  BY DEF Connect, TypeOK, Unused

LEMMA ConnectInv ==
  ASSUME HandlerInv, NEW t \in Thread, Connect(t) PROVE HandlerInv'
<1>0. TypeOK
  BY DEF HandlerInv
<1>1. /\ pc[t] = "connecting" /\ Goto(t, "using")
      /\ UNCHANGED <<sessions, subId, subs, round>>
  BY <1>0, ConnectStep
<1>2. /\ pc' \in [Thread -> {"idle", "entering", "checking", "building", "connecting", "using", "adding"}]
      /\ call' \in [Thread -> Call]
      /\ pc'[t] = "using" /\ call'[t] = call[t]
      /\ \A u \in Thread \ {t} : pc'[u] = pc[u] /\ call'[u] = call[u]
  BY <1>1, GotoStep DEF HandlerInv
<1>3. /\ reader' \in [Conn -> {"none", "reading", "looking", "advancing",
                               "waiting", "sending", "dead"}]
      /\ conn' \in Conn \cup {None} /\ up' \in SUBSET Conn /\ lost' = lost
      /\ \A c \in Conn : reader'[c] = reader[c] \/ (reader[c] = "none" /\ reader'[c] = "reading")
  BY <1>0, ConnectStep DEF TypeOK
<1>4. TypeOK'
  <2>1. \A u \in Thread : pc'[u] = "adding" => pc[u] = "adding" /\ call'[u] = call[u]
    BY <1>2
  <2>2. \A d \in Conn :
           reader'[d] \in {"none", "reading", "dead"} <=> round'[d].handler = None
    BY <1>0, <1>1, <1>3 DEF TypeOK
  <2> QED BY <1>0, <1>1, <1>2, <1>3, <2>1, <2>2 DEF TypeOK
<1>5. Mutex'
  BY <1>1, <1>2, MutexStep DEF Inside
<1>6. CallsOK'
  <2>1. CallOK(t)'
    BY <1>1, <1>2 DEF HandlerInv, CallsOK, CallOK
  <2> QED BY <2>1, <1>1, <1>2, MoveStep
<1>7. RoundsOK'
  BY <1>1, <1>3 DEF HandlerInv, RoundsOK, RoundOK
<1> QED BY <1>4, <1>5, <1>6, <1>7 DEF HandlerInv

LEMMA SubscribeInv ==
  ASSUME HandlerInv, NEW t \in Thread, Subscribe(t) PROVE HandlerInv'
<1>1. PICK i \in Sid :
        /\ pc[t] = "using"
        /\ call[t].op = "register"
        /\ conn # None
        /\ subs' = [subs EXCEPT ![conn][i] = call[t].handler]
        /\ \/ /\ pc' = [pc EXCEPT ![t] = "adding"]
              /\ call' = [call EXCEPT ![t].sid = i]
           \/ Leave(t)
        /\ UNCHANGED <<sessions, subId, conn, up, lost, reader, round>>
  BY DEF Subscribe
<1>2. /\ call[t].handler \in Handler /\ call[t].session \in Session
      /\ subId[call[t].handler] = None
      /\ call[t] \in Call
  BY <1>1 DEF HandlerInv, CallsOK, CallOK, TypeOK
<1>3. subs' \in [Conn -> [Sid -> Handler \cup {None}]]
  BY <1>1, <1>2 DEF HandlerInv, TypeOK
<1>4. /\ pc' \in [Thread -> {"idle", "entering", "checking", "building", "connecting", "using", "adding"}]
      /\ call' \in [Thread -> Call]
      /\ \A u \in Thread \ {t} : pc'[u] = pc[u] /\ call'[u] = call[u]
      /\ \/ pc'[t] = "adding" /\ call'[t] = [call[t] EXCEPT !.sid = i]
         \/ pc'[t] = "idle" /\ call'[t] = NoCall
  <2>1. CASE Leave(t)
    BY <2>1, LeaveStep DEF HandlerInv
  <2>2. CASE pc' = [pc EXCEPT ![t] = "adding"] /\ call' = [call EXCEPT ![t].sid = i]
    <3>1. [call[t] EXCEPT !.sid = i] \in Call
      BY <1>2 DEF Call
    <3>2. call' = [call EXCEPT ![t] = [call[t] EXCEPT !.sid = i]]
      BY <2>2
    <3> QED BY <2>2, <3>1, <3>2 DEF HandlerInv, TypeOK
  <2> QED BY <1>1, <2>1, <2>2
<1>5. pc'[t] = "adding" => /\ call'[t].op = "register" /\ call'[t].sid = i
                           /\ call'[t].handler = call[t].handler
                           /\ call'[t].session = call[t].session
  BY <1>1, <1>2, <1>4 DEF Call
<1>6. i # None
  BY NoneAssumption
<1>7. TypeOK'
  <2>1. \A u \in Thread :
           pc'[u] = "adding" =>
              /\ call'[u].op = "register"
              /\ call'[u].sid = None <=> subId'[call'[u].handler] # None
    <3> SUFFICES ASSUME NEW u \in Thread, pc'[u] = "adding"
                 PROVE  /\ call'[u].op = "register"
                        /\ call'[u].sid = None <=> subId'[call'[u].handler] # None
      OBVIOUS
    <3>1. CASE u = t
      BY <3>1, <1>1, <1>2, <1>5, <1>6
    <3>2. CASE u # t
      BY <3>2, <1>1, <1>4 DEF HandlerInv, TypeOK
    <3> QED BY <3>1, <3>2
  <2> QED BY <2>1, <1>1, <1>3, <1>4 DEF HandlerInv, TypeOK
<1>8. Mutex'
  <2>1. Inside(t)' => call'[t].handler = call[t].handler /\ Inside(t)
    BY <1>1, <1>4, <1>5 DEF Inside
  <2> QED BY <2>1, <1>4, MutexStep
<1>9. CallsOK'
  <2>1. CallOK(t)'
    <3>1. CASE pc'[t] = "adding"
      BY <3>1, <1>2, <1>5 DEF CallOK
    <3>2. CASE pc'[t] = "idle" /\ call'[t] = NoCall
      BY <3>2 DEF CallOK, NoCall
    <3> QED BY <3>1, <3>2, <1>4
  <2> QED BY <2>1, <1>1, <1>4, MoveStep
<1> QED BY <1>1, <1>7, <1>8, <1>9, RoundsStay DEF HandlerInv

LEMMA UseFailsInv ==
  ASSUME HandlerInv, NEW t \in Thread, UseFails(t) PROVE HandlerInv'
<1>1. /\ pc[t] = "using"
      /\ Leave(t)
      /\ UNCHANGED <<sessions, subId, conn, up, lost, subs, reader, round>>
  BY DEF UseFails
<1>2. /\ pc' \in [Thread -> {"idle", "entering", "checking", "building", "connecting", "using", "adding"}]
      /\ call' \in [Thread -> Call]
      /\ pc'[t] = "idle" /\ call'[t] = NoCall
      /\ \A u \in Thread \ {t} : pc'[u] = pc[u] /\ call'[u] = call[u]
  BY <1>1, LeaveStep DEF HandlerInv
<1>3. TypeOK'
  <2>1. \A u \in Thread : pc'[u] = "adding" => pc[u] = "adding" /\ call'[u] = call[u]
    BY <1>2
  <2> QED BY <2>1, <1>1, <1>2 DEF HandlerInv, TypeOK
<1>4. Mutex'
  <2>1. ~Inside(t)'
    BY <1>2 DEF Inside
  <2> QED BY <2>1, <1>2, MutexStep
<1>5. CallsOK'
  <2>1. CallOK(t)'
    BY <1>2 DEF CallOK, NoCall
  <2> QED BY <2>1, <1>1, <1>2, MoveStep
<1> QED BY <1>1, <1>3, <1>4, <1>5, RoundsStay DEF HandlerInv

LEMMA AddInv ==
  ASSUME HandlerInv, NEW t \in Thread, Add(t) PROVE HandlerInv'
<1> DEFINE h == call[t].handler
           i == IF call[t].sid = None THEN subId[h] ELSE call[t].sid
<1>1. /\ pc[t] = "adding"
      /\ subId' = [subId EXCEPT ![h] = i]
      /\ SetSessions(h, sessions[h] \cup {call[t].session})
      /\ Leave(t)
      /\ UNCHANGED <<conn, up, lost, subs, reader>>
  BY DEF Add
<1>2. /\ h \in Handler /\ call[t].session \in Session /\ Inside(t)
      /\ call[t].sid = None <=> subId[h] # None
      /\ i \in Sid
  BY <1>1 DEF HandlerInv, CallsOK, CallOK, TypeOK, Inside, Call
<1>3. /\ sessions' \in [Handler -> SUBSET Session]
      /\ round' \in [Conn -> Round]
      /\ \A c \in Conn : round'[c].handler = round[c].handler /\ round'[c].cur = round[c].cur
      /\ RoundsOK'
  <2>1. sessions[h] \cup {call[t].session} \in SUBSET Session
    BY <1>2 DEF HandlerInv, TypeOK
  <2> HIDE DEF h
  <2> QED BY <2>1, <1>1, <1>2, SetSessionsKeeps
<1>4. /\ pc' \in [Thread -> {"idle", "entering", "checking", "building", "connecting", "using", "adding"}]
      /\ call' \in [Thread -> Call]
      /\ pc'[t] = "idle" /\ call'[t] = NoCall
      /\ \A u \in Thread \ {t} : pc'[u] = pc[u] /\ call'[u] = call[u]
  BY <1>1, LeaveStep DEF HandlerInv
<1>5. /\ subId' \in [Handler -> Sid \cup {None}]
      /\ \A g \in Handler \ {h} : subId'[g] = subId[g] /\ sessions'[g] = sessions[g]
  <2> HIDE DEF i
  <2> QED BY <1>1, <1>2 DEF HandlerInv, TypeOK, SetSessions
<1>6. \A u \in Thread \ {t} : Inside(u) => call[u].handler \in Handler /\ call[u].handler # h
  BY <1>2, OthersApart DEF Inside, HandlerInv, CallsOK, CallOK
<1>7. TypeOK'
  <2>1. \A u \in Thread :
           pc'[u] = "adding" =>
              /\ call'[u].op = "register"
              /\ call'[u].sid = None <=> subId'[call'[u].handler] # None
    <3> SUFFICES ASSUME NEW u \in Thread, pc'[u] = "adding"
                 PROVE  /\ call'[u].op = "register"
                        /\ call'[u].sid = None <=> subId'[call'[u].handler] # None
      OBVIOUS
    <3>1. u # t /\ pc[u] = "adding" /\ call'[u] = call[u]
      BY <1>4
    <3>2. subId'[call[u].handler] = subId[call[u].handler]
      BY <3>1, <1>5, <1>6 DEF Inside
    <3> QED BY <3>1, <3>2 DEF HandlerInv, TypeOK
  <2>2. TypeOK
    BY DEF HandlerInv
  <2> HIDE DEF h, i
  <2>3. \A c \in Conn :
           reader'[c] \in {"none", "reading", "dead"} <=> round'[c].handler = None
    BY <2>2, <1>1, <1>3 DEF TypeOK
  <2> QED BY <2>1, <2>2, <2>3, <1>1, <1>3, <1>4, <1>5 DEF TypeOK
<1>8. Mutex'
  <2>1. ~Inside(t)'
    BY <1>4 DEF Inside
  <2> QED BY <2>1, <1>4, MutexStep
<1>9. CallsOK'
  <2> SUFFICES ASSUME NEW u \in Thread PROVE CallOK(u)'
    BY DEF CallsOK
  <2>1. CASE u = t
    BY <2>1, <1>4 DEF CallOK, NoCall
  <2>2. CASE u # t
    BY <2>2, <1>4, <1>5, <1>6, OtherCall
  <2> QED BY <2>1, <2>2
<1> QED BY <1>3, <1>7, <1>8, <1>9 DEF HandlerInv

LEMMA UnsubscribeInv ==
  ASSUME HandlerInv, NEW t \in Thread, Unsubscribe(t) PROVE HandlerInv'
<1> DEFINE h == call[t].handler
<1>1. /\ pc[t] = "using"
      /\ call[t].op = "disregister"
      /\ subs' = [subs EXCEPT ![conn][subId[h]] = None]
      /\ subId' = [subId EXCEPT ![h] = None]
      /\ Leave(t)
      /\ UNCHANGED <<sessions, conn, up, lost, reader, round>>
  BY DEF Unsubscribe
<1>2. h \in Handler /\ Inside(t)
  BY <1>1 DEF HandlerInv, CallsOK, CallOK, Inside
<1>3. /\ pc' \in [Thread -> {"idle", "entering", "checking", "building", "connecting", "using", "adding"}]
      /\ call' \in [Thread -> Call]
      /\ pc'[t] = "idle" /\ call'[t] = NoCall
      /\ \A u \in Thread \ {t} : pc'[u] = pc[u] /\ call'[u] = call[u]
  BY <1>1, LeaveStep DEF HandlerInv
<1>4. /\ subId' \in [Handler -> Sid \cup {None}]
      /\ \A g \in Handler \ {h} : subId'[g] = subId[g]
      /\ subs' \in [Conn -> [Sid -> Handler \cup {None}]]
  BY <1>1, <1>2 DEF HandlerInv, TypeOK
<1>5. \A u \in Thread \ {t} : Inside(u) => call[u].handler \in Handler /\ call[u].handler # h
  BY <1>2, OthersApart DEF Inside, HandlerInv, CallsOK, CallOK
<1>6. TypeOK'
  <2>1. \A u \in Thread :
           pc'[u] = "adding" =>
              /\ call'[u].op = "register"
              /\ call'[u].sid = None <=> subId'[call'[u].handler] # None
    <3> SUFFICES ASSUME NEW u \in Thread, pc'[u] = "adding"
                 PROVE  /\ call'[u].op = "register"
                        /\ call'[u].sid = None <=> subId'[call'[u].handler] # None
      OBVIOUS
    <3>1. u # t /\ pc[u] = "adding" /\ call'[u] = call[u]
      BY <1>3
    <3>2. subId'[call[u].handler] = subId[call[u].handler]
      BY <3>1, <1>4, <1>5 DEF Inside
    <3> QED BY <3>1, <3>2 DEF HandlerInv, TypeOK
  <2> HIDE DEF h
  <2> QED BY <2>1, <1>1, <1>3, <1>4 DEF HandlerInv, TypeOK
<1>7. Mutex'
  <2>1. ~Inside(t)'
    BY <1>3 DEF Inside
  <2> QED BY <2>1, <1>3, MutexStep
<1>8. CallsOK'
  <2> SUFFICES ASSUME NEW u \in Thread PROVE CallOK(u)'
    BY DEF CallsOK
  <2>1. CASE u = t
    BY <2>1, <1>3 DEF CallOK, NoCall
  <2>2. CASE u # t
    BY <2>2, <1>1, <1>3, <1>4, <1>5, OtherCall
  <2> QED BY <2>1, <2>2
<1> QED BY <1>1, <1>6, <1>7, <1>8, RoundsStay DEF HandlerInv

-----------------------------------------------------------------------------
(* What the readers and the connections do.                                 *)

(* A step of the reader of c, which changes only where it is and its round. *)
LEMMA ReaderStep ==
  ASSUME HandlerInv, NEW c \in Conn,
         UNCHANGED <<client, up, lost, subs>>,
         reader' \in [Conn -> {"none", "reading", "looking", "advancing",
                               "waiting", "sending", "dead"}],
         round' \in [Conn -> Round],
         \A d \in Conn \ {c} : reader'[d] = reader[d] /\ round'[d] = round[d],
         reader[c] # "none",
         reader'[c] \in {"none", "reading", "dead"} <=> round'[c].handler = None,
         RoundOK(c)'
  PROVE  HandlerInv'
<1>1. TypeOK'
  BY DEF HandlerInv, TypeOK, client
<1>2. Mutex' /\ CallsOK'
  BY DEF HandlerInv, Mutex, Inside, CallsOK, CallOK, client
<1>3. RoundsOK'
  <2> SUFFICES ASSUME NEW d \in Conn \ {c} PROVE RoundOK(d)'
    BY DEF RoundsOK
  <2>1. RoundOK(d) /\ reader'[d] = reader[d] /\ round'[d] = round[d] /\ sessions' = sessions
    BY DEF HandlerInv, RoundsOK, client
  <2> QED BY <2>1 DEF RoundOK
<1> QED BY <1>1, <1>2, <1>3 DEF HandlerInv

(* What At and Return do to the readers.                                    *)
LEMMA AtStep ==
  ASSUME TypeOK, NEW c \in Conn, NEW where, At(c, where),
         where \in {"none", "reading", "looking", "advancing", "waiting", "sending", "dead"}
  PROVE  /\ reader' \in [Conn -> {"none", "reading", "looking", "advancing",
                                  "waiting", "sending", "dead"}]
         /\ reader'[c] = where
         /\ \A d \in Conn \ {c} : reader'[d] = reader[d]
  BY DEF TypeOK, At

(* What is fetched ahead without a race.                                    *)
LEMMA FetchUnraced ==
  ASSUME TypeOK, NEW h \in Handler, NEW seen \in SUBSET Session, NEW raced \in BOOLEAN,
         NEW next \in FetchAhead(h, seen, raced)
  PROVE  /\ next \in Session \cup {None}
         /\ ~raced => IF next = None THEN sessions[h] \subseteq seen
                                     ELSE next \in sessions[h] \ seen
<1>1. sessions[h] \in SUBSET Session
  BY DEF TypeOK
<1>2. None \notin Session
  BY NoneAssumption
<1>3. CASE raced
  BY <1>1, <1>3 DEF FetchAhead
<1>4. CASE ~raced
  <2>1. CASE sessions[h] \ seen = {}
    BY <1>4, <2>1 DEF FetchAhead
  <2>2. CASE sessions[h] \ seen # {}
    <3>1. next \in sessions[h] \ seen
      BY <1>4, <2>2 DEF FetchAhead
    <3> QED BY <3>1, <1>1, <1>2
  <2> QED BY <2>1, <2>2
<1> QED BY <1>3, <1>4

LEMMA DeliverInv ==
  ASSUME HandlerInv, NEW c \in Conn, NEW h \in Handler, Deliver(c, h) PROVE HandlerInv'
<1>1. PICK next \in FetchAhead(h, {}, FALSE) :
        /\ reader[c] = "reading"
        /\ At(c, "looking")
        /\ round' = [round EXCEPT ![c] =
              [handler |-> h, next |-> next, seen |-> {}, cur |-> None, raced |-> FALSE]]
        /\ UNCHANGED <<client, up, lost, subs>>
  BY DEF Deliver
<1>2. next \in Session \cup {None} /\ IF next = None THEN sessions[h] = {} ELSE next \in sessions[h]
  <2>1. {} \in SUBSET Session /\ FALSE \in BOOLEAN /\ TypeOK
    BY DEF HandlerInv
  <2> QED BY <2>1, FetchUnraced
<1> DEFINE r == [handler |-> h, next |-> next, seen |-> {}, cur |-> None, raced |-> FALSE]
<1>3. r \in Round
  BY <1>2 DEF Round
<1>4. round' \in [Conn -> Round] /\ round'[c] = r /\ \A d \in Conn \ {c} : round'[d] = round[d]
  <2>1. round' = [round EXCEPT ![c] = r]
    BY <1>1
  <2> HIDE DEF r
  <2> QED BY <2>1, <1>3 DEF HandlerInv, TypeOK
<1>5. /\ reader' \in [Conn -> {"none", "reading", "looking", "advancing",
                               "waiting", "sending", "dead"}]
      /\ reader'[c] = "looking"
      /\ \A d \in Conn \ {c} : reader'[d] = reader[d]
  BY <1>1, AtStep DEF HandlerInv
<1>6. RoundOK(c)'
  <2>1. /\ sessions' = sessions
        /\ round'[c].handler = h /\ round'[c].next = next /\ round'[c].seen = {}
    BY <1>1, <1>4 DEF client
  <2> HIDE DEF r
  <2>2. CASE next = None
    <3>1. sessions[h] = {}
      BY <1>2, <2>2
    <3> QED BY <2>1, <2>2, <3>1 DEF RoundOK
  <2>3. CASE next # None
    BY <2>1, <2>3, <1>2 DEF RoundOK
  <2> QED BY <2>2, <2>3
<1>7. h # None
  BY NoneAssumption
<1> QED BY <1>1, <1>4, <1>5, <1>6, <1>7, ReaderStep

LEMMA TakeInv ==
  ASSUME HandlerInv, NEW c \in Conn, Take(c) PROVE HandlerInv'
<1> DEFINE r == round[c]
           q == [r EXCEPT !.cur = r.next, !.seen = @ \cup {r.next}]
<1>1. /\ reader[c] = "looking"
      /\ r.next # None
      /\ ~r.raced
      /\ At(c, "advancing")
      /\ round' = [round EXCEPT ![c] = q]
      /\ UNCHANGED <<client, up, lost, subs>>
  BY DEF Take
<1>2. r \in Round /\ r.handler # None
  BY <1>1 DEF HandlerInv, TypeOK
<1>3. r.seen \subseteq sessions[r.handler] /\ r.next \in sessions[r.handler]
  BY <1>1, <1>2 DEF HandlerInv, RoundsOK, RoundOK
<1>4. q \in Round /\ q.handler = r.handler /\ q.seen = r.seen \cup {r.next}
  BY <1>1, <1>2 DEF Round
<1>5. round' \in [Conn -> Round] /\ round'[c] = q /\ \A d \in Conn \ {c} : round'[d] = round[d]
  <2> HIDE DEF q
  <2> QED BY <1>1, <1>4 DEF HandlerInv, TypeOK
<1>6. /\ reader' \in [Conn -> {"none", "reading", "looking", "advancing",
                               "waiting", "sending", "dead"}]
      /\ reader'[c] = "advancing"
      /\ \A d \in Conn \ {c} : reader'[d] = reader[d]
  BY <1>1, AtStep DEF HandlerInv
<1>7. RoundOK(c)'
  <2> HIDE DEF q
  <2> QED BY <1>1, <1>3, <1>4, <1>5, <1>6 DEF RoundOK, client
<1> HIDE DEF q
<1> QED BY <1>1, <1>2, <1>4, <1>5, <1>6, <1>7, ReaderStep

LEMMA AdvanceInv ==
  ASSUME HandlerInv, NEW c \in Conn, Advance(c) PROVE HandlerInv'
<1> DEFINE r == round[c]
<1>1. PICK next \in FetchAhead(r.handler, r.seen, r.raced) :
        /\ reader[c] = "advancing"
        /\ round' = [round EXCEPT ![c].next = next]
        /\ At(c, "waiting")
        /\ UNCHANGED <<client, up, lost, subs>>
  BY DEF Advance
<1>2. r \in Round /\ r.handler # None
  BY <1>1 DEF HandlerInv, TypeOK
<1>3. r.handler \in Handler /\ r.seen \in SUBSET Session /\ r.raced \in BOOLEAN
  BY <1>2 DEF Round
<1>4. /\ next \in Session \cup {None}
      /\ ~r.raced => IF next = None THEN sessions[r.handler] \subseteq r.seen
                                    ELSE next \in sessions[r.handler] \ r.seen
  BY <1>3, FetchUnraced DEF HandlerInv
<1>5. ~r.raced => r.seen \subseteq sessions[r.handler]
  BY <1>2 DEF HandlerInv, RoundsOK, RoundOK
<1> DEFINE q == [r EXCEPT !.next = next]
<1>6. /\ q \in Round /\ q.handler = r.handler /\ q.seen = r.seen /\ q.raced = r.raced
      /\ q.next = next
  BY <1>2, <1>4 DEF Round
<1>7. round' \in [Conn -> Round] /\ round'[c] = q /\ \A d \in Conn \ {c} : round'[d] = round[d]
  <2>1. round' = [round EXCEPT ![c] = q]
    BY <1>1
  <2> HIDE DEF q
  <2> QED BY <2>1, <1>6 DEF HandlerInv, TypeOK
<1>8. /\ reader' \in [Conn -> {"none", "reading", "looking", "advancing",
                               "waiting", "sending", "dead"}]
      /\ reader'[c] = "waiting"
      /\ \A d \in Conn \ {c} : reader'[d] = reader[d]
  BY <1>1, AtStep DEF HandlerInv
<1>9. RoundOK(c)'
  <2> HIDE DEF q
  <2>1. /\ sessions' = sessions /\ reader'[c] = "waiting"
        /\ round'[c].handler = r.handler /\ round'[c].next = next
        /\ round'[c].seen = r.seen /\ round'[c].raced = r.raced
    BY <1>1, <1>6, <1>7, <1>8 DEF client
  <2>2. CASE r.raced
    BY <2>1, <2>2 DEF RoundOK
  <2>3. CASE ~r.raced /\ next = None
    <3>1. r.seen = sessions[r.handler]
      BY <2>3, <1>4, <1>5
    <3> QED BY <2>1, <2>3, <3>1 DEF RoundOK
  <2>4. CASE ~r.raced /\ next # None
    BY <2>1, <2>4, <1>4, <1>5 DEF RoundOK
  <2> QED BY <2>2, <2>3, <2>4
<1> HIDE DEF q
<1> QED BY <1>1, <1>2, <1>6, <1>7, <1>8, <1>9, ReaderStep

(* The reader leaves its loop.                                              *)
LEMMA ReturnInv ==
  ASSUME HandlerInv, NEW c \in Conn, NEW where \in {"reading", "dead"},
         reader[c] = "looking", Return(c, where), UNCHANGED <<client, up, lost, subs>>
  PROVE  HandlerInv'
<1>1. NoRound \in Round /\ NoRound.handler = None
  BY DEF NoRound, Round
<1>2. round' \in [Conn -> Round] /\ round'[c] = NoRound /\ \A d \in Conn \ {c} : round'[d] = round[d]
  BY <1>1 DEF Return, HandlerInv, TypeOK
<1>3. /\ reader' \in [Conn -> {"none", "reading", "looking", "advancing",
                               "waiting", "sending", "dead"}]
      /\ reader'[c] = where
      /\ \A d \in Conn \ {c} : reader'[d] = reader[d]
  BY AtStep DEF HandlerInv, Return
<1>4. RoundOK(c)'
  BY <1>1, <1>2 DEF RoundOK
<1> QED BY <1>1, <1>2, <1>3, <1>4, ReaderStep

LEMMA SendStartInv ==
  ASSUME HandlerInv, NEW c \in Conn, SendStart(c) PROVE HandlerInv'
<1>1. /\ reader[c] = "waiting"
      /\ \A d \in Conn : reader[d] = "sending" => round[d].cur # round[c].cur
      /\ At(c, "sending")
      /\ UNCHANGED <<client, up, lost, subs, round>>
  BY DEF SendStart
<1>2. round \in [Conn -> Round] /\ round[c].handler # None
  BY <1>1 DEF HandlerInv, TypeOK
<1>3. /\ reader' \in [Conn -> {"none", "reading", "looking", "advancing",
                               "waiting", "sending", "dead"}]
      /\ reader'[c] = "sending"
      /\ \A d \in Conn \ {c} : reader'[d] = reader[d]
  BY <1>1, AtStep DEF HandlerInv
<1>4. RoundOK(c)'
  BY <1>1, <1>3 DEF HandlerInv, RoundsOK, RoundOK, client
<1> QED BY <1>1, <1>2, <1>3, <1>4, ReaderStep

LEMMA SendEndInv ==
  ASSUME HandlerInv, NEW c \in Conn, SendEnd(c) PROVE HandlerInv'
<1> DEFINE r == round[c]
           q == [r EXCEPT !.cur = None]
<1>1. /\ reader[c] = "sending"
      /\ At(c, "looking")
      /\ round' = [round EXCEPT ![c] = q]
      /\ UNCHANGED <<client, up, lost, subs>>
  BY DEF SendEnd
<1>2. r \in Round /\ r.handler # None
  BY <1>1 DEF HandlerInv, TypeOK
<1>3. /\ q \in Round /\ q.handler = r.handler /\ q.seen = r.seen /\ q.raced = r.raced
      /\ q.next = r.next
  BY <1>2 DEF Round
<1>4. round' \in [Conn -> Round] /\ round'[c] = q /\ \A d \in Conn \ {c} : round'[d] = round[d]
  <2> HIDE DEF q
  <2> QED BY <1>1, <1>3 DEF HandlerInv, TypeOK
<1>5. /\ reader' \in [Conn -> {"none", "reading", "looking", "advancing",
                               "waiting", "sending", "dead"}]
      /\ reader'[c] = "looking"
      /\ \A d \in Conn \ {c} : reader'[d] = reader[d]
  BY <1>1, AtStep DEF HandlerInv
<1>6. RoundOK(c)'
  <2> HIDE DEF q
  <2> QED BY <1>1, <1>3, <1>4, <1>5 DEF HandlerInv, RoundsOK, RoundOK, client
<1> HIDE DEF q
<1> QED BY <1>1, <1>2, <1>3, <1>4, <1>5, <1>6, ReaderStep

LEMMA DropInv ==
  ASSUME HandlerInv, NEW c \in Conn, Drop(c) PROVE HandlerInv'
<1>1. /\ up' = up \ {c} /\ lost' = lost \cup {c}
      /\ UNCHANGED <<client, subs, reader, round>>
  BY DEF Drop
<1>2. TypeOK'
  BY <1>1 DEF HandlerInv, TypeOK, client
<1>3. Mutex' /\ CallsOK'
  BY <1>1 DEF HandlerInv, Mutex, Inside, CallsOK, CallOK, client
<1>4. RoundsOK'
  BY <1>1, RoundsStay DEF client
<1> QED BY <1>2, <1>3, <1>4 DEF HandlerInv

LEMMA ReconnectInv ==
  ASSUME HandlerInv, NEW c \in Conn, Reconnect(c) PROVE HandlerInv'
<1>1. /\ reader[c] # "none" /\ c \notin up
      /\ up' = up \cup {c}
      /\ reader' = [reader EXCEPT ![c] = IF @ = "dead" THEN "reading" ELSE @]
      /\ UNCHANGED <<client, lost, subs, round>>
  BY DEF Reconnect
<1>2. /\ reader' \in [Conn -> {"none", "reading", "looking", "advancing",
                               "waiting", "sending", "dead"}]
      /\ \A d \in Conn : reader'[d] = IF d = c /\ reader[d] = "dead" THEN "reading" ELSE reader[d]
  BY <1>1 DEF HandlerInv, TypeOK
<1>3. TypeOK'
  BY <1>1, <1>2 DEF HandlerInv, TypeOK, client
<1>4. Mutex' /\ CallsOK'
  BY <1>1 DEF HandlerInv, Mutex, Inside, CallsOK, CallOK, client
<1>5. RoundsOK'
  BY <1>1, <1>2 DEF HandlerInv, RoundsOK, RoundOK, client
<1> QED BY <1>3, <1>4, <1>5 DEF HandlerInv

-----------------------------------------------------------------------------
(* Every step keeps the invariant.                                          *)
LEMMA NextInv ==
  ASSUME HandlerInv, [Next]_vars PROVE HandlerInv'
<1>1. CASE UNCHANGED vars
  BY <1>1 DEF vars, HandlerInv, TypeOK, Mutex, Inside, CallsOK, CallOK, RoundsOK, RoundOK
<1>2. ASSUME NEW t \in Thread, Start(t) \/ RunThread(t) PROVE HandlerInv'
  BY <1>2, StartInv, EnterRegisterInv, EnterDisregisterInv, CheckConnInv, EnterBuildInv,
     ConnectInv, SubscribeInv, UseFailsInv, AddInv, UnsubscribeInv DEF RunThread
<1>3. ASSUME NEW c \in Conn, RunReader(c) PROVE HandlerInv'
  <2>1. CASE Comodify(c) \/ EndRound(c)
    BY <2>1, ReturnInv DEF Comodify, EndRound
  <2> QED BY <1>3, <2>1, TakeInv, AdvanceInv, SendStartInv, SendEndInv DEF RunReader
<1>4. ASSUME NEW c \in Conn, Drop(c) \/ Reconnect(c) PROVE HandlerInv'
  BY <1>4, DropInv, ReconnectInv
<1>5. ASSUME NEW c \in Conn, NEW h \in Handler, Deliver(c, h) PROVE HandlerInv'
  BY <1>5, DeliverInv
<1> QED BY <1>1, <1>2, <1>3, <1>4, <1>5 DEF Next

(* The invariant holds of every behaviour, whatever is lost or fails.       *)
THEOREM HandlerInvariance == Spec => []HandlerInv
<1>1. Init => HandlerInv
  BY InitInv
<1>2. HandlerInv /\ [Next]_vars => HandlerInv'
  BY NextInv
<1> QED BY <1>1, <1>2, PTL DEF Spec

(* Type correctness; a reader is in a round exactly while it executes; and  *)
(* a register subscribes exactly when its handler has no subscription.      *)
THEOREM HandlerTypes == Spec => []TypeOK
<1>1. HandlerInv => TypeOK
  BY DEF HandlerInv
<1> QED BY <1>1, HandlerInvariance, PTL

-----------------------------------------------------------------------------
(* The connection of the manager.                                           *)

(* Only a thread that connects changes conn, or has a reader start.         *)
LEMMA ConnStays ==
  ASSUME TypeOK, [Next]_vars, \A t \in Thread : ~Connect(t)
  PROVE  conn' = conn /\ \A c \in Conn : reader'[c] = "none" <=> reader[c] = "none"
<1>1. ASSUME NEW t \in Thread, Start(t) \/ RunThread(t) PROVE UNCHANGED <<conn, reader>>
  BY <1>1 DEF Start, RunThread, EnterRegister, EnterDisregister, CheckConn, EnterBuild,
              Subscribe, UseFails, Add, Unsubscribe
<1>2. ASSUME NEW c \in Conn, RunReader(c) \/ Reconnect(c) \/ (\E h \in Handler : Deliver(c, h))
      PROVE  conn' = conn /\ \A d \in Conn : reader'[d] = "none" <=> reader[d] = "none"
  BY <1>2 DEF RunReader, Take, Advance, Comodify, SendStart, SendEnd, EndRound, Return, At,
              Deliver, Reconnect, TypeOK, client
<1>3. ASSUME NEW c \in Conn, Drop(c) PROVE UNCHANGED <<conn, reader>>
  BY <1>3 DEF Drop, client
<1> QED BY <1>1, <1>2, <1>3 DEF Next, vars

(* A step that leaves the connections alone and has no thread come to       *)
(* connect.                                                                 *)
LEMMA ConnStay ==
  ASSUME ConnInv, TypeOK, UNCHANGED <<conn, up, lost>>,
         \A c \in Conn : reader'[c] = "none" <=> reader[c] = "none",
         \A t \in Thread : pc'[t] = "connecting" => pc[t] = "connecting"
  PROVE  ConnInv'
  BY DEF ConnInv, OneConnection, TypeOK

(* Who comes to connect has the lock for itself and has looked again.       *)
LEMMA EnterBuildConn ==
  ASSUME ConnInv, TypeOK, NEW t \in Thread, EnterBuild(t) PROVE ConnInv'
<1>1. /\ \A u \in Thread : pc[u] # "connecting"
      /\ pc'[t] = IF conn \in up THEN "using" ELSE "connecting"
      /\ \A u \in Thread \ {t} : pc'[u] = pc[u]
      /\ UNCHANGED <<conn, up, lost, reader>>
  BY DEF EnterBuild, Goto, TypeOK
<1> QED BY <1>1 DEF ConnInv, OneConnection

(* The connections there are have all been lost when the next is made.      *)
LEMMA ConnectConn ==
  ASSUME ConnInv, TypeOK, NEW t \in Thread, Connect(t) PROVE ConnInv'
<1>1. /\ pc[t] = "connecting" /\ lost' = lost
      /\ \A u \in Thread : pc'[u] # "connecting"
  BY ConnectStep DEF Goto, ConnInv, TypeOK
<1>2. CASE UNCHANGED <<conn, up, reader>>
  BY <1>1, <1>2 DEF ConnInv, OneConnection
<1>3. ASSUME NEW c \in Conn, reader[c] = "none", reader'[c] = "reading",
             \A d \in Conn \ {c} : reader'[d] = reader[d],
             conn' = c, up' = up \cup {c}
      PROVE  ConnInv'
  <2>1. \A d \in Conn : reader[d] # "none" => d \in lost
    BY <1>1, NoneAssumption DEF ConnInv, OneConnection
  <2> QED BY <1>1, <1>3, <2>1 DEF ConnInv, OneConnection
<1> QED BY <1>2, <1>3, ConnectStep

LEMMA ConnNext ==
  ASSUME ConnInv, TypeOK, [Next]_vars PROVE ConnInv'
<1>1. ASSUME NEW t \in Thread, Start(t) \/ RunThread(t) PROVE ConnInv'
  <2>1. CASE EnterBuild(t) \/ Connect(t)
    BY <2>1, EnterBuildConn, ConnectConn
  <2>2. CASE ~(EnterBuild(t) \/ Connect(t))
    <3>1. /\ UNCHANGED <<conn, up, lost, reader>>
          /\ \A u \in Thread : pc'[u] = "connecting" => pc[u] = "connecting"
      BY <1>1, <2>2 DEF Start, RunThread, EnterRegister, EnterDisregister, CheckConn, Subscribe,
                        UseFails, Add, Unsubscribe, Goto, Leave, TypeOK
    <3> QED BY <3>1, ConnStay
  <2> QED BY <2>1, <2>2
<1>2. ASSUME NEW c \in Conn, RunReader(c) \/ (\E h \in Handler : Deliver(c, h)) PROVE ConnInv'
  <2>1. UNCHANGED <<client, up, lost>>
    BY <1>2 DEF RunReader, Take, Advance, Comodify, SendStart, SendEnd, EndRound, Deliver
  <2>2. \A d \in Conn : reader'[d] = "none" <=> reader[d] = "none"
    BY <1>2 DEF RunReader, Take, Advance, Comodify, SendStart, SendEnd, EndRound, Return, At,
                Deliver, TypeOK
  <2> QED BY <2>1, <2>2, ConnStay DEF client
<1>3. ASSUME NEW c \in Conn, Drop(c) PROVE ConnInv'
  <2>1. up' = up \ {c} /\ lost' = lost \cup {c} /\ UNCHANGED <<conn, pc, reader>>
    BY <1>3 DEF Drop, client
  <2> QED BY <2>1 DEF ConnInv, OneConnection
<1>4. ASSUME NEW c \in Conn, Reconnect(c) PROVE ConnInv'
  <2>1. /\ up' = up \cup {c} /\ UNCHANGED <<conn, lost, pc>>
        /\ \A d \in Conn : reader'[d] = "none" <=> reader[d] = "none"
    BY <1>4 DEF Reconnect, client, TypeOK
  <2> QED BY <2>1 DEF ConnInv, OneConnection, TypeOK
<1>5. CASE UNCHANGED vars
  BY <1>5, ConnStay DEF vars
<1> QED BY <1>1, <1>2, <1>3, <1>4, <1>5 DEF Next

LEMMA ConnInvariance == Spec => []ConnInv
<1>1. Init => ConnInv
  BY DEF Init, ConnInv, OneConnection
<1> QED BY <1>1, ConnNext, HandlerTypes, PTL DEF Spec

(* The double check, whatever is lost and fails: no thread builds a second  *)
(* connection beside one that has not been lost.                            *)
THEOREM OneBuilt == Spec => []OneConnection
<1>1. ConnInv => OneConnection
  BY DEF ConnInv
<1> QED BY <1>1, ConnInvariance, PTL

-----------------------------------------------------------------------------
(* What a round sends.                                                      *)

(* Only the reader itself leaves the head of its loop.                      *)
LEMMA LookingMoves ==
  ASSUME HandlerInv, [Next]_vars, NEW c \in Conn, reader[c] = "looking", reader'[c] # "looking"
  PROVE  Take(c) \/ Comodify(c) \/ EndRound(c)
<1>0. TypeOK /\ reader' # reader
  BY DEF HandlerInv
<1>1. ASSUME NEW t \in Thread, Start(t) \/ RunThread(t) PROVE FALSE
  <2>1. Connect(t)
    BY <1>0, <1>1 DEF Start, RunThread, EnterRegister, EnterDisregister, CheckConn, EnterBuild,
                      Subscribe, UseFails, Add, Unsubscribe
  <2> QED BY <1>0, <2>1, ConnectStep
<1>2. ASSUME NEW d \in Conn, Drop(d) \/ Reconnect(d) PROVE FALSE
  BY <1>0, <1>2 DEF Drop, Reconnect, TypeOK
<1>3. ASSUME NEW d \in Conn, NEW h \in Handler, Deliver(d, h) PROVE FALSE
  BY <1>0, <1>3 DEF Deliver, At, TypeOK
<1>4. ASSUME NEW d \in Conn, RunReader(d) PROVE Take(c) \/ Comodify(c) \/ EndRound(c)
  <2>1. d = c
    BY <1>0, <1>4 DEF RunReader, Take, Advance, Comodify, SendStart, SendEnd, EndRound, Return,
                      At, TypeOK
  <2> QED BY <1>0, <1>4, <2>1 DEF RunReader, Advance, SendStart, SendEnd
<1> QED BY <1>0, <1>1, <1>2, <1>3, <1>4 DEF Next, vars

(* The loop takes a message only to who is in the set at that moment.       *)
THEOREM NextIsInTheSet == Spec => NextIsRegistered
<1> DEFINE A == \A c \in Conn :
                   reader[c] = "looking" /\ reader'[c] = "advancing"
                   => round'[c].cur \in sessions[round[c].handler]
<1>1. HandlerInv /\ [Next]_vars => [A]_vars
  <2> SUFFICES ASSUME HandlerInv, [Next]_vars, NEW c \in Conn,
                      reader[c] = "looking", reader'[c] = "advancing"
               PROVE  round'[c].cur \in sessions[round[c].handler]
    OBVIOUS
  <2>1. TypeOK /\ RoundOK(c)
    BY DEF HandlerInv, RoundsOK
  <2>2. CASE Take(c)
    <3>1. /\ round[c].next # None /\ ~round[c].raced
          /\ round'[c] = [round[c] EXCEPT !.cur = round[c].next,
                                          !.seen = @ \cup {round[c].next}]
      BY <2>1, <2>2 DEF Take, TypeOK
    <3>2. round[c] \in Round /\ round[c].handler # None
      BY <2>1 DEF TypeOK
    <3>3. round'[c].cur = round[c].next
      BY <3>1, <3>2 DEF Round
    <3> QED BY <2>1, <3>1, <3>2, <3>3 DEF RoundOK
  <2>3. CASE Comodify(c) \/ EndRound(c)
    BY <2>1, <2>3 DEF Comodify, EndRound, Return, At, TypeOK
  <2> QED BY <2>2, <2>3, LookingMoves
<1>2. Spec => [][A]_vars
  BY <1>1, HandlerInvariance, PTL DEF Spec
<1> QED BY <1>2 DEF NextIsRegistered

(* A round that met no change has reached all of the set when it ends.      *)
THEOREM RoundsAreFull == Spec => FullRound
<1> DEFINE A == \A c \in Conn :
                   reader[c] = "looking" /\ reader'[c] = "reading" /\ ~round[c].raced
                   => round[c].seen = sessions[round[c].handler]
<1>1. HandlerInv /\ [Next]_vars => [A]_vars
  <2> SUFFICES ASSUME HandlerInv, [Next]_vars, NEW c \in Conn,
                      reader[c] = "looking", reader'[c] = "reading", ~round[c].raced
               PROVE  round[c].seen = sessions[round[c].handler]
    OBVIOUS
  <2>1. TypeOK /\ RoundOK(c)
    BY DEF HandlerInv, RoundsOK
  <2>2. CASE EndRound(c)
    <3>1. round[c].next = None /\ round[c].handler # None
      BY <2>1, <2>2 DEF EndRound, TypeOK
    <3> QED BY <2>1, <3>1 DEF RoundOK
  <2>3. CASE Take(c) \/ Comodify(c)
    BY <2>1, <2>3 DEF Take, Comodify, Return, At, TypeOK
  <2> QED BY <2>2, <2>3, LookingMoves
<1>2. Spec => [][A]_vars
  BY <1>1, HandlerInvariance, PTL DEF Spec
<1> QED BY <1>2 DEF FullRound

-----------------------------------------------------------------------------
(* register and disregister implement their contract.                       *)

(* Who is in Leaving: at most one, since one thread is inside the handler.  *)
LEMMA LeavingOf ==
  ASSUME HandlerInv, NEW t \in Thread, Inside(t), NEW h, call[t].handler = h
  PROVE  Leaving(h) = IF call[t].op = "disregister" THEN {call[t].session} ELSE {}
<1>1. \A u \in Thread : Inside(u) /\ call[u].handler = h => u = t
  BY DEF HandlerInv, Mutex
<1> QED BY <1>1 DEF Leaving

LEMMA LeavingNone ==
  ASSUME NEW h, ~Locked(h) PROVE Leaving(h) = {}
  BY DEF Leaving, Locked

(* A step of t that leaves the sets alone, and is inside before and after.  *)
LEMMA MembersStay ==
  ASSUME HandlerInv, NEW t \in Thread, UNCHANGED <<sessions, subId>>,
         \A u \in Thread \ {t} : pc'[u] = pc[u] /\ call'[u] = call[u],
         Inside(t) /\ call[t].op = "disregister" <=> Inside(t)' /\ call'[t].op = "disregister",
         Inside(t)' => /\ call'[t].handler = call[t].handler
                       /\ call'[t].session = call[t].session
  PROVE  Members' = Members /\ Subscribed' = Subscribed
<1>1. \A h \in Handler : Leaving(h)' = Leaving(h)
  <2> SUFFICES ASSUME NEW h \in Handler PROVE Leaving(h)' = Leaving(h)
    OBVIOUS
  <2>1. \A u \in Thread :
           Inside(u)' /\ call'[u].op = "disregister" /\ call'[u].handler = h
           <=> Inside(u) /\ call[u].op = "disregister" /\ call[u].handler = h
    BY DEF Inside
  <2>2. \A u \in Thread :
           Inside(u) /\ call[u].op = "disregister" => call'[u].session = call[u].session
    BY DEF Inside
  <2> QED BY <2>1, <2>2 DEF Leaving
<1> QED BY <1>1 DEF Members, Subscribed

(* A step of t that is, or comes to be, inside its handler, or leaves it.   *)
LEMMA LeavingAfter ==
  ASSUME HandlerInv, NEW t \in Thread, NEW g, call[t].handler = g,
         \A u \in Thread \ {t} : pc'[u] = pc[u] /\ call'[u] = call[u],
         Inside(t) \/ ~Locked(g),
         Inside(t)' => call'[t] = call[t]
  PROVE  /\ \A h \in Handler \ {g} : Leaving(h)' = Leaving(h)
         /\ Leaving(g)' = IF Inside(t)' /\ call[t].op = "disregister"
                          THEN {call[t].session} ELSE {}
<1>1. ASSUME NEW h \in Handler \ {g} PROVE Leaving(h)' = Leaving(h)
  <2>1. \A u \in Thread :
           Inside(u)' /\ call'[u].op = "disregister" /\ call'[u].handler = h
           <=> Inside(u) /\ call[u].op = "disregister" /\ call[u].handler = h
    <3> SUFFICES ASSUME NEW u \in Thread
                 PROVE Inside(u)' /\ call'[u].op = "disregister" /\ call'[u].handler = h
                       <=> Inside(u) /\ call[u].op = "disregister" /\ call[u].handler = h
      OBVIOUS
    <3>1. CASE u = t
      BY <3>1
    <3>2. CASE u # t
      BY <3>2 DEF Inside
    <3> QED BY <3>1, <3>2
  <2>2. \A u \in Thread \ {t} : call'[u].session = call[u].session
    OBVIOUS
  <2>3. g # h
    OBVIOUS
  <2> QED BY <2>1, <2>2, <2>3 DEF Leaving
<1>2. \A u \in Thread \ {t} : Inside(u)' => call'[u].handler # g
  BY OthersApart DEF Inside
<1>3. CASE Inside(t)'
  <2>1. {u \in Thread : Inside(u)' /\ call'[u].op = "disregister"
                                   /\ call'[u].handler = g}
          = IF call[t].op = "disregister" THEN {t} ELSE {}
    BY <1>2, <1>3
  <2>2. Leaving(g)' = IF call[t].op = "disregister" THEN {call[t].session} ELSE {}
    <3>1. CASE call[t].op = "disregister"
      BY <1>3, <2>1, <3>1 DEF Leaving
    <3>2. CASE call[t].op # "disregister"
      BY <1>3, <2>1, <3>2 DEF Leaving
    <3> QED BY <3>1, <3>2
  <2> QED BY <1>1, <1>3, <2>2
<1>4. CASE ~Inside(t)'
  <2>1. {u \in Thread : Inside(u)' /\ call'[u].op = "disregister"
                                   /\ call'[u].handler = g} = {}
    BY <1>2, <1>4
  <2> QED BY <1>1, <1>4, <2>1 DEF Leaving
<1> QED BY <1>3, <1>4

(* What becomes of the members when the set of h changes.                   *)
LEMMA MembersChange ==
  ASSUME sessions \in [Handler -> SUBSET Session], NEW h \in Handler, NEW S, NEW L,
         sessions' = [sessions EXCEPT ![h] = S],
         \A g \in Handler \ {h} : Leaving(g)' = Leaving(g),
         Leaving(h)' = L
  PROVE  Members' = [Members EXCEPT ![h] = S \cup L]
<1>1. Members' = [g \in Handler |-> sessions'[g] \cup Leaving(g)']
  BY DEF Members
<1>2. Members = [g \in Handler |-> sessions[g] \cup Leaving(g)]
  BY DEF Members
<1>3. ASSUME NEW g \in Handler PROVE Members'[g] = IF g = h THEN S \cup L ELSE Members[g]
  <2>1. CASE g = h
    BY <1>1, <2>1
  <2>2. CASE g # h
    BY <1>1, <1>2, <2>2
  <2> QED BY <2>1, <2>2
<1> QED BY <1>1, <1>2, <1>3

LEMMA EnterDisregisterMaps ==
  ASSUME HandlerInv, NEW t \in Thread, EnterDisregister(t)
  PROVE  [Contract!Next]_(Contract!vars)
<1>0. PICK h \in Handler, s \in Session : call[t].handler = h /\ call[t].session = s
  BY DEF EnterDisregister, HandlerInv, CallsOK, CallOK
<1> DEFINE last == sessions[h] = {s} /\ subId[h] # None
<1>1. /\ pc[t] = "entering"
      /\ call[t].op = "disregister"
      /\ ~Locked(h)
      /\ sessions' = [sessions EXCEPT ![h] = sessions[h] \ {s}]
      /\ IF last THEN Goto(t, "checking") ELSE Leave(t)
      /\ UNCHANGED subId
  BY <1>0 DEF EnterDisregister, SetSessions
<1>2. sessions \in [Handler -> SUBSET Session]
  BY DEF HandlerInv, TypeOK
<1>3. /\ \A u \in Thread \ {t} : pc'[u] = pc[u] /\ call'[u] = call[u]
      /\ IF last THEN Inside(t)' /\ call'[t] = call[t] ELSE ~Inside(t)'
  <2>1. CASE last
    BY <2>1, <1>1, GotoStep DEF HandlerInv, Inside
  <2>2. CASE ~last
    BY <2>2, <1>1, LeaveStep DEF HandlerInv, Inside
  <2> QED BY <2>1, <2>2
<1>4. /\ \A g \in Handler \ {h} : Leaving(g)' = Leaving(g)
      /\ Leaving(h)' = IF last THEN {s} ELSE {}
  BY <1>0, <1>1, <1>3, LeavingAfter
<1>5. Leaving(h) = {}
  BY <1>1, LeavingNone
<1>6. Subscribed' = Subscribed
  BY <1>1 DEF Subscribed
<1>7. Members[h] = sessions[h]
  BY <1>2, <1>5 DEF Members
<1>8. Members' = [Members EXCEPT ![h] = (sessions[h] \ {s}) \cup (IF last THEN {s} ELSE {})]
  <2> HIDE DEF last
  <2> QED BY <1>1, <1>2, <1>4, MembersChange
<1>9. CASE last \/ s \notin sessions[h]
  <2>1. (sessions[h] \ {s}) \cup (IF last THEN {s} ELSE {}) = Members[h]
    BY <1>7, <1>9
  <2>2. Members' = Members
    BY <1>8, <2>1 DEF Members
  <2> QED BY <1>6, <2>2 DEF Contract!vars
<1>10. CASE ~last /\ s \in sessions[h]
  <2>1. Members' = [Members EXCEPT ![h] = @ \ {s}]
    BY <1>7, <1>8, <1>10
  <2>2. Contract!Disregister(h, s)
    BY <1>6, <1>7, <1>10, <2>1 DEF Contract!Disregister
  <2> QED BY <1>2, <2>2 DEF Contract!Next
<1> QED BY <1>9, <1>10

LEMMA AddMaps ==
  ASSUME HandlerInv, NEW t \in Thread, Add(t)
  PROVE  [Contract!Next]_(Contract!vars)
<1>0. PICK h \in Handler, s \in Session : call[t].handler = h /\ call[t].session = s
  BY DEF Add, HandlerInv, CallsOK, CallOK
<1> DEFINE i == IF call[t].sid = None THEN subId[h] ELSE call[t].sid
<1>1. /\ pc[t] = "adding"
      /\ subId' = [subId EXCEPT ![h] = i]
      /\ sessions' = [sessions EXCEPT ![h] = sessions[h] \cup {s}]
      /\ Leave(t)
  BY <1>0 DEF Add, SetSessions
<1>2. /\ Inside(t) /\ call[t].op = "register" /\ i # None
      /\ sessions \in [Handler -> SUBSET Session] /\ subId \in [Handler -> Sid \cup {None}]
  BY <1>0, <1>1 DEF HandlerInv, CallsOK, CallOK, TypeOK, Inside
<1>3. (\A u \in Thread \ {t} : pc'[u] = pc[u] /\ call'[u] = call[u]) /\ ~Inside(t)'
  BY <1>1, LeaveStep DEF HandlerInv, Inside
<1>4. (\A g \in Handler \ {h} : Leaving(g)' = Leaving(g)) /\ Leaving(h)' = {}
  BY <1>0, <1>2, <1>3, LeavingAfter
<1>5. Leaving(h) = {}
  BY <1>0, <1>2, LeavingOf
<1>6. Members' = [Members EXCEPT ![h] = @ \cup {s}]
  <2>1. Members[h] = sessions[h]
    BY <1>2, <1>5 DEF Members
  <2>2. Members' = [Members EXCEPT ![h] = sessions[h] \cup {s}]
    <3>1. Members' = [Members EXCEPT ![h] = (sessions[h] \cup {s}) \cup {}]
      BY <1>1, <1>2, <1>4, MembersChange
    <3> QED BY <3>1
  <2> QED BY <2>1, <2>2
<1>7. Subscribed' = Subscribed \cup {h}
  <2> HIDE DEF i
  <2> QED BY <1>1, <1>2 DEF Subscribed
<1>8. Contract!Register(h, s)
  BY <1>6, <1>7 DEF Contract!Register
<1> QED BY <1>2, <1>8 DEF Contract!Next

(* A disregister that has removed the last session commits when it returns. *)
LEMMA UnsubscribeMaps ==
  ASSUME HandlerInv, NEW t \in Thread,
         Unsubscribe(t) \/ (UseFails(t) /\ call[t].op = "disregister")
  PROVE  [Contract!Next]_(Contract!vars)
<1>0. PICK h \in Handler, s \in Session : call[t].handler = h /\ call[t].session = s
  BY DEF Unsubscribe, UseFails, HandlerInv, CallsOK, CallOK
<1>1. /\ pc[t] = "using"
      /\ call[t].op = "disregister"
      /\ subId' = [subId EXCEPT ![h] = None] \/ subId' = subId
      /\ sessions' = sessions
      /\ Leave(t)
  BY <1>0 DEF Unsubscribe, UseFails
<1>2. /\ Inside(t) /\ sessions[h] = {}
      /\ sessions \in [Handler -> SUBSET Session] /\ subId \in [Handler -> Sid \cup {None}]
  BY <1>0, <1>1 DEF HandlerInv, CallsOK, CallOK, TypeOK, Inside
<1>3. (\A u \in Thread \ {t} : pc'[u] = pc[u] /\ call'[u] = call[u]) /\ ~Inside(t)'
  BY <1>1, LeaveStep DEF HandlerInv, Inside
<1>4. (\A g \in Handler \ {h} : Leaving(g)' = Leaving(g)) /\ Leaving(h)' = {}
  BY <1>0, <1>2, <1>3, LeavingAfter
<1>5. Leaving(h) = {s}
  BY <1>0, <1>1, <1>2, LeavingOf
<1>6. Members[h] = {s} /\ Members' = [Members EXCEPT ![h] = @ \ {s}]
  <2>1. Members[h] = {s}
    BY <1>2, <1>5 DEF Members
  <2>2. Members' = [Members EXCEPT ![h] = {}]
    <3>1. sessions' = [sessions EXCEPT ![h] = {}]
      BY <1>1, <1>2
    <3>2. Members' = [Members EXCEPT ![h] = {} \cup {}]
      BY <3>1, <1>2, <1>4, MembersChange
    <3> QED BY <3>2
  <2> QED BY <2>1, <2>2
<1>7. Subscribed' = Subscribed \/ Subscribed' = Subscribed \ {h}
  <2> QED BY <1>1, <1>2 DEF Subscribed
<1>8. Contract!Disregister(h, s)
  BY <1>6, <1>7 DEF Contract!Disregister
<1> QED BY <1>2, <1>8 DEF Contract!Next

(* Every other step of a thread is a stutter.                               *)
LEMMA ThreadStutters ==
  ASSUME HandlerInv, NEW t \in Thread,
         \/ Start(t) \/ EnterRegister(t) \/ CheckConn(t) \/ EnterBuild(t)
         \/ Connect(t) \/ Subscribe(t)
         \/ (UseFails(t) /\ call[t].op = "register")
  PROVE  UNCHANGED Contract!vars
<1>1. TypeOK
  BY DEF HandlerInv
<1>2. /\ UNCHANGED <<sessions, subId>>
      /\ \A u \in Thread \ {t} : pc'[u] = pc[u] /\ call'[u] = call[u]
  BY <1>1 DEF Start, EnterRegister, CheckConn, EnterBuild, Connect, Subscribe,
                UseFails, Goto, Leave, TypeOK
<1>3. /\ Inside(t) /\ call[t].op = "disregister" <=> Inside(t)' /\ call'[t].op = "disregister"
      /\ Inside(t)' => call'[t].handler = call[t].handler /\ call'[t].session = call[t].session
  <2>1. CASE Start(t)
    BY <1>1, <2>1 DEF Start, Inside, TypeOK
  <2>2. CASE EnterRegister(t)
    BY <1>1, <2>2 DEF EnterRegister, Goto, Inside, TypeOK
  <2>3. CASE CheckConn(t)
    BY <1>1, <2>3 DEF CheckConn, Goto, Inside, TypeOK
  <2>4. CASE EnterBuild(t) \/ Connect(t)
    BY <1>1, <2>4 DEF EnterBuild, Connect, Goto, Inside, TypeOK
  <2>5. CASE UseFails(t) /\ call[t].op = "register"
    BY <1>1, <2>5 DEF UseFails, Leave, Inside, TypeOK
  <2>6. CASE Subscribe(t)
    <3>1. PICK i \in Sid :
            /\ call[t].op = "register"
            /\ \/ pc' = [pc EXCEPT ![t] = "adding"] /\ call' = [call EXCEPT ![t].sid = i]
               \/ Leave(t)
      BY <2>6 DEF Subscribe
    <3>2. CASE Leave(t)
      BY <1>1, <3>1, <3>2 DEF Leave, Inside, TypeOK
    <3>3. CASE call' = [call EXCEPT ![t].sid = i]
      <4>1. call'[t] = [call[t] EXCEPT !.sid = i] /\ call[t] \in Call
        BY <1>1, <3>3 DEF TypeOK
      <4>2. /\ call'[t].op = call[t].op /\ call'[t].handler = call[t].handler
            /\ call'[t].session = call[t].session
        BY <4>1 DEF Call
      <4> QED BY <3>1, <4>2
    <3> QED BY <3>1, <3>2, <3>3
  <2> QED BY <2>1, <2>2, <2>3, <2>4, <2>5, <2>6
<1>4. Members' = Members /\ Subscribed' = Subscribed
  BY <1>2, <1>3, MembersStay
<1> QED BY <1>4 DEF Contract!vars

LEMMA OthersStutter ==
  ASSUME UNCHANGED client PROVE UNCHANGED Contract!vars
  BY DEF client, Contract!vars, Members, Subscribed, Leaving, Inside

(* register and disregister are atomic, and fail only as the contract says, *)
(* however many threads call them.                                          *)
THEOREM ContractKept == Spec => ContractSpec
<1>1. Init => Contract!Init
  BY DEF Init, Contract!Init, Members, Subscribed, Leaving, Inside
<1>2. HandlerInv /\ [Next]_vars => [Contract!Next]_(Contract!vars)
  <2> SUFFICES ASSUME HandlerInv, [Next]_vars PROVE [Contract!Next]_(Contract!vars)
    OBVIOUS
  <2>1. ASSUME NEW t \in Thread, Start(t) \/ RunThread(t) PROVE [Contract!Next]_(Contract!vars)
    <3>1. UseFails(t) => call[t].op \in {"register", "disregister"}
      BY DEF UseFails, HandlerInv, CallsOK, CallOK
    <3> QED BY <2>1, <3>1, ThreadStutters, EnterDisregisterMaps, AddMaps, UnsubscribeMaps
            DEF RunThread
  <2>2. CASE UNCHANGED client
    BY <2>2, OthersStutter
  <2>3. ASSUME NEW c \in Conn, RunReader(c) \/ Drop(c) \/ Reconnect(c) PROVE UNCHANGED client
    BY <2>3 DEF RunReader, Take, Advance, Comodify, SendStart, SendEnd, EndRound, Drop, Reconnect
  <2>4. ASSUME NEW c \in Conn, NEW h \in Handler, Deliver(c, h) PROVE UNCHANGED client
    BY <2>4 DEF Deliver
  <2>5. UNCHANGED vars => UNCHANGED client
    BY DEF vars, client
  <2> QED BY <2>1, <2>2, <2>3, <2>4, <2>5 DEF Next
<1> QED BY <1>1, <1>2, HandlerInvariance, PTL DEF Spec, ContractSpec, Contract!Spec

-----------------------------------------------------------------------------
(* What NATS holds, where nothing fails and the connection is not replaced. *)

(* The parts of Subscriptions, each as it is used below.                    *)
LEMMA SubscriptionsInit == Init => Subscriptions
  BY NoneAssumption DEF Init, Subscriptions, Holds

(* A step that leaves the fields of the handlers alone, and moves t without *)
(* letting it leave or come to hold an id.                                  *)
LEMMA SubscriptionsStay ==
  ASSUME HandlerInv, Subscriptions, NEW t \in Thread,
         UNCHANGED <<sessions, subId, subs, conn>>,
         \A u \in Thread \ {t} : pc'[u] = pc[u] /\ call'[u] = call[u],
         pc[t] # "adding",
         pc'[t] = "adding" => call'[t].sid = None,
         pc'[t] = "adding" => conn # None,
         Inside(t) => Inside(t)' /\ call'[t].handler = call[t].handler
  PROVE  Subscriptions'
<1>1. \A h \in Handler, i \in Sid : (\E u \in Thread : Holds(u, h, i)') <=> \E u \in Thread : Holds(u, h, i)
  BY NoneAssumption DEF Holds
<1>2. \A h \in Handler : Locked(h) => Locked(h)'
  BY DEF Locked, Inside
<1>3. \A u \in Thread : pc'[u] = "adding" => conn' # None
  BY DEF Subscriptions
<1> QED BY <1>1, <1>2, <1>3 DEF Subscriptions

LEMMA StaySubscriptions ==
  ASSUME HandlerInv, Subscriptions, NEW t \in Thread,
         Start(t) \/ EnterRegister(t) \/ CheckConn(t) \/ EnterBuild(t)
  PROVE  Subscriptions'
<1>1. TypeOK /\ CallOK(t)
  BY DEF HandlerInv, CallsOK
<1>3. CASE Start(t)
  BY <1>1, <1>3, SubscriptionsStay DEF Start, TypeOK, Inside
<1>4. CASE EnterRegister(t)
  <2>1. /\ pc[t] = "entering" /\ call' = call
        /\ pc'[t] = IF subId[call[t].handler] = None THEN "checking" ELSE "adding"
        /\ \A u \in Thread \ {t} : pc'[u] = pc[u]
        /\ UNCHANGED <<sessions, subId, conn, up, lost, subs, reader, round>>
    BY <1>1, <1>4 DEF EnterRegister, Goto, TypeOK
  <2>2. call[t].sid = None /\ (subId[call[t].handler] # None => conn # None)
    BY <1>1, <2>1 DEF CallOK, Subscriptions
  <2> QED BY <2>1, <2>2, SubscriptionsStay DEF Inside
<1>5. CASE CheckConn(t)
  <2>1. /\ pc[t] = "checking" /\ call' = call
        /\ pc'[t] = IF conn \in up THEN "using" ELSE "building"
        /\ \A u \in Thread \ {t} : pc'[u] = pc[u]
        /\ UNCHANGED <<sessions, subId, conn, up, lost, subs, reader, round>>
    BY <1>1, <1>5 DEF CheckConn, Goto, TypeOK
  <2> QED BY <2>1, SubscriptionsStay DEF Inside
<1>6. CASE EnterBuild(t)
  <2>1. /\ pc[t] = "building" /\ call' = call
        /\ pc'[t] = IF conn \in up THEN "using" ELSE "connecting"
        /\ \A u \in Thread \ {t} : pc'[u] = pc[u]
        /\ UNCHANGED <<sessions, subId, conn, up, lost, subs, reader, round>>
    BY <1>1, <1>6 DEF EnterBuild, Goto, TypeOK
  <2> QED BY <2>1, SubscriptionsStay DEF Inside
<1> QED BY <1>3, <1>4, <1>5, <1>6

(* A connect that fails leaves things as they are. The first connection     *)
(* finds nobody with a subscription; any other replaces one.                *)
LEMMA ConnectSubscriptions ==
  ASSUME HandlerInv, ConnInv, Subscriptions, NEW t \in Thread, Connect(t), NotReplaced'
  PROVE  Subscriptions'
<1>0. TypeOK
  BY DEF HandlerInv
<1>1. /\ pc[t] = "connecting" /\ call' = call
      /\ pc'[t] = "using"
      /\ \A u \in Thread \ {t} : pc'[u] = pc[u]
      /\ UNCHANGED <<sessions, subId, subs>>
  BY <1>0, ConnectStep DEF Goto, TypeOK
<1>2. CASE conn' = conn
  BY <1>1, <1>2, SubscriptionsStay DEF Inside
<1>3. ASSUME NEW c \in Conn, reader[c] = "none", conn' = c,
             \A d \in Conn \ {c} : reader'[d] = reader[d]
      PROVE  Subscriptions'
  <2>1. c # None
    BY NoneAssumption
  <2>2. conn = None
    <3>1. conn # None => conn \in Conn \ {c}
      BY <1>0, <1>3 DEF TypeOK, ConnInv
    <3> QED BY <1>3, <3>1 DEF ConnInv, NotReplaced
  <2>3. /\ \A h \in Handler : subId'[h] = None /\ sessions'[h] = {}
        /\ \A u \in Thread : pc'[u] # "adding"
    BY <1>1, <2>2 DEF Subscriptions
  <2>4. \A h \in Handler, d \in Conn, i \in Sid : subs'[d][i] # h
    BY <1>1, <2>2, NoneAssumption DEF Subscriptions
  <2>5. \A h \in Handler, i \in Sid : ~(subId'[h] = i) /\ \A u \in Thread : ~Holds(u, h, i)'
    BY <2>3, NoneAssumption DEF Holds
  <2> QED BY <1>3, <2>1, <2>3, <2>4, <2>5 DEF Subscriptions
<1> QED BY <1>0, <1>2, <1>3, ConnectStep

(* Without failures a call gives up only where there is no connection yet:  *)
(* a register then, for who disregisters has a subscription.                *)
LEMMA UseFailsSubscriptions ==
  ASSUME HandlerInv, Subscriptions, ~Failing, NEW t \in Thread, UseFails(t)
  PROVE  Subscriptions'
<1>1. /\ pc[t] = "using" /\ conn = None
      /\ Leave(t)
      /\ UNCHANGED <<sessions, subId, conn, subs>>
  BY DEF UseFails
<1>2. pc'[t] = "idle" /\ \A u \in Thread \ {t} : pc'[u] = pc[u] /\ call'[u] = call[u]
  BY <1>1, LeaveStep DEF HandlerInv
<1>3. \A h \in Handler, i \in Sid : (\E u \in Thread : Holds(u, h, i)') <=> \E u \in Thread : Holds(u, h, i)
  BY <1>1, <1>2 DEF Holds
<1>4. \A u \in Thread : pc'[u] # "adding"
  BY <1>1, <1>2 DEF Subscriptions
<1>5. \A h \in Handler : subId[h] = None
  BY <1>1 DEF Subscriptions
<1> QED BY <1>1, <1>3, <1>4, <1>5 DEF Subscriptions

LEMMA EnterDisregisterSubscriptions ==
  ASSUME HandlerInv, Subscriptions, NEW t \in Thread, EnterDisregister(t)
  PROVE  Subscriptions'
<1>0. PICK h \in Handler, s \in Session : call[t].handler = h /\ call[t].session = s
  BY DEF EnterDisregister, HandlerInv, CallsOK, CallOK
<1> DEFINE last == sessions[h] = {s} /\ subId[h] # None
<1>1. /\ pc[t] = "entering"
      /\ ~Locked(h)
      /\ sessions' = [sessions EXCEPT ![h] = sessions[h] \ {s}]
      /\ IF last THEN Goto(t, "checking") ELSE Leave(t)
      /\ UNCHANGED <<subId, conn, up, subs>>
  BY <1>0 DEF EnterDisregister, SetSessions
<1>2. /\ \A u \in Thread \ {t} : pc'[u] = pc[u] /\ call'[u] = call[u]
      /\ IF last THEN pc'[t] = "checking" /\ call'[t] = call[t] ELSE pc'[t] = "idle"
  <2>1. CASE last
    BY <2>1, <1>1, GotoStep DEF HandlerInv
  <2>2. CASE ~last
    BY <2>2, <1>1, LeaveStep DEF HandlerInv
  <2> QED BY <2>1, <2>2
<1>3. \A g \in Handler, i \in Sid : (\E u \in Thread : Holds(u, g, i)') <=> \E u \in Thread : Holds(u, g, i)
  BY <1>1, <1>2 DEF Holds
<1>4. \A g \in Handler : Locked(g) => Locked(g)'
  BY <1>1, <1>2 DEF Locked, Inside
<1>5. /\ sessions'[h] = sessions[h] \ {s}
      /\ \A g \in Handler \ {h} : sessions'[g] = sessions[g]
  BY <1>1 DEF HandlerInv, TypeOK
<1>6. subId[h] # None /\ sessions'[h] = {} => Locked(h)'
  <2>1. CASE last
    BY <2>1, <1>0, <1>2 DEF Locked, Inside
  <2>2. CASE ~last /\ subId[h] # None /\ sessions'[h] = {}
    <3>1. sessions[h] = {}
      BY <2>2, <1>5
    <3> QED BY <2>2, <3>1, <1>1 DEF Subscriptions
  <2> QED BY <2>1, <2>2
<1>7. \A u \in Thread : pc'[u] = "adding" => conn' # None
  BY <1>1, <1>2 DEF Subscriptions
<1>8. \A g \in Handler : /\ sessions'[g] # {} => subId'[g] # None
                         /\ subId'[g] # None /\ sessions'[g] = {} => Locked(g)'
  BY <1>1, <1>4, <1>5, <1>6 DEF Subscriptions
<1> QED BY <1>1, <1>3, <1>7, <1>8 DEF Subscriptions

LEMMA SubscribeSubscriptions ==
  ASSUME HandlerInv, Subscriptions, ~Failing, NEW t \in Thread, Subscribe(t)
  PROVE  Subscriptions'
<1>0. PICK h \in Handler : call[t].handler = h
  BY DEF Subscribe, HandlerInv, CallsOK, CallOK
<1>1. PICK i \in Sid :
        /\ pc[t] = "using"
        /\ call[t].op = "register"
        /\ conn # None
        /\ Free(i)
        /\ subs' = [subs EXCEPT ![conn][i] = h]
        /\ pc' = [pc EXCEPT ![t] = "adding"]
        /\ call' = [call EXCEPT ![t].sid = i]
        /\ UNCHANGED <<sessions, subId, conn, up>>
  BY <1>0 DEF Subscribe
<1>2. /\ call[t] \in Call /\ conn \in Conn /\ subId[h] = None
      /\ call' = [call EXCEPT ![t] = [call[t] EXCEPT !.sid = i]]
  BY <1>0, <1>1 DEF HandlerInv, TypeOK, CallsOK, CallOK
<1>3. /\ pc'[t] = "adding" /\ call'[t].handler = h /\ call'[t].sid = i
      /\ \A u \in Thread \ {t} : pc'[u] = pc[u] /\ call'[u] = call[u]
  BY <1>0, <1>1, <1>2 DEF HandlerInv, TypeOK, Call
<1>4. \A d \in Conn, j \in Sid :
         subs'[d][j] = IF d = conn /\ j = i THEN h ELSE subs[d][j]
  BY <1>1, <1>2 DEF HandlerInv, TypeOK
<1>5. \A g \in Handler, j \in Sid :
         (\E u \in Thread : Holds(u, g, j)')
            <=> (g = h /\ j = i) \/ \E u \in Thread : Holds(u, g, j)
  BY <1>1, <1>3 DEF Holds
<1>6. \A g \in Handler : subId[g] # i /\ \A u \in Thread : ~Holds(u, g, i)
  <2>1. \A g \in Handler : subs[conn][i] # g /\ subId[g] # i
    BY <1>1, <1>2, NoneAssumption DEF Free
  <2> QED BY <2>1, <1>2 DEF Subscriptions
<1>7. \A g \in Handler, d \in Conn, j \in Sid :
         subs'[d][j] = g <=>
            d = conn /\ (subId[g] = j \/ \E u \in Thread : Holds(u, g, j)')
  <2> SUFFICES ASSUME NEW g \in Handler, NEW d \in Conn, NEW j \in Sid
               PROVE  subs'[d][j] = g <=>
                         d = conn /\ (subId[g] = j \/ \E u \in Thread : Holds(u, g, j)')
    OBVIOUS
  <2>1. CASE d = conn /\ j = i
    BY <2>1, <1>4, <1>5, <1>6
  <2>2. CASE ~(d = conn /\ j = i)
    BY <2>2, <1>4, <1>5 DEF Subscriptions
  <2> QED BY <2>1, <2>2
<1>8. \A g \in Handler : Locked(g) => Locked(g)'
  BY <1>0, <1>3 DEF Locked, Inside
<1>9. \A u \in Thread : pc'[u] = "adding" => conn' # None
  BY <1>1
<1> QED BY <1>1, <1>7, <1>8, <1>9 DEF Subscriptions

LEMMA AddSubscriptions ==
  ASSUME HandlerInv, Subscriptions, NEW t \in Thread, Add(t)
  PROVE  Subscriptions'
<1>0. PICK h \in Handler, s \in Session : call[t].handler = h /\ call[t].session = s
  BY DEF Add, HandlerInv, CallsOK, CallOK
<1> DEFINE i == IF call[t].sid = None THEN subId[h] ELSE call[t].sid
<1>1. /\ pc[t] = "adding"
      /\ subId' = [subId EXCEPT ![h] = i]
      /\ sessions' = [sessions EXCEPT ![h] = sessions[h] \cup {s}]
      /\ Leave(t)
      /\ UNCHANGED <<conn, up, subs>>
  BY <1>0 DEF Add, SetSessions
<1>2. /\ Inside(t) /\ (call[t].sid = None <=> subId[h] # None) /\ i # None /\ i \in Sid
      /\ sessions \in [Handler -> SUBSET Session] /\ subId \in [Handler -> Sid \cup {None}]
  BY <1>0, <1>1 DEF HandlerInv, TypeOK, Inside, Call
<1>3. pc'[t] = "idle" /\ \A u \in Thread \ {t} : pc'[u] = pc[u] /\ call'[u] = call[u]
  BY <1>1, LeaveStep DEF HandlerInv
<1>4. \A u \in Thread \ {t} : Inside(u) => call[u].handler # h
  BY <1>0, <1>2, OthersApart
<1>5. \A g \in Handler \ {h} : subId'[g] = subId[g] /\ sessions'[g] = sessions[g]
  BY <1>1, <1>2
<1>6. subId'[h] = i /\ sessions'[h] # {}
  <2> HIDE DEF i
  <2> QED BY <1>1, <1>2
<1>7. \A g \in Handler \ {h}, j \in Sid :
         (\E u \in Thread : Holds(u, g, j)') <=> \E u \in Thread : Holds(u, g, j)
  BY <1>0, <1>3 DEF Holds
<1>8. \A j \in Sid :
         /\ ~\E u \in Thread : Holds(u, h, j)'
         /\ (subId[h] = j \/ \E u \in Thread : Holds(u, h, j)) <=> j = i
  <2>1. \A u \in Thread, j \in Sid : ~Holds(u, h, j)'
    BY <1>3, <1>4 DEF Holds, Inside
  <2>2. \A u \in Thread, j \in Sid : Holds(u, h, j) <=> u = t /\ call[t].sid = j
    BY <1>0, <1>1, <1>4 DEF Holds, Inside
  <2>3. None \notin Sid
    BY NoneAssumption
  <2> QED BY <2>1, <2>2, <2>3, <1>2
<1>9. \A g \in Handler, d \in Conn, j \in Sid :
         subs'[d][j] = g <=>
            d = conn' /\ (subId'[g] = j \/ \E u \in Thread : Holds(u, g, j)')
  <2> SUFFICES ASSUME NEW g \in Handler, NEW d \in Conn, NEW j \in Sid
               PROVE  subs'[d][j] = g <=>
                         d = conn' /\ (subId'[g] = j \/ \E u \in Thread : Holds(u, g, j)')
    OBVIOUS
  <2> HIDE DEF i
  <2>1. CASE g = h
    BY <2>1, <1>1, <1>6, <1>8 DEF Subscriptions
  <2>2. CASE g # h
    BY <2>2, <1>1, <1>5, <1>7 DEF Subscriptions
  <2> QED BY <2>1, <2>2
<1>10. \A g \in Handler \ {h} : Locked(g) => Locked(g)'
  BY <1>0, <1>3 DEF Locked, Inside
<1>11. \A u \in Thread : pc'[u] = "adding" => conn' # None
  BY <1>1, <1>3 DEF Subscriptions
<1>12. \A g \in Handler : subId'[g] # None => conn' # None
  BY <1>1, <1>5 DEF Subscriptions
<1>13. \A g \in Handler : /\ sessions'[g] # {} => subId'[g] # None
                          /\ subId'[g] # None /\ sessions'[g] = {} => Locked(g)'
  <2> HIDE DEF i
  <2> QED BY <1>2, <1>5, <1>6, <1>10 DEF Subscriptions
<1> QED BY <1>1, <1>9, <1>11, <1>12, <1>13 DEF Subscriptions

LEMMA UnsubscribeSubscriptions ==
  ASSUME HandlerInv, Subscriptions, NEW t \in Thread, Unsubscribe(t)
  PROVE  Subscriptions'
<1>0. PICK h \in Handler : call[t].handler = h
  BY DEF Unsubscribe, HandlerInv, CallsOK, CallOK
<1> DEFINE i == subId[h]
<1>1. /\ pc[t] = "using" /\ call[t].op = "disregister"
      /\ conn # None
      /\ subs' = [subs EXCEPT ![conn][i] = None]
      /\ subId' = [subId EXCEPT ![h] = None]
      /\ Leave(t)
      /\ UNCHANGED <<sessions, conn, up>>
  BY <1>0 DEF Unsubscribe
<1>2. /\ Inside(t) /\ conn \in Conn /\ i \in Sid /\ sessions[h] = {}
      /\ subs \in [Conn -> [Sid -> Handler \cup {None}]]
      /\ subId \in [Handler -> Sid \cup {None}]
  BY <1>0, <1>1 DEF HandlerInv, TypeOK, Inside, CallsOK, CallOK
<1>3. pc'[t] = "idle" /\ \A u \in Thread \ {t} : pc'[u] = pc[u] /\ call'[u] = call[u]
  BY <1>1, LeaveStep DEF HandlerInv
<1>4. \A u \in Thread \ {t} : Inside(u) => call[u].handler # h
  BY <1>0, <1>2, OthersApart
<1>5. \A g \in Handler \ {h} : subId'[g] = subId[g]
  BY <1>1, <1>2
<1>6. subId'[h] = None
  BY <1>1, <1>2
<1>7. /\ \A g \in Handler, j \in Sid :
            (\E u \in Thread : Holds(u, g, j)') <=> \E u \in Thread : Holds(u, g, j)
      /\ \A u \in Thread, j \in Sid : ~Holds(u, h, j)
  BY <1>0, <1>1, <1>3, <1>4 DEF Holds, Inside
<1>8. subs[conn][i] = h
  BY <1>2 DEF Subscriptions
<1>9. \A d \in Conn, j \in Sid :
         subs'[d][j] = IF d = conn /\ j = i THEN None ELSE subs[d][j]
  <2> HIDE DEF i
  <2> QED BY <1>1, <1>2
<1>10. \A g \in Handler, d \in Conn, j \in Sid :
         subs'[d][j] = g <=>
            d = conn' /\ (subId'[g] = j \/ \E u \in Thread : Holds(u, g, j)')
  <2> SUFFICES ASSUME NEW g \in Handler, NEW d \in Conn, NEW j \in Sid
               PROVE  subs'[d][j] = g <=>
                         d = conn' /\ (subId'[g] = j \/ \E u \in Thread : Holds(u, g, j)')
    OBVIOUS
  <2>1. subs[d][j] = g <=> d = conn /\ (subId[g] = j \/ \E u \in Thread : Holds(u, g, j))
    BY DEF Subscriptions
  <2>2. g # None /\ j # None
    BY NoneAssumption
  <2>3. CASE d = conn /\ j = i
    <3>1. g # h => ~(subId[g] = j \/ \E u \in Thread : Holds(u, g, j))
      BY <2>1, <2>3, <1>8
    <3> QED BY <2>2, <2>3, <3>1, <1>1, <1>5, <1>6, <1>7, <1>9
  <2>4. CASE ~(d = conn /\ j = i)
    <3>1. subs'[d][j] = subs[d][j]
      BY <2>4, <1>9
    <3>2. CASE g = h
      BY <2>1, <2>2, <2>4, <3>1, <3>2, <1>1, <1>6, <1>7
    <3>3. CASE g # h
      BY <2>1, <3>1, <3>3, <1>1, <1>5, <1>7
    <3> QED BY <3>2, <3>3
  <2> QED BY <2>3, <2>4
<1>11. \A g \in Handler \ {h} : Locked(g) => Locked(g)'
  BY <1>0, <1>3 DEF Locked, Inside
<1>12. \A u \in Thread : pc'[u] = "adding" => conn' # None
  BY <1>1
<1>13. \A g \in Handler : /\ sessions'[g] # {} => subId'[g] # None
                          /\ subId'[g] # None /\ sessions'[g] = {} => Locked(g)'
  BY <1>1, <1>2, <1>5, <1>6, <1>11 DEF Subscriptions
<1> QED BY <1>1, <1>10, <1>12, <1>13 DEF Subscriptions

(* The readers touch none of it.                                            *)
LEMMA ReadersLeaveSubscriptions ==
  ASSUME Subscriptions, UNCHANGED <<client, subs>>
  PROVE  Subscriptions'
<1>1. /\ UNCHANGED <<sessions, subId, conn, subs, pc, call>>
  BY DEF client
<1>2. /\ \A t \in Thread, h \in Handler, i \in Sid : Holds(t, h, i)' <=> Holds(t, h, i)
      /\ \A h \in Handler : Locked(h)' <=> Locked(h)
  BY <1>1 DEF Holds, Locked, Inside
<1> QED BY <1>1, <1>2 DEF Subscriptions

LEMMA SubscriptionsNext ==
  ASSUME HandlerInv, ConnInv, Subscriptions, ~Failing, [Next]_vars, NotReplaced'
  PROVE  Subscriptions'
<1>1. ASSUME NEW t \in Thread, Start(t) \/ RunThread(t) PROVE Subscriptions'
  BY <1>1, StaySubscriptions, ConnectSubscriptions, EnterDisregisterSubscriptions,
     SubscribeSubscriptions, UseFailsSubscriptions, AddSubscriptions, UnsubscribeSubscriptions
     DEF RunThread
<1>2. ASSUME NEW c \in Conn, RunReader(c) \/ Drop(c) \/ Reconnect(c) PROVE Subscriptions'
  <2>1. UNCHANGED <<client, subs>>
    BY <1>2 DEF RunReader, Take, Advance, Comodify, SendStart, SendEnd, EndRound, Drop, Reconnect
  <2> QED BY <2>1, ReadersLeaveSubscriptions
<1>3. ASSUME NEW c \in Conn, NEW h \in Handler, Deliver(c, h) PROVE Subscriptions'
  <2>1. UNCHANGED <<client, subs>>
    BY <1>3 DEF Deliver
  <2> QED BY <2>1, ReadersLeaveSubscriptions
<1>4. CASE UNCHANGED vars
  <2>1. UNCHANGED <<client, subs>>
    BY <1>4 DEF vars, client
  <2> QED BY <2>1, ReadersLeaveSubscriptions
<1> QED BY <1>1, <1>2, <1>3, <1>4 DEF Next

(* A connection that has been replaced stays so.                            *)
LEMMA ReplacedStays ==
  ASSUME TypeOK, [Next]_vars, NotReplaced' PROVE NotReplaced
<1>1. CASE \A t \in Thread : ~Connect(t)
  BY <1>1, ConnStays DEF NotReplaced
<1>2. ASSUME NEW t \in Thread, Connect(t) PROVE NotReplaced
  <2>1. CASE UNCHANGED <<conn, reader>>
    BY <2>1 DEF NotReplaced
  <2>2. ASSUME NEW c \in Conn, reader[c] = "none", conn' = c,
               \A d \in Conn \ {c} : reader'[d] = reader[d]
        PROVE  NotReplaced
    BY <2>2 DEF NotReplaced
  <2> QED BY <1>2, <2>1, <2>2, ConnectStep
<1> QED BY <1>1, <1>2

(* NATS holds one subscription of each handler with sessions, the one that  *)
(* the handler knows, and none of the others, whenever nobody is inside, no *)
(* call fails and the connection has not been replaced.                     *)
THEOREM NatsHoldsWhatIsNeeded == Spec => []SubscriptionsMatch
<1> DEFINE I == ~Failing /\ NotReplaced => Subscriptions
<1>1. HandlerInv /\ ConnInv /\ I /\ [Next]_vars => I'
  <2>1. HandlerInv => TypeOK
    BY DEF HandlerInv
  <2> QED BY <2>1, SubscriptionsNext, ReplacedStays
<1>2. Spec => []I
  <2>1. Init => I
    BY SubscriptionsInit
  <2> QED BY <1>1, <2>1, HandlerInvariance, ConnInvariance, PTL DEF Spec
<1>3. HandlerInv /\ I => SubscriptionsMatch
  <2> SUFFICES ASSUME HandlerInv, Subscriptions, NEW h \in Handler, ~Locked(h)
               PROVE  {ci \in Conn \X Sid : subs[ci[1]][ci[2]] = h}
                         = IF sessions[h] = {} THEN {} ELSE {<<conn, subId[h]>>}
    BY DEF SubscriptionsMatch
  <2>1. \A c \in Conn, i \in Sid : subs[c][i] = h <=> c = conn /\ subId[h] = i
    BY DEF Subscriptions, Holds, Locked, Inside
  <2>2. None \notin Sid /\ None \notin Conn
    BY NoneAssumption
  <2>3. CASE sessions[h] = {}
    BY <2>1, <2>2, <2>3 DEF Subscriptions
  <2>4. CASE sessions[h] # {}
    <3>1. subId[h] \in Sid /\ conn \in Conn
      BY <2>4 DEF Subscriptions, HandlerInv, TypeOK
    <3> QED BY <2>1, <2>4, <3>1
  <2> QED BY <2>3, <2>4
<1> QED BY <1>2, <1>3, HandlerInvariance, PTL
=============================================================================
