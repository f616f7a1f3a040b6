---------------------------- MODULE NatsHandler -----------------------------
(***************************************************************************)
(* NatsHandler (ws/NatsHandler.java) and the NatsManager it asks for the    *)
(* connection (ws/NatsManager.java): register and disregister step by step  *)
(* under the handler's lock, the double-checked construction of the         *)
(* connection, and execute, which the reader thread of a connection runs    *)
(* over the HashSet of sessions with no lock but the session's.             *)
(*                                                                         *)
(* The client library (org.nats.Connection) is external and is modelled by  *)
(* what the code uses: isConnected, connect, subscribe, unsubscribe, one    *)
(* reader thread that calls execute for the subscriptions in its map and    *)
(* ends on a RuntimeException, and a reconnection that replays that map.    *)
(* Handlers are all live: what the collector does is TopicManager's matter. *)
(***************************************************************************)
EXTENDS Naturals, FiniteSets

CONSTANTS
    Thread,    \* the container's threads, which call register and disregister
    Session,   \* the web socket sessions
    Handler,   \* the NatsHandler objects, one for each topic
    Conn,      \* bound: the Connection objects that may ever be built
    Sid,       \* subscription ids in use at one time
    None,      \* null; the -1 of subId
    Lossy,     \* may a connection be lost?
    Failing    \* may connect, subscribe and unsubscribe fail?

ASSUME NoneAssumption == None \notin Session \cup Handler \cup Conn \cup Sid

ASSUME SwitchAssumption == Lossy \in BOOLEAN /\ Failing \in BOOLEAN

VARIABLES
    sessions,  \* sessions[h]: the HashSet NatsHandler.sessions
    subId,     \* subId[h]: the field subId, None for -1
    conn,      \* the field NatsManager.conn
    up,        \* the connections whose isConnected is true
    lost,      \* history: those that have been lost at least once
    subs,      \* subs[c][i]: the handler of subscription i in c's map
    pc,        \* where each of the container's threads is
    call,      \* the parameters and local variables of its call
    reader,    \* reader[c]: what the reader thread of c does
    round      \* round[c]: the state of its loop over the sessions

vars == <<sessions, subId, conn, up, lost, subs, pc, call, reader, round>>

client == <<sessions, subId, conn, pc, call>>

Call ==
    [op : {"none", "register", "disregister"},
     handler : Handler \cup {None},
     session : Session \cup {None},
     sid : Sid \cup {None}]            \* what subscribe has returned

NoCall == [op |-> "none", handler |-> None, session |-> None, sid |-> None]

Round ==
    [handler : Handler \cup {None},
     next    : Session \cup {None},    \* what the iterator has fetched ahead
     seen    : SUBSET Session,         \* what it has passed
     cur     : Session \cup {None},    \* the loop variable
     raced   : BOOLEAN]                \* modCount moved since it was made

NoRound == [handler |-> None, next |-> None, seen |-> {}, cur |-> None, raced |-> FALSE]

(* The types, that a reader is in a round exactly while it executes, and    *)
(* that a register subscribes exactly when its handler has no subscription. *)
TypeOK ==
    /\ sessions \in [Handler -> SUBSET Session]
    /\ subId \in [Handler -> Sid \cup {None}]
    /\ conn \in Conn \cup {None}
    /\ up \in SUBSET Conn
    /\ lost \in SUBSET Conn
    /\ subs \in [Conn -> [Sid -> Handler \cup {None}]]
    /\ pc \in [Thread -> {"idle", "entering", "checking", "building", "connecting",
                         "using", "adding"}]
    /\ call \in [Thread -> Call]
    /\ reader \in [Conn -> {"none", "reading", "looking", "advancing", "waiting",
                            "sending", "dead"}]
    /\ round \in [Conn -> Round]
    /\ \A c \in Conn :
          reader[c] \in {"none", "reading", "dead"} <=> round[c].handler = None
    /\ \A t \in Thread :
          pc[t] = "adding" =>
              /\ call[t].op = "register"
              /\ call[t].sid = None <=> subId[call[t].handler] # None

Init ==
    /\ sessions = [h \in Handler |-> {}]
    /\ subId = [h \in Handler |-> None]
    /\ conn = None
    /\ up = {}
    /\ lost = {}
    /\ subs = [c \in Conn |-> [i \in Sid |-> None]]
    /\ pc = [t \in Thread |-> "idle"]
    /\ call = [t \in Thread |-> NoCall]
    /\ reader = [c \in Conn |-> "none"]
    /\ round = [c \in Conn |-> NoRound]

-----------------------------------------------------------------------------
(* register and disregister.                                               *)

Start(t) ==
    \E op \in {"register", "disregister"}, h \in Handler, s \in Session :
        /\ pc[t] = "idle"
        /\ pc' = [pc EXCEPT ![t] = "entering"]
        /\ call' = [call EXCEPT ![t] =
              [op |-> op, handler |-> h, session |-> s, sid |-> None]]
        /\ UNCHANGED <<sessions, subId, conn, up, lost, subs, reader, round>>

(* The monitor of the handler: a thread is inside a synchronized method.    *)
Inside(t) == pc[t] \in {"checking", "building", "connecting", "using", "adding"}

Locked(h) == \E t \in Thread : Inside(t) /\ call[t].handler = h

Goto(t, where) == pc' = [pc EXCEPT ![t] = where] /\ UNCHANGED call

Leave(t) ==
    /\ pc' = [pc EXCEPT ![t] = "idle"]
    /\ call' = [call EXCEPT ![t] = NoCall]

(* The HashSet of h gets the members new. A change moves modCount, which    *)
(* every iterator over it will notice.                                      *)
SetSessions(h, new) ==
    /\ sessions' = [sessions EXCEPT ![h] = new]
    /\ round' = [c \in Conn |->
          IF round[c].handler = h /\ new # sessions[h]
          THEN [round[c] EXCEPT !.raced = TRUE] ELSE round[c]]

(* Mutant: register is not synchronized.                                    *)
EnterRegister_noLock(t) ==
    LET h == call[t].handler IN
    /\ pc[t] = "entering"
    /\ call[t].op = "register"
    /\ Goto(t, IF subId[h] = None THEN "checking" ELSE "adding")
    /\ UNCHANGED <<sessions, subId, conn, up, lost, subs, reader, round>>

EnterRegister(t) ==
    LET h == call[t].handler IN
    /\ pc[t] = "entering"
    /\ call[t].op = "register"
    /\ ~Locked(h)
    /\ Goto(t, IF subId[h] = None THEN "checking" ELSE "adding")
    /\ UNCHANGED <<sessions, subId, conn, up, lost, subs, reader, round>>

(* Mutant: the size is looked at before the session is removed.             *)
EnterDisregister_sizeFirst(t) ==
    LET h == call[t].handler
        s == call[t].session
    IN  /\ pc[t] = "entering"
        /\ call[t].op = "disregister"
        /\ ~Locked(h)
        /\ SetSessions(h, sessions[h] \ {s})
        /\ IF sessions[h] = {} /\ subId[h] # None
           THEN Goto(t, "checking")
           ELSE Leave(t)
        /\ UNCHANGED <<subId, conn, up, lost, subs, reader>>

(* Mutant: disregister is not synchronized.                                 *)
EnterDisregister_noLock(t) ==
    LET h == call[t].handler
        s == call[t].session
    IN  /\ pc[t] = "entering"
        /\ call[t].op = "disregister"
        /\ SetSessions(h, sessions[h] \ {s})
        /\ IF sessions[h] = {s} /\ subId[h] # None
           THEN Goto(t, "checking")
           ELSE Leave(t)
        /\ UNCHANGED <<subId, conn, up, lost, subs, reader>>

(* A session that is not in the set leaves at once, and so does one that    *)
(* leaves others behind.                                                    *)
EnterDisregister(t) ==
    LET h == call[t].handler
        s == call[t].session
    IN  /\ pc[t] = "entering"
        /\ call[t].op = "disregister"
        /\ ~Locked(h)
        /\ SetSessions(h, sessions[h] \ {s})
        /\ IF sessions[h] = {s} /\ subId[h] # None
           THEN Goto(t, "checking")
           ELSE Leave(t)
        /\ UNCHANGED <<subId, conn, up, lost, subs, reader>>

(* getConnection's look without the lock.                                   *)
CheckConn(t) ==
    /\ pc[t] = "checking"
    /\ Goto(t, IF conn \in up THEN "using" ELSE "building")
    /\ UNCHANGED <<sessions, subId, conn, up, lost, subs, reader, round>>

(* Mutant: who gets the manager's lock does not look again.                 *)
EnterBuild_noRecheck(t) ==
    /\ pc[t] = "building"
    /\ \A u \in Thread : pc[u] # "connecting"
    /\ Goto(t, "connecting")
    /\ UNCHANGED <<sessions, subId, conn, up, lost, subs, reader, round>>

(* Mutant: who waits for the manager's lock keeps others out of it, too.    *)
EnterBuild_crossing(t) ==
    /\ pc[t] = "building"
    /\ \A u \in Thread \ {t} : pc[u] \notin {"building", "connecting"}
    /\ Goto(t, IF conn \in up THEN "using" ELSE "connecting")
    /\ UNCHANGED <<sessions, subId, conn, up, lost, subs, reader, round>>

(* The block synchronized on the manager, and the second look.              *)
EnterBuild(t) ==
    /\ pc[t] = "building"
    /\ \A u \in Thread : pc[u] # "connecting"
    /\ Goto(t, IF conn \in up THEN "using" ELSE "connecting")
    /\ UNCHANGED <<sessions, subId, conn, up, lost, subs, reader, round>>

Unused == {c \in Conn : reader[c] = "none"}

(* buildConnection, which ends the block. A failure is logged and leaves    *)
(* conn as it was; within the bound, connect fails when no object is left.  *)
Connect(t) ==
    /\ pc[t] = "connecting"
    /\ Goto(t, "using")
    /\ \/ \E c \in Unused :
              /\ conn' = c
              /\ up' = up \cup {c}
              /\ reader' = [reader EXCEPT ![c] = "reading"]
       \/ /\ Failing \/ Unused = {}
          /\ UNCHANGED <<conn, up, reader>>
    /\ UNCHANGED <<sessions, subId, lost, subs, round>>

Free(i) == (\A c \in Conn : subs[c][i] = None) /\ \A h \in Handler : subId[h] # i

(* subscribe files the handler under a new id before it sends anything.     *)
Subscribe(t) ==
    \E i \in Sid :
        /\ pc[t] = "using"
        /\ call[t].op = "register"
        /\ conn # None
        /\ Free(i)
        /\ subs' = [subs EXCEPT ![conn][i] = call[t].handler]
        /\ \/ /\ pc' = [pc EXCEPT ![t] = "adding"]
              /\ call' = [call EXCEPT ![t].sid = i]
           \/ /\ Failing
              /\ Leave(t)
        /\ UNCHANGED <<sessions, subId, conn, up, lost, reader, round>>

(* conn is null after a connect that failed, or the library throws.         *)
UseFails(t) ==
    /\ pc[t] = "using"
    /\ conn = None \/ Failing
    /\ Leave(t)
    /\ UNCHANGED <<sessions, subId, conn, up, lost, subs, reader, round>>

(* The assignment of subId and sessions.add, which only threads that hold   *)
(* the handler's lock, and iterators, can tell apart.                       *)
Add(t) ==
    LET h == call[t].handler IN
    /\ pc[t] = "adding"
    /\ subId' = [subId EXCEPT ![h] = IF call[t].sid = None THEN @ ELSE call[t].sid]
    /\ SetSessions(h, sessions[h] \cup {call[t].session})
    /\ Leave(t)
    /\ UNCHANGED <<conn, up, lost, subs, reader>>

(* Mutant: subId keeps the id of the subscription that is gone.             *)
Unsubscribe_keepsId(t) ==
    /\ pc[t] = "using"
    /\ call[t].op = "disregister"
    /\ conn # None
    /\ subs' = [subs EXCEPT ![conn][subId[call[t].handler]] = None]
    /\ Leave(t)
    /\ UNCHANGED <<sessions, subId, conn, up, lost, reader, round>>

(* unsubscribe of an id the connection does not know does nothing.          *)
Unsubscribe(t) ==
    LET h == call[t].handler IN
    /\ pc[t] = "using"
    /\ call[t].op = "disregister"
    /\ conn # None
    /\ subs' = [subs EXCEPT ![conn][subId[h]] = None]
    /\ subId' = [subId EXCEPT ![h] = None]
    /\ Leave(t)
    /\ UNCHANGED <<sessions, conn, up, lost, reader, round>>

-----------------------------------------------------------------------------
(* execute, on the reader thread of a connection.                          *)

At(c, where) == reader' = [reader EXCEPT ![c] = where]

(* hasNext and the search of next for the element after this one, in the    *)
(* table as it is. When the set changes during the search it may also end   *)
(* early, or find what it has passed.                                       *)
FetchAhead(h, seen, raced) ==
    LET rest == sessions[h] \ seen IN
    (IF rest = {} \/ raced THEN {None} ELSE {})
        \cup (IF raced THEN sessions[h] ELSE rest)

(* The library hands the reader a message of a subscription in its map, and *)
(* the loop asks the HashSet for an iterator.                               *)
Deliver(c, h) ==
    \E next \in FetchAhead(h, {}, FALSE) :
        /\ c \in up
        /\ reader[c] = "reading"
        /\ \E i \in Sid : subs[c][i] = h
        /\ At(c, "looking")
        /\ round' = [round EXCEPT ![c] =
              [handler |-> h, next |-> next, seen |-> {}, cur |-> None, raced |-> FALSE]]
        /\ UNCHANGED <<client, up, lost, subs>>

Return(c, where) ==
    /\ At(c, where)
    /\ round' = [round EXCEPT ![c] = NoRound]

(* Mutant: next() does not compare modCount.                                *)
Take_unchecked(c) ==
    /\ reader[c] = "looking"
    /\ round[c].next # None
    /\ At(c, "advancing")
    /\ round' = [round EXCEPT ![c].cur = round[c].next, ![c].seen = @ \cup {round[c].next}]
    /\ UNCHANGED <<client, up, lost, subs>>

(* next() compares modCount, returns the element it had fetched ahead ...   *)
Take(c) ==
    /\ reader[c] = "looking"
    /\ round[c].next # None
    /\ ~round[c].raced
    /\ At(c, "advancing")
    /\ round' = [round EXCEPT ![c].cur = round[c].next,
                              ![c].seen = @ \cup {round[c].next}]
    /\ UNCHANGED <<client, up, lost, subs>>

(* ... and fetches the one after it.                                        *)
Advance(c) ==
    LET r == round[c] IN
    /\ reader[c] = "advancing"
    /\ \E next \in FetchAhead(r.handler, r.seen, r.raced) :
          round' = [round EXCEPT ![c].next = next]
    /\ At(c, "waiting")
    /\ UNCHANGED <<client, up, lost, subs>>

(* ConcurrentModificationException is thrown outside the try, leaves        *)
(* execute and ends the reader thread, which the connection does not notice.*)
Comodify(c) ==
    /\ reader[c] = "looking"
    /\ round[c].next # None
    /\ round[c].raced
    /\ Return(c, "dead")
    /\ UNCHANGED <<client, up, lost, subs>>

(* synchronized(session).                                                   *)
SendStart(c) ==
    /\ reader[c] = "waiting"
    /\ \A d \in Conn : reader[d] = "sending" => round[d].cur # round[c].cur
    /\ At(c, "sending")
    /\ UNCHANGED <<client, up, lost, subs, round>>

(* Mutant: the try is around the loop, so a send that fails ends it.        *)
SendEnd_failureEndsLoop(c) ==
    /\ reader[c] = "sending"
    /\ \/ At(c, "looking") /\ round' = [round EXCEPT ![c].cur = None]
       \/ At(c, "looking") /\ round' = [round EXCEPT ![c].cur = None, ![c].next = None]
    /\ UNCHANGED <<client, up, lost, subs>>

(* sendText returns or throws: the loop goes on either way.                 *)
SendEnd(c) ==
    /\ reader[c] = "sending"
    /\ At(c, "looking")
    /\ round' = [round EXCEPT ![c].cur = None]
    /\ UNCHANGED <<client, up, lost, subs>>

EndRound(c) ==
    /\ reader[c] = "looking"
    /\ round[c].next = None
    /\ Return(c, "reading")
    /\ UNCHANGED <<client, up, lost, subs>>

-----------------------------------------------------------------------------
(* The connections.                                                         *)

Drop(c) ==
    /\ Lossy
    /\ c \in up
    /\ up' = up \ {c}
    /\ lost' = lost \cup {c}
    /\ UNCHANGED <<client, subs, reader, round>>

(* The library connects again, sends every subscription of its map again,   *)
(* and has a thread that reads, be it a new one.                            *)
Reconnect(c) ==
    /\ reader[c] # "none"
    /\ c \notin up
    /\ up' = up \cup {c}
    /\ reader' = [reader EXCEPT ![c] = IF @ = "dead" THEN "reading" ELSE @]
    /\ UNCHANGED <<client, lost, subs, round>>

-----------------------------------------------------------------------------
RunThread(t) ==
    \/ EnterRegister(t) \/ EnterDisregister(t) \/ CheckConn(t) \/ EnterBuild(t)
    \/ Connect(t) \/ Subscribe(t) \/ UseFails(t) \/ Add(t) \/ Unsubscribe(t)

RunReader(c) ==
    \/ Take(c) \/ Advance(c) \/ Comodify(c) \/ SendStart(c) \/ SendEnd(c)
    \/ EndRound(c)

Next ==
    \/ \E t \in Thread : Start(t) \/ RunThread(t)
    \/ \E c \in Conn : RunReader(c) \/ Drop(c) \/ Reconnect(c)
    \/ \E c \in Conn, h \in Handler : Deliver(c, h)

Spec == Init /\ [][Next]_vars

(* A thread that can go on does so in the end, and gets a lock that stays   *)
(* free. A send returns or throws in the end, and a reader that waits for a *)
(* session is let in between the sends of another. There is always one more *)
(* message on every topic, which a reader comes to.                         *)
Fairness ==
    /\ \A t \in Thread : WF_vars(RunThread(t))
    /\ \A c \in Conn : SF_vars(RunReader(c))
    /\ \A h \in Handler : SF_vars(\E c \in Conn : Deliver(c, h))

-----------------------------------------------------------------------------
(* Properties.                                                             *)

(* register and disregister are atomic to the registry and fail only in the *)
(* ways HandlerContract lists, although each lets go of the processor many  *)
(* times. A session leaves when the disregister that removes it commits.    *)
Leaving(h) ==
    {call[t].session :
        t \in {u \in Thread : Inside(u) /\ call[u].op = "disregister"
                                        /\ call[u].handler = h}}

Members == [h \in Handler |-> sessions[h] \cup Leaving(h)]

Subscribed == {h \in Handler : subId[h] # None}

Contract == INSTANCE HandlerContract
                WITH sessions <- Members, subscribed <- Subscribed

ContractSpec == Contract!Spec

(* No message is taken to a session that has left the handler by the time   *)
(* the loop comes to it, however disregister and the loop interleave.       *)
NextIsRegistered ==
    [][\A c \in Conn :
          reader[c] = "looking" /\ reader'[c] = "advancing"
          => round'[c].cur \in sessions[round[c].handler]]_vars

(* A round that met no change of the set sends the message to every session *)
(* of the handler, whatever becomes of the single sends.                    *)
FullRound ==
    [][\A c \in Conn :
          reader[c] = "looking" /\ reader'[c] = "reading" /\ ~round[c].raced
          => round[c].seen = sessions[round[c].handler]]_vars

(* However many threads find no connection, one is built: a connection that *)
(* was never lost is the one all use, and is not replaced (the double check *)
(* of NatsManager.java:20-22).                                              *)
OneConnection ==
    \A c \in Conn : reader[c] # "none" /\ c \notin lost => c = conn

(* No connection has been replaced so far.                                  *)
NotReplaced == \A c \in Conn : reader[c] # "none" => c = conn

(* Where no call fails and the connection is not replaced, be it lost and   *)
(* back, a handler no thread is inside has one subscription at NATS, the    *)
(* one it knows, when it has sessions, and none when not.                   *)
SubscriptionsMatch ==
    ~Failing /\ NotReplaced =>
        \A h \in Handler :
            ~Locked(h) =>
                {ci \in Conn \X Sid : subs[ci[1]][ci[2]] = h}
                    = IF sessions[h] = {} THEN {} ELSE {<<conn, subId[h]>>}

(* Every register and disregister returns, and every round of execute ends: *)
(* those who wait for the handler's lock, and within it for the manager's   *)
(* (NatsManager.java:21), and the readers of two connections that wait for  *)
(* one session (NatsHandler.java:76), all get what they wait for.           *)
CallsFinish ==
    /\ \A t \in Thread : pc[t] # "idle" ~> pc[t] = "idle"
    /\ \A c \in Conn :
          round[c].handler # None ~> round[c].handler = None

Receives(c, h, s) == round[c].handler = h /\ round[c].cur = s

(* example/README.md:32: "After subscribing the topic and registering a     *)
(* handler, the topic presently can be received". Once no more calls come,  *)
(* the connection is not replaced and is up in the end, and where no reader *)
(* thread was ended by a change of the set, a session gets messages of each *)
(* topic it is registered for.                                              *)
ReceivedWhileReading ==
    /\ [](NotReplaced /\ \A c \in Conn : reader[c] # "dead")
    /\ <>[](conn \in up /\ \A t \in Thread : pc[t] = "idle")
    => \A h \in Handler, s \in Session :
          []<>(s \in sessions[h] => \E c \in Conn : Receives(c, h, s))
=============================================================================
