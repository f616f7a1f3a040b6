-------------------------------- MODULE Clients --------------------------------
(* The connections of one gnatsd server (gnatsd/server/client.go, server.go):   *)
(* each has a goroutine that reads and handles its operations and writes what   *)
(* it publishes into the buffers of the others; timers and a shutdown act on    *)
(* them from the side. A step is a critical section of c.mu or s.mu, or the     *)
(* code between two. The subject list is the set of subscriptions it holds      *)
(* (module Sublist shows that it acts as one), with one subject that everybody  *)
(* uses; routes are left to module Interest.                                    *)
EXTENDS Integers, FiniteSets, FiniteSetsExt, Functions

CONSTANTS Conns,        \* connections that may be accepted
          Sids,         \* the subscription ids a client uses
          MaxSubs,      \* bound: SUBs of each client, a function
          MaxPubs,      \* bound: PUBs of each client, a function
          Maxes,        \* the maxima that UNSUB gives, 0 for none
          Pinged,       \* bound: the clients whose ping timer fires
          MaxFaults,    \* bound: failures of a live connection, and the shutdown
          MaxUnasked,   \* bound: PONGs beyond the pings of each client, a function
          MaxPingsOut,  \* opts.MaxPingsOut
          Slow,         \* the clients that do not CONNECT at once; {} if no one has to
          Verbose       \* opts.Verbose, as CONNECT leaves it

ASSUME BoundsAssumption ==
  /\ MaxSubs \in [Conns -> Nat] /\ MaxPubs \in [Conns -> Nat] /\ MaxFaults \in Nat
  /\ Maxes \subseteq Nat /\ MaxUnasked \in [Conns -> Nat]

ASSUME OptionsAssumption == MaxPingsOut \in Nat /\ Pinged \union Slow \subseteq Conns

VARIABLES
  running, acc,         \* s.running; the connection in the accept loop, if any
  toClose,              \* what Shutdown copied off and has yet to close
  clients,              \* s.clients
  nc,                   \* "new", "up", "cut" (closed below c.nc), "nil"
  subs,                 \* c.subs: sid -> subscription
  sl,                   \* the subject list
  nm, max,              \* of each subscription
  pout, ptmr, atmr,     \* pings out; the ping timer is set; the auth timer is set
  firing,               \* the auth timers whose function has started
  authSet,              \* parse's copy of atmr
  buffered,             \* the clients with data in bw
  pcd,                  \* c.pcd
  pc, todo, cur,        \* each read loop: where it is; matches left; the sub in hand
  closing, leaving,     \* closeConnection: how far it is; the subs it has to remove
  closer,               \* the read loop that runs it, if one does
  made,                 \* subscriptions made so far, by client
  pubs,                 \* PUBs so far, by client
  delivered, allowed,   \* history: messages written; how many there may be
  faults,               \* failures so far
  reused, late          \* history: who reused a sid; who was registered after its removal

vars == <<running, acc, toClose, clients, nc, subs, sl, nm, max, pout, ptmr, atmr, firing,
          authSet, buffered, pcd, pc, todo, cur, closing, leaving, closer, made, pubs, delivered, allowed,
          faults, reused, late>>

registry == <<running, acc, toClose, clients, late>>
server == <<registry, faults>>
lists  == <<subs, sl, nm, max, made, pubs, delivered, allowed, reused>>
timers == <<pout, ptmr, atmr, firing>>
loops  == <<pcd, pc, todo, cur, authSet>>
ends   == <<nc, closing, leaving, closer>>

Sub == UNION {[client : {c}, sid : Sids, n : 1..MaxSubs[c]] : c \in Conns}
Unlimited == 0

Init ==
  /\ running = TRUE /\ acc = {} /\ toClose = {} /\ clients = {}
  /\ nc = [c \in Conns |-> "new"]
  /\ subs = [c \in Conns |-> <<>>] /\ sl = {}
  /\ nm = [s \in Sub |-> 0] /\ max = [s \in Sub |-> 0]
  /\ pout = [c \in Conns |-> 0] /\ ptmr = [c \in Conns |-> FALSE] /\ atmr = [c \in Conns |-> FALSE]
  /\ firing = {} /\ authSet = {} /\ buffered = {}
  /\ pcd = [c \in Conns |-> {}] /\ pc = [c \in Conns |-> "none"]
  /\ todo = [c \in Conns |-> {}] /\ cur = [c \in Conns |-> {}]
  /\ closing = [c \in Conns |-> "no"] /\ leaving = [c \in Conns |-> {}]
  /\ closer = [c \in Conns |-> {}]
  /\ made = [c \in Conns |-> {}] /\ pubs = [c \in Conns |-> 0]
  /\ delivered = [s \in Sub |-> 0] /\ allowed = [s \in Sub |-> Unlimited]
  /\ faults = 0 /\ reused = {} /\ late = {}

(* A connection that is still open fails, within the bound; one that has been   *)
(* closed fails anyway.                                                         *)
Fails(c) == IF nc[c] = "up" THEN faults < MaxFaults /\ faults' = faults + 1 ELSE UNCHANGED faults
-----------------------------------------------------------------------------
(* The accept loop. *)

Accept(c) ==
  /\ running /\ acc = {} /\ nc[c] = "new"
  /\ acc' = {c}
  /\ UNCHANGED <<running, toClose, clients, late, faults, ends, lists, timers, buffered, loops>>

(* The timers start, and the read loop, which waits for c.mu until this is over. *)
createClient(c) ==
  /\ c \in acc /\ nc[c] = "new"
  /\ nc' = [nc EXCEPT ![c] = "up"]
  /\ ptmr' = [ptmr EXCEPT ![c] = TRUE]
  /\ atmr' = [atmr EXCEPT ![c] = c \in Slow]
  /\ pc' = [pc EXCEPT ![c] = "read"]
  /\ UNCHANGED <<server, closing, leaving, closer, lists, pout, firing, authSet, buffered, pcd,
                 todo, cur>>

(* By then the read loop may have closed and unregistered the client. *)
register(c) ==
  /\ c \in acc /\ nc[c] # "new"
  /\ clients' = clients \union {c}
  /\ acc' = {}
  /\ late' = IF closing[c] \in {"subs", "done"} THEN late \union {c} ELSE late
  /\ UNCHANGED <<running, toClose, faults, ends, lists, timers, buffered, loops>>

(* Shutdown copies off the clients that are registered by now. *)
Shutdown ==
  /\ running /\ faults < MaxFaults
  /\ faults' = faults + 1
  /\ running' = FALSE /\ toClose' = clients
  /\ UNCHANGED <<acc, clients, late, ends, lists, timers, buffered, loops>>
-----------------------------------------------------------------------------
(* closeConnection: the first to find c.nc clears it and takes what c.subs holds *)
(* by then; the others return. The read loop that calls it, by, waits for it.   *)
closeConnection(c, by) ==
  IF nc[c] = "nil" THEN UNCHANGED <<ends, ptmr, atmr, buffered>>
  ELSE /\ nc' = [nc EXCEPT ![c] = "nil"]
       /\ atmr' = [atmr EXCEPT ![c] = FALSE]
       /\ ptmr' = [ptmr EXCEPT ![c] = FALSE]
       /\ buffered' = buffered \ {c}
       /\ leaving' = [leaving EXCEPT ![c] = Range(subs[c])]
       /\ closing' = [closing EXCEPT ![c] = "unregister"]
       /\ closer' = [closer EXCEPT ![c] = by]

Waits(c) == \E x \in Conns : c \in closer[x]

(* The rest of it removes the client, then what it took, one by one.            *)
Left(c, rest) ==
  /\ leaving' = [leaving EXCEPT ![c] = rest]
  /\ closing' = [closing EXCEPT ![c] = IF rest = {} THEN "done" ELSE "subs"]
  /\ closer' = IF rest = {} THEN [closer EXCEPT ![c] = {}] ELSE closer

removeClient(c) ==
  /\ closing[c] = "unregister"
  /\ clients' = clients \ {c}
  /\ Left(c, leaving[c])
  /\ UNCHANGED <<running, acc, toClose, late, faults, nc, lists, timers, buffered, loops>>

removeSub(c) ==
  /\ closing[c] = "subs"
  /\ \E s \in leaving[c] : sl' = sl \ {s} /\ Left(c, leaving[c] \ {s})
  /\ UNCHANGED <<server, nc, subs, nm, max, made, pubs, delivered, allowed, reused, timers,
                 buffered, loops>>

ShutdownClose(c) ==
  /\ c \in toClose /\ closeConnection(c, {})
  /\ toClose' = toClose \ {c}
  /\ UNCHANGED <<running, acc, clients, late, faults, lists, pout, firing, loops>>

(* Flush and close below c.nc, which stays: the read loop will notice. *)
clearConnection(c) == /\ nc' = [nc EXCEPT ![c] = IF @ = "up" THEN "cut" ELSE @]
                      /\ buffered' = buffered \ {c}

(* Variant: a client that has been closed meanwhile is not noticed. *)
Connected_always(c) == TRUE

Connected(c) == nc[c] # "nil"

(* A flush writes everything, or fails; it does fail on a closed connection. *)
Flushes(c) == nc[c] = "up" /\ buffered' = buffered \ {c} /\ UNCHANGED nc
-----------------------------------------------------------------------------
(* Timers, each a goroutine of its own. *)

(* Variant: the ping that is about to be sent is not counted. *)
PingsOut_before(c) == pout[c]

PingsOut(c) == pout[c] + 1

(* Variant: it fires once. *)
setPingTimer_not(c) == [ptmr EXCEPT ![c] = FALSE]

setPingTimer(c) == ptmr

processPingTimer(c) ==
  /\ c \in Pinged /\ ptmr[c] /\ nc[c] # "nil"
  /\ pout' = [pout EXCEPT ![c] = PingsOut(c)]
  /\ \/ PingsOut(c) <= MaxPingsOut /\ Flushes(c) /\ ptmr' = setPingTimer(c) /\ UNCHANGED faults
     \/ /\ IF PingsOut(c) > MaxPingsOut THEN UNCHANGED faults ELSE Fails(c)
        /\ clearConnection(c) /\ ptmr' = [ptmr EXCEPT ![c] = FALSE]
  /\ UNCHANGED <<registry, closing, leaving, closer, lists, atmr, firing, loops>>

AuthTimerFires(c) ==
  /\ atmr[c] /\ c \notin firing /\ Fails(c)
  /\ firing' = firing \union {c}
  /\ UNCHANGED <<registry, ends, lists, pout, ptmr, atmr, buffered, loops>>

(* Nothing is looked at again: a CONNECT in the meantime does not help. *)
authTimeout(c) ==
  /\ c \in firing /\ nc[c] # "nil"
  /\ closeConnection(c, {})
  /\ UNCHANGED <<server, lists, pout, firing, loops>>
-----------------------------------------------------------------------------
(* The read loop: read, then parse operation by operation, then flush. *)

Goto(c, place) == pc' = [pc EXCEPT ![c] = place]

ReadSome(c) ==
  /\ pc[c] = "read" /\ nc[c] = "up"
  /\ Goto(c, "parse")
  /\ authSet' = IF atmr[c] THEN authSet \union {c} ELSE authSet \ {c}
  /\ UNCHANGED <<server, ends, lists, timers, buffered, pcd, todo, cur>>

ReadError(c) ==
  /\ pc[c] = "read"
  /\ Goto(c, "end") /\ closeConnection(c, {c})
  /\ Fails(c)
  /\ UNCHANGED <<registry, lists, pout, firing, authSet, pcd, todo, cur>>

(* An operation can be handled; unless it is CONNECT, not before one that the   *)
(* auth timer waits for.                                                        *)
Parses(c) == pc[c] = "parse" /\ ~Waits(c)
Operates(c) == Parses(c) /\ c \notin authSet

(* An authorization violation, a parse error, a payload beyond the maximum: the *)
(* loop ends, without its flush.                                                *)
Refuse(c) ==
  /\ Parses(c)
  /\ Goto(c, "end") /\ closeConnection(c, {c})
  /\ Fails(c)
  /\ UNCHANGED <<registry, lists, pout, firing, authSet, pcd, todo, cur>>

processErr(c) ==
  /\ Operates(c) /\ closeConnection(c, {c}) /\ Fails(c)
  /\ UNCHANGED <<registry, lists, pout, firing, loops>>

OKs(c) == IF Verbose THEN pcd' = [pcd EXCEPT ![c] = @ \union {c}]
                          /\ buffered' = IF nc[c] = "nil" THEN buffered ELSE buffered \union {c}
          ELSE UNCHANGED <<pcd, buffered>>

(* Stopping the timer does not stop what it has started. *)
processConnect(c) ==
  /\ Parses(c)
  /\ atmr' = [atmr EXCEPT ![c] = FALSE] /\ authSet' = authSet \ {c}
  /\ OKs(c)
  /\ UNCHANGED <<server, ends, lists, pout, ptmr, firing, pc, todo, cur>>

processPing(c) ==
  /\ Operates(c)
  /\ \/ nc[c] = "nil" /\ UNCHANGED <<nc, buffered, faults>>
     \/ Flushes(c) /\ UNCHANGED faults
     \/ nc[c] # "nil" /\ clearConnection(c) /\ Fails(c)
  /\ UNCHANGED <<registry, closing, leaving, closer, lists, timers, loops>>

(* A PONG counts down whether or not it answers a ping: with one that was not   *)
(* asked for, c.pout goes below zero and the stale close is put off.            *)
processPong(c) ==
  /\ Operates(c) /\ pout[c] > -MaxUnasked[c]
  /\ pout' = [pout EXCEPT ![c] = @ - 1]
  /\ UNCHANGED <<server, ends, lists, ptmr, atmr, firing, buffered, loops>>

(* c.subs forgets a subscription that had the same sid; the list does not. *)
processSub(c, sid) ==
  LET s == [client |-> c, sid |-> sid, n |-> Cardinality(made[c]) + 1]
  IN /\ Operates(c) /\ Cardinality(made[c]) < MaxSubs[c]
     /\ made' = [made EXCEPT ![c] = @ \union {s}]
     /\ IF Connected(c)
        THEN /\ subs' = [subs EXCEPT ![c] = [x \in DOMAIN @ \union {sid} |->
                                               IF x = sid THEN s ELSE @[x]]]
             /\ sl' = sl \union {s}
             /\ reused' = IF \E t \in made[c] : t.sid = sid THEN reused \union {c} ELSE reused
        ELSE UNCHANGED <<subs, sl, reused>>
     /\ OKs(c)
     /\ UNCHANGED <<server, ends, nm, max, pubs, delivered, allowed, timers, authSet, pc, todo, cur>>

(* The maximum is set without the lock; then the unsubscribe. *)
processUnsub(c, sid, m) ==
  /\ Operates(c) /\ sid \in DOMAIN subs[c]
  /\ LET s == subs[c][sid]
     IN /\ max' = [max EXCEPT ![s] = m]
        /\ allowed' = [allowed EXCEPT ![s] = IF m = 0 THEN Unlimited ELSE Max({m, nm[s]})]
        /\ cur' = [cur EXCEPT ![c] = {s}]
  /\ Goto(c, "unsub")
  /\ UNCHANGED <<server, ends, subs, sl, nm, made, pubs, delivered, reused, timers, buffered,
                 pcd, todo, authSet>>

(* Variant: taken from what the client can name, but left in the list. *)
Unsubscribed_keeps(s) == sl

Unsubscribed(s) == sl \ {s}

(* Called with the sub in hand by the loop c, its own client's or another's:    *)
(* deferred while the sub has messages to come.                                 *)
unsubscribe(c) ==
  /\ pc[c] = "unsub" /\ ~Waits(c)
  /\ \E s \in cur[c] :
       IF max[s] > 0 /\ nm[s] < max[s] THEN UNCHANGED <<subs, sl>>
       ELSE /\ subs' = [subs EXCEPT ![s.client] = Restrict(@, DOMAIN @ \ {s.sid})]
            /\ sl' = Unsubscribed(s)
  /\ cur' = [cur EXCEPT ![c] = {}]
  /\ Goto(c, IF todo[c] = {} THEN "parse" ELSE "deliver")
  /\ UNCHANGED <<server, ends, nm, max, made, pubs, delivered, allowed, reused, timers,
                 buffered, pcd, todo, authSet>>

(* processMsg: what matches now is delivered to one after another, while the    *)
(* list changes.                                                                *)
processMsg(c) ==
  /\ Operates(c) /\ pubs[c] < MaxPubs[c]
  /\ pubs' = [pubs EXCEPT ![c] = @ + 1]
  /\ todo' = [todo EXCEPT ![c] = sl]
  /\ Goto(c, IF sl = {} THEN "parse" ELSE "deliver")
  /\ OKs(c)
  /\ UNCHANGED <<server, ends, subs, sl, nm, max, made, delivered, allowed, reused, timers, authSet,
                 cur>>

(* Variant: only the message that reaches the maximum is told from the others. *)
Exceeds_never(s) == FALSE

(* The message is one more than the maximum: it is dropped. *)
Exceeds(s) == max[s] > 0 /\ nm[s] + 1 > max[s]

(* deliverMsg to one of the matches, under its client's lock; it is dropped or  *)
(* its write fails, it goes into the buffer, or it times out and the client is  *)
(* closed as a slow consumer. Reaching the maximum unsubscribes afterwards.     *)
deliverMsg(c) ==
  /\ pc[c] = "deliver" /\ ~Waits(c)
  /\ \E s \in todo[c] :
       LET to == s.client
           unsub == max[s] > 0 /\ nm[s] + 1 >= max[s]
       IN /\ todo' = [todo EXCEPT ![c] = @ \ {s}]
          /\ nm' = [nm EXCEPT ![s] = @ + 1]
          /\ cur' = [cur EXCEPT ![c] = IF unsub THEN {s} ELSE {}]
          /\ Goto(c, IF unsub THEN "unsub" ELSE IF todo[c] = {s} THEN "parse" ELSE "deliver")
          /\ \/ UNCHANGED <<ends, ptmr, atmr, buffered, pcd, delivered, faults>>
             \/ /\ ~Exceeds(s) /\ Connected(to)
                /\ delivered' = [delivered EXCEPT ![s] = @ + 1]
                /\ buffered' = buffered \union {to}
                /\ pcd' = [pcd EXCEPT ![c] = @ \union {to}]
                /\ UNCHANGED <<ends, ptmr, atmr, faults>>
             \/ /\ ~Exceeds(s) /\ Connected(to)
                /\ closeConnection(to, {c}) /\ Fails(to)
                /\ UNCHANGED <<pcd, delivered>>
  /\ UNCHANGED <<registry, subs, sl, max, made, pubs, allowed, reused, pout, firing, authSet>>

(* All flushed: read on, or end if the client has been closed. *)
Proceed(c) == Goto(c, IF pcd'[c] # {} THEN "flush" ELSE IF nc'[c] = "nil" THEN "end" ELSE "read")

EndOfRead(c) ==
  /\ Parses(c)
  /\ UNCHANGED <<server, ends, lists, timers, buffered, pcd, todo, cur, authSet>>
  /\ Proceed(c)

(* One of the pending clients is flushed; if that fails, closed. *)
flushPending(c) ==
  /\ pc[c] = "flush" /\ ~Waits(c)
  /\ \E cp \in pcd[c] :
       /\ pcd' = [pcd EXCEPT ![c] = @ \ {cp}]
       /\ \/ nc[cp] = "nil" /\ UNCHANGED <<ends, ptmr, atmr, buffered, faults>>
          \/ Flushes(cp) /\ UNCHANGED <<closing, leaving, closer, ptmr, atmr, faults>>
          \/ nc[cp] # "nil" /\ closeConnection(cp, {c}) /\ Fails(cp)
  /\ UNCHANGED <<registry, lists, pout, firing, authSet, todo, cur>>
  /\ Proceed(c)

Handle(c) == \/ processErr(c) \/ processConnect(c) \/ processPing(c) \/ processPong(c)
             \/ \E sid \in Sids : processSub(c, sid) \/ \E m \in Maxes : processUnsub(c, sid, m)
             \/ processMsg(c)

Next == \E c \in Conns :
  \/ Accept(c) \/ createClient(c) \/ register(c) \/ Shutdown \/ ShutdownClose(c)
  \/ removeClient(c) \/ removeSub(c)
  \/ processPingTimer(c) \/ AuthTimerFires(c) \/ authTimeout(c)
  \/ ReadSome(c) \/ ReadError(c) \/ Refuse(c) \/ Handle(c) \/ EndOfRead(c)
  \/ unsubscribe(c) \/ deliverMsg(c) \/ flushPending(c)

(* Only what the properties need: goroutines run and the ping timer fires. What *)
(* a client sends is up to it, but one read holds finitely many operations, and *)
(* a closed connection fails to read.                                           *)
Fairness == \A c \in Conns :
  /\ (c \in Pinged => WF_vars(processPingTimer(c)))
  /\ WF_vars(removeClient(c) \/ removeSub(c))
  /\ SF_vars(EndOfRead(c)) /\ WF_vars(nc[c] # "up" /\ ReadError(c))
  /\ WF_vars(unsubscribe(c) \/ deliverMsg(c) \/ flushPending(c))

Spec == Init /\ [][Next]_vars /\ Fairness
-----------------------------------------------------------------------------
(* The state fits its types. *)
TypeOK ==
  /\ acc \subseteq Conns /\ toClose \subseteq Conns /\ clients \subseteq Conns
  /\ \A c \in Conns :
       /\ nc[c] \in {"new", "up", "cut", "nil"}
       /\ DOMAIN subs[c] \subseteq Sids /\ Range(subs[c]) \subseteq made[c]
       /\ pc[c] \in {"none", "read", "parse", "deliver", "unsub", "flush", "end"}
       /\ todo[c] \union cur[c] \union leaving[c] \subseteq Sub
       /\ pc[c] = "unsub" <=> cur[c] # {}
       /\ pc[c] = "deliver" => todo[c] # {}
       /\ pout[c] \in Int /\ pout[c] <= MaxPingsOut + 1
       /\ closing[c] # "no" <=> nc[c] = "nil"
  /\ sl \subseteq UNION Range(made) /\ buffered \subseteq {c \in Conns : nc[c] \notin {"new", "nil"}}

(* A closed client leaves nothing behind (client.go:886-921): no subscription   *)
(* of its is matched any more, whatever it was doing and whoever closed it, and *)
(* the server does not count it. Two exceptions, which the code has: an older   *)
(* subscription under a sid that was used again, and a client that was closed   *)
(* before createClient registered it.                                           *)
ClosedLeavesNothing ==
  \A c \in Conns : closing[c] = "done" =>
    /\ c \in reused \/ \A s \in sl : s.client # c
    /\ c \in clients => c \in late

(* A subscription is never sent more than the maximum its client asked for,     *)
(* however many publishers deliver to it at once (client.go:571-593).           *)
LimitKept == \A s \in Sub : allowed[s] # Unlimited => delivered[s] <= allowed[s]

(* One that has had its maximum is not left for another message to find: as     *)
(* long as it is in the list, somebody has it in hand to remove it, whoever set *)
(* the maximum while whoever counted (client.go:529-535, 578-591).              *)
LimitEndsInterest ==
  \A s \in sl : max[s] > 0 /\ nm[s] >= max[s] => \E c \in Conns : s \in cur[c]

(* What is written to a client's buffer is never forgotten there: a read loop   *)
(* has that client among those it will flush and, when that loop has ended      *)
(* before it did, the next ping flushes it, unless the connection has been cut  *)
(* (client.go:164-181, 642, 825).                                               *)
WrittenIsFlushed ==
  \A c \in buffered :
    \E x \in Conns : c \in pcd[x] /\ (pc[x] = "end" /\ nc[c] = "up" => ptmr[c])

(* A client that answers no pings is closed and unregistered (client.go:803).   *)
SilentIsClosed ==
  \A c \in Pinged : []<><<processPong(c)>>_vars \/ (nc[c] = "up" ~> closing[c] = "done")
================================================================================
