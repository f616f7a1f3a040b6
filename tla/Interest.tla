------------------------------- MODULE Interest -------------------------------
(* What two gnatsd servers know of each other's subscriptions, and how messages *)
(* cross the route between them (gnatsd/server/route.go:83-111, 211-308, and    *)
(* processMsg and deliverMsg in client.go). The route comes up while clients    *)
(* subscribe, unsubscribe and publish; module Routes says how it comes and      *)
(* goes. Each subscription has a client of its own and a sid that is not used   *)
(* again; all are for one subject. A step is what is done under one lock, or    *)
(* the handling of one message that came over the route.                        *)
EXTENDS Integers, FiniteSets, Sequences, SequencesExt

CONSTANTS Servers,      \* the two servers
          Subs,         \* subscriptions of clients
          Home,         \* the server of each
          Queue,        \* those of them in the queue group; there is one
          Msgs,         \* messages that clients publish
          Origin,       \* the server where each is published
          Maxes,        \* the maxima that UNSUB gives, 0 for none
          Closing,      \* bound: those of Subs whose connections may be closed
          Linked,       \* bound: sets of subscriptions and messages, with the route up at first
          Unlinked      \* bound: such sets, with the route coming up meanwhile

VARIABLES
  present,      \* those that there are in this behaviour
  route,        \* of each server: "none", "created" (INFO sent), "registered" (in s.routes)
  info,         \* what its INFO has led to: "unread", "copied" (the local ones), "sent"
  snapshot,     \* what sendLocalSubsToRoute has copied and has yet to send
  wire,         \* what each server has sent on the route and the other has not read
  local,        \* the subscriptions of its clients in each server's list
  remote,       \* the entries of the route in each server's list
  byRsid,       \* the route's own c.subs: the entry that an rsid names
  nm, max,      \* of subscriptions and entries
  op,           \* each client: "new", "sub" or "unsub" (to be broadcast), "idle", "last"
  closed,       \* and its connection: "open", "closing" (its end to be broadcast), "closed"
  stage,        \* each message: "new", "matched", "sent"
  matched,      \* what it matched
  got,          \* history: how often a message was delivered to a subscription
  due,          \* history: the plain subscriptions that a message should reach
  dropped,      \* history: messages for the other server that an entry over its maximum swallowed
  raced,        \* history: announced or withdrawn while the route had yet to send its snapshot,
                \* or withdrawn before it was announced
  missed        \* history: broadcast after the snapshot was copied, and before the registration

ASSUME ServersAssumption == \E s, t \in Servers : s # t /\ Servers = {s, t}

ASSUME SubsAssumption ==
  /\ IsFiniteSet(Subs) /\ Home \in [Subs -> Servers] /\ Queue \subseteq Subs
  /\ Subs \intersect (Subs \X {1, 2}) = {}

ASSUME MsgsAssumption == Origin \in [Msgs -> Servers]

ASSUME MaxesAssumption == Maxes \subseteq Nat

vars == <<present, route, info, snapshot, wire, local, remote, byRsid, nm, max, op, closed, stage, matched,
          got, due, dropped, raced, missed>>

linking == <<present, route, info, snapshot>>
counts  == <<nm, max>>
msgs    == <<stage, matched, got, due, dropped>>
told    == <<raced, missed>>

Entry == Subs \X {1, 2}                      \* an rsid is announced twice at most
Other(s) == CHOOSE t \in Servers : t # s
Plain == Subs \ Queue
IsPlain(e) == e[1] \in Plain

Init ==
  /\ \/ /\ present \in Unlinked
        /\ route = [s \in Servers |-> "none"] /\ info = [s \in Servers |-> "unread"]
     \/ /\ present \in Linked
        /\ route = [s \in Servers |-> "registered"] /\ info = [s \in Servers |-> "sent"]
  /\ snapshot = [s \in Servers |-> {}]
  /\ wire = [s \in Servers |-> <<>>]
  /\ local = [s \in Servers |-> {}] /\ remote = [s \in Servers |-> {}]
  /\ byRsid = [x \in Subs |-> 0]
  /\ nm = [x \in Subs \union Entry |-> 0] /\ max = [x \in Subs \union Entry |-> 0]
  /\ op = [x \in Subs |-> "new"] /\ closed = [x \in Subs |-> "open"]
  /\ stage = [m \in Msgs |-> "new"] /\ matched = [m \in Msgs |-> {}]
  /\ got = [p \in Msgs \X Subs |-> 0] /\ due = [m \in Msgs |-> {}]
  /\ dropped = {} /\ raced = {} /\ missed = {}
-----------------------------------------------------------------------------
(* What goes over the route. *)

SUB(x) == [kind |-> "SUB", sub |-> x]
UNSUB(x, limit) == [kind |-> "UNSUB", sub |-> x, max |-> limit]
MSG(e, m) == [kind |-> "MSG", sub |-> e[1], msg |-> m]

(* What the routes in s.routes are sent. *)
broadcastToRoutes(s, protos) == IF route[s] = "registered" THEN protos ELSE <<>>

Misses(s, X) ==
  missed' = IF route[s] # "registered" /\ info[s] # "unread" THEN missed \union X ELSE missed

(* An UNSUB takes the maximum along as long as it has not been reached.         *)
broadcastUnSubscribe(x) ==
  UNSUB(x, IF max[x] > 0 /\ nm[x] < max[x] THEN max[x] ELSE 0)
-----------------------------------------------------------------------------
(* The route comes up. *)

createRoute(s) ==
  /\ route[s] = "none"
  /\ route' = [route EXCEPT ![s] = "created"]
  /\ UNCHANGED <<present, info, snapshot, wire, local, remote, byRsid, counts, op, closed, msgs, told>>

Announcing(x) == op[x] \in {"sub", "unsub"} \/ closed[x] = "closing"

(* The read loop runs already. *)
Register(s) ==
  /\ route[s] = "created"
  /\ route' = [route EXCEPT ![s] = "registered"]
  /\ raced' = raced \union {x \in Subs : Home[x] = s /\ Announcing(x)}
  /\ UNCHANGED <<present, info, snapshot, wire, local, remote, byRsid, counts, op, closed, msgs, missed>>

(* When the INFO of the other server has come, which comes first. *)
CopyLocalSubs(s) ==
  /\ info[s] = "unread" /\ \A t \in Servers : route[t] # "none"
  /\ info' = [info EXCEPT ![s] = "copied"]
  /\ snapshot' = [snapshot EXCEPT ![s] = local[s]]
  /\ UNCHANGED <<present, route, wire, local, remote, byRsid, counts, op, closed, msgs, told>>

(* Variant: nothing is sent but what is subscribed from now on. *)
LocalSubs_none(s) == {}

LocalSubs(s) == {SUB(x) : x \in snapshot[s]}

sendLocalSubsToRoute(s) ==
  /\ info[s] = "copied"
  /\ info' = [info EXCEPT ![s] = "sent"]
  /\ \E protos \in SetToSeqs(LocalSubs(s)) : wire' = [wire EXCEPT ![s] = @ \o protos]
  /\ snapshot' = [snapshot EXCEPT ![s] = {}]
  /\ UNCHANGED <<present, route, local, remote, byRsid, counts, op, closed, msgs, told>>

Racing(s) == route[s] = "registered" /\ info[s] # "sent"
Races(s, X) == raced' = IF Racing(s) THEN raced \union X ELSE raced
-----------------------------------------------------------------------------
(* What the clients do. *)

processSub(x) ==
  /\ op[x] = "new" /\ x \in present
  /\ op' = [op EXCEPT ![x] = "sub"]
  /\ local' = [local EXCEPT ![Home[x]] = @ \union {x}]
  /\ Races(Home[x], {x})
  /\ UNCHANGED <<linking, wire, remote, byRsid, counts, closed, msgs, missed>>

broadcastSubscribe(x) ==
  /\ op[x] = "sub"
  /\ op' = [op EXCEPT ![x] = "idle"]
  /\ wire' = [wire EXCEPT ![Home[x]] = @ \o broadcastToRoutes(Home[x], <<SUB(x)>>)]
  /\ Misses(Home[x], {x})
  /\ UNCHANGED <<linking, local, remote, byRsid, counts, closed, msgs, raced>>

(* Deferred or not, it is broadcast; c.subs has it still when the connection is *)
(* closed. Bound: the client sends UNSUB once.                                  *)
processUnsub(x, limit) ==
  /\ op[x] = "idle"
  /\ op' = [op EXCEPT ![x] = "unsub"]
  /\ max' = [max EXCEPT ![x] = limit]
  /\ local' = IF limit > 0 /\ nm[x] < limit THEN local
              ELSE [local EXCEPT ![Home[x]] = @ \ {x}]
  /\ Races(Home[x], {x})
  /\ UNCHANGED <<linking, wire, remote, byRsid, nm, closed, msgs, missed>>

BroadcastUnsub(x) ==
  /\ op[x] = "unsub"
  /\ op' = [op EXCEPT ![x] = "last"]
  /\ wire' = [wire EXCEPT ![Home[x]] = @ \o broadcastToRoutes(Home[x], <<broadcastUnSubscribe(x)>>)]
  /\ Misses(Home[x], {x})
  /\ UNCHANGED <<linking, local, remote, byRsid, counts, closed, msgs, raced>>

(* By whatever goroutine, at any time. What took the list's entry is taken for  *)
(* one step with what set nc to nil: nobody can tell who looks in between.      *)
closeConnection(x) ==
  /\ x \in Closing /\ closed[x] = "open" /\ x \in local[Home[x]]
  /\ closed' = [closed EXCEPT ![x] = "closing"]
  /\ local' = [local EXCEPT ![Home[x]] = @ \ {x}]
  /\ raced' = IF Racing(Home[x]) \/ op[x] = "sub" THEN raced \union {x} ELSE raced
  /\ UNCHANGED <<linking, wire, remote, byRsid, counts, op, msgs, missed>>

(* With the maximum of an earlier UNSUB, if that has not been reached.          *)
BroadcastClose(x) ==
  /\ closed[x] = "closing"
  /\ closed' = [closed EXCEPT ![x] = "closed"]
  /\ wire' = [wire EXCEPT ![Home[x]] = @ \o broadcastToRoutes(Home[x], <<broadcastUnSubscribe(x)>>)]
  /\ Misses(Home[x], {x})
  /\ UNCHANGED <<linking, local, remote, byRsid, counts, op, msgs, raced>>
-----------------------------------------------------------------------------
(* Messages. *)

Full(x) == max[x] > 0 /\ nm[x] + 1 >= max[x]      \* with the message in hand
Over(x) == max[x] > 0 /\ nm[x] + 1 > max[x]

(* Variant: the list forgets the entry, and the map of the route keeps it. *)
unsubscribe_listOnly(R) == {}

(* The rsids of which the route keeps no entry, once R has been delivered to. *)
unsubscribe(R) == {e[1] : e \in {f \in R : Full(f)}}

(* deliverMsg, to the clients' subscriptions D of server s and the entries R:   *)
(* what is full is unsubscribed, and the other server told if it was a client's *)
(* own. What is closed counts it and gets nothing. unread is what has not been  *)
(* read from the route.                                                         *)
Deliver(s, m, D, R, unread) ==
  LET full == {x \in D : Full(x)}
  IN /\ nm' = [x \in DOMAIN nm |-> IF x \in D \union R THEN nm[x] + 1 ELSE nm[x]]
     /\ got' = [p \in DOMAIN got |->
                  IF p[1] = m /\ p[2] \in D /\ ~Over(p[2]) /\ closed[p[2]] = "open"
                  THEN got[p] + 1 ELSE got[p]]
     /\ local' = [local EXCEPT ![s] = @ \ full]
     /\ remote' = [remote EXCEPT ![s] = @ \ {e \in R : Full(e)}]
     /\ byRsid' = [x \in Subs |-> IF x \in unsubscribe(R) THEN 0 ELSE byRsid[x]]
     /\ \E sent \in SetToSeqs({MSG(e, m) : e \in {r \in R : ~Over(r)}}),
           unsubs \in SetToSeqs({UNSUB(x, 0) : x \in full}) :
          wire' = [unread EXCEPT ![s] = @ \o sent \o broadcastToRoutes(s, unsubs)]
     /\ Races(s, full) /\ Misses(s, full)

Match(m) ==
  LET s == Origin[m]
  IN /\ stage[m] = "new"
     /\ m \in present
     /\ stage' = [stage EXCEPT ![m] = "matched"]
     /\ matched' = [matched EXCEPT ![m] = local[s] \union remote[s]]
     /\ due' = [due EXCEPT ![m] = {x \in Plain : x \in local[s] \/ \E e \in remote[s] : e[1] = x}]
     /\ UNCHANGED <<linking, wire, local, remote, byRsid, counts, op, closed, got, dropped, told>>

(* Variant: one message for each entry of the other server.                     *)
OncePerRoute_each(E) == {E}

(* One message for the other server, with whichever of its entries comes first; *)
(* and one for the group, to whichever of its members rand picks.               *)
OncePerRoute(E) == IF E = {} THEN {{}} ELSE {{e} : e \in E}

processMsg(m) ==
  LET s == Origin[m]
      clients == matched[m] \intersect Subs
      entries == matched[m] \ Subs
      group == {x \in clients : x \in Queue} \union {e \in entries : ~IsPlain(e)}
  IN /\ stage[m] = "matched"
     /\ stage' = [stage EXCEPT ![m] = "sent"]
     /\ \E R \in OncePerRoute({e \in entries : IsPlain(e)}) :
        \E G \in IF group = {} THEN {{}} ELSE {{x} : x \in group} :
          /\ Deliver(s, m, (clients \intersect Plain) \union (G \intersect Subs),
                     R \union (G \ Subs), wire)
          /\ dropped' = IF \E e \in R : Over(e) THEN dropped \union {m} ELSE dropped
     /\ UNCHANGED <<linking, max, op, closed, matched, due>>
-----------------------------------------------------------------------------
(* What comes over the route. *)

Reads(s, kind) ==
  /\ info[s] = "sent" /\ wire[Other(s)] # <<>> /\ Head(wire[Other(s)]).kind = kind

(* c.subs keeps the latest entry of an rsid, the list both. *)
RouteSub(s) ==
  LET x == Head(wire[Other(s)]).sub
      e == <<x, IF <<x, 1>> \in remote[s] THEN 2 ELSE 1>>
  IN /\ Reads(s, "SUB")
     /\ wire' = [wire EXCEPT ![Other(s)] = Tail(@)]
     /\ byRsid' = [byRsid EXCEPT ![x] = e[2]]
     /\ remote' = [remote EXCEPT ![s] = @ \union {e}]
     /\ nm' = [nm EXCEPT ![e] = 0] /\ max' = [max EXCEPT ![e] = 0]
     /\ UNCHANGED <<linking, local, op, closed, msgs, told>>

RouteUnsub(s) ==
  LET p == Head(wire[Other(s)])
      e == <<p.sub, byRsid[p.sub]>>
  IN /\ Reads(s, "UNSUB")
     /\ wire' = [wire EXCEPT ![Other(s)] = Tail(@)]
     /\ IF e[2] = 0 THEN UNCHANGED <<byRsid, remote, max>>
        ELSE /\ max' = [max EXCEPT ![e] = p.max]
             /\ IF p.max > 0 /\ nm[e] < p.max THEN UNCHANGED <<byRsid, remote>>
                ELSE byRsid' = [byRsid EXCEPT ![p.sub] = 0]
                     /\ remote' = [remote EXCEPT ![s] = @ \ {e}]
     /\ UNCHANGED <<linking, local, nm, op, closed, msgs, told>>

(* Variant: what came over the route is for the subscription that it names.     *)
Routed_named(s, x) == {x} \intersect local[s]

(* To the member of the group that was picked, if it is still there; otherwise  *)
(* to everyone else here, and never back.                                       *)
Routed(s, x) == IF x \in Queue THEN {x} \intersect local[s] ELSE local[s] \intersect Plain

RouteMsg(s) ==
  LET p == Head(wire[Other(s)])
  IN /\ Reads(s, "MSG")
     /\ Deliver(s, p.msg, Routed(s, p.sub), {}, [wire EXCEPT ![Other(s)] = Tail(@)])
     /\ UNCHANGED <<linking, max, op, closed, stage, matched, due, dropped>>

Next ==
  \/ \E s \in Servers : \/ createRoute(s) \/ Register(s) \/ CopyLocalSubs(s) \/ sendLocalSubsToRoute(s)
                        \/ RouteSub(s) \/ RouteUnsub(s) \/ RouteMsg(s)
  \/ \E x \in Subs : \/ processSub(x) \/ broadcastSubscribe(x) \/ BroadcastUnsub(x)
                     \/ closeConnection(x) \/ BroadcastClose(x)
                     \/ \E limit \in Maxes : processUnsub(x, limit)
  \/ \E m \in Msgs : Match(m) \/ processMsg(m)

Spec == Init /\ [][Next]_vars
-----------------------------------------------------------------------------
(* The state fits its types. *)
TypeOK ==
  /\ \A s \in Servers : /\ route[s] \in {"none", "created", "registered"}
                        /\ info[s] \in {"unread", "copied", "sent"}
                        /\ \A x \in local[s] : Home[x] = s
                        /\ remote[s] \subseteq {e \in Entry : Home[e[1]] # s}
                        /\ wire[s] # <<>> => route[s] = "registered" \/ info[s] = "sent"
  /\ \A x \in Subs : byRsid[x] # 0 => <<x, byRsid[x]>> \in remote[Other(Home[x])]
  /\ \A x \in Subs \union Entry : max[x] \in Maxes \union {0} /\ nm[x] \in Nat

(* A message is delivered once at most to a plain subscription, and to one      *)
(* member of the queue group at most, over both servers, whatever the servers   *)
(* know of each other at the time (client.go:708-788).                          *)
AtMostOnce ==
  \A m \in Msgs :
    /\ \A x \in Subs : got[<<m, x>>] <= 1
    /\ \A x, y \in Queue : got[<<m, x>>] > 0 /\ got[<<m, y>>] > 0 => x = y

Quiet == /\ \A s \in Servers : route[s] = "registered" /\ info[s] = "sent" /\ wire[s] = <<>>
         /\ \A x \in Subs : ~Announcing(x)

(* When the route is up and all has been read, each server knows of every       *)
(* subscription at the other, and of no other (route.go:83-111, 180-183,        *)
(* 266-308, client.go:886-921). The exceptions are in the code: what is         *)
(* broadcast between the snapshot and the registration of the route is not sent *)
(* to it; what is broadcast to it before the snapshot is announced again by the *)
(* snapshot; what another goroutine closes before its SUB is broadcast is       *)
(* withdrawn first; and a client that is closed before the maximum it gave with *)
(* UNSUB has been reached is withdrawn with that maximum, so that the other     *)
(* server waits for messages that will not be delivered (route.go:301-305).     *)
InterestAgrees ==
  Quiet => \A x \in Subs \ missed :
             LET there == \E n \in {1, 2} : <<x, n>> \in remote[Other(Home[x])]
             IN /\ x \in local[Home[x]] => there
                /\ there => \/ x \in local[Home[x]] \union raced
                            \/ closed[x] = "closed" /\ nm[x] < max[x]

(* A message reaches every plain subscription that its server knew of, unless   *)
(* it unsubscribes or closes meanwhile. The exception: two publishers of one    *)
(* server whose messages reach the maximum of one entry together; the second is *)
(* taken for sent to the other server, and is not (client.go:758-775, 584-592). *)
EachIsReached ==
  \A m \in Msgs :
    (/\ stage[m] = "sent" /\ m \notin dropped
     /\ \A s \in Servers : \A i \in 1..Len(wire[s]) : wire[s][i].kind = "MSG" => wire[s][i].msg # m)
    => \A x \in due[m] : got[<<m, x>>] = 1 \/ x \notin local[Home[x]] \/ max[x] > 0
================================================================================
