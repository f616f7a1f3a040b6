-------------------------------- MODULE Routes --------------------------------
(* How two gnatsd servers keep one route between them (gnatsd/server/route.go,  *)
(* and closeConnection and removeClient for a ROUTER). Either may be configured *)
(* to solicit the other, so that there can be several connections, of which     *)
(* each server drops all but the first that told it who is at the other end.    *)
(* A step is a critical section of c.mu or s.mu. What goes over a route is      *)
(* module Interest.                                                             *)
EXTENDS Integers, FiniteSets, Functions

CONSTANTS Servers,      \* two servers
          Links,        \* bound: connections that exist at a time
          Configs,      \* the values of opts.Routes looked at: sets of pairs of servers
          AuthRequired, \* routeInfo.AuthRequired
          MaxDials,     \* bound: goroutines in connectToRoute for one configured route
          MaxFaults     \* bound: broken connections and closes from outside, by config

ASSUME ServersAssumption == \E s, t \in Servers : s # t /\ Servers = {s, t}

ASSUME ConfigsAssumption ==
  \A C \in Configs : C \subseteq Servers \X Servers /\ \A r \in C : r[1] # r[2]

ASSUME BoundsAssumption == MaxDials \in Nat \ {0} /\ MaxFaults \in [Configs -> Nat]

VARIABLES
  solicits,     \* opts.Routes: <<s, t>> when s is to connect to t
  dials,        \* goroutines in connectToRoute or reConnectToRoute, of each configured route
  from,         \* the server that has made a link
  broken,       \* links cut, or closed by one end
  remotes,      \* s.remotes: the other server's ID -> link
  nc,           \* of each end: "none", "dialed" or "queued", "up", "nil"
  solicited,    \* c.route.didSolicit
  remoteID,     \* c.route.remoteID is set
  pc,           \* the read loop: "none", "read", "add", "upgrade", "dup", "loop", "end"
  found,        \* the connection that addRoute found instead
  closing,      \* closeConnection: "no", "unregister", "ask", "check", "done"
  faults,
  ghosts        \* history: ends put into s.remotes after they had been taken out

vars == <<solicits, dials, from, broken, remotes, nc, solicited, remoteID,
          pc, found, closing, faults, ghosts>>

end    == <<solicited, remoteID, found, ghosts>>

End == Links \X Servers
Link(e) == e[1]
Owner(e) == e[2]
Other(s) == CHOOSE t \in Servers : t # s
Peer(e) == <<Link(e), Other(Owner(e))>>

Init ==
  /\ solicits \in Configs
  /\ dials = [r \in solicits |-> 1]                                  \* solicitRoutes
  /\ from = <<>> /\ broken = {}
  /\ remotes = [s \in Servers |-> <<>>]
  /\ nc = [e \in End |-> "none"] /\ solicited = [e \in End |-> FALSE]
  /\ remoteID = [e \in End |-> FALSE] /\ pc = [e \in End |-> "none"]
  /\ found = <<>> /\ closing = [e \in End |-> "no"]
  /\ faults = 0 /\ ghosts = {}
-----------------------------------------------------------------------------
(* Connecting. *)

(* A link that nobody holds any more stands for a new one. *)
Unused(l) ==
  \A s \in Servers :
     /\ nc[<<l, s>>] = "none" \/ (closing[<<l, s>>] = "done" /\ pc[<<l, s>>] = "end")
     /\ l \notin Range(remotes[s])
     /\ \A e \in DOMAIN found : found[e] # <<l, s>>

(* Dialling succeeds when the other server listens; until then it is retried.   *)
Dial(s, t, l) ==
  LET x == <<l, s>>  y == <<l, t>>
      New(f, v) == [f EXCEPT ![x] = v, ![y] = v]
  IN /\ <<s, t>> \in solicits /\ dials[<<s, t>>] > 0
     /\ Unused(l)
     /\ dials' = [dials EXCEPT ![<<s, t>>] = @ - 1]
     /\ from' = [k \in DOMAIN from \union {l} |-> IF k = l THEN s ELSE from[k]]
     /\ broken' = broken \ {l}
     /\ nc' = [nc EXCEPT ![x] = "dialed", ![y] = "queued"]
     /\ solicited' = [solicited EXCEPT ![x] = TRUE, ![y] = FALSE]
     /\ remoteID' = New(remoteID, FALSE) /\ pc' = New(pc, "none") /\ closing' = New(closing, "no")
     /\ ghosts' = ghosts \ {x, y}
     /\ UNCHANGED <<solicits, faults, remotes, found>>

(* Either end; the read loop starts. *)
createRoute(e) ==
  /\ nc[e] \in {"dialed", "queued"}
  /\ nc' = [nc EXCEPT ![e] = "up"] /\ pc' = [pc EXCEPT ![e] = "read"]
  /\ UNCHANGED <<solicits, faults, remotes, end, dials, from, broken, closing>>
-----------------------------------------------------------------------------
(* The INFO of the other server. *)

(* It was sent when the other end was created. At an accepted end the CONNECT   *)
(* before it has set the same remoteID, which nothing looks at until then.      *)
processRouteInfo(e) ==
  /\ pc[e] = "read" /\ nc[e] = "up" /\ pc[Peer(e)] # "none"
  /\ remoteID' = [remoteID EXCEPT ![e] = TRUE]
  /\ pc' = [pc EXCEPT ![e] = "add"]
  /\ UNCHANGED <<solicits, faults, remotes, dials, from, broken, nc, solicited, found,
                 closing, ghosts>>

(* Variant: the latest connection wins, and the earlier one stays. *)
Registered_never(s, t) == FALSE

Registered(s, t) == t \in DOMAIN remotes[s]

(* Variant: the ID of the server itself. *)
InfoID_own(e) == Owner(e)

InfoID(e) == Other(Owner(e))

addRoute(e) ==
  LET s == Owner(e)  t == InfoID(e)
  IN /\ pc[e] = "add"
     /\ IF Registered(s, t)
        THEN /\ found' = [x \in DOMAIN found \union {e} |->
                            IF x = e THEN <<remotes[s][t], s>> ELSE found[x]]
             /\ pc' = [pc EXCEPT ![e] = IF solicited[e] THEN "upgrade" ELSE "dup"]
             /\ UNCHANGED <<remotes, ghosts>>
        ELSE /\ remotes' = [remotes EXCEPT ![s] = [x \in {t} |-> Link(e)]]
             /\ pc' = [pc EXCEPT ![e] = "loop"]
             /\ ghosts' = IF closing[e] \in {"no", "unregister"} THEN ghosts ELSE ghosts \union {e}
             /\ UNCHANGED found
     /\ UNCHANGED <<solicits, faults, dials, from, broken, nc, solicited, remoteID,
                    closing>>

(* The connection that stays is now the solicited one, with its url. *)
Upgrade(e) ==
  /\ pc[e] = "upgrade"
  /\ solicited' = [solicited EXCEPT ![found[e]] = TRUE]
  /\ pc' = [pc EXCEPT ![e] = "dup"]
  /\ UNCHANGED <<solicits, faults, remotes, dials, from, broken, nc, remoteID, found,
                 closing, ghosts>>
-----------------------------------------------------------------------------
(* Closing. *)

closeConnection(e) ==
  IF nc[e] = "nil" THEN UNCHANGED <<nc, closing, broken>>
  ELSE /\ nc' = [nc EXCEPT ![e] = "nil"]
       /\ closing' = [closing EXCEPT ![e] = "unregister"]
       /\ broken' = broken \union {Link(e)}

Duplicate(e) ==
  /\ pc[e] = "dup" /\ closeConnection(e)
  /\ pc' = [pc EXCEPT ![e] = "end"]
  /\ found' = Restrict(found, DOMAIN found \ {e})
  /\ UNCHANGED <<solicits, faults, remotes, dials, from, solicited, remoteID, ghosts>>

ReadError(e) ==
  /\ pc[e] \in {"read", "loop"} /\ (Link(e) \in broken \/ nc[e] = "nil")
  /\ closeConnection(e)
  /\ pc' = [pc EXCEPT ![e] = "end"]
  /\ UNCHANGED <<solicits, faults, remotes, end, dials, from>>

(* By a publisher, for which the other end is too slow; or by the timer that    *)
(* waits for the CONNECT of an accepted one, which may fire too late to stop.   *)
CloseFromOutside(e) ==
  /\ nc[e] = "up" /\ faults < MaxFaults[solicits]
  /\ pc[e] = "loop" \/ (AuthRequired /\ from[Link(e)] # Owner(e))
  /\ faults' = faults + 1 /\ closeConnection(e)
  /\ UNCHANGED <<solicits, remotes, end, dials, from, pc>>

Cut(l) ==
  /\ faults < MaxFaults[solicits] /\ l \in DOMAIN from /\ l \notin broken
  /\ faults' = faults + 1 /\ broken' = broken \union {l}
  /\ UNCHANGED <<solicits, remotes, end, dials, from, nc, pc, closing>>

(* Variant: taken out of s.remotes whoever is in there. *)
OnlyIfItIsUs_any(e) == TRUE

OnlyIfItIsUs(e) == remotes[Owner(e)][Other(Owner(e))] = Link(e)

removeClient(e) ==
  LET s == Owner(e)  t == Other(s)
  IN /\ closing[e] = "unregister"
     /\ remotes' = IF remoteID[e] /\ t \in DOMAIN remotes[s] /\ OnlyIfItIsUs(e)
                   THEN [remotes EXCEPT ![s] = <<>>] ELSE remotes
     /\ closing' = [closing EXCEPT ![e] = "ask"]
     /\ UNCHANGED <<solicits, faults, end, dials, from, broken, nc, pc>>

isSolicitedRoute(e) ==
  /\ closing[e] = "ask"
  /\ closing' = [closing EXCEPT ![e] = IF solicited[e] THEN "check" ELSE "done"]
  /\ UNCHANGED <<solicits, faults, remotes, end, dials, from, broken, nc, pc>>

(* Variant: the ID it was closed under is not looked up. *)
AlreadyConnected_known(e) == remoteID[e]

AlreadyConnected(e) == remoteID[e] /\ Other(Owner(e)) \in DOMAIN remotes[Owner(e)]

(* reConnectToRoute, unless another connection has taken its place. *)
Reconnect(e) ==
  LET r == <<Owner(e), Other(Owner(e))>>
  IN /\ closing[e] = "check"
     /\ closing' = [closing EXCEPT ![e] = "done"]
     /\ IF AlreadyConnected(e) THEN UNCHANGED dials
        ELSE dials[r] < MaxDials /\ dials' = [dials EXCEPT ![r] = @ + 1]
     /\ UNCHANGED <<solicits, faults, remotes, end, from, broken, nc, pc>>

Connecting(s, t) == \E l \in Links : Dial(s, t, l)
Step(e) == \/ createRoute(e) \/ processRouteInfo(e) \/ addRoute(e) \/ Upgrade(e) \/ Duplicate(e) \/ ReadError(e)
Close(e) == removeClient(e) \/ isSolicitedRoute(e) \/ Reconnect(e)

Next == \/ \E s, t \in Servers : Connecting(s, t)
        \/ \E e \in End : Step(e) \/ Close(e) \/ CloseFromOutside(e)
        \/ \E l \in Links : Cut(l)

(* Goroutines run, and a server that listens can be reached. *)
Fairness == /\ \A s, t \in Servers : WF_vars(Connecting(s, t))
            /\ \A e \in End : WF_vars(Step(e)) /\ WF_vars(Close(e))

Spec == Init /\ [][Next]_vars /\ Fairness
-----------------------------------------------------------------------------
Open(e) == nc[e] # "none" /\ closing[e] # "done"

(* s has not given up connecting to t. *)
Tries(s, t) == \/ <<s, t>> \in solicits /\ dials[<<s, t>>] > 0
               \/ \E l \in Links : Open(<<l, s>>) /\ solicited[<<l, s>>]

(* Both keep the same one, and no other is left. *)
Agreed == \E l \in Links :
  \A s \in Servers : /\ nc[<<l, s>>] = "up" /\ Range(remotes[s]) = {l}
                     /\ \A k \in Links : Open(<<k, s>>) => k = l

Haunted(s) == \E l \in Links : <<l, s>> \in ghosts /\ l \in Range(remotes[s])

(* The state fits its types. *)
TypeOK ==
  /\ DOMAIN dials = solicits /\ \A r \in solicits : dials[r] \in 0..MaxDials
  /\ DOMAIN from \subseteq Links /\ broken \subseteq DOMAIN from
  /\ \A s \in Servers : DOMAIN remotes[s] \subseteq Servers \ {s}
  /\ ghosts \union DOMAIN found \subseteq End
  /\ \A e \in End : /\ closing[e] # "no" <=> nc[e] = "nil"
                    /\ pc[e] \in {"upgrade", "dup"} <=> e \in DOMAIN found
                    /\ pc[e] = "none" <=> nc[e] \in {"none", "dialed", "queued"}

(* Who is in s.remotes stands for a connection that is still there, so that a   *)
(* newer one is rightly dropped as a duplicate; and one that was let in and has *)
(* not been closed is the one in there (route.go:247-264, server.go:498-507).   *)
(* The exception: one that was closed from outside between reading the INFO and *)
(* addRoute, which nobody will take out again.                                  *)
RemotesTrue ==
  \A s \in Servers, l \in Links :
    /\ l \in Range(remotes[s]) => \/ closing[<<l, s>>] \in {"no", "unregister"}
                                  \/ <<l, s>> \in ghosts
    /\ pc[<<l, s>>] = "loop" /\ nc[<<l, s>>] = "up" => l \in Range(remotes[s])

(* A route that only one of the servers is configured to have is not given up:  *)
(* there is a goroutine that dials, or a connection that will start one when it *)
(* closes (client.go:923-936, route.go:389-412).                                *)
NotGivenUp ==
  \A r \in solicits : <<r[2], r[1]>> \notin solicits => Tries(r[1], r[2])

(* Nothing is left to do at an end, but to read on. *)
Settled(e) ==
  /\ nc[e] \notin {"dialed", "queued"} /\ pc[e] \notin {"add", "upgrade", "dup"}
  /\ pc[e] = "read" => pc[Peer(e)] = "none"
  /\ pc[e] \in {"read", "loop"} => nc[e] # "nil" /\ Link(e) \notin broken
  /\ closing[e] \in {"no", "done"}

(* When everything has been done, the two agree on one connection or have none: *)
(* never do they keep two, or one that the other dropped (route.go:247-264,     *)
(* client.go:896-943).                                                          *)
SettledAgree == (\A e \in End : Settled(e)) => Agreed \/ \A e \in End : ~Open(e)

(* Where one solicits the other, they become connected for good, once failures  *)
(* end (client.go:923-936, route.go:389-412).                                   *)
Connected ==
  Cardinality(solicits) = 1 => <>[]Agreed \/ <>(\E s \in Servers : Haunted(s))

(* client.go:923: "start up a reconnect unless we are already connected to the  *)
(* other end", where each server is to reconnect to the other. Not so: each may *)
(* find in s.remotes a connection that the other has closed by then.            *)
ReconnectUnlessConnected ==
  \A r \in solicits : LET s == r[1]  t == r[2] IN
    \/ Tries(s, t) \/ Tries(t, s) \/ Haunted(s) \/ Haunted(t)
    \/ \E l \in Links : nc[<<l, s>>] = "up" /\ nc[<<l, t>>] = "up"
================================================================================
