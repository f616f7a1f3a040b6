-------------------------- MODULE HandlerContract ---------------------------
(***************************************************************************)
(* What NatsHandler.register and NatsHandler.disregister promise the        *)
(* registry (ws/NatsHandler.java:28-44): each is one step, as the topic     *)
(* manager and its model take them to be, and fails in one way each.        *)
(***************************************************************************)
CONSTANTS
    Session,     \* the web socket sessions
    Handler      \* the handlers

VARIABLES
    sessions,    \* sessions[h]: who is registered with h
    subscribed   \* the handlers that hold a NATS subscription

vars == <<sessions, subscribed>>

Init ==
    /\ sessions = [h \in Handler |-> {}]
    /\ subscribed = {}

(* A register that fails changes nothing.                                   *)
Register(h, s) ==
    /\ subscribed' = subscribed \cup {h}
    /\ sessions' = [sessions EXCEPT ![h] = @ \cup {s}]

(* The last session to leave takes the subscription with it, unless that    *)
(* fails: the session is gone all the same.                                 *)
Disregister(h, s) ==
    /\ s \in sessions[h]
    /\ sessions' = [sessions EXCEPT ![h] = @ \ {s}]
    /\ \/ sessions[h] = {s} /\ subscribed' = subscribed \ {h}
       \/ UNCHANGED subscribed

Next ==
    \E h \in Handler, s \in Session : Register(h, s) \/ Disregister(h, s)

Spec == Init /\ [][Next]_vars
=============================================================================
