--------------------------- MODULE Registrations ----------------------------
(***************************************************************************)
(* What the topic registry promises its sessions (ws/TopicManager.java, the *)
(* methods subscribeTopic, unsubscribeTopic, unsubscribeTypeTopic and       *)
(* unsubscribeAllTopic), without handlers, maps or a garbage collector: who *)
(* is registered for what, and which running request may change it. A       *)
(* request may fail in part, so it changes at most what it asks for.        *)
(***************************************************************************)
CONSTANTS
    Session,     \* the web socket sessions
    Name,        \* the topic names
    Operation    \* the requests, and "none"

VARIABLES
    reg,         \* the pairs <<session, name>> that are registered
    op,          \* op[t]: the request the thread t runs
    want         \* want[t]: the names it is about

vars == <<reg, op, want>>

(* A session's requests come one at a time; its close may overtake them.    *)
Thread == Session \X {"onMessage", "onClose"}

TypeOK ==
    /\ reg \in SUBSET (Session \X Name)
    /\ op \in [Thread -> Operation]
    /\ want \in [Thread -> SUBSET Name]

Init ==
    /\ reg = {}
    /\ op = [t \in Thread |-> "none"]
    /\ want = [t \in Thread |-> {}]

Begin(t) ==
    \E o \in Operation \ {"none"}, w \in SUBSET Name :
        /\ op[t] = "none"
        /\ t[2] = "onClose" => o = "unsubscribeAll"
        /\ op' = [op EXCEPT ![t] = o]
        /\ want' = [want EXCEPT ![t] = w]
        /\ UNCHANGED reg

Add(t) ==
    \E n \in want[t] :
        /\ op[t] = "subscribe"
        /\ reg' = reg \cup {<<t[1], n>>}
        /\ UNCHANGED <<op, want>>

(* unsubscribeTopic ignores its topic: unsubscribing from some names may    *)
(* give up any. Only the type narrows what is given up.                     *)
Remove(t) ==
    \E n \in Name :
        /\ op[t] \notin {"none", "subscribe"}
        /\ op[t] = "unsubscribeType" => n \in want[t]
        /\ reg' = reg \ {<<t[1], n>>}
        /\ UNCHANGED <<op, want>>

End(t) ==
    /\ op[t] # "none"
    /\ op' = [op EXCEPT ![t] = "none"]
    /\ want' = [want EXCEPT ![t] = {}]
    /\ UNCHANGED reg

Next == \E t \in Thread : Begin(t) \/ Add(t) \/ Remove(t) \/ End(t)

Spec == Init /\ [][Next]_vars
=============================================================================
