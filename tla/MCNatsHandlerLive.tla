-------------------------- MODULE MCNatsHandlerLive --------------------------
(* NatsHandler for TLC with calls and losses counted: enough of them for two *)
(* threads to contend for a handler and for the manager, and for the readers *)
(* of two connections to contend for a session.                              *)
EXTENDS NatsHandler, TLC

CONSTANTS
    t1, t2,
    MaxCalls,  \* bound: the calls of each thread, a function
    MaxLosses  \* bound: how often a connection is lost

MCMaxCalls == t1 :> 2 @@ t2 :> 1

VARIABLES calls, losses  \* how many there have been

Bounded ==
    /\ calls' = [t \in Thread |->
          IF pc[t] = "idle" /\ pc'[t] # "idle" THEN calls[t] + 1 ELSE calls[t]]
    /\ losses' = IF up \subseteq up' THEN losses ELSE losses + 1
    /\ losses' <= MaxLosses
    /\ \A t \in Thread : calls'[t] <= MaxCalls[t]

BoundedSpec ==
    /\ Init /\ calls = [t \in Thread |-> 0] /\ losses = 0
    /\ [][Next /\ Bounded]_<<vars, calls, losses>>
    /\ Fairness
==============================================================================
