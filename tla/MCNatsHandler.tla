--------------------------- MODULE MCNatsHandler ----------------------------
(* Instances of NatsHandler for TLC. *)
EXTENDS NatsHandler, TLC

Alike ==
    Permutations(Thread) \cup Permutations(Session) \cup Permutations(Handler)
        \cup Permutations(Conn) \cup Permutations(Sid)

(* What the steps depend on: not the history lost. *)
AllButLost == <<sessions, subId, conn, up, subs, pc, call, reader, round>>
=============================================================================
