---------------------------- MODULE SubjectInterest ----------------------------
(* What a subject list promises (sublist.go:3-5): it keeps who is interested in *)
(* which subject, and a match answers with exactly those whose subject matches, *)
(* as they are at one instant.                                                  *)
EXTENDS Integers, Sequences

CONSTANTS Subs,          \* subscriptions, [subject, id], subjects as token sequences
          Literals       \* the token sequences that are matched
CONSTANTS Pwc, Fwc       \* the tokens "*" and ">"

VARIABLES interest,      \* the subscriptions that are in
          answer         \* {} or {the answer just given}

vars == <<interest, answer>>

(* A wildcard stands for one token, a full wildcard for one or more. *)
Matches(literal, subject) ==
  /\ \A i \in 1..Len(subject) :
        /\ i <= Len(literal)
        /\ subject[i] \in {literal[i], Pwc, Fwc}
  /\ Len(literal) > Len(subject) => subject[Len(subject)] = Fwc

Init == interest = {} /\ answer = {}

Insert(s) == s \notin interest /\ interest' = interest \union {s} /\ answer' = {}

Remove(s) == s \in interest /\ interest' = interest \ {s} /\ answer' = {}

Answer(literal) ==
  /\ answer' = {[literal |-> literal,
                 subs |-> {s \in interest : Matches(literal, s.subject)}]}
  /\ UNCHANGED interest

Forget == answer' = {} /\ UNCHANGED interest

Next == \/ \E s \in Subs : Insert(s) \/ Remove(s)
        \/ \E literal \in Literals : Answer(literal)
        \/ Forget

Spec == Init /\ [][Next]_vars
================================================================================
