------------------------------ MODULE MCInterest ------------------------------
(* Interest for TLC: plain subscriptions p1, p2 and p3 at one server, which     *)
(* messages from the other should reach, and a queue group with the member q1   *)
(* there and q2 at the other. The clients of p3 and q2 may be closed. What      *)
(* comes together is said below.                                                *)
EXTENDS Interest, TLC

CONSTANTS a, b, p1, p2, p3, q1, q2, m1, m2

MCHome == [s \in {p1, p2, p3, q1, q2} |-> IF s = q2 THEN b ELSE a]
MCOrigin == [m \in {m1, m2} |-> b]
MCLinked == {{p1, p2, m1, m2}, {p1, p3, m1, m2}}
MCUnlinked == {{p1, p2, m1}, {p1, q1, m1}, {q1, q2, m1}, {p3, m1}}
Symmetry == Permutations({p1, p2}) \union Permutations({m1, m2})
================================================================================
