------------------------------- MODULE MCSublist -------------------------------
(* Sublist for TLC: plain, wildcard, overlapping, refused and ill-formed        *)
(* subjects over two letters; hashes that collide.                              *)
EXTENDS Sublist

Alike == Permutations(Threads)

MCSubjects == {<<"a">>, <<"a", ".", "b">>, <<"a", ".", "*">>, <<"a", ".", ">">>, <<"*", ".", "b">>,
               <<"a", ".", ".", "b">>, <<">", ".", "a">>, <<"a", "*">>}
MCLiterals == {<<"a">>, <<"a", ".", "b">>, <<"a", "b">>, <<"a", ".">>}
MCHash == [l \in MCLiterals |-> IF l = <<"a">> THEN 2 ELSE Len(l)]
================================================================================
