----------------------------- MODULE Subsequence -----------------------------
(***************************************************************************)
(* The elements of a sequence at some of its positions, in order: what     *)
(* SelectSeq returns, said without recursion so that it can be reasoned    *)
(* about.                                                                  *)
(***************************************************************************)
EXTENDS Integers, FiniteSets

Rank(P, i)   == Cardinality({j \in P : j <= i})
Nth(P, n)    == CHOOSE i \in P : Rank(P, i) = n
Picked(s, P) == [n \in 1..Cardinality(P) |-> s[Nth(P, n)]]
=============================================================================
