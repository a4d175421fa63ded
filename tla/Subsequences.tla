---------------------------- MODULE Subsequences ----------------------------
(***************************************************************************)
(* What a loop over a vector keeps: the elements at some of its positions, *)
(* in their order (std::remove_if with erase, push_back under a condition).*)
(***************************************************************************)
EXTENDS Naturals, Sequences, FiniteSets

\* The k-th position of the set I.
Nth(I, k) == CHOOSE i \in I : Cardinality({j \in I : j <= i}) = k

Kept(s, I) == [k \in 1..Cardinality(I) |-> s[Nth(I, k)]]

=============================================================================
