------------------------------ MODULE Positions ------------------------------
(***************************************************************************)
(* What Iterator::filter and str::split do to a sequence, by positions.    *)
(***************************************************************************)
EXTENDS Naturals, FiniteSets

\* The n-th of the numbers in S.
nth(S, n) == CHOOSE i \in S : Cardinality({j \in S : j <= i}) = n

\* filter: what s has at the positions in S, in order.
at_positions(s, S) == [n \in 1..Cardinality(S) |-> s[nth(S, n)]]

=============================================================================
