------------------------- MODULE MCConsumerGroups --------------------------
(* One group with two consumers; entries by the clock, by milliseconds and *)
(* with the largest number an ID may have.                                 *)
EXTENDS ConsumerGroups, TLC

CONSTANTS g, a, b, r, s

Asked == {[kind |-> "clock"], [kind |-> "ms", ms |-> 1], [kind |-> "exact", id |-> <<1, MaxUint>>]}
Given == {<<1, 0>>}
Symmetry == Permutations(Consumer) \cup Permutations(Reader)
=============================================================================
