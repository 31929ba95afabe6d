--------------------------- MODULE MCOutboxRelay ---------------------------
(* Small instances of OutboxRelay for TLC. *)
EXTENDS OutboxRelay, TLC

CONSTANT i1, i2, r1, r2, s1, s2, k1

SameKey == [r \in Rows |-> k1]      \* all rows belong to one entity
OneKey == {k1}

Symmetry == Permutations(Instances) \cup Permutations(Rows) \cup Permutations(Sweeps)
=============================================================================
