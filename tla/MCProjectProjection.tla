------------------------- MODULE MCProjectProjection -------------------------
(* Values for the constants of ProjectProjection. *)
EXTENDS ProjectProjectionProps, TLC

\* Snapshots that overlap: two full batches, one full and a short one, none, and
\* one over the limit.
Overlapping ==
  [q \in Snapshots |-> CASE q = "a" -> {1, 2, 3, 4} [] q = "b" -> {2, 3, 4} [] q = "c" -> {}
                     [] q = "d" -> {1, 2, 3, 4, 5}]
Symmetric == Permutations(Workers)
=============================================================================
