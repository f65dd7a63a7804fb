--------------------------- MODULE MCAlertLifecycle ---------------------------
(* Values for the constants of AlertLifecycle. *)
EXTENDS AlertLifecycleProps, TLC

Symmetry == Permutations(Workers) \cup Permutations(Targets) \cup Permutations(Ids)
              \cup Permutations(Editors)
=============================================================================
