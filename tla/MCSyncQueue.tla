----------------------------- MODULE MCSyncQueue -----------------------------
(* Values for the constants of SyncQueue; the configurations choose among them. *)
EXTENDS SyncQueueProps, TLC

\* Two jobs of one source.
OneSource == [j \in Jobs |-> "contract_management"]
\* A source for each job.
TwoSources == [j \in Jobs |-> IF j = 1 THEN "contract_management"
                                       ELSE "customer_and_opportunity"]
NoSkew == [w \in Workers |-> 0]
\* The worker named second has a host clock that is ahead.
SomeSkew == [w \in Workers |-> IF w = CHOOSE v \in Workers : TRUE THEN 0 ELSE 1]
Symmetric == Permutations(Workers)

=============================================================================
