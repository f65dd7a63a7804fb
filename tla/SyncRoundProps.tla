---------------------------- MODULE SyncRoundProps ----------------------------
(* What must be true of SyncRound. *)
EXTENDS SyncRound

\* Every variable has its type.
TypeOK ==
  /\ {source, mirror, facts} \subseteq Versions
  /\ lock \in [Sources -> SUBSET Workers]
  /\ open \subseteq 0..MaxAge + Stale /\ closed \subseteq 0..MaxAge
  /\ status \in [Channels -> Status] /\ lastRun \in [Sources -> 0..Old]
  /\ wk \in [Workers -> WorkerState]
  /\ faults \in 0..MaxFaults

\* Late rounds, lost locks and overlapping facts never take a row back to an older
\* version, in the mirror or in the facts (docs/dim-sync-concurrency.md:29).
NeverRollsBack ==
  [][\A r \in Rows :
       mirror'[r] >= mirror[r] /\ facts'[r] >= facts[r]]_vars

\* The rows of a channel are as they were when the round of w started, or newer.
Covers(table, w, c) == \A r \in RowsOf[c] : table[r] >= wk[w].asOf[r]

\* A channel is marked SUCCESS only once the mirror has every row as it was when the
\* round started, or newer, whatever overlapped and whichever lock was lost; and as no
\* row is rolled back, this stays so.
SuccessIsMirrored ==
  [][\A w \in Workers, c \in Channels :
       wk'[w] # wk[w] /\ status'[c] = "SUCCESS" /\ status[c] # "SUCCESS"
         => Covers(mirror', w, c)]_vars

\* Facts are computed only from what the round was to copy: the mirror has every contract,
\* and for the conversion every customer and opportunity too, as it was when the round
\* started, or newer, whichever sources failed, were skipped or were copied by a round
\* that lost its lock (aggregation.go:233-247, :311-317).
FactsCoverTheRound ==
  [][\A w \in Workers :
       /\ PrecomputeSigning(w) => Covers(facts', w, "contract_management")
       /\ PrecomputeConversion(w) => /\ Covers(facts', w, "customer_and_opportunity")
                                     /\ Covers(mirror, w, "contract_management")]_vars
=============================================================================
