--------------------------- MODULE AuditOutboxProps ---------------------------
(* What must be true of AuditOutbox, and what is said of it. *)
EXTENDS AuditOutbox

Holds(w, e) == \E h \in wk[w].todo : h.event = e

\* Every variable has its type.
TypeOK ==
  /\ row \in [Events -> Row]
  /\ records \in [Events -> 0..MaxRecords]
  /\ wk \in [Workers -> WorkerState]
  /\ faults \in 0..MaxFaults

\* No audit is lost: whatever crashes, late marks and purges come between, an event
\* that is marked delivered or gone from the table has a record on the platform.
NothingLost ==
  \A e \in Events : row[e].status \in {"delivered", "purged"} => records[e] > 0

\* A purge never takes a row that a late mark has put back in the queue between its
\* two statements (gorm_store.go:158).
NoOpenRowPurged ==
  [][\A e \in Events :
       row[e].status # "purged" /\ row'[e].status = "purged"
         => row[e].status = "delivered"]_vars

\* While a dispatcher works on an event within its lease, another one gets it only
\* after a late mark has given the lease back.
LeaseHonoured ==
  [][\A v, w \in Workers, e \in Events :
       v # w /\ Holds(v, e) /\ wk[v].age <= Lease /\ ~Holds(w, e) /\ Holds(w, e)'
         => row[e].locked = Free]_vars

\* A row no claim will find again: out of attempts, but neither given up nor leased.
Shelved(e) ==
  /\ row[e].status = "retry" /\ row[e].attempts = MaxTries
  /\ \A w \in Workers : ~Holds(w, e)

\* Every event is delivered or given up, whatever crashed on the way, unless it was
\* shelved by the race of NeverShelved.
EveryEventSettles ==
  \A e \in Events :
    row[e].status = "pending" ~>
      row[e].status \in {"delivered", "failed", "purged"} \/ Shelved(e)

-----------------------------------------------------------------------------
(* What the code does not keep *)

\* An expired row is recovered, its audit is not silently shelved
\* (gorm_store.go:71-72).
NeverShelved == \A e \in Events : ~Shelved(e)
=============================================================================
