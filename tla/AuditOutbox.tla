----------------------------- MODULE AuditOutbox -----------------------------
(***************************************************************************)
(* The audit outbox (internal/auditoutbox) and the reporter that delivers  *)
(* its events to the platform (internal/platformaudit).                    *)
(*                                                                         *)
(* Business transactions append events.  The dispatcher of each process    *)
(* claims due rows under a lease, reports them one by one and marks each   *)
(* row delivered or failed; it also purges rows delivered long ago.  The   *)
(* marks name the row by its id only: nothing ties them to the claim.      *)
(*                                                                         *)
(* Time is relative: a row keeps how long it has to wait and how long it   *)
(* has been locked or delivered, a dispatcher how old the `now` is that it *)
(* took before its claim.  Ages stop above AgeCap, where no comparison     *)
(* tells them apart, and attempts at MaxTries: the code compares them with *)
(* that limit only, as the wait does not grow beyond eight (MaxTries is 20). *)
(*                                                                         *)
(* A claim is one transaction; one that fails changes nothing.  SKIP LOCKED *)
(* passes over rows another statement is changing; a later pass finds them. *)
(***************************************************************************)
EXTENDS Integers, FiniteSets

CONSTANTS Workers,     \* dispatchers, one in each process
          Events,
          NoEntry,     \* a dispatcher between two entries
          Lease,       \* GORMStore.Lease (2 min)
          MaxTries,    \* GORMStore.MaxTries (20)
          BatchSize,   \* Dispatcher.BatchSize (50)
          MaxBackoff,  \* Dispatcher.MaxBackoff (5 min)
          Retention,   \* AUDIT_OUTBOX_DELIVERED_RETENTION_DAYS
          MaxFaults,   \* bound on crashes and failed writes
          MaxRecords   \* bound on the records counted per event

ASSUME LimitsAssumption ==
  /\ {Lease, MaxTries, BatchSize, MaxBackoff, Retention} \subseteq Nat \ {0}
  /\ MaxFaults \in Nat /\ MaxRecords \in Nat \ {0}

VARIABLES row,     \* bi_audit_outbox
          records, \* audit records the platform keeps of each event
          wk,      \* local state of the dispatchers
          faults   \* crashes and failed writes so far

vars == <<row, records, wk, faults>>

AgeCap == CHOOSE a \in {Lease, MaxBackoff, Retention} :
            \A b \in {Lease, MaxBackoff, Retention} : b <= a
Older(age) == IF age > AgeCap THEN age ELSE age + 1
Free == -1  \* locked_at IS NULL

Row == [status : {"none", "pending", "retry", "processing", "delivered", "failed", "purged"},
        attempts : 0..MaxTries, wait : 0..MaxBackoff,
        locked : {Free} \cup 0..AgeCap + 1, delivered : 0..AgeCap + 1]
Entry == [event : Events, attempts : 1..MaxTries]
Stages == {"idle", "next", "accepted", "refused", "retry", "failed", "purge", "delete"}
WorkerState == [pc : Stages, age : 0..AgeCap + 1, todo : SUBSET Entry,
                at : Entry \cup {NoEntry}, ids : SUBSET Events]

NoRow == [status |-> "none", attempts |-> 0, wait |-> 0, locked |-> Free, delivered |-> 0]
Idle == [pc |-> "idle", age |-> 0, todo |-> {}, at |-> NoEntry, ids |-> {}]

Init ==
  /\ row = [e \in Events |-> NoRow]
  /\ records = [e \in Events |-> 0]
  /\ wk = [w \in Workers |-> Idle]
  /\ faults = 0

-----------------------------------------------------------------------------
(* Helpers *)

Stored(e) == row[e].status \notin {"none", "purged"}

Doubled == <<1, 2, 4, 8, 16, 32, 64, 128>>

\* Each further attempt doubles the wait, up to the eighth.
Backoff(attempts) ==
  LET base == Doubled[IF attempts < 8 THEN attempts ELSE 8]
  IN  IF base > MaxBackoff THEN MaxBackoff ELSE base

\* The reporter draws an event_id for every report: each one accepted is a record.
Record(count) == IF count = MaxRecords THEN MaxRecords ELSE count + 1

Expired(e) == row[e].locked > Lease

\* Mutant of Due: a row whose last attempt crashed is not taken up again.
DueUnderLimit(e) ==
  /\ row[e].status \in {"pending", "retry", "processing"} /\ row[e].wait = 0
  /\ row[e].locked = Free \/ Expired(e)
  /\ row[e].attempts < MaxTries

\* Mutant of Due: the running lease of another dispatcher is not looked at.
DueUnleased(e) ==
  /\ row[e].status \in {"pending", "retry", "processing"} /\ row[e].wait = 0
  /\ row[e].attempts < MaxTries

\* A row that may be claimed; its last attempt may have crashed.
Due(e) ==
  /\ row[e].status \in {"pending", "retry", "processing"} /\ row[e].wait = 0
  /\ row[e].locked = Free \/ Expired(e)
  /\ row[e].attempts < MaxTries \/ (row[e].status = "processing" /\ Expired(e))

\* The first rows of the list; which ones, ORDER BY decides (left open).
Batches(due) ==
  IF Cardinality(due) <= BatchSize THEN {due}
  ELSE {b \in SUBSET due : Cardinality(b) = BatchSize}

More(attempts) == IF attempts = MaxTries THEN attempts ELSE attempts + 1

\* The entry at hand is done with; after the last one comes the purge.
Done(w) ==
  LET todo == wk[w].todo \ {wk[w].at} IN
  wk' = [wk EXCEPT ![w] =
           IF todo = {} THEN [Idle EXCEPT !.pc = "purge"]
           ELSE [@ EXCEPT !.pc = "next", !.todo = todo, !.at = NoEntry]]

-----------------------------------------------------------------------------
(* Appending and claiming *)

\* Append, in the transaction of the business change.
Append(e) ==
  /\ row[e].status = "none"
  /\ row' = [row EXCEPT ![e].status = "pending"]
  /\ UNCHANGED <<records, wk, faults>>

Claim(w) ==
  \E batch \in Batches({e \in Events : Due(e)}) :
    /\ wk[w].pc = "idle"
    /\ row' = [e \in Events |->
                 IF e \in batch
                 THEN [row[e] EXCEPT !.status = "processing", !.locked = 0,
                                     !.attempts = More(@)]
                 ELSE row[e]]
    /\ wk' = [wk EXCEPT ![w] =
                [Idle EXCEPT !.pc = IF batch = {} THEN "purge" ELSE "next",
                   !.todo = {[event |-> e, attempts |-> row'[e].attempts] : e \in batch}]]
    /\ UNCHANGED <<records, faults>>

-----------------------------------------------------------------------------
(* Reporting and marking *)

\* Mutant of Report: an answer of any status counts as accepted.
ReportAnyAnswer(w) ==
  \E h \in wk[w].todo, kept, answered \in BOOLEAN :
    /\ wk[w].pc = "next"
    /\ records' = [records EXCEPT ![h.event] = IF kept THEN Record(@) ELSE @]
    /\ wk' = [wk EXCEPT ![w].pc = IF answered THEN "accepted" ELSE "refused",
                        ![w].at = h]
    /\ UNCHANGED <<row, faults>>

\* The platform keeps a record or not; its answer may get lost.
Report(w) ==
  \E h \in wk[w].todo, kept, answered \in BOOLEAN :
    /\ wk[w].pc = "next"
    /\ records' = [records EXCEPT ![h.event] = IF kept THEN Record(@) ELSE @]
    /\ wk' = [wk EXCEPT ![w].pc = IF kept /\ answered THEN "accepted" ELSE "refused",
                        ![w].at = h]
    /\ UNCHANGED <<row, faults>>

\* delivered_at is the `now` the pass began with.
MarkDelivered(w) ==
  LET e == wk[w].at.event IN
  /\ wk[w].pc = "accepted"
  /\ row' = IF Stored(e)
            THEN [row EXCEPT ![e].status = "delivered", ![e].delivered = wk[w].age,
                             ![e].locked = Free]
            ELSE row
  /\ Done(w)
  /\ UNCHANGED <<records, faults>>

\* MarkFailed, first statement: the attempts of the row as they are now.
MarkFailedRead(w) ==
  LET e == wk[w].at.event IN
  /\ wk[w].pc = "refused"
  /\ IF ~Stored(e) THEN Done(w)
     ELSE wk' = [wk EXCEPT ![w].pc = IF row[e].attempts >= MaxTries THEN "failed"
                                     ELSE "retry"]
  /\ UNCHANGED <<row, records, faults>>

\* Second statement; retryAt counts from the `now` the pass began with.
MarkFailed(w) ==
  LET e    == wk[w].at.event
      wait == Backoff(wk[w].at.attempts + 1) - wk[w].age
  IN
  /\ wk[w].pc \in {"retry", "failed"}
  /\ row' = IF Stored(e)
            THEN [row EXCEPT ![e].status = wk[w].pc, ![e].locked = Free,
                             ![e].wait = IF wait > 0 THEN wait ELSE 0]
            ELSE row
  /\ Done(w)
  /\ UNCHANGED <<records, faults>>

\* A mark fails: it is logged, the pass goes on with the next entry.
MarkFails(w) ==
  /\ wk[w].pc \in {"accepted", "refused", "retry", "failed"} /\ faults < MaxFaults
  /\ Done(w) /\ faults' = faults + 1
  /\ UNCHANGED <<row, records>>

-----------------------------------------------------------------------------
(* The purge *)

PurgeSelect(w) ==
  \E ids \in Batches({e \in Events : row[e].status = "delivered"
                                      /\ row[e].delivered > Retention}) :
    /\ wk[w].pc = "purge" /\ ids # {}
    /\ wk' = [wk EXCEPT ![w].pc = "delete", ![w].ids = ids]
    /\ UNCHANGED <<row, records, faults>>

\* Mutant of PurgeDelete: the status is not looked at again.
PurgeDeleteUnchecked(w) ==
  /\ wk[w].pc = "delete"
  /\ row' = [e \in Events |-> IF e \in wk[w].ids THEN [NoRow EXCEPT !.status = "purged"]
                              ELSE row[e]]
  /\ wk' = [wk EXCEPT ![w].pc = "purge", ![w].ids = {}]
  /\ UNCHANGED <<records, faults>>

PurgeDelete(w) ==
  /\ wk[w].pc = "delete"
  /\ row' = [e \in Events |->
               IF e \in wk[w].ids /\ row[e].status = "delivered"
               THEN [NoRow EXCEPT !.status = "purged"] ELSE row[e]]
  /\ wk' = [wk EXCEPT ![w].pc = "purge", ![w].ids = {}]
  /\ UNCHANGED <<records, faults>>

\* Not due, off, nothing to purge, enough batches, or an error.
EndPass(w) ==
  /\ wk[w].pc \in {"purge", "delete"}
  /\ wk' = [wk EXCEPT ![w] = Idle]
  /\ UNCHANGED <<row, records, faults>>

-----------------------------------------------------------------------------
(* Environment *)

\* The process stops, or the context of its dispatcher ends, and starts again.
Crash(w) ==
  /\ wk[w].pc # "idle" /\ faults < MaxFaults
  /\ wk' = [wk EXCEPT ![w] = Idle] /\ faults' = faults + 1
  /\ UNCHANGED <<row, records>>

\* delivered_at is only read of a delivered row.
Tick ==
  /\ row' = [e \in Events |->
               [row[e] EXCEPT !.wait = IF @ = 0 THEN 0 ELSE @ - 1,
                              !.locked = IF @ = Free THEN Free ELSE Older(@),
                              !.delivered = IF row[e].status = "delivered"
                                            THEN Older(@) ELSE @]]
  /\ wk' = [w \in Workers |->
              IF wk[w].todo = {} THEN wk[w] ELSE [wk[w] EXCEPT !.age = Older(@)]]
  /\ UNCHANGED <<records, faults>>

Work(w) ==
  \/ Claim(w) \/ Report(w) \/ MarkDelivered(w) \/ MarkFailedRead(w) \/ MarkFailed(w)
  \/ PurgeDelete(w) \/ EndPass(w)

Next ==
  \/ \E e \in Events : Append(e)
  \/ \E w \in Workers : Work(w) \/ MarkFails(w) \/ PurgeSelect(w) \/ Crash(w)
  \/ Tick

\* The loop of a dispatcher goes on, and so does time.
Spec == Init /\ [][Next]_vars /\ WF_vars(Tick) /\ \A w \in Workers : WF_vars(Work(w))

=============================================================================
