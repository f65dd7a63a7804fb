-------------------------- MODULE AuditOutboxProofs --------------------------
(* Proofs about AuditOutbox for any dispatchers, events and limits. *)
EXTENDS AuditOutboxProps, TLAPS

-----------------------------------------------------------------------------
(* Lemmas *)

\* AgeCap is the largest of the three durations that ages are compared with.
LEMMA AgeCapIsLargest ==
  /\ AgeCap \in Nat \ {0}
  /\ Lease <= AgeCap /\ MaxBackoff <= AgeCap /\ Retention <= AgeCap
<1> DEFINE S == {Lease, MaxBackoff, Retention}
           P(a) == \A b \in S : b <= a
<1>1. S \subseteq Nat \ {0}
  BY LimitsAssumption
<1>2. \E a \in S : P(a)
  <2>1. CASE MaxBackoff <= Lease /\ Retention <= Lease
    <3>1. P(Lease)
      BY <2>1, <1>1
    <3> QED BY <3>1
  <2>2. CASE Lease <= MaxBackoff /\ Retention <= MaxBackoff
    <3>1. P(MaxBackoff)
      BY <2>2, <1>1
    <3> QED BY <3>1
  <2>3. CASE Lease <= Retention /\ MaxBackoff <= Retention
    <3>1. P(Retention)
      BY <2>3, <1>1
    <3> QED BY <3>1
  <2>4. \/ MaxBackoff <= Lease /\ Retention <= Lease
        \/ Lease <= MaxBackoff /\ Retention <= MaxBackoff
        \/ Lease <= Retention /\ MaxBackoff <= Retention
    BY LimitsAssumption
  <2> QED BY <2>1, <2>2, <2>3, <2>4
<1>3. AgeCap \in S /\ P(AgeCap)
  BY <1>2 DEF AgeCap
<1> QED BY <1>1, <1>3

\* Ages grow to just above AgeCap.
LEMMA OlderType ==
  ASSUME NEW age \in 0..AgeCap + 1
  PROVE  Older(age) \in 0..AgeCap + 1
BY AgeCapIsLargest DEF Older

\* The wait after any attempt is within its limit.
LEMMA BackoffType ==
  ASSUME NEW attempts \in Nat \ {0}
  PROVE  Backoff(attempts) \in 0..MaxBackoff
<1> DEFINE i == IF attempts < 8 THEN attempts ELSE 8
<1>1. i \in 1..8
  OBVIOUS
<1>2. \A k \in 1..8 : Doubled[k] \in Nat
  BY DEF Doubled
<1>3. Doubled[i] \in Nat
  BY <1>1, <1>2
<1> HIDE DEF i
<1>4. Backoff(attempts) = IF Doubled[i] > MaxBackoff THEN MaxBackoff ELSE Doubled[i]
  BY DEF Backoff, i
<1> QED BY <1>3, <1>4, LimitsAssumption

LEMMA NoRowType == NoRow \in Row /\ NoRow.status = "none"
BY AgeCapIsLargest, LimitsAssumption DEF NoRow, Row, Free

LEMMA IdleType == Idle \in WorkerState /\ Idle.pc = "idle" /\ Idle.todo = {}
BY AgeCapIsLargest DEF Idle, WorkerState, Stages

\* What a dispatcher does after an entry: the rest of its batch, or the purge.
LEMMA DoneType ==
  ASSUME TypeOK, NEW w \in Workers, Done(w)
  PROVE  \E state \in WorkerState :
           /\ wk' = [wk EXCEPT ![w] = state]
           /\ state.todo \subseteq wk[w].todo
           /\ state.todo # {} => state.age = wk[w].age
           /\ state.pc \in {"purge", "next"}
<1> DEFINE todo == wk[w].todo \ {wk[w].at}
           purge == [Idle EXCEPT !.pc = "purge"]
           next == [wk[w] EXCEPT !.pc = "next", !.todo = todo, !.at = NoEntry]
<1>1. wk[w] \in WorkerState
  BY DEF TypeOK
<1>2. todo \subseteq wk[w].todo /\ todo \in SUBSET Entry
  BY <1>1 DEF WorkerState
<1>3. CASE todo = {}
  <2>1. wk' = [wk EXCEPT ![w] = purge]
    BY <1>3 DEF Done
  <2>2. purge \in WorkerState /\ purge.todo = {} /\ purge.pc = "purge"
    BY IdleType, AgeCapIsLargest DEF Idle, WorkerState, Stages
  <2> QED BY <2>1, <2>2
<1>4. CASE todo # {}
  <2>1. wk' = [wk EXCEPT ![w] = next]
    BY <1>4 DEF Done
  <2> HIDE DEF todo
  <2>2. next \in WorkerState /\ next.todo = todo /\ next.pc = "next"
        /\ next.age = wk[w].age
    BY <1>1, <1>2 DEF WorkerState, Stages
  <2> HIDE DEF next
  <2> QED BY <1>2, <2>1, <2>2
<1> QED BY <1>3, <1>4

-----------------------------------------------------------------------------
(* The inductive invariant *)

Marking == {"accepted", "refused", "retry", "failed"}

\* The entry at hand is one of the batch, and an accepted one has its record.
EntryAtHand ==
  \A w \in Workers :
    /\ wk[w].pc \in Marking => wk[w].at \in wk[w].todo
    /\ wk[w].pc = "accepted" => records[wk[w].at.event] > 0

\* A row is locked, if it is, since the claim of any dispatcher that holds it or
\* since a later one.
LockedSince ==
  \A w \in Workers, e \in Events : Holds(w, e) => row[e].locked <= wk[w].age

Inv == TypeOK /\ EntryAtHand /\ LockedSince /\ NothingLost

LEMMA InvInit == Init => Inv
<1> SUFFICES ASSUME Init PROVE Inv
  OBVIOUS
<1>1. TypeOK
  BY NoRowType, IdleType, LimitsAssumption DEF Init, TypeOK
<1>2. EntryAtHand /\ LockedSince
  BY IdleType DEF Init, EntryAtHand, LockedSince, Holds, Marking
<1>3. NothingLost
  BY NoRowType DEF Init, NothingLost
<1> QED BY <1>1, <1>2, <1>3 DEF Inv

\* A dispatcher that goes on with its batch, or drops it, keeps the invariant if
\* records stay and locks are at most given back.
LEMMA BatchKeepsInv ==
  ASSUME Inv, NEW w \in Workers, NEW state \in WorkerState,
         wk' = [wk EXCEPT ![w] = state],
         state.todo \subseteq wk[w].todo, state.todo # {} => state.age = wk[w].age,
         state.pc \in Marking => state.at \in state.todo,
         state.pc = "accepted" => records'[state.at.event] > 0,
         row' \in [Events -> Row], records' \in [Events -> 0..MaxRecords],
         faults' \in 0..MaxFaults,
         \A e \in Events : records[e] > 0 => records'[e] > 0,
         \A e \in Events : row'[e].locked = row[e].locked \/ row'[e].locked = Free,
         NothingLost'
  PROVE  Inv'
<1>1. wk \in [Workers -> WorkerState] /\ row \in [Events -> Row]
  BY DEF Inv, TypeOK
<1>2. /\ wk' \in [Workers -> WorkerState]
      /\ \A v \in Workers : wk'[v] = IF v = w THEN state ELSE wk[v]
  BY <1>1
<1>3. TypeOK'
  BY <1>2 DEF TypeOK
<1>4. EntryAtHand'
  <2> SUFFICES ASSUME NEW v \in Workers
               PROVE  /\ wk'[v].pc \in Marking => wk'[v].at \in wk'[v].todo
                      /\ wk'[v].pc = "accepted" => records'[wk'[v].at.event] > 0
    BY DEF EntryAtHand
  <2>1. CASE v = w
    BY <1>2, <2>1
  <2>2. CASE v # w
    <3>1. /\ wk'[v] = wk[v] /\ wk[v] \in WorkerState
          /\ wk[v].pc \in Marking => wk[v].at \in wk[v].todo
          /\ wk[v].pc = "accepted" => records[wk[v].at.event] > 0
      BY <1>1, <1>2, <2>2 DEF Inv, EntryAtHand
    <3>2. wk[v].pc = "accepted" => wk[v].at.event \in Events
      BY <3>1 DEF Marking, WorkerState, Entry
    <3> QED BY <3>1, <3>2
  <2> QED BY <2>1, <2>2
<1>5. LockedSince'
  <2> SUFFICES ASSUME NEW v \in Workers, NEW e \in Events, Holds(v, e)'
               PROVE  row'[e].locked <= wk'[v].age
    BY DEF LockedSince
  <2>1. Holds(v, e) /\ wk'[v].age = wk[v].age
    BY <1>2 DEF Holds
  <2>2. row[e].locked <= wk[v].age /\ wk[v].age \in Nat
    BY <1>1, <2>1 DEF Inv, LockedSince, WorkerState
  <2> QED BY <2>1, <2>2 DEF Free
<1> QED BY <1>3, <1>4, <1>5 DEF Inv

\* A step that ends the entry at hand.
LEMMA DoneKeepsInv ==
  ASSUME Inv, NEW w \in Workers, Done(w), UNCHANGED records,
         row' \in [Events -> Row], faults' \in 0..MaxFaults,
         \A e \in Events : row'[e].locked = row[e].locked \/ row'[e].locked = Free,
         NothingLost'
  PROVE  Inv'
<1>1. TypeOK /\ records' \in [Events -> 0..MaxRecords]
  BY DEF Inv, TypeOK
<1>2. PICK state \in WorkerState :
           /\ wk' = [wk EXCEPT ![w] = state]
           /\ state.todo \subseteq wk[w].todo
           /\ state.todo # {} => state.age = wk[w].age
           /\ state.pc \in {"purge", "next"}
  BY <1>1, DoneType
<1>3. state.pc \notin Marking
  BY <1>2 DEF Marking
<1>4. state.pc # "accepted"
  BY <1>2
<1> QED BY <1>1, <1>2, <1>3, <1>4, BatchKeepsInv

-----------------------------------------------------------------------------
(* The actions *)

LEMMA AppendKeepsInv ==
  ASSUME Inv, NEW e \in Events, Append(e)
  PROVE  Inv'
<1>1. /\ row \in [Events -> Row] /\ row' = [row EXCEPT ![e].status = "pending"]
      /\ UNCHANGED <<records, wk, faults>>
  BY DEF Inv, TypeOK, Append
<1>2. /\ row' \in [Events -> Row]
      /\ \A d \in Events : row'[d].locked = row[d].locked
      /\ \A d \in Events : row'[d].status \in {row[d].status, "pending"}
  BY <1>1 DEF Row
<1>3. TypeOK'
  BY <1>1, <1>2 DEF Inv, TypeOK
<1>4. EntryAtHand' /\ LockedSince'
  BY <1>1, <1>2 DEF Inv, EntryAtHand, LockedSince, Holds
<1>5. NothingLost'
  BY <1>1, <1>2 DEF Inv, NothingLost
<1> QED BY <1>3, <1>4, <1>5 DEF Inv

\* A claimed row is locked from now on, for its claimer and whoever held it before.
LEMMA ClaimKeepsInv ==
  ASSUME Inv, NEW w \in Workers, Claim(w)
  PROVE  Inv'
<1>1. /\ row \in [Events -> Row] /\ wk \in [Workers -> WorkerState]
      /\ MaxTries \in Nat \ {0}
  BY LimitsAssumption DEF Inv, TypeOK
<1>2. PICK batch \in Batches({e \in Events : Due(e)}) :
        /\ row' = [e \in Events |->
                     IF e \in batch
                     THEN [row[e] EXCEPT !.status = "processing", !.locked = 0,
                                         !.attempts = More(@)]
                     ELSE row[e]]
        /\ wk' = [wk EXCEPT ![w] =
                    [Idle EXCEPT !.pc = IF batch = {} THEN "purge" ELSE "next",
                       !.todo = {[event |-> e, attempts |-> row'[e].attempts] : e \in batch}]]
        /\ UNCHANGED <<records, faults>>
  BY DEF Claim
<1>3. batch \subseteq Events
  BY <1>2 DEF Batches
<1>4. \A n \in 0..MaxTries : More(n) \in 1..MaxTries
  BY <1>1 DEF More
<1>5. ASSUME NEW e \in Events
      PROVE  /\ row'[e] \in Row
             /\ e \in batch => /\ row'[e].locked = 0 /\ row'[e].status = "processing"
                               /\ row'[e].attempts \in 1..MaxTries
             /\ e \notin batch => row'[e] = row[e]
  <2>1. CASE e \in batch
    <3> DEFINE n == More(row[e].attempts)
    <3>1. row[e] \in Row /\ row[e].attempts \in 0..MaxTries
      BY <1>1 DEF Row
    <3>2. n \in 1..MaxTries
      BY <1>4, <3>1
    <3>3. row'[e] = [row[e] EXCEPT !.status = "processing", !.locked = 0, !.attempts = n]
      BY <1>2, <2>1
    <3> HIDE DEF n
    <3>4. n \in 0..MaxTries /\ 0 \in 0..AgeCap + 1
      BY <1>1, <3>2, AgeCapIsLargest
    <3> QED BY <2>1, <3>1, <3>2, <3>3, <3>4 DEF Row
  <2>2. CASE e \notin batch
    BY <1>1, <1>2, <2>2
  <2> QED BY <2>1, <2>2
<1> DEFINE todo == {[event |-> e, attempts |-> row'[e].attempts] : e \in batch}
           pc == IF batch = {} THEN "purge" ELSE "next"
           state == [Idle EXCEPT !.pc = pc, !.todo = todo]
<1>6. todo \in SUBSET Entry /\ \A h \in todo : h.event \in batch
  BY <1>3, <1>5 DEF Entry
<1>7. wk' = [wk EXCEPT ![w] = state] /\ pc \in {"purge", "next"}
  BY <1>2
<1> HIDE DEF todo, pc
<1>8. /\ state \in WorkerState /\ state.pc = pc /\ state.todo = todo /\ state.age = 0
  BY <1>6, <1>7, IdleType DEF Idle, WorkerState, Stages
<1> HIDE DEF state
<1>9. /\ wk' \in [Workers -> WorkerState]
      /\ \A v \in Workers : wk'[v] = IF v = w THEN state ELSE wk[v]
  BY <1>1, <1>7, <1>8
<1>10. TypeOK'
  <2>1. row' \in [Events -> Row]
    BY <1>2, <1>5
  <2> QED BY <1>2, <1>9, <2>1 DEF Inv, TypeOK
<1>11. EntryAtHand'
  BY <1>2, <1>7, <1>8, <1>9 DEF Inv, EntryAtHand, Marking
<1>12. LockedSince'
  <2> SUFFICES ASSUME NEW v \in Workers, NEW e \in Events, Holds(v, e)'
               PROVE  row'[e].locked <= wk'[v].age
    BY DEF LockedSince
  <2>1. CASE v = w
    <3>1. e \in batch
      BY <1>6, <1>8, <1>9, <2>1 DEF Holds
    <3> QED BY <1>5, <1>8, <1>9, <2>1, <3>1
  <2>2. CASE v # w
    <3>1. wk'[v] = wk[v] /\ Holds(v, e) /\ wk[v].age \in Nat
      BY <1>1, <1>9, <2>2 DEF Holds, WorkerState
    <3>2. row[e].locked <= wk[v].age
      BY <3>1 DEF Inv, LockedSince
    <3> QED BY <1>5, <3>1, <3>2
  <2> QED BY <2>1, <2>2
<1>13. NothingLost'
  BY <1>2, <1>5 DEF Inv, NothingLost
<1> QED BY <1>10, <1>11, <1>12, <1>13 DEF Inv

LEMMA ReportKeepsInv ==
  ASSUME Inv, NEW w \in Workers, Report(w)
  PROVE  Inv'
<1>1. /\ row \in [Events -> Row] /\ wk[w] \in WorkerState
      /\ records \in [Events -> 0..MaxRecords] /\ MaxRecords \in Nat \ {0}
      /\ faults \in 0..MaxFaults
  BY LimitsAssumption DEF Inv, TypeOK
<1>2. PICK h \in wk[w].todo, kept \in BOOLEAN, answered \in BOOLEAN :
        /\ records' = [records EXCEPT ![h.event] = IF kept THEN Record(@) ELSE @]
        /\ wk' = [wk EXCEPT ![w].pc = IF kept /\ answered THEN "accepted" ELSE "refused",
                            ![w].at = h]
        /\ UNCHANGED <<row, faults>>
  BY DEF Report
<1> DEFINE pc == IF kept /\ answered THEN "accepted" ELSE "refused"
           state == [wk[w] EXCEPT !.pc = pc, !.at = h]
           count == IF kept THEN Record(records[h.event]) ELSE records[h.event]
<1>3. h \in Entry /\ h.event \in Events
  BY <1>1 DEF WorkerState, Entry
<1>4. wk' = [wk EXCEPT ![w] = state]
  BY <1>2
<1>5. pc \in {"accepted", "refused"} /\ (pc = "accepted" => kept)
  OBVIOUS
<1> HIDE DEF pc
<1>6. /\ state \in WorkerState /\ state.pc = pc /\ state.at = h
      /\ state.todo = wk[w].todo /\ state.age = wk[w].age
  BY <1>1, <1>3, <1>5 DEF WorkerState, Stages
<1> HIDE DEF state
<1>7. /\ records[h.event] \in 0..MaxRecords
      /\ count \in 0..MaxRecords /\ count >= records[h.event]
      /\ kept => count > 0
  BY <1>1, <1>3 DEF Record
<1>8. records' = [records EXCEPT ![h.event] = count]
  BY <1>2
<1> HIDE DEF count
<1>9. /\ records' \in [Events -> 0..MaxRecords]
      /\ \A e \in Events : records[e] > 0 => records'[e] > 0
      /\ records'[h.event] = count
  BY <1>1, <1>3, <1>7, <1>8
<1>10. state.pc = "accepted" => records'[state.at.event] > 0
  BY <1>5, <1>6, <1>7, <1>9
<1>11. NothingLost'
  BY <1>2, <1>9 DEF Inv, NothingLost
<1>12. /\ row' \in [Events -> Row] /\ faults' \in 0..MaxFaults
       /\ \A e \in Events : row'[e].locked = row[e].locked \/ row'[e].locked = Free
  BY <1>1, <1>2
<1> QED BY <1>2, <1>4, <1>6, <1>9, <1>10, <1>11, <1>12, BatchKeepsInv

LEMMA MarkDeliveredKeepsInv ==
  ASSUME Inv, NEW w \in Workers, MarkDelivered(w)
  PROVE  Inv'
<1> DEFINE e == wk[w].at.event
<1>1. /\ row \in [Events -> Row] /\ wk[w] \in WorkerState /\ wk[w].pc = "accepted"
      /\ faults \in 0..MaxFaults
  BY DEF Inv, TypeOK, MarkDelivered
<1>2. e \in Events /\ records[e] > 0 /\ wk[w].age \in 0..AgeCap + 1
  BY <1>1 DEF Inv, EntryAtHand, Marking, WorkerState, Entry
<1>3. /\ Done(w) /\ UNCHANGED <<records, faults>>
      /\ row' = IF Stored(e)
                THEN [row EXCEPT ![e].status = "delivered", ![e].delivered = wk[w].age,
                                 ![e].locked = Free]
                ELSE row
  BY DEF MarkDelivered
<1> HIDE DEF e
<1> DEFINE new == [row[e] EXCEPT !.status = "delivered", !.delivered = wk[w].age,
                                 !.locked = Free]
<1>4. new \in Row /\ new.locked = Free
  BY <1>1, <1>2 DEF Row
<1>5. row' = IF Stored(e) THEN [row EXCEPT ![e] = new] ELSE row
  BY <1>3
<1> HIDE DEF new
<1>6. /\ row' \in [Events -> Row]
      /\ \A d \in Events : row'[d].locked = row[d].locked \/ row'[d].locked = Free
      /\ \A d \in Events : d # e => row'[d] = row[d]
  BY <1>1, <1>4, <1>5
<1>7. NothingLost'
  BY <1>2, <1>3, <1>6 DEF Inv, NothingLost
<1> QED BY <1>1, <1>3, <1>6, <1>7, DoneKeepsInv

LEMMA MarkFailedReadKeepsInv ==
  ASSUME Inv, NEW w \in Workers, MarkFailedRead(w)
  PROVE  Inv'
<1>1. /\ row \in [Events -> Row] /\ wk[w] \in WorkerState /\ wk[w].pc = "refused"
      /\ faults \in 0..MaxFaults /\ records \in [Events -> 0..MaxRecords]
      /\ UNCHANGED <<row, records, faults>>
  BY DEF Inv, TypeOK, MarkFailedRead
<1>2. /\ row' \in [Events -> Row] /\ faults' \in 0..MaxFaults /\ NothingLost'
      /\ records' \in [Events -> 0..MaxRecords]
      /\ \A d \in Events : row'[d].locked = row[d].locked \/ row'[d].locked = Free
      /\ \A d \in Events : records[d] > 0 => records'[d] > 0
  BY <1>1 DEF Inv, NothingLost
<1>3. CASE ~Stored(wk[w].at.event)
  BY <1>1, <1>2, <1>3, DoneKeepsInv DEF MarkFailedRead
<1>4. CASE Stored(wk[w].at.event)
  <2> DEFINE pc == IF row[wk[w].at.event].attempts >= MaxTries THEN "failed" ELSE "retry"
             state == [wk[w] EXCEPT !.pc = pc]
  <2>1. wk' = [wk EXCEPT ![w] = state] /\ pc \in {"failed", "retry"}
    BY <1>4 DEF MarkFailedRead
  <2> HIDE DEF pc
  <2>2. /\ state \in WorkerState /\ state.pc = pc /\ state.at = wk[w].at
        /\ state.todo = wk[w].todo /\ state.age = wk[w].age
    BY <1>1, <2>1 DEF WorkerState, Stages
  <2>3. wk[w].at \in wk[w].todo
    BY <1>1 DEF Inv, EntryAtHand, Marking
  <2> HIDE DEF state
  <2>4. state.pc # "accepted" /\ state.at \in state.todo
    BY <2>1, <2>2, <2>3
  <2> QED BY <1>2, <2>1, <2>2, <2>4, BatchKeepsInv
<1> QED BY <1>3, <1>4

LEMMA MarkFailedKeepsInv ==
  ASSUME Inv, NEW w \in Workers, MarkFailed(w)
  PROVE  Inv'
<1> DEFINE e == wk[w].at.event
           left == Backoff(wk[w].at.attempts + 1) - wk[w].age
           wait == IF left > 0 THEN left ELSE 0
<1>1. /\ row \in [Events -> Row] /\ wk[w] \in WorkerState
      /\ wk[w].pc \in {"retry", "failed"} /\ faults \in 0..MaxFaults
  BY DEF Inv, TypeOK, MarkFailed
<1>2. wk[w].at \in Entry /\ wk[w].age \in Nat
  BY <1>1 DEF Inv, EntryAtHand, Marking, WorkerState
<1>3. e \in Events /\ wk[w].at.attempts + 1 \in Nat \ {0}
  BY <1>2 DEF Entry
<1>4. Backoff(wk[w].at.attempts + 1) \in 0..MaxBackoff
  BY <1>3, BackoffType
<1>5. wait \in 0..MaxBackoff
  BY <1>2, <1>4, LimitsAssumption
<1>6. /\ Done(w) /\ UNCHANGED <<records, faults>>
      /\ row' = IF Stored(e)
                THEN [row EXCEPT ![e].status = wk[w].pc, ![e].locked = Free,
                                 ![e].wait = wait]
                ELSE row
  BY DEF MarkFailed
<1> HIDE DEF e, wait
<1> DEFINE new == [row[e] EXCEPT !.status = wk[w].pc, !.locked = Free, !.wait = wait]
<1>7. new \in Row /\ new.locked = Free /\ new.status = wk[w].pc
  BY <1>1, <1>3, <1>5 DEF Row
<1>8. row' = IF Stored(e) THEN [row EXCEPT ![e] = new] ELSE row
  BY <1>6
<1> HIDE DEF new
<1>9. /\ row' \in [Events -> Row]
      /\ \A d \in Events : row'[d].locked = row[d].locked \/ row'[d].locked = Free
      /\ \A d \in Events : row'[d] = row[d] \/ row'[d].status = wk[w].pc
  BY <1>1, <1>3, <1>7, <1>8
<1>10. NothingLost'
  BY <1>1, <1>6, <1>9 DEF Inv, NothingLost
<1> QED BY <1>1, <1>6, <1>9, <1>10, DoneKeepsInv

LEMMA MarkFailsKeepsInv ==
  ASSUME Inv, NEW w \in Workers, MarkFails(w)
  PROVE  Inv'
<1>1. /\ row \in [Events -> Row] /\ faults \in 0..MaxFaults /\ MaxFaults \in Nat
      /\ Done(w) /\ faults < MaxFaults /\ faults' = faults + 1
      /\ UNCHANGED <<row, records>>
  BY LimitsAssumption DEF Inv, TypeOK, MarkFails
<1>2. /\ row' \in [Events -> Row] /\ faults' \in 0..MaxFaults
      /\ \A d \in Events : row'[d].locked = row[d].locked \/ row'[d].locked = Free
  BY <1>1
<1>3. NothingLost'
  BY <1>1 DEF Inv, NothingLost
<1> QED BY <1>1, <1>2, <1>3, DoneKeepsInv

\* A dispatcher that is idle or purges only moves on: rows and records stay.
LEMMA WorkerKeepsInv ==
  ASSUME Inv, NEW w \in Workers, NEW state \in WorkerState,
         wk' = [wk EXCEPT ![w] = state], UNCHANGED <<row, records>>,
         faults' \in 0..MaxFaults,
         state.todo \subseteq wk[w].todo, state.todo # {} => state.age = wk[w].age,
         state.pc \in {"idle", "purge", "delete"}
  PROVE  Inv'
<1>1. row \in [Events -> Row] /\ records \in [Events -> 0..MaxRecords]
  BY DEF Inv, TypeOK
<1>2. state.pc \notin Marking /\ state.pc # "accepted"
  BY DEF Marking
<1>3. NothingLost'
  BY DEF Inv, NothingLost
<1>4. /\ row' \in [Events -> Row] /\ records' \in [Events -> 0..MaxRecords]
      /\ \A d \in Events : row'[d].locked = row[d].locked \/ row'[d].locked = Free
      /\ \A d \in Events : records[d] > 0 => records'[d] > 0
  BY <1>1
<1> QED BY <1>2, <1>3, <1>4, BatchKeepsInv

LEMMA PurgeSelectKeepsInv ==
  ASSUME Inv, NEW w \in Workers, PurgeSelect(w)
  PROVE  Inv'
<1>1. wk[w] \in WorkerState /\ faults \in 0..MaxFaults
  BY DEF Inv, TypeOK
<1>2. PICK ids \in Batches({e \in Events : row[e].status = "delivered"
                                            /\ row[e].delivered > Retention}) :
        /\ wk' = [wk EXCEPT ![w].pc = "delete", ![w].ids = ids]
        /\ UNCHANGED <<row, records, faults>>
  BY DEF PurgeSelect
<1>3. ids \subseteq Events
  BY <1>2 DEF Batches
<1> DEFINE state == [wk[w] EXCEPT !.pc = "delete", !.ids = ids]
<1>4. wk' = [wk EXCEPT ![w] = state]
  BY <1>2
<1>5. /\ state \in WorkerState /\ state.pc = "delete"
      /\ state.todo = wk[w].todo /\ state.age = wk[w].age
  BY <1>1, <1>3 DEF WorkerState, Stages
<1> HIDE DEF state
<1> QED BY <1>1, <1>2, <1>4, <1>5, WorkerKeepsInv

LEMMA EndPassKeepsInv ==
  ASSUME Inv, NEW w \in Workers, EndPass(w)
  PROVE  Inv'
<1>1. /\ faults' \in 0..MaxFaults /\ wk' = [wk EXCEPT ![w] = Idle]
      /\ UNCHANGED <<row, records>>
  BY DEF Inv, TypeOK, EndPass
<1>2. Idle.todo \subseteq wk[w].todo
  BY IdleType
<1> QED BY <1>1, <1>2, IdleType, WorkerKeepsInv

LEMMA CrashKeepsInv ==
  ASSUME Inv, NEW w \in Workers, Crash(w)
  PROVE  Inv'
<1>1. /\ faults \in 0..MaxFaults /\ faults < MaxFaults /\ faults' = faults + 1
      /\ wk' = [wk EXCEPT ![w] = Idle] /\ UNCHANGED <<row, records>>
  BY DEF Inv, TypeOK, Crash
<1>2. faults' \in 0..MaxFaults
  BY <1>1, LimitsAssumption
<1>3. Idle.todo \subseteq wk[w].todo
  BY IdleType
<1> QED BY <1>1, <1>2, <1>3, IdleType, WorkerKeepsInv

\* A row that is purged was still marked delivered, so it has its record.
LEMMA PurgeDeleteKeepsInv ==
  ASSUME Inv, NEW w \in Workers, PurgeDelete(w)
  PROVE  Inv'
<1>1. /\ row \in [Events -> Row] /\ wk[w] \in WorkerState /\ faults \in 0..MaxFaults
      /\ records \in [Events -> 0..MaxRecords]
  BY DEF Inv, TypeOK
<1> DEFINE gone == [NoRow EXCEPT !.status = "purged"]
           state == [wk[w] EXCEPT !.pc = "purge", !.ids = {}]
<1>2. /\ row' = [e \in Events |-> IF e \in wk[w].ids /\ row[e].status = "delivered"
                                  THEN gone ELSE row[e]]
      /\ wk' = [wk EXCEPT ![w] = state]
      /\ UNCHANGED <<records, faults>>
  BY DEF PurgeDelete
<1>3. gone \in Row /\ gone.locked = Free
  BY NoRowType DEF NoRow, Row
<1>4. /\ state \in WorkerState /\ state.pc = "purge"
      /\ state.todo = wk[w].todo /\ state.age = wk[w].age
  BY <1>1 DEF WorkerState, Stages
<1> HIDE DEF gone, state
<1>5. /\ row' \in [Events -> Row]
      /\ \A e \in Events : row'[e].locked = row[e].locked \/ row'[e].locked = Free
      /\ \A e \in Events : row'[e] = row[e] \/ row[e].status = "delivered"
  BY <1>1, <1>2, <1>3
<1>6. NothingLost'
  BY <1>2, <1>5 DEF Inv, NothingLost
<1>7. state.pc \notin Marking /\ state.pc # "accepted"
  BY <1>4 DEF Marking
<1>8. /\ records' \in [Events -> 0..MaxRecords] /\ faults' \in 0..MaxFaults
      /\ \A e \in Events : records[e] > 0 => records'[e] > 0
  BY <1>1, <1>2
<1> QED BY <1>2, <1>4, <1>5, <1>6, <1>7, <1>8, BatchKeepsInv

\* The lock of a row and the claims of its holders grow old together.
LEMMA TickKeepsInv ==
  ASSUME Inv, Tick
  PROVE  Inv'
<1>1. /\ row \in [Events -> Row] /\ wk \in [Workers -> WorkerState]
      /\ UNCHANGED <<records, faults>>
  BY DEF Inv, TypeOK, Tick
<1>2. ASSUME NEW e \in Events
      PROVE  /\ row'[e] \in Row /\ row'[e].status = row[e].status
             /\ row'[e].locked = IF row[e].locked = Free THEN Free
                                 ELSE Older(row[e].locked)
  <2> DEFINE wait == IF row[e].wait = 0 THEN 0 ELSE row[e].wait - 1
             locked == IF row[e].locked = Free THEN Free ELSE Older(row[e].locked)
             delivered == IF row[e].status = "delivered" THEN Older(row[e].delivered)
                          ELSE row[e].delivered
  <2>1. /\ row[e] \in Row /\ row[e].wait \in 0..MaxBackoff
        /\ row[e].locked \in {Free} \cup 0..AgeCap + 1
        /\ row[e].delivered \in 0..AgeCap + 1
    BY <1>1 DEF Row
  <2>2. /\ wait \in 0..MaxBackoff /\ locked \in {Free} \cup 0..AgeCap + 1
        /\ delivered \in 0..AgeCap + 1
    BY <2>1, OlderType, LimitsAssumption
  <2>3. row'[e] = [row[e] EXCEPT !.wait = wait, !.locked = locked, !.delivered = delivered]
    BY DEF Tick
  <2>4. locked = IF row[e].locked = Free THEN Free ELSE Older(row[e].locked)
    OBVIOUS
  <2> HIDE DEF wait, locked, delivered
  <2> QED BY <2>1, <2>2, <2>3, <2>4 DEF Row
<1>3. ASSUME NEW w \in Workers
      PROVE  /\ wk'[w] \in WorkerState
             /\ wk'[w].pc = wk[w].pc /\ wk'[w].at = wk[w].at /\ wk'[w].todo = wk[w].todo
             /\ wk[w].todo # {} => wk'[w].age = Older(wk[w].age)
  <2> DEFINE age == Older(wk[w].age)
  <2>1. wk[w] \in WorkerState /\ age \in 0..AgeCap + 1
    BY <1>1, OlderType DEF WorkerState
  <2>2. wk'[w] = IF wk[w].todo = {} THEN wk[w] ELSE [wk[w] EXCEPT !.age = age]
    BY DEF Tick
  <2> HIDE DEF age
  <2>3. /\ wk'[w] \in WorkerState
        /\ wk'[w].pc = wk[w].pc /\ wk'[w].at = wk[w].at /\ wk'[w].todo = wk[w].todo
        /\ wk[w].todo # {} => wk'[w].age = age
    BY <2>1, <2>2 DEF WorkerState
  <2> QED BY <2>3 DEF age
<1>4. TypeOK'
  <2>1. row' \in [Events -> Row]
    BY <1>2 DEF Tick
  <2>2. wk' \in [Workers -> WorkerState]
    BY <1>3 DEF Tick
  <2> QED BY <1>1, <2>1, <2>2 DEF Inv, TypeOK
<1>5. EntryAtHand'
  BY <1>1, <1>3 DEF Inv, EntryAtHand
<1>6. LockedSince'
  <2> SUFFICES ASSUME NEW w \in Workers, NEW e \in Events, Holds(w, e)'
               PROVE  row'[e].locked <= wk'[w].age
    BY DEF LockedSince
  <2>1. Holds(w, e) /\ wk'[w].age = Older(wk[w].age)
    BY <1>3 DEF Holds
  <2>2. /\ row[e].locked <= wk[w].age /\ wk[w].age \in 0..AgeCap + 1
        /\ row[e].locked \in {Free} \cup 0..AgeCap + 1
    BY <1>1, <2>1 DEF Inv, LockedSince, WorkerState, Row
  <2> QED BY <1>2, <2>1, <2>2, AgeCapIsLargest DEF Older, Free
<1>7. NothingLost'
  BY <1>1, <1>2 DEF Inv, NothingLost
<1> QED BY <1>4, <1>5, <1>6, <1>7 DEF Inv

LEMMA InvNext == Inv /\ [Next]_vars => Inv'
<1> SUFFICES ASSUME Inv, [Next]_vars PROVE Inv'
  OBVIOUS
<1>1. ASSUME NEW e \in Events, Append(e) PROVE Inv'
  BY <1>1, AppendKeepsInv
<1>2. ASSUME NEW w \in Workers, Work(w) PROVE Inv'
  BY <1>2, ClaimKeepsInv, ReportKeepsInv, MarkDeliveredKeepsInv, MarkFailedReadKeepsInv,
     MarkFailedKeepsInv, PurgeDeleteKeepsInv, EndPassKeepsInv DEF Work
<1>3. ASSUME NEW w \in Workers, MarkFails(w) \/ PurgeSelect(w) \/ Crash(w) PROVE Inv'
  BY <1>3, MarkFailsKeepsInv, PurgeSelectKeepsInv, CrashKeepsInv
<1>4. CASE Tick
  BY <1>4, TickKeepsInv
<1>5. CASE UNCHANGED vars
  BY <1>5 DEF vars, Inv, TypeOK, EntryAtHand, LockedSince, Holds, NothingLost
<1> QED BY <1>1, <1>2, <1>3, <1>4, <1>5 DEF Next

-----------------------------------------------------------------------------
(* What a step can do *)

\* Only its own claim gives a dispatcher an entry it did not hold.
LEMMA OnlyClaimAdds ==
  ASSUME Inv, [Next]_vars, NEW w \in Workers, ~Claim(w)
  PROVE  wk'[w].todo \subseteq wk[w].todo
<1>1. wk \in [Workers -> WorkerState] /\ TypeOK
  BY DEF Inv, TypeOK
<1>2. ASSUME NEW v \in Workers, NEW state, wk' = [wk EXCEPT ![v] = state],
             v = w => state.todo \subseteq wk[w].todo
      PROVE  wk'[w].todo \subseteq wk[w].todo
  BY <1>1, <1>2
<1>3. ASSUME NEW v \in Workers, Done(v) PROVE wk'[w].todo \subseteq wk[w].todo
  BY <1>1, <1>2, <1>3, DoneType
<1>4. ASSUME NEW v \in Workers, Claim(v) PROVE wk'[w].todo \subseteq wk[w].todo
  <2>1. v # w
    BY <1>4
  <2> QED BY <1>1, <1>4, <2>1 DEF Claim
<1>5. ASSUME NEW v \in Workers,
             Report(v) \/ PurgeSelect(v) \/ PurgeDelete(v) \/ EndPass(v) \/ Crash(v)
      PROVE  wk'[w].todo \subseteq wk[w].todo
  <2>1. CASE Report(v)
    BY <1>1, <2>1 DEF Report, WorkerState
  <2>2. CASE PurgeSelect(v)
    BY <1>1, <2>2 DEF PurgeSelect, WorkerState
  <2>3. CASE PurgeDelete(v)
    BY <1>1, <2>3 DEF PurgeDelete, WorkerState
  <2>4. CASE EndPass(v) \/ Crash(v)
    BY <1>1, <2>4, IdleType DEF EndPass, Crash
  <2> QED BY <1>5, <2>1, <2>2, <2>3, <2>4
<1>6. ASSUME NEW v \in Workers, MarkFailedRead(v) PROVE wk'[w].todo \subseteq wk[w].todo
  BY <1>1, <1>3, <1>6 DEF MarkFailedRead, WorkerState
<1>7. ASSUME NEW v \in Workers, MarkDelivered(v) \/ MarkFailed(v) \/ MarkFails(v)
      PROVE  wk'[w].todo \subseteq wk[w].todo
  BY <1>3, <1>7 DEF MarkDelivered, MarkFailed, MarkFails
<1>8. CASE Tick
  BY <1>1, <1>8 DEF Tick, WorkerState
<1>9. CASE UNCHANGED wk
  BY <1>9
<1> QED BY <1>4, <1>5, <1>6, <1>7, <1>8, <1>9 DEF Next, Work, Append, vars

\* While a dispatcher is within its lease, only a row given back can be claimed.
LEMMA LeaseStep ==
  ASSUME Inv, [Next]_vars, NEW v \in Workers, NEW w \in Workers, NEW e \in Events,
         v # w, Holds(v, e), wk[v].age <= Lease, ~Holds(w, e), Holds(w, e)'
  PROVE  row[e].locked = Free
<1>1. Claim(w)
  BY OnlyClaimAdds DEF Holds
<1>2. wk \in [Workers -> WorkerState] /\ row \in [Events -> Row]
  BY DEF Inv, TypeOK
<1>3. PICK batch \in Batches({d \in Events : Due(d)}) :
        wk' = [wk EXCEPT ![w] =
                 [Idle EXCEPT !.pc = IF batch = {} THEN "purge" ELSE "next",
                    !.todo = {[event |-> d, attempts |-> row'[d].attempts] : d \in batch}]]
  BY <1>1 DEF Claim
<1>4. wk'[w].todo = {[event |-> d, attempts |-> row'[d].attempts] : d \in batch}
  BY <1>2, <1>3 DEF Idle
<1>5. e \in batch
  BY <1>4 DEF Holds
<1>6. Due(e)
  BY <1>3, <1>5 DEF Batches
<1>7. /\ row[e].locked <= wk[v].age /\ wk[v].age \in Nat /\ Lease \in Nat
      /\ row[e].locked \in {Free} \cup 0..AgeCap + 1
  BY <1>2, LimitsAssumption DEF Inv, LockedSince, WorkerState, Row
<1>8. row[e].locked \in Int
  BY <1>7, AgeCapIsLargest DEF Free
<1> QED BY <1>6, <1>7, <1>8 DEF Due, Expired

\* Only a delivered row is purged.
LEMMA PurgeStep ==
  ASSUME Inv, [Next]_vars, NEW e \in Events,
         row[e].status # "purged", row'[e].status = "purged"
  PROVE  row[e].status = "delivered"
<1>1. row \in [Events -> Row]
  BY DEF Inv, TypeOK
<1>2. ASSUME NEW d \in Events, Append(d) PROVE FALSE
  BY <1>1, <1>2 DEF Append, Row
<1>3. ASSUME NEW w \in Workers, Claim(w) PROVE FALSE
  <2>1. PICK batch :
          row' = [d \in Events |->
                    IF d \in batch
                    THEN [row[d] EXCEPT !.status = "processing", !.locked = 0,
                                        !.attempts = More(@)]
                    ELSE row[d]]
    BY <1>3 DEF Claim
  <2> DEFINE n == More(row[e].attempts)
  <2>2. row'[e] = row[e]
        \/ row'[e] = [row[e] EXCEPT !.status = "processing", !.locked = 0, !.attempts = n]
    BY <2>1
  <2> HIDE DEF n
  <2>3. row[e] \in Row
    BY <1>1
  <2> QED BY <2>2, <2>3 DEF Row
<1>4. ASSUME NEW w \in Workers, MarkDelivered(w) PROVE FALSE
  BY <1>1, <1>4 DEF MarkDelivered, Row
<1>5. ASSUME NEW w \in Workers, MarkFailed(w) PROVE FALSE
  <2>1. wk[w].pc \in {"retry", "failed"}
    BY <1>5 DEF MarkFailed
  <2>2. row'[e].status \in {row[e].status, wk[w].pc}
    BY <1>1, <1>5 DEF MarkFailed, Row
  <2> QED BY <2>1, <2>2
<1>6. ASSUME NEW w \in Workers, PurgeDelete(w) PROVE row[e].status = "delivered"
  BY <1>1, <1>6 DEF PurgeDelete
<1>7. CASE Tick
  BY <1>1, <1>7 DEF Tick, Row
<1>8. CASE UNCHANGED row
  BY <1>8
<1> QED BY <1>2, <1>3, <1>4, <1>5, <1>6, <1>7, <1>8
        DEF Next, Work, Report, MarkFailedRead, EndPass, MarkFails, PurgeSelect, Crash, vars

-----------------------------------------------------------------------------
(* No open event is out of reach *)

\* A row that waits has no lease, a row at work has one, a new row is untried.
Fits(r) ==
  /\ r.status \in {"none", "pending"} => r.locked = Free /\ r.attempts = 0
  /\ r.status = "retry" => r.locked = Free
  /\ r.status = "processing" => r.locked # Free

RowsFit == \A e \in Events : Fits(row[e])

\* An open row whose wait and lease are over is due, but for the attempts a late
\* mark of a retry has left at the limit.
OpenRowsComeDue ==
  \A e \in Events :
    /\ row[e].status \in {"pending", "retry", "processing"} /\ row[e].wait = 0
    /\ row[e].locked = Free \/ Expired(e)
    => Due(e) \/ (row[e].status = "retry" /\ row[e].attempts = MaxTries)

LEMMA RowsFitNext == Inv /\ RowsFit /\ [Next]_vars => RowsFit'
<1> SUFFICES ASSUME Inv, RowsFit, [Next]_vars, NEW e \in Events
             PROVE  Fits(row'[e])
  BY DEF RowsFit, Fits
<1>0. row \in [Events -> Row] /\ row[e] \in Row /\ Fits(row[e]) /\ Free = -1
  BY DEF Inv, TypeOK, RowsFit, Free
<1>1. ASSUME NEW d \in Events, Append(d) PROVE Fits(row'[e])
  <2>1. row' = [row EXCEPT ![d] = [row[d] EXCEPT !.status = "pending"]]
        /\ row[d].status = "none"
    BY <1>1 DEF Append
  <2> QED BY <1>0, <2>1 DEF Fits, Row
<1>2. ASSUME NEW w \in Workers, Claim(w) PROVE Fits(row'[e])
  <2>1. PICK batch :
          row' = [d \in Events |->
                    IF d \in batch
                    THEN [row[d] EXCEPT !.status = "processing", !.locked = 0,
                                        !.attempts = More(@)]
                    ELSE row[d]]
    BY <1>2 DEF Claim
  <2> DEFINE n == More(row[e].attempts)
  <2>2. row'[e] = row[e]
        \/ row'[e] = [row[e] EXCEPT !.status = "processing", !.locked = 0, !.attempts = n]
    BY <2>1
  <2> HIDE DEF n
  <2>3. row'[e] = row[e] \/ (row'[e].status = "processing" /\ row'[e].locked = 0)
    BY <1>0, <2>2 DEF Row
  <2>4. Free # 0
    BY <1>0
  <2> QED BY <1>0, <2>3, <2>4 DEF Fits
<1>3. ASSUME NEW w \in Workers, MarkDelivered(w) PROVE Fits(row'[e])
  <2>1. row'[e] = row[e] \/ row'[e].status = "delivered"
    BY <1>0, <1>3 DEF MarkDelivered, Row
  <2> QED BY <1>0, <2>1 DEF Fits
<1>4. ASSUME NEW w \in Workers, MarkFailed(w) PROVE Fits(row'[e])
  <2>1. wk[w].pc \in {"retry", "failed"}
    BY <1>4 DEF MarkFailed
  <2>2. row'[e] = row[e] \/ (row'[e].status = wk[w].pc /\ row'[e].locked = Free)
    BY <1>0, <1>4 DEF MarkFailed, Row
  <2> QED BY <1>0, <2>1, <2>2 DEF Fits
<1>5. ASSUME NEW w \in Workers, PurgeDelete(w) PROVE Fits(row'[e])
  <2>1. row'[e] = row[e] \/ row'[e].status = "purged"
    BY <1>0, <1>5 DEF PurgeDelete, NoRow
  <2> QED BY <1>0, <2>1 DEF Fits
<1>6. CASE Tick
  <2>1. row[e].locked # Free => Older(row[e].locked) # Free
    BY <1>0, AgeCapIsLargest DEF Older, Row
  <2>2. /\ row'[e].status = row[e].status /\ row'[e].attempts = row[e].attempts
        /\ row'[e].locked = IF row[e].locked = Free THEN Free ELSE Older(row[e].locked)
    BY <1>0, <1>6 DEF Tick, Row
  <2> QED BY <1>0, <2>1, <2>2 DEF Fits
<1>7. CASE UNCHANGED row
  BY <1>0, <1>7
<1> QED BY <1>1, <1>2, <1>3, <1>4, <1>5, <1>6, <1>7
        DEF Next, Work, Report, MarkFailedRead, EndPass, MarkFails, PurgeSelect, Crash, vars

-----------------------------------------------------------------------------
(* Theorems *)

\* The inductive invariant holds in every behaviour of the outbox.
THEOREM Invariance == Spec => []Inv
BY InvInit, InvNext, PTL DEF Spec

\* Rows, records and dispatchers are always what the code can make of them.
THEOREM TypeCorrect == Spec => []TypeOK
<1>1. Inv => TypeOK
  BY DEF Inv
<1> QED BY <1>1, Invariance, PTL

\* No audit is lost: an event marked delivered, or gone, has a record on the platform.
THEOREM NoAuditIsLost == Spec => []NothingLost
<1>1. Inv => NothingLost
  BY DEF Inv
<1> QED BY <1>1, Invariance, PTL

\* Within the lease of a dispatcher another one gets its event only after a mark
\* that gave the lease back.
THEOREM LeaseIsHonoured == Spec => LeaseHonoured
<1> DEFINE Step == \A v, w \in Workers, e \in Events :
                     v # w /\ Holds(v, e) /\ wk[v].age <= Lease /\ ~Holds(w, e) /\ Holds(w, e)'
                       => row[e].locked = Free
<1>1. Inv /\ [Next]_vars => Step
  BY LeaseStep
<1>2. Inv /\ [Next]_vars => [Step]_vars
  BY <1>1
<1> HIDE DEF Step
<1>3. Spec => [][Step]_vars
  BY <1>2, Invariance, PTL DEF Spec
<1> QED BY <1>3 DEF Step, LeaseHonoured

\* A row put back in the queue between the two statements of a purge stays.
THEOREM OpenRowsStay == Spec => NoOpenRowPurged
<1> DEFINE Step == \A e \in Events :
                     row[e].status # "purged" /\ row'[e].status = "purged"
                       => row[e].status = "delivered"
<1>1. Inv /\ [Next]_vars => Step
  BY PurgeStep
<1>2. Inv /\ [Next]_vars => [Step]_vars
  BY <1>1
<1> HIDE DEF Step
<1>3. Spec => [][Step]_vars
  BY <1>2, Invariance, PTL DEF Spec
<1> QED BY <1>3 DEF Step, NoOpenRowPurged

\* Whatever crashed, an audit that was appended and neither delivered nor given up
\* waits for nothing but time (the lease of a claimer that crashed is recovered
\* also after the last attempt), except where a late mark shelved it.
THEOREM OpenRowsAreDue == Spec => []OpenRowsComeDue
<1>1. Init => RowsFit
  BY DEF Init, NoRow, RowsFit, Fits
<1>2. Inv /\ RowsFit => OpenRowsComeDue
  <2> SUFFICES ASSUME Inv, RowsFit, NEW e \in Events,
                      row[e].status \in {"pending", "retry", "processing"},
                      row[e].wait = 0, row[e].locked = Free \/ Expired(e)
               PROVE  Due(e) \/ (row[e].status = "retry" /\ row[e].attempts = MaxTries)
    BY DEF OpenRowsComeDue
  <2>1. Fits(row[e]) /\ row[e].attempts \in 0..MaxTries /\ MaxTries \in Nat \ {0}
    BY LimitsAssumption DEF RowsFit, Inv, TypeOK, Row
  <2>2. row[e].attempts < MaxTries \/ row[e].attempts = MaxTries
    BY <2>1
  <2>3. CASE row[e].status = "pending"
    <3>1. row[e].attempts < MaxTries
      BY <2>1, <2>3 DEF Fits
    <3> QED BY <2>3, <3>1 DEF Due
  <2>4. CASE row[e].status = "processing"
    BY <2>1, <2>4 DEF Fits, Due
  <2>5. CASE row[e].status = "retry"
    BY <2>2, <2>5 DEF Due
  <2> QED BY <2>3, <2>4, <2>5
<1> QED BY <1>1, <1>2, RowsFitNext, Invariance, PTL DEF Spec

=============================================================================
