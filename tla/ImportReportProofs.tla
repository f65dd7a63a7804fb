-------------------------- MODULE ImportReportProofs --------------------------
(* Proofs about ImportReport for any workers, items, offers and limits. *)
EXTENDS ImportReportProps, TLAPS

Reading == {"fetch", "facts", "publish"}

\* Every run has a generation of its own, and the last run that is still under way has
\* not been given a result.
OwnGeneration ==
  /\ \A w \in Workers : wk[w].pc # "idle" => wk[w].gen \in 1..run.gen
  /\ \A v, w \in Workers :
       v # w /\ wk[v].pc # "idle" /\ wk[w].pc # "idle" => wk[v].gen # wk[w].gen
  /\ \A w \in Workers :
       wk[w].pc \in Reading /\ wk[w].gen = run.gen => run.status = "RUNNING"

\* Nothing that is stored is younger than the last run.
FromThePast ==
  /\ run.published <= run.gen
  /\ \A i \in Items : history[i].gen <= run.gen
  /\ \A i \in Items, v \in Versions : row[i][v].gen <= run.gen

Inv == TypeOK /\ OwnGeneration /\ FromThePast /\ VerifiedWasMatched
       /\ ReportedIsCurrent /\ FreshPageIsVerified

-----------------------------------------------------------------------------
(* Lemmas *)

LEMMA ContentType ==
  ASSUME NEW c \in Contents
  PROVE  /\ c.rev \in Nat /\ c.rel \in Nat /\ c.both \in BOOLEAN
         /\ c # Absent /\ VersionOf(c) \in Versions
<1>1. PICK i \in Items : c \in Offers[i]
  BY DEF Contents
<1> QED BY <1>1, OffersAssumption DEF Versions

LEMMA VersionType ==
  ASSUME NEW v \in Versions
  PROVE  v[1] \in Nat /\ v[2] \in Nat
<1>1. PICK c \in Contents : v = <<c.rev, c.rel>>
  BY DEF Versions, VersionOf
<1> QED BY <1>1, ContentType

LEMMA OfferedType ==
  ASSUME NEW i \in Items, NEW c \in Offers[i]
  PROVE  c \in Contents
BY DEF Contents

LEMMA NothingType ==
  /\ Nothing \in Snapshots /\ Idle \in WorkerState /\ NoRow \in Row
  /\ NoHistory \in History /\ Idle.pc = "idle"
BY OffersAssumption DEF Nothing, Snapshots, Idle, WorkerState, Errors, NoRow, Row, States, NoHistory, History

LEMMA InvInit == Init => Inv
<1> SUFFICES ASSUME Init PROVE Inv
  OBVIOUS
<1>1. /\ upstream \in {s \in Snapshots : \A i \in Items : s[i] \in Offers[i] \cup {Absent}}
      /\ run = [gen |-> 0, status |-> "", published |-> 0]
      /\ row = [i \in Items |-> [v \in Versions |-> NoRow]]
      /\ history = [i \in Items |-> NoHistory]
      /\ wk = [w \in Workers |-> Idle] /\ matched = {} /\ faults = 0
  BY DEF Init
<1>2. TypeOK
  <2>1. upstream \in Snapshots
    BY <1>1
  <2>2. 0 \in 0..MaxRuns /\ 0 \in 0..MaxFaults /\ "" \in RunStatuses
    BY OffersAssumption DEF RunStatuses
  <2>3. run \in [gen : 0..MaxRuns, status : RunStatuses, published : 0..MaxRuns]
    BY <1>1, <2>2
  <2>4. row \in [Items -> [Versions -> Row]] /\ history \in [Items -> History]
    BY <1>1, NothingType
  <2>5. wk \in [Workers -> WorkerState] /\ matched \subseteq Items \X Contents \X (1..MaxRuns)
    BY <1>1, NothingType
  <2> QED BY <1>1, <2>1, <2>2, <2>3, <2>4, <2>5 DEF TypeOK
<1>3. OwnGeneration /\ FromThePast
  <2>1. \A w \in Workers : wk[w].pc = "idle"
    BY <1>1, NothingType
  <2>2. OwnGeneration
    BY <2>1 DEF OwnGeneration, Reading
  <2>3. run.gen = 0 /\ run.published = 0
    BY <1>1
  <2>4. \A i \in Items : history[i].gen = 0
    BY <1>1 DEF NoHistory
  <2>5. \A i \in Items, v \in Versions : row[i][v].gen = 0
    BY <1>1 DEF NoRow
  <2> QED BY <2>2, <2>3, <2>4, <2>5 DEF FromThePast
<1>4. VerifiedWasMatched /\ ReportedIsCurrent /\ FreshPageIsVerified
  BY <1>1 DEF VerifiedWasMatched, ReportedIsCurrent, FreshPageIsVerified,
         ReadsFactsApplied, ReadsAPIApplied, PageIsFresh, NoRow, NoHistory
<1> QED BY <1>2, <1>3, <1>4 DEF Inv

\* A step that leaves everything stored as it is, except perhaps for the status of the
\* last run, keeps what is said of it.
LEMMA StoredKeepsInv ==
  ASSUME Inv, UNCHANGED <<row, history, matched>>,
         run' \in [gen : 0..MaxRuns, status : RunStatuses, published : 0..MaxRuns],
         run'.gen >= run.gen, run'.published = run.published,
         run'.status = "SUCCESS" => run' = run
  PROVE  FromThePast' /\ VerifiedWasMatched' /\ ReportedIsCurrent' /\ FreshPageIsVerified'
<1>1. FromThePast'
  <2>1. run.gen \in Nat /\ run'.gen \in Nat /\ run.published \in Nat
    BY OffersAssumption DEF Inv, TypeOK
  <2>2. \A i \in Items : history[i].gen \in Nat
    BY DEF Inv, TypeOK, History
  <2>3. \A i \in Items, v \in Versions : row[i][v].gen \in Nat
    BY DEF Inv, TypeOK, Row
  <2> QED BY <2>1, <2>2, <2>3 DEF Inv, FromThePast
<1>2. VerifiedWasMatched' /\ ReportedIsCurrent'
  BY DEF Inv, VerifiedWasMatched, ReportedIsCurrent, ReadsFactsApplied, ReadsAPIApplied
<1>3. FreshPageIsVerified'
  BY DEF Inv, FreshPageIsVerified, PageIsFresh
<1> QED BY <1>1, <1>2, <1>3

\* A run that goes on, gives up or ends keeps its generation its own.
LEMMA RunKeepsOwnGeneration ==
  ASSUME Inv, NEW w \in Workers, NEW state \in WorkerState, wk' = [wk EXCEPT ![w] = state],
         run'.gen = run.gen, wk[w].pc # "idle",
         state.pc # "idle" => state.gen = wk[w].gen,
         state.pc \in Reading => wk[w].pc \in Reading,
         run'.status = run.status \/ (wk[w].gen = run.gen /\ state.pc \notin Reading)
  PROVE  OwnGeneration'
<1>1. \A v \in Workers : wk'[v] = IF v = w THEN state ELSE wk[v]
  BY DEF Inv, TypeOK
<1>2. \A v \in Workers : wk'[v].pc # "idle" => wk[v].pc # "idle" /\ wk'[v].gen = wk[v].gen
  BY <1>1
<1>3. \A v \in Workers : wk'[v].pc \in Reading /\ wk'[v].gen = run'.gen => run'.status = "RUNNING"
  <2> SUFFICES ASSUME NEW v \in Workers, wk'[v].pc \in Reading, wk'[v].gen = run'.gen
               PROVE  run'.status = "RUNNING"
    OBVIOUS
  <2>1. wk'[v].pc # "idle" /\ wk[v].pc \in Reading /\ wk[v].gen = run.gen
    BY <1>1, <1>2 DEF Reading
  <2>2. run.status = "RUNNING"
    BY <2>1 DEF Inv, OwnGeneration
  <2>3. CASE wk[w].gen = run.gen /\ state.pc \notin Reading
    <3>1. v # w
      BY <1>1, <2>3
    <3>2. wk[v].gen # wk[w].gen
      BY <3>1, <2>1 DEF Inv, OwnGeneration, Reading
    <3> QED BY <3>2, <2>1, <2>3
  <2> QED BY <2>2, <2>3
<1> QED BY <1>2, <1>3 DEF Inv, OwnGeneration

-----------------------------------------------------------------------------
(* The actions other than Publish *)

LEMMA SourceChangesKeepsInv ==
  ASSUME Inv, SourceChanges PROVE Inv'
<1>1. UNCHANGED <<run, row, history, wk, matched, faults>>
  BY DEF SourceChanges
<1>2. upstream' \in Snapshots
  BY OfferedType DEF SourceChanges, Inv, TypeOK, Snapshots
<1>3. TypeOK' /\ OwnGeneration'
  BY <1>1, <1>2 DEF Inv, TypeOK, OwnGeneration
<1>4. FromThePast' /\ VerifiedWasMatched' /\ ReportedIsCurrent' /\ FreshPageIsVerified'
  BY <1>1 DEF Inv, FromThePast, VerifiedWasMatched, ReportedIsCurrent, FreshPageIsVerified,
              ReadsFactsApplied, ReadsAPIApplied, PageIsFresh
<1> QED BY <1>3, <1>4 DEF Inv

LEMMA BeginKeepsInv ==
  ASSUME Inv, NEW w \in Workers, Begin(w) PROVE Inv'
<1> DEFINE state == [Idle EXCEPT !.pc = "fetch", !.gen = run.gen + 1]
<1>0. run \in [gen : 0..MaxRuns, status : RunStatuses, published : 0..MaxRuns]
  BY DEF Inv, TypeOK
<1>1. run.gen + 1 \in 1..MaxRuns /\ run.gen \in Nat /\ run' = [run EXCEPT !.gen = @ + 1, !.status = "RUNNING"]
  BY <1>0, OffersAssumption DEF Begin
<1>2. state \in WorkerState /\ state.pc = "fetch" /\ state.gen = run.gen + 1
  <2>1. run.gen + 1 \in 0..MaxRuns
    BY <1>1, OffersAssumption
  <2>2. Idle \in WorkerState
    BY NothingType
  <2> QED BY <2>1, <2>2 DEF WorkerState
<1>3. wk' = [wk EXCEPT ![w] = state] /\ UNCHANGED <<upstream, row, history, matched, faults>>
  BY DEF Begin, NoFault
<1>4. /\ run' \in [gen : 0..MaxRuns, status : RunStatuses, published : 0..MaxRuns]
      /\ run'.gen = run.gen + 1 /\ run'.published = run.published /\ run'.status = "RUNNING"
  <2>1. run.gen + 1 \in 0..MaxRuns /\ "RUNNING" \in RunStatuses
    BY <1>1, OffersAssumption DEF RunStatuses
  <2> QED BY <1>0, <1>1, <2>1
<1> HIDE DEF state
<1>5. TypeOK'
  BY <1>2, <1>3, <1>4 DEF Inv, TypeOK
<1>6. OwnGeneration'
  <2>1. \A v \in Workers : wk'[v] = IF v = w THEN state ELSE wk[v]
    BY <1>3 DEF Inv, TypeOK
  <2>2. \A v \in Workers : wk[v].pc # "idle" => wk[v].gen \in 1..run.gen /\ wk[v].gen # run.gen + 1
    BY <1>1 DEF Inv, OwnGeneration
  <2> QED BY <1>1, <1>2, <1>4, <2>1, <2>2 DEF Inv, OwnGeneration
<1>7. FromThePast' /\ VerifiedWasMatched' /\ ReportedIsCurrent' /\ FreshPageIsVerified'
  BY <1>1, <1>3, <1>4, StoredKeepsInv
<1> QED BY <1>5, <1>6, <1>7 DEF Inv

\* Steps that only change the run's own state, and perhaps count a fault.
LEMMA ReadingKeepsInv ==
  ASSUME Inv, NEW w \in Workers, NEW state \in WorkerState, wk' = [wk EXCEPT ![w] = state],
         UNCHANGED <<upstream, run, row, history, matched>>, faults' \in 0..MaxFaults,
         wk[w].pc # "idle", state.pc # "idle" => state.gen = wk[w].gen,
         state.pc \in Reading => wk[w].pc \in Reading
  PROVE  Inv'
<1>1. TypeOK'
  BY DEF Inv, TypeOK
<1>2. OwnGeneration'
  BY RunKeepsOwnGeneration
<1>3. FromThePast' /\ VerifiedWasMatched' /\ ReportedIsCurrent' /\ FreshPageIsVerified'
  <2>1. run.gen \in Nat
    BY OffersAssumption DEF Inv, TypeOK
  <2> QED BY <2>1, StoredKeepsInv DEF Inv, TypeOK
<1> QED BY <1>1, <1>2, <1>3 DEF Inv

LEMMA FaultType ==
  ASSUME Inv, Fault \/ NoFault PROVE faults' \in 0..MaxFaults
BY OffersAssumption DEF Inv, TypeOK, Fault, NoFault

LEMMA GivesUpKeepsInv ==
  ASSUME Inv, NEW w \in Workers, wk[w].pc # "idle", GivesUp(w),
         UNCHANGED <<upstream, run, row, history, matched>>, Fault \/ NoFault
  PROVE  Inv'
<1> DEFINE state == [Idle EXCEPT !.pc = "fail", !.gen = wk[w].gen]
<1>1. state \in WorkerState /\ state.pc = "fail" /\ state.gen = wk[w].gen
  BY NothingType DEF Inv, TypeOK, Idle, WorkerState
<1>2. wk' = [wk EXCEPT ![w] = state]
  BY DEF GivesUp
<1>3. faults' \in 0..MaxFaults
  BY FaultType
<1> HIDE DEF state
<1> QED BY <1>1, <1>2, <1>3, ReadingKeepsInv DEF Reading

LEMMA EndsKeepsInv ==
  ASSUME Inv, NEW w \in Workers, wk[w].pc # "idle", Ends(w),
         UNCHANGED <<upstream, run, row, history, matched>>, Fault \/ NoFault
  PROVE  Inv'
BY NothingType, FaultType, ReadingKeepsInv DEF Ends, Reading

LEMMA FetchKeepsInv ==
  ASSUME Inv, NEW w \in Workers, Fetch(w) PROVE Inv'
<1> DEFINE state == [wk[w] EXCEPT !.snapshot = upstream, !.pc = "facts"]
<1>1. state \in WorkerState /\ state.pc = "facts" /\ state.gen = wk[w].gen
  BY DEF Inv, TypeOK, WorkerState
<1>2. wk' = [wk EXCEPT ![w] = state]
  BY DEF Fetch, Inv, TypeOK
<1>3. faults' \in 0..MaxFaults /\ UNCHANGED <<upstream, run, row, history, matched>>
  BY FaultType DEF Fetch
<1>4. wk[w].pc = "fetch"
  BY DEF Fetch
<1> HIDE DEF state
<1> QED BY <1>1, <1>2, <1>3, <1>4, ReadingKeepsInv DEF Reading

LEMMA FactsKeepInv ==
  ASSUME Inv, NEW w \in Workers, NEW facts \in Snapshots, NEW error \in Errors,
         wk[w].pc = "facts", HasFacts(w, facts, error),
         UNCHANGED <<upstream, run, row, history, matched>>, Fault \/ NoFault
  PROVE  Inv'
<1> DEFINE state == [wk[w] EXCEPT !.facts = facts, !.error = error, !.pc = "publish"]
<1>1. state \in WorkerState /\ state.pc = "publish" /\ state.gen = wk[w].gen
  BY DEF Inv, TypeOK, WorkerState
<1>2. wk' = [wk EXCEPT ![w] = state]
  BY DEF HasFacts, Inv, TypeOK
<1>3. faults' \in 0..MaxFaults
  BY FaultType
<1> HIDE DEF state
<1> QED BY <1>1, <1>2, <1>3, ReadingKeepsInv DEF Reading

LEMMA FailKeepsInv ==
  ASSUME Inv, NEW w \in Workers, Fail(w) PROVE Inv'
<1>1. /\ wk[w].pc = "fail" /\ wk' = [wk EXCEPT ![w] = Idle]
      /\ run' = [run EXCEPT !.status = FailedStatus(w)]
      /\ UNCHANGED <<upstream, row, history, matched, faults>>
  BY DEF Fail, Ends, NoFault
<1>2. FailedStatus(w) = run.status
      \/ (run.gen = wk[w].gen /\ run.status = "RUNNING" /\ FailedStatus(w) = "FAILED")
  BY DEF FailedStatus
<1>3. /\ run' \in [gen : 0..MaxRuns, status : RunStatuses, published : 0..MaxRuns]
      /\ run'.gen = run.gen /\ run'.published = run.published
      /\ run'.status = FailedStatus(w) /\ run.gen \in Nat
  <2>1. run \in [gen : 0..MaxRuns, status : RunStatuses, published : 0..MaxRuns]
    BY DEF Inv, TypeOK
  <2>2. FailedStatus(w) \in RunStatuses
    BY <1>2, <2>1 DEF RunStatuses
  <2> DEFINE status == FailedStatus(w)
  <2>3. status \in RunStatuses /\ run' = [run EXCEPT !.status = status]
    BY <1>1, <2>2
  <2> HIDE DEF status
  <2>4. run' \in [gen : 0..MaxRuns, status : RunStatuses, published : 0..MaxRuns]
        /\ run'.gen = run.gen /\ run'.published = run.published /\ run'.status = status
    BY <2>1, <2>3
  <2>5. run.gen \in Nat
    BY <2>1, OffersAssumption
  <2> QED BY <2>4, <2>5 DEF status
<1>4. run'.status = "SUCCESS" => run' = run
  BY <1>1, <1>2, <1>3 DEF Inv, TypeOK
<1>5. TypeOK'
  BY <1>1, <1>3, NothingType DEF Inv, TypeOK
<1>6. OwnGeneration'
  BY <1>1, <1>2, <1>3, NothingType, RunKeepsOwnGeneration DEF Reading
<1>7. FromThePast' /\ VerifiedWasMatched' /\ ReportedIsCurrent' /\ FreshPageIsVerified'
  BY <1>1, <1>3, <1>4, StoredKeepsInv
<1> QED BY <1>5, <1>6, <1>7 DEF Inv

-----------------------------------------------------------------------------
(* Publish *)

\* What Publish writes for one item and version.
LEMMA NewRowIs ==
  ASSUME Inv, NEW w \in Workers, wk[w].gen = run.gen, NEW i \in Items, NEW v \in Versions
  PROVE  /\ NewRow(w, i, v) \in Row
         /\ NewRow(w, i, v).gen \in row[i][v].gen..run.gen
         /\ \/ NewRow(w, i, v).state \in {"none", "WITHDRAWN"}
            \/ /\ wk[w].snapshot[i] # Absent /\ NewRow(w, i, v) = row[i][v]
               /\ v = VersionOf(wk[w].snapshot[i]) \/ ~Later(v, wk[w].snapshot[i])
            \/ /\ wk[w].snapshot[i] # Absent /\ v = VersionOf(wk[w].snapshot[i])
               /\ ~Preserved(w, i) /\ NewRow(w, i, v) = Applied(w, i)
<1> DEFINE c == wk[w].snapshot[i]
<1>1. /\ row[i][v] \in Row /\ row[i][v].gen \in Nat /\ run.gen \in 0..MaxRuns /\ row[i][v].gen <= run.gen
      /\ c \in Contents \cup {Absent}
  BY OffersAssumption DEF Inv, TypeOK, FromThePast, WorkerState, Snapshots, Row
<1>2. /\ Withdrawn(row[i][v]) \in Row /\ Withdrawn(row[i][v]).gen = row[i][v].gen
      /\ Withdrawn(row[i][v]).state \in {"none", "WITHDRAWN"}
  BY <1>1 DEF Withdrawn, Row, States
<1>3. CASE c = Absent
  <2>1. NewRow(w, i, v) = Withdrawn(row[i][v])
    BY <1>3 DEF NewRow
  <2> QED BY <2>1, <1>1, <1>2
<1>4. CASE c # Absent /\ v = VersionOf(c) /\ ~Preserved(w, i)
  <2>1. NewRow(w, i, v) = Applied(w, i)
    BY <1>4 DEF NewRow
  <2>2. StateOf(w, i) \in States
    BY DEF StateOf, States
  <2>3. (c.both /\ Matches(w, i)) \in BOOLEAN
    OBVIOUS
  <2>4. Applied(w, i) \in Row /\ Applied(w, i).gen = run.gen
    BY <2>2, <2>3, <1>1 DEF Applied, Row
  <2> QED BY <2>1, <2>4, <1>1, <1>4
<1>5. CASE c # Absent /\ v = VersionOf(c) /\ Preserved(w, i)
  BY <1>1, <1>5 DEF NewRow
<1>6. CASE c # Absent /\ v # VersionOf(c) /\ Later(v, c)
  <2>1. NewRow(w, i, v) = Withdrawn(row[i][v])
    BY <1>6 DEF NewRow
  <2> QED BY <2>1, <1>1, <1>2
<1>7. CASE c # Absent /\ v # VersionOf(c) /\ ~Later(v, c)
  BY <1>1, <1>7 DEF NewRow
<1> QED BY <1>3, <1>4, <1>5, <1>6, <1>7

\* What Publish needs and does, with the generation as a fact.
LEMMA PublishIs ==
  ASSUME Inv, NEW w \in Workers, Publish(w)
  PROVE  /\ wk[w].gen = run.gen /\ run.gen \in 1..MaxRuns /\ run.status = "RUNNING"
         /\ wk[w].snapshot \in Snapshots
         /\ \A i \in Items, v \in Versions : row'[i][v] = NewRow(w, i, v)
         /\ \A i \in Items : history'[i] = NewHistory(w, i)
         /\ run'.gen = run.gen /\ run'.status = Outcome(w)
         /\ run'.published = IF Outcome(w) = "SUCCESS" THEN run.gen ELSE run.published
         /\ run' \in [gen : 0..MaxRuns, status : RunStatuses, published : 0..MaxRuns]
         /\ matched \subseteq matched'
         /\ \A i \in Items : wk[w].snapshot[i] # Absent /\ wk[w].snapshot[i].both /\ Matches(w, i)
              => <<i, wk[w].snapshot[i], run.gen>> \in matched'
         /\ matched' \subseteq Items \X Contents \X (1..MaxRuns)
         /\ UNCHANGED <<upstream, faults>>
<1>1. /\ wk[w].pc = "publish" /\ wk[w].gen = run.gen /\ UNCHANGED <<upstream, faults>>
      /\ row' = [i \in Items |-> [v \in Versions |-> NewRow(w, i, v)]]
      /\ history' = [i \in Items |-> NewHistory(w, i)]
      /\ run' = [run EXCEPT !.status = Outcome(w),
                            !.published = IF Outcome(w) = "SUCCESS" THEN wk[w].gen ELSE @]
      /\ matched' = matched \cup
           {<<i, wk[w].snapshot[i], wk[w].gen>> : i \in {j \in NeedsFacts(wk[w].snapshot) : Matches(w, j)}}
  BY DEF Publish, Fence, NoFault
<1>2. wk[w] \in WorkerState /\ wk[w].snapshot \in Snapshots
  BY DEF Inv, TypeOK, WorkerState
<1>3. run.gen \in 1..MaxRuns /\ run.status = "RUNNING"
  <2>1. wk[w].gen \in 1..run.gen /\ run.status = "RUNNING"
    BY <1>1 DEF Inv, OwnGeneration, Reading
  <2>2. run.gen \in 0..MaxRuns
    BY DEF Inv, TypeOK
  <2> QED BY <2>1, <2>2, OffersAssumption
<1>4. /\ run'.gen = run.gen /\ run'.status = Outcome(w)
      /\ run'.published = IF Outcome(w) = "SUCCESS" THEN run.gen ELSE run.published
      /\ run' \in [gen : 0..MaxRuns, status : RunStatuses, published : 0..MaxRuns]
  <2>1. run \in [gen : 0..MaxRuns, status : RunStatuses, published : 0..MaxRuns]
    BY DEF Inv, TypeOK
  <2>2. Outcome(w) \in RunStatuses
    BY DEF Outcome, RunStatuses
  <2> DEFINE status == Outcome(w)
             published == IF status = "SUCCESS" THEN wk[w].gen ELSE run.published
  <2>3. status \in RunStatuses /\ published \in 0..MaxRuns
    BY <1>1, <1>3, <2>1, <2>2
  <2>4. run' = [run EXCEPT !.status = status, !.published = published]
    BY <1>1
  <2>5. published = IF status = "SUCCESS" THEN run.gen ELSE run.published
    BY <1>1
  <2> HIDE DEF status, published
  <2>6. run'.gen = run.gen /\ run'.status = status /\ run'.published = published
        /\ run' \in [gen : 0..MaxRuns, status : RunStatuses, published : 0..MaxRuns]
    BY <2>1, <2>3, <2>4
  <2> QED BY <2>5, <2>6 DEF status
<1>5. \A i \in Items : wk[w].snapshot[i] # Absent /\ wk[w].snapshot[i].both /\ Matches(w, i)
        => <<i, wk[w].snapshot[i], run.gen>> \in matched'
  BY <1>1 DEF NeedsFacts
<1>6. matched' \subseteq Items \X Contents \X (1..MaxRuns)
  <2>1. matched \subseteq Items \X Contents \X (1..MaxRuns)
    BY DEF Inv, TypeOK
  <2>2. ASSUME NEW i \in {j \in NeedsFacts(wk[w].snapshot) : Matches(w, j)}
        PROVE  <<i, wk[w].snapshot[i], wk[w].gen>> \in Items \X Contents \X (1..MaxRuns)
    BY <2>2, <1>1, <1>2, <1>3 DEF NeedsFacts, Snapshots
  <2> QED BY <2>1, <2>2, <1>1
<1>7. /\ \A i \in Items, v \in Versions : row'[i][v] = NewRow(w, i, v)
      /\ \A i \in Items : history'[i] = NewHistory(w, i)
      /\ matched \subseteq matched'
  BY <1>1
<1> QED BY <1>1, <1>2, <1>3, <1>4, <1>5, <1>6, <1>7

LEMMA PublishKeepsTypes ==
  ASSUME Inv, NEW w \in Workers, Publish(w) PROVE TypeOK' /\ OwnGeneration' /\ FromThePast'
<1>1. /\ wk[w].gen = run.gen /\ run.gen \in 1..MaxRuns /\ wk[w].snapshot \in Snapshots
      /\ \A i \in Items, v \in Versions : row'[i][v] = NewRow(w, i, v)
      /\ \A i \in Items : history'[i] = NewHistory(w, i)
      /\ run'.gen = run.gen /\ run'.published \in {run.gen, run.published}
      /\ run' \in [gen : 0..MaxRuns, status : RunStatuses, published : 0..MaxRuns]
      /\ matched' \subseteq Items \X Contents \X (1..MaxRuns)
      /\ UNCHANGED <<upstream, faults>>
  BY PublishIs
<1>2. /\ row' = [i \in Items |-> [v \in Versions |-> NewRow(w, i, v)]]
      /\ history' = [i \in Items |-> NewHistory(w, i)]
  BY DEF Publish
<1>3. row' \in [Items -> [Versions -> Row]]
  <2>1. \A i \in Items, v \in Versions : NewRow(w, i, v) \in Row
    BY <1>1, NewRowIs
  <2> QED BY <1>2, <2>1
<1>4. \A i \in Items : NewHistory(w, i) \in History /\ NewHistory(w, i).gen \in {0, run.gen}
  <2> SUFFICES ASSUME NEW i \in Items
               PROVE  NewHistory(w, i) \in History /\ NewHistory(w, i).gen \in {0, run.gen}
    OBVIOUS
  <2>1. CASE wk[w].snapshot[i] = Absent
    <3>1. NewHistory(w, i) = NoHistory
      BY <2>1 DEF NewHistory
    <3> QED BY <3>1, NothingType DEF NoHistory
  <2>2. CASE wk[w].snapshot[i] # Absent
    <3>1. wk[w].snapshot[i] \in Contents /\ run.gen \in 0..MaxRuns
      BY <1>1, <2>2 DEF Snapshots
    <3> DEFINE facts == wk[w].snapshot[i].both /\ (Matches(w, i) \/ Preserved(w, i))
    <3>2. facts \in BOOLEAN /\ NewHistory(w, i) = [content |-> wk[w].snapshot[i], gen |-> run.gen, facts |-> facts]
      BY <1>1, <2>2 DEF NewHistory
    <3> HIDE DEF facts
    <3> QED BY <3>1, <3>2 DEF History
  <2> QED BY <2>1, <2>2
<1>5. history' \in [Items -> History]
  BY <1>2, <1>4
<1>6. PICK state \in WorkerState : wk' = [wk EXCEPT ![w] = state] /\ state.pc \notin Reading
        /\ (state.pc # "idle" => state.gen = wk[w].gen)
  <2> DEFINE failed == [Idle EXCEPT !.pc = "fail", !.gen = wk[w].gen]
  <2>1. failed \in WorkerState /\ failed.pc = "fail" /\ failed.gen = wk[w].gen
    BY NothingType DEF Inv, TypeOK, WorkerState, Idle
  <2>2. wk' = [wk EXCEPT ![w] = failed] \/ wk' = [wk EXCEPT ![w] = Idle]
    BY DEF Publish, GivesUp, Ends
  <2> HIDE DEF failed
  <2> QED BY <2>1, <2>2, NothingType DEF Reading
<1>7. TypeOK'
  BY <1>1, <1>3, <1>5, <1>6 DEF Inv, TypeOK
<1>8. OwnGeneration'
  <2>1. wk[w].pc # "idle"
    BY DEF Publish
  <2> QED BY <1>1, <1>6, <2>1, RunKeepsOwnGeneration
<1>9. FromThePast'
  <2>1. run'.gen \in Nat /\ run.published \in Nat /\ run'.published <= run'.gen
    BY <1>1, OffersAssumption DEF Inv, TypeOK, FromThePast
  <2>2. \A i \in Items : history'[i].gen <= run'.gen
    BY <1>1, <1>4
  <2>3. ASSUME NEW i \in Items, NEW v \in Versions PROVE row'[i][v].gen <= run'.gen
    <3>1. NewRow(w, i, v).gen \in row[i][v].gen..run.gen
      BY <1>1, NewRowIs
    <3> QED BY <1>1, <3>1
  <2> QED BY <2>1, <2>2, <2>3 DEF FromThePast
<1> QED BY <1>7, <1>8, <1>9

\* The fields of what is written for an item.
LEMMA NewHistoryIs ==
  ASSUME NEW w \in Workers, NEW i \in Items
  PROVE  /\ NewHistory(w, i).content = wk[w].snapshot[i]
         /\ wk[w].snapshot[i] = Absent => ~NewHistory(w, i).facts /\ NewHistory(w, i).gen = 0
         /\ wk[w].snapshot[i] # Absent =>
              /\ NewHistory(w, i).gen = wk[w].gen
              /\ NewHistory(w, i).facts = (wk[w].snapshot[i].both /\ (Matches(w, i) \/ Preserved(w, i)))
<1>1. CASE wk[w].snapshot[i] = Absent
  BY <1>1 DEF NewHistory, NoHistory
<1>2. CASE wk[w].snapshot[i] # Absent
  <2> DEFINE facts == wk[w].snapshot[i].both /\ (Matches(w, i) \/ Preserved(w, i))
  <2>1. NewHistory(w, i) = [content |-> wk[w].snapshot[i], gen |-> wk[w].gen, facts |-> facts]
    BY <1>2 DEF NewHistory
  <2> HIDE DEF facts
  <2>2. /\ NewHistory(w, i).content = wk[w].snapshot[i] /\ NewHistory(w, i).gen = wk[w].gen
        /\ NewHistory(w, i).facts = facts
    BY <2>1
  <2> QED BY <1>2, <2>2 DEF facts
<1> QED BY <1>1, <1>2

LEMMA AppliedIs ==
  ASSUME NEW w \in Workers, NEW i \in Items
  PROVE  /\ Applied(w, i).content = wk[w].snapshot[i] /\ Applied(w, i).gen = wk[w].gen
         /\ Applied(w, i).facts = (wk[w].snapshot[i].both /\ Matches(w, i))
         /\ StateOf(w, i) = "APPLIED" =>
              Applied(w, i) = [state |-> "APPLIED", content |-> wk[w].snapshot[i],
                               gen |-> wk[w].gen, facts |-> Applied(w, i).facts]
<1> DEFINE facts == wk[w].snapshot[i].both /\ Matches(w, i)
           state == StateOf(w, i)
<1>1. Applied(w, i) = [state |-> state, content |-> wk[w].snapshot[i], gen |-> wk[w].gen, facts |-> facts]
  BY DEF Applied
<1> HIDE DEF facts, state
<1>2. /\ Applied(w, i).content = wk[w].snapshot[i] /\ Applied(w, i).gen = wk[w].gen
      /\ Applied(w, i).facts = facts
  BY <1>1
<1>3. state = "APPLIED" => Applied(w, i) = [state |-> "APPLIED", content |-> wk[w].snapshot[i],
                               gen |-> wk[w].gen, facts |-> Applied(w, i).facts]
  BY <1>1, <1>2
<1> QED BY <1>2, <1>3 DEF facts, state

\* What a preserved credential stands for.
LEMMA PreservedIs ==
  ASSUME Inv, NEW w \in Workers, wk[w].snapshot \in Snapshots, NEW i \in Items,
         wk[w].snapshot[i] # Absent, Preserved(w, i)
  PROVE  \E g \in 1..MaxRuns : <<i, wk[w].snapshot[i], g>> \in matched
<1> DEFINE c == wk[w].snapshot[i]
           old == row[i][VersionOf(c)]
<1>1. c \in Contents /\ VersionOf(c) \in Versions
  BY ContentType DEF Snapshots
<1>2. old.state = "APPLIED" /\ old.facts /\ old.content = c
  BY DEF Preserved
<1>3. <<i, c, old.gen>> \in matched
  BY <1>1, <1>2 DEF Inv, VerifiedWasMatched, ReadsFactsApplied, ReadsAPIApplied
<1>4. old.gen \in 1..MaxRuns
  BY <1>3 DEF Inv, TypeOK
<1> QED BY <1>3, <1>4

LEMMA PublishVerifies ==
  ASSUME Inv, NEW w \in Workers, Publish(w) PROVE VerifiedWasMatched'
<1>1. /\ wk[w].gen = run.gen /\ run.gen \in 1..MaxRuns /\ wk[w].snapshot \in Snapshots
      /\ \A i \in Items, v \in Versions : row'[i][v] = NewRow(w, i, v)
      /\ \A i \in Items : history'[i] = NewHistory(w, i)
      /\ matched \subseteq matched'
      /\ \A i \in Items : wk[w].snapshot[i] # Absent /\ wk[w].snapshot[i].both /\ Matches(w, i)
           => <<i, wk[w].snapshot[i], run.gen>> \in matched'
  BY PublishIs
<1>2. ASSUME NEW i \in Items, NEW v \in Versions,
             row'[i][v].state \notin {"none", "WITHDRAWN"}, row'[i][v].facts
      PROVE  <<i, row'[i][v].content, row'[i][v].gen>> \in matched'
  <2>1. row'[i][v] = NewRow(w, i, v)
    BY <1>1
  <2>2. CASE NewRow(w, i, v) = row[i][v]
    <3>1. <<i, row[i][v].content, row[i][v].gen>> \in matched
      BY <1>2, <2>1, <2>2 DEF Inv, VerifiedWasMatched, ReadsFactsApplied, ReadsAPIApplied
    <3> QED BY <1>1, <2>1, <2>2, <3>1
  <2>3. CASE wk[w].snapshot[i] # Absent /\ NewRow(w, i, v) = Applied(w, i)
    <3>1. /\ row'[i][v].content = wk[w].snapshot[i] /\ row'[i][v].gen = run.gen
          /\ wk[w].snapshot[i].both /\ Matches(w, i)
      <4>1. row'[i][v] = Applied(w, i) /\ row'[i][v].facts
        BY <1>2, <2>1, <2>3
      <4>2. /\ Applied(w, i).content = wk[w].snapshot[i] /\ Applied(w, i).gen = wk[w].gen
            /\ Applied(w, i).facts = (wk[w].snapshot[i].both /\ Matches(w, i))
        BY AppliedIs
      <4>3. wk[w].snapshot[i].both /\ Matches(w, i)
        BY <4>1, <4>2, Zenon
      <4> QED BY <1>1, <4>1, <4>2, <4>3
    <3> QED BY <1>1, <2>3, <3>1
  <2> QED BY <1>1, <1>2, <2>1, <2>2, <2>3, NewRowIs
<1>3. ASSUME NEW i \in Items, history'[i].facts
      PROVE  \E g \in 1..MaxRuns : <<i, history'[i].content, g>> \in matched'
  <2>1. /\ wk[w].snapshot[i] # Absent /\ wk[w].snapshot[i].both
        /\ history'[i].content = wk[w].snapshot[i]
        /\ Matches(w, i) \/ Preserved(w, i)
    BY <1>1, <1>3, NewHistoryIs
  <2>2. CASE Matches(w, i)
    BY <1>1, <2>1, <2>2
  <2>3. CASE Preserved(w, i)
    BY <1>1, <2>1, <2>3, PreservedIs
  <2> QED BY <2>1, <2>2, <2>3
<1> QED BY <1>2, <1>3 DEF VerifiedWasMatched, ReadsFactsApplied, ReadsAPIApplied

LEMMA PublishReportsCurrent ==
  ASSUME Inv, NEW w \in Workers, Publish(w) PROVE ReportedIsCurrent'
<1>1. /\ wk[w].gen = run.gen /\ wk[w].snapshot \in Snapshots
      /\ \A i \in Items, v \in Versions : row'[i][v] = NewRow(w, i, v)
      /\ \A i \in Items : history'[i] = NewHistory(w, i)
  BY PublishIs
<1>2. ASSUME NEW i \in Items, NEW v \in Versions, row'[i][v].state \notin {"none", "WITHDRAWN"}
      PROVE  /\ history'[i].content # Absent
             /\ v[1] <= history'[i].content.rev /\ v[2] <= history'[i].content.rel
  <2> DEFINE c == wk[w].snapshot[i]
  <2>1. c # Absent /\ (v = VersionOf(c) \/ ~Later(v, c))
    BY <1>1, <1>2, NewRowIs
  <2>2. history'[i].content = c
    BY <1>1, NewHistoryIs
  <2>3. c \in Contents /\ c.rev \in Nat /\ c.rel \in Nat /\ v[1] \in Nat /\ v[2] \in Nat
    BY <1>1, <2>1, ContentType, VersionType DEF Snapshots
  <2>4. v[1] <= c.rev /\ v[2] <= c.rel
    BY <2>1, <2>3 DEF VersionOf, Later
  <2> QED BY <2>1, <2>2, <2>4
<1> QED BY <1>2 DEF ReportedIsCurrent, ReadsAPIApplied

LEMMA PublishIsFresh ==
  ASSUME Inv, NEW w \in Workers, Publish(w) PROVE FreshPageIsVerified'
<1>1. /\ wk[w].gen = run.gen /\ wk[w].snapshot \in Snapshots
      /\ \A i \in Items, v \in Versions : row'[i][v] = NewRow(w, i, v)
      /\ \A i \in Items : history'[i] = NewHistory(w, i)
      /\ run'.gen = run.gen /\ run'.status = Outcome(w)
      /\ run'.published = IF Outcome(w) = "SUCCESS" THEN run.gen ELSE run.published
  BY PublishIs
<1> SUFFICES ASSUME Outcome(w) = "SUCCESS"
             PROVE  /\ run'.published = run'.gen
                    /\ \A i \in Items : history'[i].content # Absent =>
                         /\ history'[i].gen = run'.published
                         /\ history'[i].content.both => history'[i].facts
                         /\ row'[i][VersionOf(history'[i].content)] =
                              [state |-> "APPLIED", content |-> history'[i].content,
                               gen |-> run'.published, facts |-> history'[i].facts]
  BY <1>1 DEF FreshPageIsVerified, PageIsFresh
<1>2. run'.published = run.gen
  BY <1>1
<1>3. ASSUME NEW i \in Items, history'[i].content # Absent
      PROVE  /\ history'[i].gen = run.gen
             /\ history'[i].content.both => history'[i].facts
             /\ row'[i][VersionOf(history'[i].content)] =
                  [state |-> "APPLIED", content |-> history'[i].content,
                   gen |-> run.gen, facts |-> history'[i].facts]
  <2> DEFINE c == wk[w].snapshot[i]
  <2>1. c # Absent
    BY <1>1, <1>3, NewHistoryIs
  <2>2. c \in Contents /\ VersionOf(c) \in Versions
    BY <1>1, <2>1, ContentType DEF Snapshots
  <2>3. ~Preserved(w, i) /\ StateOf(w, i) = "APPLIED"
    BY <2>1 DEF Outcome, Listed
  <2>4. ~c.both \/ Matches(w, i)
    BY <2>3 DEF StateOf
  <2>5. /\ history'[i].content = c /\ history'[i].gen = run.gen
        /\ history'[i].facts = (c.both /\ Matches(w, i))
    BY <1>1, <2>1, <2>3, NewHistoryIs
  <2>6. NewRow(w, i, VersionOf(c)) = Applied(w, i)
    BY <2>1, <2>3 DEF NewRow
  <2>7. Applied(w, i) = [state |-> "APPLIED", content |-> c, gen |-> run.gen, facts |-> Applied(w, i).facts]
    BY <1>1, <2>3, AppliedIs
  <2>8. Applied(w, i).facts = history'[i].facts
    BY <2>5, AppliedIs
  <2>9. row'[i][VersionOf(c)] = [state |-> "APPLIED", content |-> c, gen |-> run.gen, facts |-> history'[i].facts]
    BY <1>1, <2>2, <2>6, <2>7, <2>8
  <2> HIDE DEF c
  <2> QED BY <2>4, <2>5, <2>9
<1> QED BY <1>1, <1>2, <1>3

-----------------------------------------------------------------------------
(* Theorems *)

\* Every step keeps the invariant, one case for each action.
LEMMA InvNext == Inv /\ [Next]_vars => Inv'
<1> SUFFICES ASSUME Inv, [Next]_vars PROVE Inv'
  OBVIOUS
<1>1. CASE UNCHANGED vars
  BY <1>1 DEF Inv, vars, TypeOK, OwnGeneration, FromThePast, VerifiedWasMatched, ReportedIsCurrent,
              FreshPageIsVerified, ReadsFactsApplied, ReadsAPIApplied, PageIsFresh
<1>2. CASE SourceChanges
  BY <1>2, SourceChangesKeepsInv
<1>3. ASSUME NEW w \in Workers, Run(w) PROVE Inv'
  <2>1. CASE Begin(w)
    BY <2>1, BeginKeepsInv
  <2>2. CASE Fetch(w)
    BY <2>2, FetchKeepsInv
  <2>3. CASE FetchFails(w) \/ Superseded(w) \/ PublishFails(w)
    <3>1. wk[w].pc # "idle" /\ GivesUp(w) /\ UNCHANGED <<upstream, run, row, history, matched>>
          /\ (Fault \/ NoFault)
      BY <2>3 DEF FetchFails, Superseded, PublishFails
    <3> QED BY <3>1, GivesUpKeepsInv
  <2>4. CASE ReadFacts(w)
    <3> DEFINE facts == [i \in Items |-> IF i \in NeedsFacts(wk[w].snapshot) THEN upstream[i] ELSE Absent]
    <3>1. facts \in Snapshots /\ "" \in Errors
      BY DEF Inv, TypeOK, Snapshots, Errors
    <3>2. wk[w].pc = "facts" /\ HasFacts(w, facts, "") /\ NoFault
          /\ UNCHANGED <<upstream, run, row, history, matched>>
      BY <2>4 DEF ReadFacts
    <3> HIDE DEF facts
    <3> QED BY <3>1, <3>2, FactsKeepInv
  <2>5. CASE NotConfigured(w) \/ FactsUnavailable(w)
    <3>1. PICK error \in Errors :
            /\ wk[w].pc = "facts" /\ HasFacts(w, Nothing, error) /\ (Fault \/ NoFault)
            /\ UNCHANGED <<upstream, run, row, history, matched>>
      BY <2>5 DEF NotConfigured, FactsUnavailable, Errors
    <3> QED BY <3>1, NothingType, FactsKeepInv
  <2>6. CASE Publish(w)
    BY <2>6, PublishKeepsTypes, PublishVerifies, PublishReportsCurrent, PublishIsFresh DEF Inv
  <2>7. CASE Fail(w)
    BY <2>7, FailKeepsInv
  <2>8. CASE Stops(w)
    BY <2>8, EndsKeepsInv DEF Stops
  <2> QED BY <1>3, <2>1, <2>2, <2>3, <2>4, <2>5, <2>6, <2>7, <2>8 DEF Run
<1> QED BY <1>1, <1>2, <1>3 DEF Next

\* Every variable keeps its type, for any number of runs, items and contents.
THEOREM TypeCorrect == Spec => []TypeOK
<1>1. Inv => TypeOK
  BY DEF Inv
<1> QED BY InvInit, InvNext, <1>1, PTL DEF Spec

\* Source facts are never reported as applied for a content no run found in the source.
THEOREM NoInventedVerification == Spec => []VerifiedWasMatched
<1>1. Inv => VerifiedWasMatched
  BY DEF Inv
<1> QED BY InvInit, InvNext, <1>1, PTL DEF Spec

\* What is reported as applied is in the projection, and not in an earlier version.
THEOREM ReportsAreCurrent == Spec => []ReportedIsCurrent
<1>1. Inv => ReportedIsCurrent
  BY DEF Inv
<1> QED BY InvInit, InvNext, <1>1, PTL DEF Spec

\* A page that is not stale shows one run, verified in every channel.
THEOREM FreshPagesAreVerified == Spec => []FreshPageIsVerified
<1>1. Inv => FreshPageIsVerified
  BY DEF Inv
<1> QED BY InvInit, InvNext, <1>1, PTL DEF Spec

LEMMA StepIsNewer == Inv /\ [Next]_vars =>
  [/\ run'.published >= run.published
   /\ \A i \in Items, v \in Versions : row'[i][v].gen >= row[i][v].gen
   /\ \A i \in Items : history'[i].content # Absent => history'[i].gen >= history[i].gen
   /\ history' # history => \A i \in Items : history'[i].gen \in {0, run.gen}
   /\ run.status # "RUNNING" /\ run'.status # run.status => run'.gen > run.gen]_vars
<1> DEFINE Newer == /\ run'.published >= run.published
                    /\ \A i \in Items, v \in Versions : row'[i][v].gen >= row[i][v].gen
                    /\ \A i \in Items : history'[i].content # Absent => history'[i].gen >= history[i].gen
                    /\ history' # history => \A i \in Items : history'[i].gen \in {0, run.gen}
                    /\ run.status # "RUNNING" /\ run'.status # run.status => run'.gen > run.gen
<1> SUFFICES ASSUME Inv, Next PROVE Newer
  OBVIOUS
<1>1. /\ run.gen \in Nat /\ run.published \in Nat
      /\ \A i \in Items : history[i].gen \in Nat
      /\ \A i \in Items, v \in Versions : row[i][v].gen \in Nat
  <2>1. run.gen \in Nat /\ run.published \in Nat
    BY OffersAssumption DEF Inv, TypeOK
  <2>2. \A i \in Items : history[i].gen \in Nat
    BY OffersAssumption DEF Inv, TypeOK, History
  <2>3. \A i \in Items, v \in Versions : row[i][v].gen \in Nat
    BY OffersAssumption DEF Inv, TypeOK, Row
  <2> QED BY <2>1, <2>2, <2>3
<1>2. CASE UNCHANGED <<run, row, history>>
  BY <1>1, <1>2
<1>3. CASE SourceChanges
  BY <1>2, <1>3 DEF SourceChanges
<1>4. ASSUME NEW w \in Workers, Run(w) PROVE Newer
  <2>1. CASE Begin(w)
    <3>1. run' = [run EXCEPT !.gen = @ + 1, !.status = "RUNNING"] /\ UNCHANGED <<row, history>>
      BY <2>1 DEF Begin
    <3>2. run'.gen = run.gen + 1 /\ run'.published = run.published
      BY <3>1 DEF Inv, TypeOK
    <3> QED BY <1>1, <3>1, <3>2
  <2>2. CASE Fetch(w) \/ FetchFails(w) \/ ReadFacts(w) \/ NotConfigured(w) \/ FactsUnavailable(w)
             \/ Superseded(w) \/ PublishFails(w) \/ Stops(w)
    <3>1. UNCHANGED <<run, row, history>>
      BY <2>2 DEF Fetch, FetchFails, ReadFacts, NotConfigured, FactsUnavailable, Superseded,
                  PublishFails, Stops
    <3> QED BY <1>2, <3>1
  <2>3. CASE Publish(w)
    <3>1. /\ wk[w].gen = run.gen /\ run.status = "RUNNING"
          /\ \A i \in Items, v \in Versions : row'[i][v] = NewRow(w, i, v)
          /\ \A i \in Items : history'[i] = NewHistory(w, i)
          /\ run'.published \in {run.gen, run.published}
      BY <2>3, PublishIs
    <3>2. \A i \in Items, v \in Versions : row'[i][v].gen >= row[i][v].gen
      BY <1>1, <3>1, NewRowIs
    <3>3. \A i \in Items : history'[i].gen \in {0, run.gen}
                            /\ (history'[i].content # Absent => history'[i].gen = run.gen)
      BY <3>1, NewHistoryIs
    <3>4. run.published <= run.gen /\ \A i \in Items : history[i].gen <= run.gen
      BY DEF Inv, FromThePast
    <3> QED BY <1>1, <3>1, <3>2, <3>3, <3>4
  <2>4. CASE Fail(w)
    <3>1. run' = [run EXCEPT !.status = FailedStatus(w)] /\ UNCHANGED <<row, history>>
      BY <2>4 DEF Fail
    <3> DEFINE status == FailedStatus(w)
    <3>2. run.status # "RUNNING" => status = run.status
      BY DEF FailedStatus
    <3>3. run' = [run EXCEPT !.status = status]
      BY <3>1
    <3> HIDE DEF status
    <3>4. run'.published = run.published /\ run'.status = status
      BY <3>3 DEF Inv, TypeOK
    <3> QED BY <1>1, <3>1, <3>2, <3>4
  <2> HIDE DEF Newer
  <2> QED BY <1>4, <2>1, <2>2, <2>3, <2>4 DEF Run
<1> HIDE DEF Newer
<1> QED BY <1>3, <1>4 DEF Next

\* An earlier run never writes over a later one.
THEOREM NewestRunWins == Spec => NewestWins
BY InvInit, InvNext, StepIsNewer, PTL DEF Spec, NewestWins
=============================================================================
