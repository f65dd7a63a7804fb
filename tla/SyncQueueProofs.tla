--------------------------- MODULE SyncQueueProofs ---------------------------
(* Proofs about SyncQueue for any number of workers, jobs and sources. *)
EXTENDS SyncQueueProps, TLAPS

USE DEF NoJob, NoRun

-----------------------------------------------------------------------------
(* Type correctness *)

\* The types of the records the model is built from.
LEMMA RecordTypes ==
  /\ Idle \in WorkerState
  /\ Absent \in JobRow
  /\ Legacy \in JobRow
<1>1. Idle \in WorkerState
  BY DEF Idle, WorkerState, Stages, Outcomes, Causes
<1>2. Absent \in JobRow
  BY QueueSettings DEF Absent, JobRow, Statuses
<1>3. Legacy \in JobRow
  BY <1>2 DEF Legacy, JobRow, Statuses
<1> QED BY <1>1, <1>2, <1>3

\* A mark keeps the type of a source row.
LEMMA MarkedType ==
  ASSUME NEW row \in SourceRow, NEW start \in Nat, NEW success \in BOOLEAN,
         NEW status \in {"RUNNING", "SUCCESS", "FAILED"}
  PROVE  Marked(row, status, start, success) \in SourceRow
BY DEF Marked, SourceRow

\* The three ways a worker rewrites a job row keep its type.
LEMMA RowTypes ==
  ASSUME NEW row \in JobRow, NEW w \in Workers, now \in Nat
  PROVE  /\ Claimed(row, w) \in JobRow
         /\ Paused(row) \in JobRow
         /\ \A ok \in BOOLEAN : Completed(row, ok) \in JobRow
<1>0. 0 \in 0 .. Lease /\ Lease \in 0 .. Lease /\ row.gen + 1 \in Nat
  BY QueueSettings DEF JobRow
<1>1. Claimed(row, w) \in JobRow
  BY <1>0 DEF Claimed, JobRow, Statuses
<1>2. Paused(row) \in JobRow
  BY <1>0 DEF Paused, JobRow, Statuses
<1>3. \A ok \in BOOLEAN : Completed(row, ok) \in JobRow
  BY <1>0 DEF Completed, JobRow, Statuses
<1> QED BY <1>1, <1>2, <1>3

\* A worker state of the right shape may replace the old one.
LEMMA BecomesType ==
  ASSUME TypeOK, NEW w \in Workers,
         NEW state \in WorkerState, NamesItsWork(state), Becomes(w, state)
  PROVE  /\ wk' \in [Workers -> WorkerState]
         /\ \A v \in Workers : NamesItsWork(wk[v])'
<1>1. wk' = [wk EXCEPT ![w] = state] /\ wk \in [Workers -> WorkerState]
  BY DEF Becomes, TypeOK
<1>2. \A v \in Workers : wk'[v] = IF v = w THEN state ELSE wk[v]
  BY <1>1
<1>3. ASSUME NEW v \in Workers PROVE NamesItsWork(wk[v])'
  <2>1. NamesItsWork(wk[v]) /\ NamesItsWork(state)
    BY DEF TypeOK
  <2> QED BY <1>2, <2>1 DEF NamesItsWork
<1> QED BY <1>1, <1>3

\* The states in which a worker is about to release its lock, or is idle.
LEMMA LeavingType ==
  ASSUME TypeOK, NEW w \in Workers, NEW todo \in SUBSET Entry,
         wk[w].pc \in {"locked", "run", "tx", "ended"}
  PROVE  /\ Leaving(w, todo) \in WorkerState
         /\ NamesItsWork(Leaving(w, todo))
<1>1. wk[w].src \in Sources
  BY SourcesAssumption DEF TypeOK, NamesItsWork
<1> QED
  BY <1>1, RecordTypes DEF Leaving, WorkerState, Idle, NamesItsWork, Stages

\* Init gives every variable a value of its type.
LEMMA InitType == Init => TypeOK
<1> SUFFICES ASSUME Init PROVE TypeOK
  OBVIOUS
<1> USE JobsAssumption DEF Init
<1>1. job \in [Jobs -> JobRow]
  BY RecordTypes
<1>2. wk \in [Workers -> WorkerState]
  BY RecordTypes
<1>3. source \in [Sources -> SourceRow]
  BY DEF SourceRow
<1>4. \A w \in Workers : NamesItsWork(wk[w])
  BY DEF Idle, NamesItsWork
<1> QED BY <1>1, <1>2, <1>3, <1>4 DEF TypeOK

\* Writing a row of the right shape keeps the type of sync_job.
LEMMA SetRowType ==
  ASSUME TypeOK, NEW j \in Jobs, NEW row \in JobRow, SetRow(j, row)
  PROVE  job' \in [Jobs -> JobRow]
BY DEF SetRow, TypeOK

-----------------------------------------------------------------------------
\* Every step keeps the types.
LEMMA NextType == TypeOK /\ [Next]_vars => TypeOK'
<1> SUFFICES ASSUME TypeOK, [Next]_vars PROVE TypeOK'
  OBVIOUS
<1> USE DEF tables, env, Fault, NoFault
<1>0. \A w \in Workers : wk[w] \in WorkerState /\ NamesItsWork(wk[w])
  BY DEF TypeOK
<1>1. ASSUME NEW w \in Workers, StartRound(w) PROVE TypeOK'
  <2> DEFINE state == [Idle EXCEPT !.pc = "round", !.left = Scheduled, !.start = HostNow(w)]
  <2>1. state \in WorkerState /\ NamesItsWork(state)
    <3>1. HostNow(w) \in Nat
      BY ClockAssumption DEF TypeOK, HostNow
    <3>2. Scheduled \subseteq Sources
      BY SourcesAssumption
    <3> QED BY <3>1, <3>2, RecordTypes DEF Idle, WorkerState, NamesItsWork, Stages
  <2>2. Becomes(w, state)
    BY <1>1 DEF StartRound
  <2>3. wk' \in [Workers -> WorkerState] /\ \A v \in Workers : NamesItsWork(wk[v])'
    BY <2>1, <2>2, BecomesType
  <2> QED BY <1>1, <2>3 DEF TypeOK, StartRound
<1>2. ASSUME NEW w \in Workers, RoundFinish(w) PROVE TypeOK'
  <2> DEFINE state == [wk[w] EXCEPT !.pc = "round", !.src = NoWorker]
  <2>1. state \in WorkerState /\ NamesItsWork(state)
    BY <1>0, <1>2 DEF WorkerState, NamesItsWork, Stages, Outcomes, Causes, RoundFinish
  <2>2. Becomes(w, state)
    BY <1>2 DEF RoundFinish
  <2>3. wk' \in [Workers -> WorkerState] /\ \A v \in Workers : NamesItsWork(wk[v])'
    BY <2>1, <2>2, BecomesType
  <2>4. source' \in [Sources -> SourceRow]
    <3>1. wk[w].src \in Sources /\ wk[w].start \in Nat
      BY <1>0, <1>2 DEF RoundFinish, WorkerState, NamesItsWork
    <3>2. \A ok \in BOOLEAN :
            Marked(source[wk[w].src], IF ok THEN "SUCCESS" ELSE "FAILED",
                   wk[w].start, ok) \in SourceRow
      BY <3>1, MarkedType DEF TypeOK
    <3>3. \/ UNCHANGED source
          \/ \E ok \in BOOLEAN :
               source' = [source EXCEPT ![wk[w].src] =
                 Marked(@, IF ok THEN "SUCCESS" ELSE "FAILED", wk[w].start, ok)]
      BY <1>2, Zenon DEF RoundFinish
    <3> QED BY <3>1, <3>2, <3>3 DEF TypeOK
  <2>5. faults' \in Nat
    <3>1. faults' = faults \/ faults' = faults + 1
      BY <1>2, Zenon DEF RoundFinish
    <3> QED BY <3>1 DEF TypeOK
  <2>6. /\ lock' \in [Sources -> Workers \cup {NoWorker}]
        /\ UNCHANGED <<job, recovered, dim, rowLock, claimant, now, licensed>>
    BY <1>2 DEF RoundFinish, TypeOK
  <2> QED BY <2>3, <2>4, <2>5, <2>6 DEF TypeOK
<1>3. ASSUME NEW w \in Workers, RoundEnd(w) PROVE TypeOK'
  <2> DEFINE state == [Idle EXCEPT !.pc = "due"]
  <2>1. state \in WorkerState /\ NamesItsWork(state)
    BY <1>0, <1>3, RecordTypes DEF WorkerState, NamesItsWork, Stages, Outcomes, Causes, RoundEnd, Idle
  <2>2. Becomes(w, state)
    BY <1>3 DEF RoundEnd
  <2>3. wk' \in [Workers -> WorkerState] /\ \A v \in Workers : NamesItsWork(wk[v])'
    BY <2>1, <2>2, BecomesType
  <2> QED BY <1>3, <2>3 DEF TypeOK, RoundEnd
<1>4. ASSUME NEW w \in Workers, NEW s \in Sources, RoundTake(w, s) PROVE TypeOK'
  <2> DEFINE state == [wk[w] EXCEPT !.pc = "sync", !.src = s, !.left = @ \ {s}]
  <2>1. state \in WorkerState /\ NamesItsWork(state)
    BY <1>0, <1>4 DEF WorkerState, NamesItsWork, Stages, Outcomes, Causes, RoundTake
  <2>2. Becomes(w, state)
    BY <1>4 DEF RoundTake
  <2>3. wk' \in [Workers -> WorkerState] /\ \A v \in Workers : NamesItsWork(wk[v])'
    BY <2>1, <2>2, BecomesType
  <2>4. source' \in [Sources -> SourceRow]
    <3>1. wk[w].start \in Nat /\ source[s] \in SourceRow
      BY <1>0 DEF TypeOK, WorkerState
    <3>2. Marked(source[s], "RUNNING", wk[w].start, FALSE) \in SourceRow
      BY <3>1, MarkedType
    <3>3. \/ UNCHANGED source
          \/ source' = [source EXCEPT ![s] = Marked(@, "RUNNING", wk[w].start, FALSE)]
      BY <1>4, Zenon DEF RoundTake
    <3> QED BY <3>2, <3>3 DEF TypeOK
  <2>5. faults' \in Nat
    <3>1. faults' = faults \/ faults' = faults + 1
      BY <1>4, Zenon DEF RoundTake
    <3> QED BY <3>1 DEF TypeOK
  <2>6. /\ lock' \in [Sources -> Workers \cup {NoWorker}]
        /\ UNCHANGED <<job, recovered, dim, rowLock, claimant, now, licensed>>
    BY <1>4 DEF RoundTake, TypeOK
  <2> QED BY <2>3, <2>4, <2>5, <2>6 DEF TypeOK
<1>5. ASSUME NEW w \in Workers, NEW s \in Sources, RoundSkip(w, s) PROVE TypeOK'
  <2> DEFINE state == [wk[w] EXCEPT !.left = @ \ {s}]
  <2>1. state \in WorkerState /\ NamesItsWork(state)
    BY <1>0, <1>5 DEF WorkerState, NamesItsWork, Stages, Outcomes, Causes, RoundSkip
  <2>2. Becomes(w, state)
    BY <1>5 DEF RoundSkip
  <2>3. wk' \in [Workers -> WorkerState] /\ \A v \in Workers : NamesItsWork(wk[v])'
    BY <2>1, <2>2, BecomesType
  <2> QED BY <1>5, <2>3 DEF TypeOK, RoundSkip
<1>6. ASSUME NEW w \in Workers, AbortPass(w) PROVE TypeOK'
  <2> DEFINE state == Idle
  <2>1. state \in WorkerState /\ NamesItsWork(state)
    BY <1>0, <1>6, RecordTypes DEF WorkerState, NamesItsWork, Stages, Outcomes, Causes, AbortPass, Idle
  <2>2. Becomes(w, state)
    BY <1>6 DEF AbortPass
  <2>3. wk' \in [Workers -> WorkerState] /\ \A v \in Workers : NamesItsWork(wk[v])'
    BY <2>1, <2>2, BecomesType
  <2> QED BY <1>6, <2>3 DEF TypeOK, AbortPass
<1>7. ASSUME NEW w \in Workers, PassEnd(w) PROVE TypeOK'
  <2> DEFINE state == Idle
  <2>1. state \in WorkerState /\ NamesItsWork(state)
    BY <1>0, <1>7, RecordTypes DEF WorkerState, NamesItsWork, Stages, Outcomes, Causes, PassEnd, Idle
  <2>2. Becomes(w, state)
    BY <1>7 DEF PassEnd
  <2>3. wk' \in [Workers -> WorkerState] /\ \A v \in Workers : NamesItsWork(wk[v])'
    BY <2>1, <2>2, BecomesType
  <2> QED BY <1>7, <2>3 DEF TypeOK, PassEnd
<1>8. ASSUME NEW w \in Workers, Claim(w) PROVE TypeOK'
  <2> DEFINE state == [wk[w] EXCEPT !.pc = "run", !.gen = @ + 1]
  <2>1. state \in WorkerState /\ NamesItsWork(state)
    <3>1. wk[w].gen \in Nat /\ wk[w].gen + 1 \in Nat /\ wk[w].pc = "locked"
      BY <1>0, <1>8 DEF Claim, WorkerState
    <3> QED BY <1>0, <3>1 DEF WorkerState, NamesItsWork, Stages
  <2>2. Becomes(w, state)
    BY <1>8 DEF Claim
  <2>3. wk' \in [Workers -> WorkerState] /\ \A v \in Workers : NamesItsWork(wk[v])'
    BY <2>1, <2>2, BecomesType
  <2> QED BY <1>8, <2>3, SetRowType, RowTypes, SourcesAssumption DEF TypeOK, Claim, WorkerState, NamesItsWork
<1>9. ASSUME NEW w \in Workers, ClaimMissed(w) PROVE TypeOK'
  <2> DEFINE state == Leaving(w, wk[w].todo)
  <2>0. wk[w].todo \in SUBSET Entry BY DEF TypeOK, WorkerState
  <2>1. state \in WorkerState /\ NamesItsWork(state)
    BY <1>0, <1>9, <2>0, LeavingType DEF ClaimMissed
  <2>2. Becomes(w, state)
    BY <1>9 DEF ClaimMissed
  <2>3. wk' \in [Workers -> WorkerState] /\ \A v \in Workers : NamesItsWork(wk[v])'
    BY <2>1, <2>2, BecomesType
  <2> QED BY <1>9, <2>3 DEF TypeOK, ClaimMissed
<1>10. ASSUME NEW w \in Workers, ClaimError(w) PROVE TypeOK'
  <2> DEFINE state == Leaving(w, {})
  <2>0. wk[w].todo \in SUBSET Entry BY DEF TypeOK, WorkerState
  <2>1. state \in WorkerState /\ NamesItsWork(state)
    BY <1>0, <1>10, <2>0, LeavingType DEF ClaimError
  <2>2. Becomes(w, state)
    BY <1>10 DEF ClaimError
  <2>3. wk' \in [Workers -> WorkerState] /\ \A v \in Workers : NamesItsWork(wk[v])'
    BY <2>1, <2>2, BecomesType
  <2> QED BY <1>10, <2>3 DEF TypeOK, ClaimError
<1>11. ASSUME NEW w \in Workers, WriteBegin(w) PROVE TypeOK'
  <2> DEFINE state == [wk[w] EXCEPT !.pc = "tx"]
  <2>1. state \in WorkerState /\ NamesItsWork(state)
    BY <1>0, <1>11 DEF WorkerState, NamesItsWork, Stages, Outcomes, Causes, WriteBegin
  <2>2. Becomes(w, state)
    BY <1>11 DEF WriteBegin
  <2>3. wk' \in [Workers -> WorkerState] /\ \A v \in Workers : NamesItsWork(wk[v])'
    BY <2>1, <2>2, BecomesType
  <2> QED BY <1>11, <2>3 DEF TypeOK, WriteBegin, NamesItsWork
<1>12. ASSUME NEW w \in Workers, WriteRefused(w) PROVE TypeOK'
  <2> DEFINE state == [wk[w] EXCEPT !.pc = "ended", !.outcome = "lost"]
  <2>1. state \in WorkerState /\ NamesItsWork(state)
    BY <1>0, <1>12 DEF WorkerState, NamesItsWork, Stages, Outcomes, Causes, WriteRefused
  <2>2. Becomes(w, state)
    BY <1>12 DEF WriteRefused
  <2>3. wk' \in [Workers -> WorkerState] /\ \A v \in Workers : NamesItsWork(wk[v])'
    BY <2>1, <2>2, BecomesType
  <2> QED BY <1>12, <2>3 DEF TypeOK, WriteRefused
<1>13. ASSUME NEW w \in Workers, WriteCommit(w) PROVE TypeOK'
  <2> DEFINE state == [wk[w] EXCEPT !.pc = "run"]
  <2>1. state \in WorkerState /\ NamesItsWork(state)
    BY <1>0, <1>13 DEF WorkerState, NamesItsWork, Stages, Outcomes, Causes, WriteCommit
  <2>2. Becomes(w, state)
    BY <1>13 DEF WriteCommit
  <2>3. wk' \in [Workers -> WorkerState] /\ \A v \in Workers : NamesItsWork(wk[v])'
    BY <2>1, <2>2, BecomesType
  <2> QED BY <1>13, <2>3 DEF TypeOK, WriteCommit, NamesItsWork, WorkerState
<1>14. ASSUME NEW w \in Workers, BeatFails(w) PROVE TypeOK'
  <2> DEFINE state == [wk[w] EXCEPT !.cause = "beat"]
  <2>1. state \in WorkerState /\ NamesItsWork(state)
    BY <1>0, <1>14 DEF WorkerState, NamesItsWork, Stages, Outcomes, Causes, BeatFails, Beating
  <2>2. Becomes(w, state)
    BY <1>14 DEF BeatFails
  <2>3. wk' \in [Workers -> WorkerState] /\ \A v \in Workers : NamesItsWork(wk[v])'
    BY <2>1, <2>2, BecomesType
  <2> QED BY <1>14, <2>3 DEF TypeOK, BeatFails
<1>15. ASSUME NEW w \in Workers, Abandon(w) PROVE TypeOK'
  <2> DEFINE state == Leaving(w, {})
  <2>0. wk[w].todo \in SUBSET Entry BY DEF TypeOK, WorkerState
  <2>1. state \in WorkerState /\ NamesItsWork(state)
    BY <1>0, <1>15, <2>0, LeavingType DEF Abandon
  <2>2. Becomes(w, state)
    BY <1>15 DEF Abandon
  <2>3. wk' \in [Workers -> WorkerState] /\ \A v \in Workers : NamesItsWork(wk[v])'
    BY <2>1, <2>2, BecomesType
  <2> QED BY <1>15, <2>3 DEF TypeOK, Abandon
<1>16. ASSUME NEW w \in Workers, Finish(w) PROVE TypeOK'
  <2> DEFINE state == Leaving(w, wk[w].todo)
  <2>0. wk[w].todo \in SUBSET Entry BY DEF TypeOK, WorkerState
  <2>1. state \in WorkerState /\ NamesItsWork(state)
    BY <1>0, <1>16, <2>0, LeavingType DEF Finish, MayFinish
  <2>2. Becomes(w, state)
    BY <1>16 DEF Finish
  <2>3. wk' \in [Workers -> WorkerState] /\ \A v \in Workers : NamesItsWork(wk[v])'
    BY <2>1, <2>2, BecomesType
  <2> QED BY <1>16, <2>3, SetRowType, RowTypes, MarkedType, SourcesAssumption DEF TypeOK, Finish, MayFinish, NamesItsWork, JobRow
<1>17. ASSUME NEW w \in Workers, Pause(w) PROVE TypeOK'
  <2> DEFINE state == Leaving(w, {})
  <2>0. wk[w].todo \in SUBSET Entry BY DEF TypeOK, WorkerState
  <2>1. state \in WorkerState /\ NamesItsWork(state)
    BY <1>0, <1>17, <2>0, LeavingType DEF Pause, MayFinish
  <2>2. Becomes(w, state)
    BY <1>17 DEF Pause
  <2>3. wk' \in [Workers -> WorkerState] /\ \A v \in Workers : NamesItsWork(wk[v])'
    BY <2>1, <2>2, BecomesType
  <2> QED BY <1>17, <2>3, SetRowType, RowTypes DEF TypeOK, Pause, MayFinish, NamesItsWork
<1>18. ASSUME NEW w \in Workers, FinishFails(w) PROVE TypeOK'
  <2> DEFINE state == Leaving(w, {})
  <2>0. wk[w].todo \in SUBSET Entry BY DEF TypeOK, WorkerState
  <2>1. state \in WorkerState /\ NamesItsWork(state)
    BY <1>0, <1>18, <2>0, LeavingType DEF FinishFails, MayFinish
  <2>2. Becomes(w, state)
    BY <1>18 DEF FinishFails
  <2>3. wk' \in [Workers -> WorkerState] /\ \A v \in Workers : NamesItsWork(wk[v])'
    BY <2>1, <2>2, BecomesType
  <2> QED BY <1>18, <2>3 DEF TypeOK, FinishFails
<1>19. ASSUME NEW w \in Workers, Release(w) PROVE TypeOK'
  <2> DEFINE state == [Idle EXCEPT !.pc = "pass", !.todo = wk[w].todo]
  <2>1. state \in WorkerState /\ NamesItsWork(state)
    BY <1>0, <1>19, RecordTypes DEF WorkerState, NamesItsWork, Stages, Outcomes, Causes, Release, Idle
  <2>2. Becomes(w, state)
    BY <1>19 DEF Release
  <2>3. wk' \in [Workers -> WorkerState] /\ \A v \in Workers : NamesItsWork(wk[v])'
    BY <2>1, <2>2, BecomesType
  <2> QED BY <1>19, <2>3 DEF TypeOK, Release
<1>20. ASSUME NEW w \in Workers, Crash(w) PROVE TypeOK'
  <2> DEFINE state == Idle
  <2>1. state \in WorkerState /\ NamesItsWork(state)
    BY <1>0, <1>20, RecordTypes DEF WorkerState, NamesItsWork, Stages, Outcomes, Causes, Crash, Idle
  <2>2. Becomes(w, state)
    BY <1>20 DEF Crash
  <2>3. wk' \in [Workers -> WorkerState] /\ \A v \in Workers : NamesItsWork(wk[v])'
    BY <2>1, <2>2, BecomesType
  <2> QED BY <1>20, <2>3 DEF TypeOK, Crash
<1>21. ASSUME NEW w \in Workers, RoundWrite(w) PROVE TypeOK'
  BY <1>21 DEF TypeOK, NamesItsWork, RoundWrite
<1>22. ASSUME NEW w \in Workers, StartQueue(w) PROVE TypeOK'
  <2> DEFINE list == {[job |-> j, gen |-> job[j].gen] : j \in Listed}
  <2> DEFINE state == IF licensed THEN [Idle EXCEPT !.pc = "pass", !.todo = list]
                                  ELSE Idle
  <2>1. list \in SUBSET Entry
    <3>1. \A j \in Listed : j \in Jobs /\ job[j] \in JobRow
      BY DEF TypeOK, Listed
    <3>2. \A j \in Listed : [job |-> j, gen |-> job[j].gen] \in Entry
      BY <3>1 DEF JobRow, Entry
    <3> QED BY <3>2
  <2>2. state \in WorkerState /\ NamesItsWork(state)
    BY <2>1, RecordTypes DEF Idle, WorkerState, NamesItsWork, Stages
  <2>3. Becomes(w, state)
    BY <1>22 DEF StartQueue
  <2>4. wk' \in [Workers -> WorkerState] /\ \A v \in Workers : NamesItsWork(wk[v])'
    BY <2>2, <2>3, BecomesType
  <2> QED BY <1>22, <2>4 DEF TypeOK, StartQueue
<1>23. ASSUME NEW w \in Workers, TryLock(w) PROVE TypeOK'
  <2>1. PICK e \in First(w) :
          /\ lock' = [lock EXCEPT ![SourceOf[e.job]] = w]
          /\ Becomes(w, [wk[w] EXCEPT !.pc = "locked", !.todo = @ \ {e},
                           !.job = e.job, !.gen = e.gen, !.src = SourceOf[e.job]])
    BY <1>23 DEF TryLock
  <2> DEFINE state == [wk[w] EXCEPT !.pc = "locked", !.todo = @ \ {e},
                         !.job = e.job, !.gen = e.gen, !.src = SourceOf[e.job]]
  <2>2. e.job \in Jobs /\ e.gen \in Nat /\ SourceOf[e.job] \in Sources
    BY SourcesAssumption DEF First, TypeOK, WorkerState, Entry
  <2>3. state \in WorkerState /\ NamesItsWork(state)
    <3>1. wk[w] \in WorkerState /\ wk[w].todo \ {e} \in SUBSET Entry
      BY <1>0 DEF WorkerState
    <3>2. state \in WorkerState
      BY <2>2, <3>1 DEF WorkerState, Stages
    <3>3. state.pc = "locked" /\ state.job = e.job /\ state.src = SourceOf[e.job]
      BY <3>1 DEF WorkerState
    <3> QED BY <2>2, <3>2, <3>3 DEF NamesItsWork
  <2>4. wk' \in [Workers -> WorkerState] /\ \A v \in Workers : NamesItsWork(wk[v])'
    BY <2>1, <2>3, BecomesType
  <2> QED BY <1>23, <2>1, <2>2, <2>4 DEF TypeOK, TryLock
<1>24. ASSUME NEW w \in Workers, SkipJob(w) PROVE TypeOK'
  <2>1. PICK e \in First(w) : Becomes(w, [wk[w] EXCEPT !.todo = @ \ {e}])
    BY <1>24 DEF SkipJob
  <2> DEFINE state == [wk[w] EXCEPT !.todo = @ \ {e}]
  <2>2. state \in WorkerState /\ NamesItsWork(state)
    BY DEF TypeOK, WorkerState, NamesItsWork
  <2>3. wk' \in [Workers -> WorkerState] /\ \A v \in Workers : NamesItsWork(wk[v])'
    BY <2>1, <2>2, BecomesType
  <2> QED BY <1>24, <2>3 DEF TypeOK, SkipJob
<1>25. ASSUME NEW w \in Workers, WriteRollback(w) PROVE TypeOK'
  <2>1. PICK p \in {"run", "ended"}, o \in {wk[w].outcome, "lost", "error"} :
          Becomes(w, [wk[w] EXCEPT !.pc = p, !.outcome = o])
    <3>1. [wk[w] EXCEPT !.pc = "run"] = [wk[w] EXCEPT !.pc = "run", !.outcome = wk[w].outcome]
      BY DEF TypeOK, WorkerState
    <3> QED BY <1>25, <3>1 DEF WriteRollback
  <2> DEFINE state == [wk[w] EXCEPT !.pc = p, !.outcome = o]
  <2>2. state \in WorkerState /\ NamesItsWork(state)
    BY <1>0, <1>25 DEF WriteRollback, WorkerState, NamesItsWork, Stages, Outcomes
  <2>3. wk' \in [Workers -> WorkerState] /\ \A v \in Workers : NamesItsWork(wk[v])'
    BY <2>1, <2>2, BecomesType
  <2> QED BY <1>25, <2>3 DEF TypeOK, WriteRollback, NamesItsWork
<1>26. ASSUME NEW w \in Workers, RunEnds(w) PROVE TypeOK'
  <2>1. PICK o \in {"ok", "error"} : Becomes(w, [wk[w] EXCEPT !.pc = "ended", !.outcome = o])
    BY <1>26 DEF RunEnds
  <2> DEFINE state == [wk[w] EXCEPT !.pc = "ended", !.outcome = o]
  <2>2. state \in WorkerState /\ NamesItsWork(state)
    <3>1. wk[w] \in WorkerState /\ wk[w].job \in Jobs /\ wk[w].src = SourceOf[wk[w].job]
      BY <1>0, <1>26 DEF RunEnds, NamesItsWork
    <3>2. state \in WorkerState
      BY <3>1 DEF WorkerState, Stages, Outcomes
    <3>3. state.pc = "ended" /\ state.job = wk[w].job /\ state.src = wk[w].src
      BY <3>1 DEF WorkerState
    <3> QED BY <3>1, <3>2, <3>3 DEF NamesItsWork
  <2>3. wk' \in [Workers -> WorkerState] /\ \A v \in Workers : NamesItsWork(wk[v])'
    BY <2>1, <2>2, BecomesType
  <2> QED BY <1>26, <2>3 DEF TypeOK, RunEnds
<1>27. ASSUME NEW w \in Workers, Cancel(w) PROVE TypeOK'
  <2>1. PICK c \in {"timeout", "shutdown"} : Becomes(w, [wk[w] EXCEPT !.cause = c])
    BY <1>27 DEF Cancel
  <2> DEFINE state == [wk[w] EXCEPT !.cause = c]
  <2>2. state \in WorkerState /\ NamesItsWork(state)
    BY DEF TypeOK, WorkerState, NamesItsWork, Causes
  <2>3. wk' \in [Workers -> WorkerState] /\ \A v \in Workers : NamesItsWork(wk[v])'
    BY <2>1, <2>2, BecomesType
  <2> QED BY <1>27, <2>3 DEF TypeOK, Cancel
<1>28. ASSUME NEW w \in Workers, Renew(w) PROVE TypeOK'
  <2> DEFINE row == [job[wk[w].job] EXCEPT !.ttl = Lease]
  <2>1. wk[w].job \in Jobs
    BY <1>28 DEF Renew, Beating, TypeOK, NamesItsWork
  <2>2. row \in JobRow
    BY <2>1, QueueSettings DEF TypeOK, JobRow
  <2> QED BY <1>28, <2>1, <2>2, SetRowType DEF TypeOK, Renew, NamesItsWork
<1>29. ASSUME NEW j \in Jobs, CreateJob(j) PROVE TypeOK'
  <2> DEFINE row == [job[j] EXCEPT !.status = "QUEUED", !.active = TRUE]
  <2>1. row \in JobRow
    BY DEF TypeOK, JobRow, Statuses
  <2> QED BY <1>29, <2>1, SetRowType DEF TypeOK, CreateJob, NamesItsWork
<1>30. ASSUME NEW J \in SUBSET LegacyJobs, RecoverLegacy(J) PROVE TypeOK'
  <2>1. \A j \in Jobs : [job[j] EXCEPT !.status = "QUEUED", !.active = TRUE] \in JobRow
    BY DEF TypeOK, JobRow, Statuses
  <2>2. job' \in [Jobs -> JobRow]
    BY <1>30, <2>1 DEF RecoverLegacy, TypeOK
  <2> QED BY <1>30, <2>2, JobsAssumption DEF TypeOK, RecoverLegacy, NamesItsWork
<1>31. ASSUME NEW s \in Sources, DropSession(s) PROVE TypeOK'
  BY <1>31 DEF TypeOK, NamesItsWork, DropSession
<1>32. ASSUME LapseLicense PROVE TypeOK'
  <2>1. licensed' = FALSE /\ faults' = faults + 1
    BY <1>32, Zenon DEF LapseLicense
  <2>2. licensed' \in BOOLEAN
    BY <2>1, Zenon
  <2>3. faults' \in Nat
    BY <2>1 DEF TypeOK
  <2> QED BY <1>32, <2>2, <2>3 DEF TypeOK, NamesItsWork, LapseLicense
<1>33. ASSUME RenewLicense PROVE TypeOK'
  BY <1>33 DEF TypeOK, NamesItsWork, RenewLicense
<1>34. ASSUME Tick PROVE TypeOK'
  <2>1. \A j \in Jobs : [job[j] EXCEPT !.ttl = IF @ > 0 THEN @ - 1 ELSE 0] \in JobRow
    BY QueueSettings DEF TypeOK, JobRow
  <2>2. job' \in [Jobs -> JobRow]
    BY <1>34, <2>1 DEF Tick
  <2> QED BY <1>34, <2>2, ClockAssumption DEF TypeOK, Tick, NamesItsWork
<1>35. ASSUME UNCHANGED vars PROVE TypeOK'
  BY <1>35 DEF TypeOK, NamesItsWork, vars
<1> QED
  BY <1>1, <1>2, <1>3, <1>4, <1>5, <1>6, <1>7, <1>8, <1>9,
     <1>10, <1>11, <1>12, <1>13, <1>14, <1>15, <1>16, <1>17, <1>18,
     <1>19, <1>20, <1>21, <1>22, <1>23, <1>24, <1>25, <1>26, <1>27,
     <1>28, <1>29, <1>30, <1>31, <1>32, <1>33, <1>34, <1>35
     DEF Next, Round, QueuePass, Execute, Environment

\* Type correctness of every reachable state of SyncQueue.
THEOREM TypeCorrect == Spec => []TypeOK
BY InitType, NextType, PTL DEF Spec

-----------------------------------------------------------------------------
(* The queue's safety: an inductive invariant *)

\* None of the parts is inductive alone: that a claim leaves no other holder in
\* its source needs that an open job is the only one, which a claim keeps because
\* it takes an open job, which an unowned legacy row must never look like.
Inv ==
  /\ TypeOK
  /\ OneOpenJobPerSource
  /\ NoStrandedJob
  /\ HolderClaimedLast
  /\ LegacyNeedsAudit

Busy == {"run", "tx", "ended"}

\* A step that leaves the jobs alone, starts no run and revives no heartbeat.
Quiet ==
  /\ UNCHANGED <<job, recovered, claimant>>
  /\ \A v \in Workers :
       wk'[v].pc \in Busy =>
         /\ wk[v].pc \in Busy /\ wk'[v].job = wk[v].job /\ wk'[v].gen = wk[v].gen
         /\ wk'[v].cause = "none" => wk[v].cause = "none"

LEMMA QuietStep ==
  ASSUME Inv, Quiet, TypeOK'
  PROVE  Inv'
<1>1. OneOpenJobPerSource' /\ NoStrandedJob' /\ LegacyNeedsAudit'
  BY DEF Inv, Quiet, OneOpenJobPerSource, NoStrandedJob, LegacyNeedsAudit, LegacyRunning
<1>2. ASSUME NEW w \in Workers, Holds(w)' PROVE (claimant[SourceOf[wk[w].job]] = w)'
  <2>1. wk'[w].pc \in Busy /\ wk[w].pc \in Busy
        /\ wk'[w].job = wk[w].job /\ wk'[w].gen = wk[w].gen
    BY <1>2 DEF Holds, Quiet, Busy
  <2>2. Holds(w)
    BY <1>2, <2>1 DEF Holds, Quiet, Busy
  <2> QED BY <2>1, <2>2 DEF Inv, HolderClaimedLast, Quiet
<1> QED BY <1>1, <1>2 DEF Inv, HolderClaimedLast

\* One row is rewritten.  The row of an open job stays the only open one of its
\* source, and a row without a lease before and after has no holder.
LEMMA RowStep ==
  ASSUME Inv, TypeOK', NEW j \in Jobs, NEW row, SetRow(j, row),
         job[j].status \in Live \/ \A k \in Jobs : SourceOf[k] = SourceOf[j] => ~job[k].active,
         recovered' = recovered,
         row.status = "RUNNING" => row.owner # NoWorker,
         row.status # "RUNNING" => row.owner = NoWorker,
         row.owner = NoWorker => row.ttl = 0,
         row.status \in Live <=> row.active,
         j \in LegacyJobs => ~LegacyRunning(j)
  PROVE  (OneOpenJobPerSource /\ NoStrandedJob /\ LegacyNeedsAudit)'
<1>1. \A k \in Jobs : job'[k] = IF k = j THEN row ELSE job[k]
  BY DEF SetRow, Inv, TypeOK
<1>2. OneOpenJobPerSource'
  BY <1>1 DEF Inv, OneOpenJobPerSource, NoStrandedJob
<1>3. NoStrandedJob'
  BY <1>1 DEF Inv, NoStrandedJob
<1>4. LegacyNeedsAudit'
  BY <1>1, JobsAssumption DEF Inv, LegacyNeedsAudit, LegacyRunning
<1> QED BY <1>2, <1>3, <1>4

\* A worker that moves on without starting a run is a quiet step.
LEMMA BecomesQuiet ==
  ASSUME Inv, NEW w \in Workers, NEW state, Becomes(w, state),
         UNCHANGED <<job, recovered, claimant>>,
         state.pc \in Busy =>
           /\ wk[w].pc \in Busy /\ state.job = wk[w].job /\ state.gen = wk[w].gen
           /\ state.cause = "none" => wk[w].cause = "none"
  PROVE  Quiet
<1>1. \A v \in Workers : wk'[v] = IF v = w THEN state ELSE wk[v]
  BY DEF Becomes, Inv, TypeOK
<1> QED BY <1>1 DEF Quiet

\* Every step of a worker that does not rewrite a job is quiet.
LEMMA WorkerQuiet ==
  ASSUME Inv, NEW w \in Workers,
         Round(w) \/ QueuePass(w) \/ Execute(w) \/ Crash(w),
         ~Claim(w), ~Renew(w), ~Finish(w), ~Pause(w)
  PROVE  Quiet
<1> USE DEF tables, env
<1>0. wk[w] \in WorkerState /\ wk \in [Workers -> WorkerState]
  BY DEF Inv, TypeOK
<1>1. ASSUME StartRound(w) PROVE Quiet
  <2>1. UNCHANGED <<job, recovered, claimant>>
    BY <1>1 DEF StartRound
  <2>2. Becomes(w, [Idle EXCEPT !.pc = "round", !.left = Scheduled, !.start = HostNow(w)])
    BY <1>1 DEF StartRound
  <2> QED
    BY <1>0, <1>1, <2>1, <2>2, BecomesQuiet DEF Busy, Idle, Leaving, WorkerState
<1>2. ASSUME NEW s \in Sources, RoundTake(w, s) PROVE Quiet
  <2>1. UNCHANGED <<job, recovered, claimant>>
    BY <1>2 DEF RoundTake
  <2>2. Becomes(w, [wk[w] EXCEPT !.pc = "sync", !.src = s, !.left = @ \ {s}])
    BY <1>2 DEF RoundTake
  <2> QED
    BY <1>0, <1>2, <2>1, <2>2, BecomesQuiet DEF Busy, Idle, Leaving, WorkerState
<1>3. ASSUME NEW s \in Sources, RoundSkip(w, s) PROVE Quiet
  <2>1. UNCHANGED <<job, recovered, claimant>>
    BY <1>3 DEF RoundSkip
  <2>2. Becomes(w, [wk[w] EXCEPT !.left = @ \ {s}])
    BY <1>3 DEF RoundSkip
  <2> QED
    BY <1>0, <1>3, <2>1, <2>2, BecomesQuiet DEF Busy, Idle, Leaving, WorkerState, RoundSkip
<1>4. ASSUME RoundFinish(w) PROVE Quiet
  <2>1. UNCHANGED <<job, recovered, claimant>>
    BY <1>4 DEF RoundFinish
  <2>2. Becomes(w, [wk[w] EXCEPT !.pc = "round", !.src = NoWorker])
    BY <1>4 DEF RoundFinish
  <2> QED
    BY <1>0, <1>4, <2>1, <2>2, BecomesQuiet DEF Busy, Idle, Leaving, WorkerState
<1>5. ASSUME RoundEnd(w) PROVE Quiet
  <2>1. UNCHANGED <<job, recovered, claimant>>
    BY <1>5 DEF RoundEnd
  <2>2. Becomes(w, [Idle EXCEPT !.pc = "due"])
    BY <1>5 DEF RoundEnd
  <2> QED
    BY <1>0, <1>5, <2>1, <2>2, BecomesQuiet DEF Busy, Idle, Leaving, WorkerState
<1>6. ASSUME StartQueue(w) PROVE Quiet
  <2>1. UNCHANGED <<job, recovered, claimant>>
    BY <1>6 DEF StartQueue
  <2>2. PICK list : Becomes(w, IF licensed THEN [Idle EXCEPT !.pc = "pass", !.todo = list] ELSE Idle)
    BY <1>6 DEF StartQueue
  <2> QED
    BY <1>0, <1>6, <2>1, <2>2, BecomesQuiet DEF Busy, Idle, Leaving, WorkerState
<1>7. ASSUME TryLock(w) PROVE Quiet
  <2>1. UNCHANGED <<job, recovered, claimant>>
    BY <1>7 DEF TryLock
  <2>2. PICK e \in First(w) : Becomes(w, [wk[w] EXCEPT !.pc = "locked", !.todo = @ \ {e}, !.job = e.job, !.gen = e.gen, !.src = SourceOf[e.job]])
    BY <1>7 DEF TryLock
  <2> QED
    BY <1>0, <1>7, <2>1, <2>2, BecomesQuiet DEF Busy, Idle, Leaving, WorkerState
<1>8. ASSUME SkipJob(w) PROVE Quiet
  <2>1. UNCHANGED <<job, recovered, claimant>>
    BY <1>8 DEF SkipJob
  <2>2. PICK e \in First(w) : Becomes(w, [wk[w] EXCEPT !.todo = @ \ {e}])
    BY <1>8 DEF SkipJob
  <2> QED
    BY <1>0, <1>8, <2>1, <2>2, BecomesQuiet DEF Busy, Idle, Leaving, WorkerState, SkipJob
<1>9. ASSUME AbortPass(w) PROVE Quiet
  <2>1. UNCHANGED <<job, recovered, claimant>>
    BY <1>9 DEF AbortPass
  <2>2. Becomes(w, Idle)
    BY <1>9 DEF AbortPass
  <2> QED
    BY <1>0, <1>9, <2>1, <2>2, BecomesQuiet DEF Busy, Idle, Leaving, WorkerState
<1>10. ASSUME PassEnd(w) PROVE Quiet
  <2>1. UNCHANGED <<job, recovered, claimant>>
    BY <1>10 DEF PassEnd
  <2>2. Becomes(w, Idle)
    BY <1>10 DEF PassEnd
  <2> QED
    BY <1>0, <1>10, <2>1, <2>2, BecomesQuiet DEF Busy, Idle, Leaving, WorkerState
<1>11. ASSUME ClaimMissed(w) PROVE Quiet
  <2>1. UNCHANGED <<job, recovered, claimant>>
    BY <1>11 DEF ClaimMissed
  <2>2. Becomes(w, Leaving(w, wk[w].todo))
    BY <1>11 DEF ClaimMissed
  <2> QED
    BY <1>0, <1>11, <2>1, <2>2, BecomesQuiet DEF Busy, Idle, Leaving, WorkerState
<1>12. ASSUME ClaimError(w) PROVE Quiet
  <2>1. UNCHANGED <<job, recovered, claimant>>
    BY <1>12 DEF ClaimError
  <2>2. Becomes(w, Leaving(w, {}))
    BY <1>12 DEF ClaimError
  <2> QED
    BY <1>0, <1>12, <2>1, <2>2, BecomesQuiet DEF Busy, Idle, Leaving, WorkerState
<1>13. ASSUME WriteBegin(w) PROVE Quiet
  <2>1. UNCHANGED <<job, recovered, claimant>>
    BY <1>13 DEF WriteBegin
  <2>2. Becomes(w, [wk[w] EXCEPT !.pc = "tx"])
    BY <1>13 DEF WriteBegin
  <2> QED
    BY <1>0, <1>13, <2>1, <2>2, BecomesQuiet DEF Busy, Idle, Leaving, WorkerState, WriteBegin
<1>14. ASSUME WriteRefused(w) PROVE Quiet
  <2>1. UNCHANGED <<job, recovered, claimant>>
    BY <1>14 DEF WriteRefused
  <2>2. Becomes(w, [wk[w] EXCEPT !.pc = "ended", !.outcome = "lost"])
    BY <1>14 DEF WriteRefused
  <2> QED
    BY <1>0, <1>14, <2>1, <2>2, BecomesQuiet DEF Busy, Idle, Leaving, WorkerState, WriteRefused
<1>15. ASSUME WriteCommit(w) PROVE Quiet
  <2>1. UNCHANGED <<job, recovered, claimant>>
    BY <1>15 DEF WriteCommit
  <2>2. Becomes(w, [wk[w] EXCEPT !.pc = "run"])
    BY <1>15 DEF WriteCommit
  <2> QED
    BY <1>0, <1>15, <2>1, <2>2, BecomesQuiet DEF Busy, Idle, Leaving, WorkerState, WriteCommit
<1>16. ASSUME WriteRollback(w) PROVE Quiet
  <2>1. UNCHANGED <<job, recovered, claimant>>
    BY <1>16 DEF WriteRollback
  <2>2. PICK state : Becomes(w, state) /\ \E o : \/ state = [wk[w] EXCEPT !.pc = "run"] \/ state = [wk[w] EXCEPT !.pc = "ended", !.outcome = o]
    BY <1>16 DEF WriteRollback
  <2> QED
    BY <1>0, <1>16, <2>1, <2>2, BecomesQuiet DEF Busy, Idle, Leaving, WorkerState, WriteRollback
<1>17. ASSUME RunEnds(w) PROVE Quiet
  <2>1. UNCHANGED <<job, recovered, claimant>>
    BY <1>17 DEF RunEnds
  <2>2. PICK o : Becomes(w, [wk[w] EXCEPT !.pc = "ended", !.outcome = o])
    BY <1>17 DEF RunEnds
  <2> QED
    BY <1>0, <1>17, <2>1, <2>2, BecomesQuiet DEF Busy, Idle, Leaving, WorkerState, RunEnds
<1>18. ASSUME BeatFails(w) PROVE Quiet
  <2>1. UNCHANGED <<job, recovered, claimant>>
    BY <1>18 DEF BeatFails
  <2>2. Becomes(w, [wk[w] EXCEPT !.cause = "beat"])
    BY <1>18 DEF BeatFails
  <2> QED
    BY <1>0, <1>18, <2>1, <2>2, BecomesQuiet DEF Busy, Idle, Leaving, WorkerState, BeatFails, Beating
<1>19. ASSUME Cancel(w) PROVE Quiet
  <2>1. UNCHANGED <<job, recovered, claimant>>
    BY <1>19 DEF Cancel
  <2>2. PICK c : Becomes(w, [wk[w] EXCEPT !.cause = c])
    BY <1>19 DEF Cancel
  <2> QED
    BY <1>0, <1>19, <2>1, <2>2, BecomesQuiet DEF Busy, Idle, Leaving, WorkerState, Cancel, Beating
<1>20. ASSUME Abandon(w) PROVE Quiet
  <2>1. UNCHANGED <<job, recovered, claimant>>
    BY <1>20 DEF Abandon
  <2>2. Becomes(w, Leaving(w, {}))
    BY <1>20 DEF Abandon
  <2> QED
    BY <1>0, <1>20, <2>1, <2>2, BecomesQuiet DEF Busy, Idle, Leaving, WorkerState
<1>21. ASSUME FinishFails(w) PROVE Quiet
  <2>1. UNCHANGED <<job, recovered, claimant>>
    BY <1>21 DEF FinishFails
  <2>2. Becomes(w, Leaving(w, {}))
    BY <1>21 DEF FinishFails
  <2> QED
    BY <1>0, <1>21, <2>1, <2>2, BecomesQuiet DEF Busy, Idle, Leaving, WorkerState
<1>22. ASSUME Release(w) PROVE Quiet
  <2>1. UNCHANGED <<job, recovered, claimant>>
    BY <1>22 DEF Release
  <2>2. Becomes(w, [Idle EXCEPT !.pc = "pass", !.todo = wk[w].todo])
    BY <1>22 DEF Release
  <2> QED
    BY <1>0, <1>22, <2>1, <2>2, BecomesQuiet DEF Busy, Idle, Leaving, WorkerState
<1>23. ASSUME Crash(w) PROVE Quiet
  <2>1. UNCHANGED <<job, recovered, claimant>>
    BY <1>23 DEF Crash
  <2>2. Becomes(w, Idle)
    BY <1>23 DEF Crash
  <2> QED
    BY <1>0, <1>23, <2>1, <2>2, BecomesQuiet DEF Busy, Idle, Leaving, WorkerState
<1>24. ASSUME RoundWrite(w) PROVE Quiet
  BY <1>24 DEF RoundWrite, Quiet
<1> QED
  BY <1>1, <1>2, <1>3, <1>4, <1>5, <1>6, <1>7, <1>8, <1>9,
     <1>10, <1>11, <1>12, <1>13, <1>14, <1>15, <1>16, <1>17, <1>18,
     <1>19, <1>20, <1>21, <1>22, <1>23, <1>24
     DEF Round, QueuePass, Execute

\* A claim replaces the last claimant of its source, and nobody else holds a
\* lease there: the holder's job would be a second open one.
LEMMA ClaimKeepsInv ==
  ASSUME Inv, TypeOK', NEW w \in Workers, Claim(w)
  PROVE  Inv'
<1> DEFINE j == wk[w].job
<1> DEFINE row == Claimed(job[j], w)
<1>1. j \in Jobs /\ job[j] \in JobRow /\ SourceOf[j] \in Sources
  BY SourcesAssumption DEF Claim, Inv, TypeOK, NamesItsWork
<1>2. /\ SetRow(j, row) /\ MayClaim(w)
      /\ recovered' = recovered
      /\ claimant' = [claimant EXCEPT ![SourceOf[j]] = w]
      /\ Becomes(w, [wk[w] EXCEPT !.pc = "run", !.gen = @ + 1])
  BY DEF Claim
<1>3. row.status = "RUNNING" /\ row.active /\ row.owner = w
  BY <1>1, Zenon DEF Claimed, JobRow
<1>4. job[j].status \in Live /\ (job[j].status = "RUNNING" => job[j].owner # NoWorker)
  BY <1>2 DEF MayClaim, Claimable, Live
<1>5. OneOpenJobPerSource' /\ NoStrandedJob' /\ LegacyNeedsAudit'
  BY <1>1, <1>2, <1>3, <1>4, RowStep, WorkersAssumption DEF Live, LegacyRunning
<1>6. ASSUME NEW v \in Workers, Holds(v)' PROVE (claimant[SourceOf[wk[v].job]] = v)'
  <2>1. wk' = [wk EXCEPT ![w] = [wk[w] EXCEPT !.pc = "run", !.gen = @ + 1]]
        /\ wk \in [Workers -> WorkerState]
    BY <1>2 DEF Becomes, Inv, TypeOK
  <2>2. wk'[v].job = wk[v].job
    BY <2>1 DEF WorkerState
  <2>3. CASE v = w
    BY <1>1, <1>2, <2>2, <2>3 DEF Inv, TypeOK
  <2>4. CASE v # w
    <3>1. wk'[v] = wk[v] /\ wk[v].pc \in Busy /\ wk[v].job \in Jobs
      BY <2>1, <2>4, <1>6 DEF Holds, Busy, Inv, TypeOK, NamesItsWork
    <3>2. wk[v].job # j
      BY <1>1, <1>2, <1>3, <1>6, <2>4, <3>1 DEF Holds, SetRow, Inv, TypeOK
    <3>3. job'[wk[v].job] = job[wk[v].job]
      BY <1>2, <3>1, <3>2 DEF SetRow, Inv, TypeOK
    <3>4. Holds(v) /\ job[wk[v].job].status \in Live
      BY <1>6, <3>1, <3>3 DEF Holds, Live, Busy
    <3>5. SourceOf[wk[v].job] # SourceOf[j]
      BY <1>1, <1>4, <3>1, <3>2, <3>4 DEF Inv, OneOpenJobPerSource
    <3> QED
      BY <1>2, <2>2, <3>1, <3>4, <3>5 DEF Inv, HolderClaimedLast, TypeOK
  <2> QED BY <2>3, <2>4
<1> QED BY <1>5, <1>6 DEF Inv, HolderClaimedLast

\* A row that is rewritten without a claim gains no holder.
LEMMA RewriteKeepsHolders ==
  ASSUME Inv, UNCHANGED claimant,
         \A k \in Jobs :
           job'[k].status = "RUNNING" =>
             job[k].status = "RUNNING" /\ job'[k].owner = job[k].owner
             /\ job'[k].gen = job[k].gen,
         \A v \in Workers :
           wk'[v].pc \in Busy =>
             wk[v].pc \in Busy /\ wk'[v].job = wk[v].job /\ wk'[v].gen = wk[v].gen
  PROVE  HolderClaimedLast'
<1> SUFFICES ASSUME NEW v \in Workers, Holds(v)'
             PROVE  (claimant[SourceOf[wk[v].job]] = v)'
  BY DEF HolderClaimedLast
<1>1. wk[v].pc \in Busy /\ wk'[v].job = wk[v].job /\ wk'[v].gen = wk[v].gen
  BY DEF Holds, Busy
<1>2. wk[v].job \in Jobs
  BY <1>1 DEF Busy, Inv, TypeOK, NamesItsWork
<1>3. Holds(v)
  BY <1>1, <1>2 DEF Holds, Busy
<1> QED BY <1>1, <1>3 DEF Inv, HolderClaimedLast

\* What a worker that runs a job knows about its row.
LEMMA HeldRow ==
  ASSUME Inv, NEW w \in Workers, LeaseValid(w)
  PROVE  /\ wk[w].job \in Jobs /\ job[wk[w].job] \in JobRow
         /\ job[wk[w].job].status = "RUNNING" /\ job[wk[w].job].owner = w
         /\ job[wk[w].job].active /\ ~LegacyRunning(wk[w].job)
BY WorkersAssumption
   DEF LeaseValid, Holds, Inv, TypeOK, NamesItsWork, NoStrandedJob, Live, LegacyRunning

LEMMA RenewKeepsInv ==
  ASSUME Inv, TypeOK', NEW w \in Workers, Renew(w)
  PROVE  Inv'
<1> DEFINE j == wk[w].job
<1> DEFINE row == [job[j] EXCEPT !.ttl = Lease]
<1>1. SetRow(j, row) /\ LeaseValid(w) /\ UNCHANGED <<recovered, claimant, wk>>
  BY DEF Renew
<1>2. row.status = "RUNNING" /\ row.owner = w /\ row.active /\ row.gen = job[j].gen
  BY <1>1, HeldRow DEF JobRow
<1>3. OneOpenJobPerSource' /\ NoStrandedJob' /\ LegacyNeedsAudit'
  BY <1>1, <1>2, HeldRow, RowStep, WorkersAssumption DEF Live
<1>4. \A k \in Jobs : job'[k].status = "RUNNING" =>
        job[k].status = "RUNNING" /\ job'[k].owner = job[k].owner
        /\ job'[k].gen = job[k].gen
  BY <1>1, <1>2, HeldRow DEF SetRow, Inv, TypeOK
<1>5. HolderClaimedLast'
  BY <1>1, <1>4, RewriteKeepsHolders
<1> QED BY <1>3, <1>5 DEF Inv

\* A worker gives its job up, done or to be queued again.
LEMMA LeaveKeepsInv ==
  ASSUME Inv, TypeOK', NEW w \in Workers, LeaseValid(w), NEW row, NEW todo,
         row.status \in {"QUEUED", "SUCCESS", "FAILED"}, row.owner = NoWorker,
         row.ttl = 0, row.status \in Live <=> row.active,
         SetRow(wk[w].job, row), Becomes(w, Leaving(w, todo)),
         UNCHANGED <<recovered, claimant>>
  PROVE  Inv'
<1> DEFINE j == wk[w].job
<1>1. OneOpenJobPerSource' /\ NoStrandedJob' /\ LegacyNeedsAudit'
  BY HeldRow, RowStep, WorkersAssumption DEF Live
<1>2. \A k \in Jobs : job'[k].status = "RUNNING" =>
        job[k].status = "RUNNING" /\ job'[k].owner = job[k].owner
        /\ job'[k].gen = job[k].gen
  BY HeldRow DEF SetRow, Inv, TypeOK
<1>3. \A v \in Workers : wk'[v].pc \in Busy =>
        wk[v].pc \in Busy /\ wk'[v].job = wk[v].job /\ wk'[v].gen = wk[v].gen
  <2>1. Leaving(w, todo).pc = "release"
    BY DEF Leaving, Idle
  <2>2. \A v \in Workers : wk'[v] = IF v = w THEN Leaving(w, todo) ELSE wk[v]
    BY DEF Becomes, Inv, TypeOK
  <2> QED BY <2>1, <2>2 DEF Busy
<1>4. HolderClaimedLast'
  BY <1>2, <1>3, RewriteKeepsHolders
<1> QED BY <1>1, <1>4 DEF Inv

LEMMA FinishKeepsInv ==
  ASSUME Inv, TypeOK', NEW w \in Workers, Finish(w)
  PROVE  Inv'
<1> DEFINE row == Completed(job[wk[w].job], wk[w].outcome = "ok")
<1>1. /\ LeaseValid(w) /\ SetRow(wk[w].job, row)
      /\ Becomes(w, Leaving(w, wk[w].todo)) /\ UNCHANGED <<recovered, claimant>>
  BY DEF Finish
<1>2. /\ row.status \in {"SUCCESS", "FAILED"} /\ row.owner = NoWorker
      /\ row.ttl = 0
  BY <1>1, HeldRow DEF Completed, JobRow
<1>3. ~row.active
  BY <1>1, HeldRow DEF Completed, JobRow
<1>4. row.status \in {"QUEUED", "SUCCESS", "FAILED"} /\ (row.status \in Live <=> row.active)
  BY <1>2, <1>3 DEF Live
<1> QED BY <1>1, <1>2, <1>4, LeaveKeepsInv

LEMMA PauseKeepsInv ==
  ASSUME Inv, TypeOK', NEW w \in Workers, Pause(w)
  PROVE  Inv'
<1> DEFINE row == Paused(job[wk[w].job])
<1>1. /\ LeaseValid(w) /\ SetRow(wk[w].job, row)
      /\ Becomes(w, Leaving(w, {})) /\ UNCHANGED <<recovered, claimant>>
  BY DEF Pause
<1>2. row.status = "QUEUED" /\ row.owner = NoWorker /\ row.ttl = 0
  BY <1>1, HeldRow DEF Paused, JobRow
<1>3. row.active
  BY <1>1, HeldRow DEF Paused, JobRow
<1>4. row.status \in {"QUEUED", "SUCCESS", "FAILED"} /\ (row.status \in Live <=> row.active)
  BY <1>2, <1>3 DEF Live
<1> QED BY <1>1, <1>2, <1>4, LeaveKeepsInv

\* The unique key admits the new job only where no other is open.
LEMMA CreateKeepsInv ==
  ASSUME Inv, TypeOK', NEW j \in Jobs, CreateJob(j)
  PROVE  Inv'
<1> DEFINE row == [job[j] EXCEPT !.status = "QUEUED", !.active = TRUE]
<1>1. /\ job[j] \in JobRow /\ job[j].status = "ABSENT"
      /\ \A k \in Jobs : SourceOf[k] = SourceOf[j] => ~job[k].active
      /\ SetRow(j, row) /\ UNCHANGED <<recovered, claimant, wk>>
  BY DEF CreateJob, Inv, TypeOK
<1>2. row.status = "QUEUED" /\ row.owner = NoWorker /\ row.ttl = 0
  BY <1>1 DEF JobRow, Inv, NoStrandedJob
<1>3. row.active
  BY <1>1 DEF JobRow
<1>4. ~LegacyRunning(j)
  BY <1>1 DEF LegacyRunning
<1>5. OneOpenJobPerSource' /\ NoStrandedJob' /\ LegacyNeedsAudit'
  BY <1>1, <1>2, <1>3, <1>4, RowStep DEF Live
<1>6. \A k \in Jobs : job'[k].status = "RUNNING" =>
        job[k].status = "RUNNING" /\ job'[k].owner = job[k].owner
        /\ job'[k].gen = job[k].gen
  BY <1>1, <1>2 DEF SetRow, Inv, TypeOK
<1>7. HolderClaimedLast'
  BY <1>1, <1>6, RewriteKeepsHolders
<1> QED BY <1>5, <1>7 DEF Inv

\* Recovered rows were running without an owner and become queued.
LEMMA RecoverKeepsInv ==
  ASSUME Inv, TypeOK', NEW J \in SUBSET LegacyJobs, RecoverLegacy(J)
  PROVE  Inv'
<1>1. \A j \in J : j \in Jobs /\ LegacyRunning(j)
  BY JobsAssumption DEF RecoverLegacy
<1>2. /\ \A k \in Jobs : job[k] \in JobRow
      /\ \A k \in Jobs : job'[k] =
           IF k \in J THEN [job[k] EXCEPT !.status = "QUEUED", !.active = TRUE]
                      ELSE job[k]
      /\ recovered' = recovered \cup J /\ UNCHANGED <<claimant, wk>>
  BY DEF RecoverLegacy, Inv, TypeOK
<1>3. \A k \in J :
        /\ job'[k].status = "QUEUED"
        /\ job'[k].owner = NoWorker /\ job'[k].ttl = 0
  BY <1>1, <1>2 DEF JobRow, LegacyRunning, Inv, NoStrandedJob
<1>4. \A k \in J : job'[k].active
  BY <1>1, <1>2 DEF JobRow
<1>5. \A k \in Jobs : job'[k].status \in Live <=> job[k].status \in Live
  BY <1>1, <1>2, <1>3 DEF LegacyRunning, Live
<1>6. OneOpenJobPerSource'
  BY <1>5 DEF Inv, OneOpenJobPerSource
<1>7. NoStrandedJob'
  BY <1>2, <1>3, <1>4 DEF Inv, NoStrandedJob, Live
<1>8. LegacyNeedsAudit'
  BY <1>2, JobsAssumption DEF Inv, LegacyNeedsAudit, LegacyRunning
<1>9. \A k \in Jobs : job'[k].status = "RUNNING" =>
        job[k].status = "RUNNING" /\ job'[k].owner = job[k].owner
        /\ job'[k].gen = job[k].gen
  BY <1>2, <1>3
<1>10. HolderClaimedLast'
  BY <1>2, <1>9, RewriteKeepsHolders
<1> QED BY <1>6, <1>7, <1>8, <1>10 DEF Inv

LEMMA TickKeepsInv ==
  ASSUME Inv, TypeOK', Tick
  PROVE  Inv'
<1>1. UNCHANGED <<recovered, claimant, wk>>
  BY DEF Tick
<1>2. \A k \in Jobs :
        /\ job[k] \in JobRow
        /\ job'[k] = [job[k] EXCEPT !.ttl = IF @ > 0 THEN @ - 1 ELSE 0]
  BY DEF Tick, Inv, TypeOK
<1>3. \A k \in Jobs :
        /\ job'[k].status = job[k].status /\ job'[k].owner = job[k].owner
        /\ job'[k].gen = job[k].gen
  BY <1>2 DEF JobRow
<1>4. \A k \in Jobs : job'[k].active = job[k].active
  BY <1>2 DEF JobRow
<1>5. ASSUME NEW k \in Jobs, job[k].ttl = 0 PROVE job'[k].ttl = 0
  <2>1. job'[k].ttl = IF job[k].ttl > 0 THEN job[k].ttl - 1 ELSE 0
    BY <1>2 DEF JobRow
  <2> QED BY <1>5, <2>1
<1>6. OneOpenJobPerSource' /\ NoStrandedJob' /\ LegacyNeedsAudit'
  BY <1>1, <1>3, <1>4, <1>5, JobsAssumption
     DEF Inv, OneOpenJobPerSource, NoStrandedJob, LegacyNeedsAudit, LegacyRunning
<1>7. HolderClaimedLast'
  BY <1>1, <1>3, RewriteKeepsHolders
<1> QED BY <1>6, <1>7 DEF Inv

LEMMA InvInit == Init => Inv
<1> SUFFICES ASSUME Init PROVE Inv
  OBVIOUS
<1>1. TypeOK
  BY InitType
<1>2. \A j \in Jobs :
        /\ job[j] = IF j \in LegacyJobs THEN Legacy ELSE Absent
        /\ job[j].owner = NoWorker /\ job[j].gen = 0 /\ job[j].ttl = 0
  BY DEF Init, Legacy, Absent
<1>3. \A j \in Jobs :
        IF j \in LegacyJobs THEN job[j].status = "RUNNING"
                            ELSE job[j].status = "ABSENT"
  <2>1. Absent.status = "ABSENT" /\ Legacy.status = "RUNNING"
    BY DEF Legacy, Absent
  <2> QED BY <1>2, <2>1
<1>4. \A j \in Jobs : job[j].active <=> j \in LegacyJobs
  <2>1. Absent.active = FALSE /\ Legacy.active = TRUE
    BY DEF Legacy, Absent
  <2> QED BY <1>2, <2>1
<1>5. OneOpenJobPerSource
  BY <1>3, LegacyAssumption DEF OneOpenJobPerSource, Live
<1>6. NoStrandedJob
  BY <1>2, <1>3, <1>4 DEF NoStrandedJob, Live, Init
<1>7. LegacyNeedsAudit
  BY <1>2, <1>3, JobsAssumption DEF LegacyNeedsAudit, LegacyRunning
<1>8. HolderClaimedLast
  BY DEF Init, Idle, HolderClaimedLast, Holds
<1> QED BY <1>1, <1>5, <1>6, <1>7, <1>8 DEF Inv

LEMMA InvNext == Inv /\ [Next]_vars => Inv'
<1> SUFFICES ASSUME Inv, [Next]_vars PROVE Inv'
  OBVIOUS
<1>0. TypeOK'
  BY NextType DEF Inv
<1>1. ASSUME NEW w \in Workers, Claim(w) PROVE Inv'
  BY <1>0, <1>1, ClaimKeepsInv
<1>2. ASSUME NEW w \in Workers, Renew(w) PROVE Inv'
  BY <1>0, <1>2, RenewKeepsInv
<1>3. ASSUME NEW w \in Workers, Finish(w) PROVE Inv'
  BY <1>0, <1>3, FinishKeepsInv
<1>4. ASSUME NEW w \in Workers, Pause(w) PROVE Inv'
  BY <1>0, <1>4, PauseKeepsInv
<1>5. ASSUME NEW w \in Workers, Round(w) \/ QueuePass(w) \/ Execute(w) \/ Crash(w)
      PROVE  Inv'
  BY <1>0, <1>1, <1>2, <1>3, <1>4, <1>5, WorkerQuiet, QuietStep
<1>6. ASSUME NEW j \in Jobs, CreateJob(j) PROVE Inv'
  BY <1>0, <1>6, CreateKeepsInv
<1>7. ASSUME NEW J \in SUBSET LegacyJobs, RecoverLegacy(J) PROVE Inv'
  BY <1>0, <1>7, RecoverKeepsInv
<1>8. ASSUME Tick PROVE Inv'
  BY <1>0, <1>8, TickKeepsInv
<1>9. CASE (\E s \in Sources : DropSession(s)) \/ LapseLicense \/ RenewLicense
           \/ UNCHANGED vars
  <2>1. UNCHANGED <<job, recovered, claimant, wk>>
    BY <1>9 DEF DropSession, LapseLicense, RenewLicense, vars, tables, env
  <2> QED BY <1>0, <2>1, QuietStep DEF Quiet
<1> QED
  BY <1>5, <1>6, <1>7, <1>8, <1>9 DEF Next, Environment

\* Inv holds in every reachable state.
THEOREM InvHolds == Spec => []Inv
BY InvInit, InvNext, PTL DEF Spec

\* A source never has two open jobs, for any number of jobs and workers.
THEOREM OpenJobIsUnique == Spec => []OneOpenJobPerSource
BY InvHolds, PTL DEF Inv

\* No row of the queue is ever out of reach of a later claim or recovery.
THEOREM NoJobIsStranded == Spec => []NoStrandedJob
BY InvHolds, PTL DEF Inv

\* A legacy row is touched by nothing but its audited recovery.
THEOREM LegacyIsAudited == Spec => []LegacyNeedsAudit
BY InvHolds, PTL DEF Inv

\* Two workers never hold matching leases in one source.
THEOREM OneHolder == Spec => []OneHolderPerSource
<1>1. Inv => OneHolderPerSource
  <2> SUFFICES ASSUME Inv, NEW v \in Workers, NEW w \in Workers,
                      Holds(v), Holds(w), wk[v].src = wk[w].src
               PROVE  v = w
    BY DEF OneHolderPerSource
  <2>1. wk[v].src = SourceOf[wk[v].job] /\ wk[w].src = SourceOf[wk[w].job]
    BY DEF Inv, TypeOK, NamesItsWork, Holds
  <2> QED BY <2>1 DEF Inv, HolderClaimedLast
<1> QED BY <1>1, InvHolds, PTL

\* Whatever crashes, stalls and late answers do, only the last worker that
\* claimed a job of a source commits a batch of the queue into it.
THEOREM LateWriterIsFenced == Spec => LateWriterNeverPublishes
<1>1. Inv /\ [Next]_vars =>
        [\A w \in Workers : WriteCommit(w) => claimant[wk[w].src] = w]_vars
  <2> SUFFICES ASSUME Inv, NEW w \in Workers, WriteCommit(w)
               PROVE  claimant[wk[w].src] = w
    OBVIOUS
  <2>1. Holds(w)
    BY DEF WriteCommit, MayCommit, LeaseValid
  <2>2. wk[w].src = SourceOf[wk[w].job]
    BY <2>1 DEF Holds, Inv, TypeOK, NamesItsWork
  <2> QED BY <2>1, <2>2 DEF Inv, HolderClaimedLast
<1> QED BY <1>1, InvHolds, PTL DEF Spec, LateWriterNeverPublishes

\* A step changes a job only while it is open or new, and a new owner only with
\* a higher generation.
LEMMA StepOnJob ==
  ASSUME Inv, [Next]_vars, NEW j \in Jobs, job'[j] # job[j]
  PROVE  /\ job[j].status \notin Terminal
         /\ job'[j].owner \notin {NoWorker, job[j].owner} => job'[j].gen > job[j].gen
<1> DEFINE Goal == /\ job[j].status \notin Terminal
                   /\ job'[j].owner \notin {NoWorker, job[j].owner} =>
                        job'[j].gen > job[j].gen
<1>0. job \in [Jobs -> JobRow] /\ job[j] \in JobRow /\ job[j].gen \in Nat
  BY DEF Inv, TypeOK, JobRow
<1>1. ASSUME NEW w \in Workers, Claim(w) PROVE Goal
  <2>1. SetRow(wk[w].job, Claimed(job[wk[w].job], w)) /\ Claimable(wk[w].job)
    BY <1>1 DEF Claim, MayClaim
  <2>2. wk[w].job = j
    BY <1>0, <2>1 DEF SetRow
  <2>3. Claimed(job[j], w).gen = job[j].gen + 1
    BY <1>0 DEF Claimed, JobRow
  <2>4. job'[j] = Claimed(job[j], w)
    BY <1>0, <2>1, <2>2 DEF SetRow
  <2>5. job'[j].gen > job[j].gen
    BY <1>0, <2>3, <2>4
  <2>6. job[j].status \notin Terminal
    BY <2>1, <2>2 DEF Claimable, Terminal
  <2> QED BY <2>5, <2>6
<1>2. ASSUME NEW w \in Workers, Renew(w) \/ Finish(w) \/ Pause(w) PROVE Goal
  <2>1. PICK row : SetRow(wk[w].job, row) /\ row.owner \in {NoWorker, job[wk[w].job].owner}
    <3>1. CASE Renew(w)
      <4>1. SetRow(wk[w].job, [job[wk[w].job] EXCEPT !.ttl = Lease]) /\ LeaseValid(w)
        BY <3>1 DEF Renew
      <4>2. [job[wk[w].job] EXCEPT !.ttl = Lease].owner = job[wk[w].job].owner
        BY <4>1, HeldRow DEF JobRow
      <4> QED BY <4>1, <4>2
    <3>2. CASE Finish(w)
      <4>1. SetRow(wk[w].job, Completed(job[wk[w].job], wk[w].outcome = "ok"))
            /\ LeaseValid(w)
        BY <3>2 DEF Finish
      <4>2. Completed(job[wk[w].job], wk[w].outcome = "ok").owner = NoWorker
        BY <4>1, HeldRow DEF Completed, JobRow
      <4> QED BY <4>1, <4>2
    <3>3. CASE Pause(w)
      <4>1. SetRow(wk[w].job, Paused(job[wk[w].job])) /\ LeaseValid(w)
        BY <3>3 DEF Pause
      <4>2. Paused(job[wk[w].job]).owner = NoWorker
        BY <4>1, HeldRow DEF Paused, JobRow
      <4> QED BY <4>1, <4>2
    <3> QED BY <1>2, <3>1, <3>2, <3>3
  <2>2. wk[w].job = j /\ job'[j] = row
    BY <1>0, <2>1 DEF SetRow
  <2>3. job[wk[w].job].status = "RUNNING"
    BY <1>2, HeldRow DEF Renew, Finish, Pause
  <2> QED BY <2>1, <2>2, <2>3 DEF Terminal
<1>3. ASSUME NEW w \in Workers, Round(w) \/ QueuePass(w) \/ Execute(w) \/ Crash(w)
      PROVE  Goal
  BY <1>1, <1>2, <1>3, WorkerQuiet DEF Quiet
<1>4. ASSUME NEW k \in Jobs, CreateJob(k) PROVE Goal
  <2>1. k = j /\ job[j].status = "ABSENT"
        /\ job'[j] = [job[j] EXCEPT !.status = "QUEUED", !.active = TRUE]
    BY <1>0, <1>4 DEF CreateJob, SetRow
  <2>2. job'[j].owner = job[j].owner
    BY <1>0, <2>1 DEF JobRow
  <2> QED BY <2>1, <2>2 DEF Terminal
<1>5. ASSUME NEW J \in SUBSET LegacyJobs, RecoverLegacy(J) PROVE Goal
  <2>1. j \in J /\ LegacyRunning(j)
        /\ job'[j] = [job[j] EXCEPT !.status = "QUEUED", !.active = TRUE]
    BY <1>5 DEF RecoverLegacy
  <2>2. job'[j].owner = job[j].owner
    BY <1>0, <2>1 DEF JobRow
  <2> QED BY <2>1, <2>2 DEF Terminal, LegacyRunning
<1>6. ASSUME Tick PROVE Goal
  <2>1. job'[j] = [job[j] EXCEPT !.ttl = IF @ > 0 THEN @ - 1 ELSE 0]
    BY <1>6 DEF Tick
  <2>2. job'[j].owner = job[j].owner
    BY <1>0, <2>1 DEF JobRow
  <2>3. job[j].ttl # 0
    <3> SUFFICES ASSUME job[j].ttl = 0 PROVE FALSE
      OBVIOUS
    <3>1. job'[j] = [job[j] EXCEPT !.ttl = 0]
      BY <2>1
    <3>2. [job[j] EXCEPT !.ttl = job[j].ttl] = job[j]
      BY <1>0 DEF JobRow
    <3> QED BY <3>1, <3>2
  <2>4. job[j].status = "RUNNING"
    BY <2>3 DEF Inv, NoStrandedJob
  <2> QED BY <2>2, <2>4 DEF Terminal
<1>7. CASE (\E s \in Sources : DropSession(s)) \/ LapseLicense \/ RenewLicense
           \/ UNCHANGED vars
  BY <1>7 DEF DropSession, LapseLicense, RenewLicense, vars, tables, env
<1> QED
  BY <1>3, <1>4, <1>5, <1>6, <1>7 DEF Next, Environment

\* Only the two writing steps change the projections.
LEMMA StepOnDim ==
  ASSUME [Next]_vars
  PROVE  \/ UNCHANGED dim
         \/ \E w \in Workers : RoundWrite(w) \/ WriteCommit(w)
<1> USE DEF tables
<1>1. ASSUME NEW w \in Workers, Round(w) PROVE UNCHANGED dim \/ RoundWrite(w)
  BY <1>1 DEF Round, StartRound, RoundTake, RoundSkip, RoundFinish, RoundEnd
<1>2. ASSUME NEW w \in Workers, QueuePass(w) PROVE UNCHANGED dim
  BY <1>2 DEF QueuePass, StartQueue, TryLock, SkipJob, AbortPass, PassEnd,
              Claim, ClaimMissed, ClaimError
<1>3. ASSUME NEW w \in Workers, Execute(w) PROVE UNCHANGED dim \/ WriteCommit(w)
  BY <1>3 DEF Execute, WriteBegin, WriteRefused, WriteRollback, RunEnds, Renew,
              BeatFails, Cancel, Abandon, Finish, Pause, FinishFails, Release
<1>4. ASSUME Environment PROVE UNCHANGED dim
  BY <1>4 DEF Environment, CreateJob, RecoverLegacy, Crash, DropSession,
              LapseLicense, RenewLicense, Tick
<1> QED BY <1>1, <1>2, <1>3, <1>4 DEF Next, vars

\* A takeover always raises the generation, and a finished job never changes.
THEOREM TakeoverIsFenced == Spec => TakeoverRaisesGeneration
<1>1. Inv /\ [Next]_vars =>
        [\A j \in Jobs :
           /\ job'[j].owner \notin {NoWorker, job[j].owner} => job'[j].gen > job[j].gen
           /\ job[j].status \in Terminal => job'[j] = job[j]]_vars
  BY StepOnJob
<1> QED BY <1>1, InvHolds, PTL DEF Spec, TakeoverRaisesGeneration

\* No batch of a job is committed after its end.
THEOREM FinishedJobIsSilent == Spec => FinishedJobNeverPublishes
<1>1. Inv /\ [Next]_vars =>
        [\A j \in Jobs :
           job[j].status \in Terminal /\ dim[SourceOf[j]] # j
             => dim'[SourceOf[j]] # j]_vars
  <2> SUFFICES ASSUME Inv, [Next]_vars, NEW j \in Jobs, job[j].status \in Terminal,
                      dim[SourceOf[j]] # j, dim'[SourceOf[j]] = j
               PROVE  FALSE
    OBVIOUS
  <2>1. PICK w \in Workers : RoundWrite(w) \/ WriteCommit(w)
    BY StepOnDim
  <2>2. j # NoJob /\ dim \in [Sources -> Jobs \cup {NoJob}]
    BY JobsAssumption DEF Inv, TypeOK
  <2>3. ~RoundWrite(w)
    BY <2>2, SourcesAssumption DEF RoundWrite
  <2>4. dim' = [dim EXCEPT ![wk[w].src] = wk[w].job] /\ LeaseValid(w)
    BY <2>1, <2>3 DEF WriteCommit, MayCommit
  <2>5. wk[w].job = j
    BY <2>2, <2>4, SourcesAssumption
  <2> QED BY <2>4, <2>5, HeldRow DEF Terminal
<1> QED BY <1>1, InvHolds, PTL DEF Spec, FinishedJobNeverPublishes
-----------------------------------------------------------------------------
(* The watermark of a source *)

\* A mark never lowers the run it is stored with.
LEMMA MarkedRises ==
  ASSUME NEW row \in SourceRow, NEW start \in Nat, NEW success, NEW status
  PROVE  Marked(row, status, start, success).run >= row.run
BY DEF Marked, SourceRow

\* One row of sync_source is marked, or none.
LEMMA MarkStep ==
  ASSUME TypeOK, NEW t \in Sources, NEW start \in Nat, NEW success, NEW status,
         \/ UNCHANGED source
         \/ source' = [source EXCEPT ![t] = Marked(source[t], status, start, success)],
         NEW s \in Sources
  PROVE  source'[s].run >= source[s].run
<1>1. source \in [Sources -> SourceRow] /\ source[s].run \in Int
  BY DEF TypeOK, SourceRow
<1>2. CASE source'[s] = source[s]
  BY <1>1, <1>2
<1>3. CASE s = t /\ source'[s] = Marked(source[s], status, start, success)
  BY <1>1, <1>3, MarkedRises
<1> QED BY <1>1, <1>2, <1>3

\* No step of any actor takes the watermark of a source back.
LEMMA StepOnSource ==
  ASSUME Inv, [Next]_vars, NEW s \in Sources
  PROVE  source'[s].run >= source[s].run
<1> USE DEF tables
<1>0. /\ TypeOK /\ source[s].run \in Int
      /\ \A w \in Workers : wk[w].start \in Nat /\ NamesItsWork(wk[w])
  BY DEF Inv, TypeOK, SourceRow, WorkerState
<1>1. ASSUME NEW w \in Workers, NEW t \in Sources, RoundTake(w, t)
      PROVE  source'[s].run >= source[s].run
  <2>1. \/ UNCHANGED source
        \/ source' = [source EXCEPT ![t] =
                        Marked(source[t], "RUNNING", wk[w].start, FALSE)]
    BY <1>1, Zenon DEF RoundTake
  <2> QED BY <1>0, <2>1, MarkStep
<1>2. ASSUME NEW w \in Workers, RoundFinish(w)
      PROVE  source'[s].run >= source[s].run
  <2> DEFINE t == wk[w].src
  <2>1. t \in Sources
    BY <1>0, <1>2 DEF RoundFinish, NamesItsWork
  <2>2. PICK ok \in BOOLEAN :
          \/ UNCHANGED source
          \/ source' = [source EXCEPT ![t] =
               Marked(source[t], IF ok THEN "SUCCESS" ELSE "FAILED", wk[w].start, ok)]
    BY <1>2, Zenon DEF RoundFinish
  <2> HIDE DEF t
  <2> QED BY <1>0, <2>1, <2>2, MarkStep
<1>3. ASSUME NEW w \in Workers, Finish(w)
      PROVE  source'[s].run >= source[s].run
  <2> DEFINE j == wk[w].job
             status == IF wk[w].outcome = "ok" THEN "SUCCESS" ELSE "FAILED"
  <2>1. SourceOf[j] \in Sources /\ job[j].started \in Nat
    BY <1>3, HeldRow, SourcesAssumption DEF Finish, JobRow
  <2>2. source' = [source EXCEPT ![SourceOf[j]] =
                     Marked(source[SourceOf[j]], status, job[j].started, FALSE)]
    BY <1>3 DEF Finish
  <2> HIDE DEF j, status
  <2> QED BY <1>0, <2>1, <2>2, MarkStep
<1>4. ASSUME NEW w \in Workers, Round(w) PROVE source'[s].run >= source[s].run
  <2>1. UNCHANGED source \/ RoundFinish(w) \/ \E t \in Sources : RoundTake(w, t)
    BY <1>4 DEF Round, StartRound, RoundSkip, RoundWrite, RoundEnd
  <2> QED BY <1>0, <1>1, <1>2, <2>1
<1>5. ASSUME NEW w \in Workers, QueuePass(w) PROVE UNCHANGED source
  BY <1>5 DEF QueuePass, StartQueue, TryLock, SkipJob, AbortPass, PassEnd,
              Claim, ClaimMissed, ClaimError
<1>6. ASSUME NEW w \in Workers, Execute(w) PROVE UNCHANGED source \/ Finish(w)
  BY <1>6 DEF Execute, WriteBegin, WriteRefused, WriteCommit, WriteRollback, RunEnds,
              Renew, BeatFails, Cancel, Abandon, Pause, FinishFails, Release
<1>7. ASSUME Environment PROVE UNCHANGED source
  BY <1>7 DEF Environment, CreateJob, RecoverLegacy, Crash, DropSession,
              LapseLicense, RenewLicense, Tick
<1>8. CASE UNCHANGED source
  BY <1>0, <1>8
<1> QED BY <1>3, <1>4, <1>5, <1>6, <1>7, <1>8 DEF Next, vars

\* Two channels, skewed host clocks and late workers never move the stored run of
\* a source back: mark and markQueueSource both compare before they write.
THEOREM WatermarkRises == Spec => WatermarkNeverRegresses
<1>1. Inv /\ [Next]_vars =>
        [\A s \in Sources : source'[s].run >= source[s].run]_vars
  BY StepOnSource
<1> QED BY <1>1, InvHolds, PTL DEF Spec, WatermarkNeverRegresses

-----------------------------------------------------------------------------
(* The named locks, as long as their sessions live *)

Working == {"sync", "locked", "run", "tx", "ended", "release"}

\* Mutual exclusion alone is not inductive: a worker that takes a free lock must
\* know that nobody works on the source without holding it.
LockIsHeld ==
  ~SessionDrops =>
    \A w \in Workers, s \in Sources : WorksOn(w, s) => lock[s] = w

\* A worker that leaves the locks alone works on nothing new.
LEMMA LockStaysHeld ==
  ASSUME TypeOK, LockIsHeld, NEW w \in Workers, NEW state, Becomes(w, state),
         UNCHANGED lock,
         state.pc \in Working => wk[w].pc \in Working /\ state.src = wk[w].src
  PROVE  LockIsHeld'
<1>1. \A v \in Workers : wk'[v] = IF v = w THEN state ELSE wk[v]
  BY DEF Becomes, TypeOK
<1> QED BY <1>1 DEF LockIsHeld, WorksOn, Working

\* A worker that takes the lock of a source finds nobody at work there.
LEMMA LockIsTaken ==
  ASSUME TypeOK, LockIsHeld, NEW w \in Workers, NEW t \in Sources, NEW state,
         Becomes(w, state), state.src = t, wk[w].pc \notin Working,
         lock[t] = NoWorker, lock' = [lock EXCEPT ![t] = w]
  PROVE  LockIsHeld'
<1>1. \A v \in Workers : wk'[v] = IF v = w THEN state ELSE wk[v]
  BY DEF Becomes, TypeOK
<1>2. \A s \in Sources : lock'[s] = IF s = t THEN w ELSE lock[s]
  BY DEF TypeOK
<1>3. ASSUME ~SessionDrops, NEW v \in Workers, NEW s \in Sources, WorksOn(v, s)'
      PROVE  lock'[s] = v
  <2>1. CASE v = w
    BY <1>1, <1>2, <1>3, <2>1 DEF WorksOn
  <2>2. CASE v # w
    <3>1. WorksOn(v, s) /\ lock[s] = v
      BY <1>1, <1>3, <2>2 DEF WorksOn, LockIsHeld
    <3> QED BY <1>2, <3>1, WorkersAssumption
  <2> QED BY <2>1, <2>2
<1> QED BY <1>3 DEF LockIsHeld

\* A worker that is done with a source releases no lock but its own.
LEMMA LockIsReleased ==
  ASSUME TypeOK, LockIsHeld, NEW w \in Workers, NEW state, Becomes(w, state),
         state.pc \notin Working,
         \A s \in Sources : lock'[s] = lock[s] \/ lock[s] = w
  PROVE  LockIsHeld'
<1>1. \A v \in Workers : wk'[v] = IF v = w THEN state ELSE wk[v]
  BY DEF Becomes, TypeOK
<1> QED BY <1>1 DEF LockIsHeld, WorksOn, Working

\* Every step of a worker keeps the locks with the workers that rely on them.
LEMMA WorkerKeepsLocks ==
  ASSUME TypeOK, LockIsHeld, NEW w \in Workers,
         Round(w) \/ QueuePass(w) \/ Execute(w) \/ Crash(w)
  PROVE  LockIsHeld'
<1> USE DEF tables, env
<1>0. wk[w] \in WorkerState /\ NamesItsWork(wk[w])
  BY DEF TypeOK
<1>1. ASSUME StartRound(w) PROVE LockIsHeld'
  <2>1. Becomes(w, [Idle EXCEPT !.pc = "round", !.left = Scheduled,
                            !.start = HostNow(w)])
    BY <1>1 DEF StartRound
  <2>2. UNCHANGED lock
    BY <1>1 DEF StartRound
  <2> QED
    BY <1>0, <1>1, <2>1, <2>2, LockStaysHeld
       DEF StartRound, Working, Leaving, Idle, WorkerState
<1>2. ASSUME RoundEnd(w) PROVE LockIsHeld'
  <2>1. Becomes(w, [Idle EXCEPT !.pc = "due"])
    BY <1>2 DEF RoundEnd
  <2>2. UNCHANGED lock
    BY <1>2 DEF RoundEnd
  <2> QED
    BY <1>0, <1>2, <2>1, <2>2, LockStaysHeld
       DEF RoundEnd, Working, Leaving, Idle, WorkerState
<1>3. ASSUME AbortPass(w) PROVE LockIsHeld'
  <2>1. Becomes(w, Idle)
    BY <1>3 DEF AbortPass
  <2>2. UNCHANGED lock
    BY <1>3 DEF AbortPass
  <2> QED
    BY <1>0, <1>3, <2>1, <2>2, LockStaysHeld
       DEF AbortPass, Working, Leaving, Idle, WorkerState
<1>4. ASSUME PassEnd(w) PROVE LockIsHeld'
  <2>1. Becomes(w, Idle)
    BY <1>4 DEF PassEnd
  <2>2. UNCHANGED lock
    BY <1>4 DEF PassEnd
  <2> QED
    BY <1>0, <1>4, <2>1, <2>2, LockStaysHeld
       DEF PassEnd, Working, Leaving, Idle, WorkerState
<1>5. ASSUME Claim(w) PROVE LockIsHeld'
  <2>1. Becomes(w, [wk[w] EXCEPT !.pc = "run", !.gen = @ + 1])
    BY <1>5 DEF Claim
  <2>2. UNCHANGED lock
    BY <1>5 DEF Claim
  <2> QED
    BY <1>0, <1>5, <2>1, <2>2, LockStaysHeld
       DEF Claim, Working, Leaving, Idle, WorkerState
<1>6. ASSUME ClaimMissed(w) PROVE LockIsHeld'
  <2>1. Becomes(w, Leaving(w, wk[w].todo))
    BY <1>6 DEF ClaimMissed
  <2>2. UNCHANGED lock
    BY <1>6 DEF ClaimMissed
  <2> QED
    BY <1>0, <1>6, <2>1, <2>2, LockStaysHeld
       DEF ClaimMissed, Working, Leaving, Idle, WorkerState
<1>7. ASSUME ClaimError(w) PROVE LockIsHeld'
  <2>1. Becomes(w, Leaving(w, {}))
    BY <1>7 DEF ClaimError
  <2>2. UNCHANGED lock
    BY <1>7 DEF ClaimError
  <2> QED
    BY <1>0, <1>7, <2>1, <2>2, LockStaysHeld
       DEF ClaimError, Working, Leaving, Idle, WorkerState
<1>8. ASSUME WriteBegin(w) PROVE LockIsHeld'
  <2>1. Becomes(w, [wk[w] EXCEPT !.pc = "tx"])
    BY <1>8 DEF WriteBegin
  <2>2. UNCHANGED lock
    BY <1>8 DEF WriteBegin
  <2> QED
    BY <1>0, <1>8, <2>1, <2>2, LockStaysHeld
       DEF WriteBegin, Working, Leaving, Idle, WorkerState
<1>9. ASSUME WriteRefused(w) PROVE LockIsHeld'
  <2>1. Becomes(w, [wk[w] EXCEPT !.pc = "ended", !.outcome = "lost"])
    BY <1>9 DEF WriteRefused
  <2>2. UNCHANGED lock
    BY <1>9 DEF WriteRefused
  <2> QED
    BY <1>0, <1>9, <2>1, <2>2, LockStaysHeld
       DEF WriteRefused, Working, Leaving, Idle, WorkerState
<1>10. ASSUME WriteCommit(w) PROVE LockIsHeld'
  <2>1. Becomes(w, [wk[w] EXCEPT !.pc = "run"])
    BY <1>10 DEF WriteCommit
  <2>2. UNCHANGED lock
    BY <1>10 DEF WriteCommit
  <2> QED
    BY <1>0, <1>10, <2>1, <2>2, LockStaysHeld
       DEF WriteCommit, Working, Leaving, Idle, WorkerState
<1>11. ASSUME BeatFails(w) PROVE LockIsHeld'
  <2>1. Becomes(w, [wk[w] EXCEPT !.cause = "beat"])
    BY <1>11 DEF BeatFails
  <2>2. UNCHANGED lock
    BY <1>11 DEF BeatFails
  <2> QED
    BY <1>0, <1>11, <2>1, <2>2, LockStaysHeld
       DEF BeatFails, Beating, Working, Leaving, Idle, WorkerState
<1>12. ASSUME Abandon(w) PROVE LockIsHeld'
  <2>1. Becomes(w, Leaving(w, {}))
    BY <1>12 DEF Abandon
  <2>2. UNCHANGED lock
    BY <1>12 DEF Abandon
  <2> QED
    BY <1>0, <1>12, <2>1, <2>2, LockStaysHeld
       DEF Abandon, Working, Leaving, Idle, WorkerState
<1>13. ASSUME Finish(w) PROVE LockIsHeld'
  <2>1. Becomes(w, Leaving(w, wk[w].todo))
    BY <1>13 DEF Finish
  <2>2. UNCHANGED lock
    BY <1>13 DEF Finish
  <2> QED
    BY <1>0, <1>13, <2>1, <2>2, LockStaysHeld
       DEF Finish, MayFinish, Working, Leaving, Idle, WorkerState
<1>14. ASSUME Pause(w) PROVE LockIsHeld'
  <2>1. Becomes(w, Leaving(w, {}))
    BY <1>14 DEF Pause
  <2>2. UNCHANGED lock
    BY <1>14 DEF Pause
  <2> QED
    BY <1>0, <1>14, <2>1, <2>2, LockStaysHeld
       DEF Pause, MayFinish, Working, Leaving, Idle, WorkerState
<1>15. ASSUME FinishFails(w) PROVE LockIsHeld'
  <2>1. Becomes(w, Leaving(w, {}))
    BY <1>15 DEF FinishFails
  <2>2. UNCHANGED lock
    BY <1>15 DEF FinishFails
  <2> QED
    BY <1>0, <1>15, <2>1, <2>2, LockStaysHeld
       DEF FinishFails, MayFinish, Working, Leaving, Idle, WorkerState
<1>16. ASSUME StartQueue(w) PROVE LockIsHeld'
  <2>1. PICK list :
          Becomes(w, IF licensed THEN [Idle EXCEPT !.pc = "pass", !.todo = list] ELSE Idle)
    BY <1>16 DEF StartQueue
  <2>2. UNCHANGED lock
    BY <1>16 DEF StartQueue
  <2> QED
    BY <1>0, <1>16, <2>1, <2>2, LockStaysHeld
       DEF StartQueue, Working, Leaving, Idle, WorkerState
<1>17. ASSUME SkipJob(w) PROVE LockIsHeld'
  <2>1. PICK e \in First(w) : Becomes(w, [wk[w] EXCEPT !.todo = @ \ {e}])
    BY <1>17 DEF SkipJob
  <2>2. UNCHANGED lock
    BY <1>17 DEF SkipJob
  <2> QED
    BY <1>0, <1>17, <2>1, <2>2, LockStaysHeld
       DEF SkipJob, Working, Leaving, Idle, WorkerState
<1>18. ASSUME RunEnds(w) PROVE LockIsHeld'
  <2>1. PICK o : Becomes(w, [wk[w] EXCEPT !.pc = "ended", !.outcome = o])
    BY <1>18 DEF RunEnds
  <2>2. UNCHANGED lock
    BY <1>18 DEF RunEnds
  <2> QED
    BY <1>0, <1>18, <2>1, <2>2, LockStaysHeld
       DEF RunEnds, Working, Leaving, Idle, WorkerState
<1>19. ASSUME Cancel(w) PROVE LockIsHeld'
  <2>1. PICK c : Becomes(w, [wk[w] EXCEPT !.cause = c])
    BY <1>19 DEF Cancel
  <2>2. UNCHANGED lock
    BY <1>19 DEF Cancel
  <2> QED
    BY <1>0, <1>19, <2>1, <2>2, LockStaysHeld
       DEF Cancel, Beating, Working, Leaving, Idle, WorkerState
<1>20. ASSUME WriteRollback(w) PROVE LockIsHeld'
  <2>1. PICK state :
          /\ Becomes(w, state)
          /\ \E o : \/ state = [wk[w] EXCEPT !.pc = "run"]
                    \/ state = [wk[w] EXCEPT !.pc = "ended", !.outcome = o]
    BY <1>20 DEF WriteRollback
  <2>2. UNCHANGED lock /\ wk[w].pc = "tx"
    BY <1>20 DEF WriteRollback
  <2> QED BY <1>0, <2>1, <2>2, LockStaysHeld DEF Working, WorkerState
<1>21. ASSUME RoundWrite(w) \/ Renew(w) PROVE LockIsHeld'
  BY <1>21 DEF RoundWrite, Renew, LockIsHeld, WorksOn
<1>22. ASSUME NEW s \in Sources, RoundSkip(w, s) PROVE LockIsHeld'
  <2>1. Becomes(w, [wk[w] EXCEPT !.left = @ \ {s}])
    BY <1>22 DEF RoundSkip
  <2>2. UNCHANGED lock
    BY <1>22 DEF RoundSkip
  <2> QED BY <1>0, <2>1, <2>2, LockStaysHeld DEF Working, WorkerState
<1>23. ASSUME NEW s \in Sources, RoundTake(w, s) PROVE LockIsHeld'
  <2> DEFINE state == [wk[w] EXCEPT !.pc = "sync", !.src = s, !.left = @ \ {s}]
  <2>1. Becomes(w, state) /\ state.src = s
    BY <1>0, <1>23 DEF RoundTake, WorkerState
  <2>2. /\ lock[s] = NoWorker /\ lock' = [lock EXCEPT ![s] = w]
        /\ wk[w].pc \notin Working
    BY <1>23 DEF RoundTake, Working
  <2> QED BY <2>1, <2>2, LockIsTaken
<1>24. ASSUME TryLock(w) PROVE LockIsHeld'
  <2>1. PICK e \in First(w) :
          /\ lock[SourceOf[e.job]] = NoWorker
          /\ lock' = [lock EXCEPT ![SourceOf[e.job]] = w]
          /\ Becomes(w, [wk[w] EXCEPT !.pc = "locked", !.todo = @ \ {e}, !.job = e.job,
                                      !.gen = e.gen, !.src = SourceOf[e.job]])
    BY <1>24 DEF TryLock
  <2> DEFINE state == [wk[w] EXCEPT !.pc = "locked", !.todo = @ \ {e}, !.job = e.job,
                                    !.gen = e.gen, !.src = SourceOf[e.job]]
  <2>2. SourceOf[e.job] \in Sources
    BY <1>0, SourcesAssumption DEF First, WorkerState, Entry
  <2>3. state.src = SourceOf[e.job] /\ wk[w].pc \notin Working
    BY <1>0, <1>24 DEF WorkerState, TryLock, Working
  <2> QED BY <2>1, <2>2, <2>3, LockIsTaken
<1>25. ASSUME RoundFinish(w) PROVE LockIsHeld'
  <2>1. Becomes(w, [wk[w] EXCEPT !.pc = "round", !.src = NoWorker])
    BY <1>25 DEF RoundFinish
  <2>2. \A s \in Sources : lock'[s] = lock[s] \/ lock[s] = w
    BY <1>25 DEF RoundFinish, TypeOK
  <2> QED BY <1>0, <2>1, <2>2, LockIsReleased DEF Working, WorkerState
<1>26. ASSUME Release(w) PROVE LockIsHeld'
  <2>1. Becomes(w, [Idle EXCEPT !.pc = "pass", !.todo = wk[w].todo])
    BY <1>26 DEF Release
  <2>2. \A s \in Sources : lock'[s] = lock[s] \/ lock[s] = w
    BY <1>26 DEF Release, TypeOK
  <2> QED BY <2>1, <2>2, LockIsReleased DEF Working, Idle
<1>27. ASSUME Crash(w) PROVE LockIsHeld'
  <2>1. Becomes(w, Idle)
    BY <1>27 DEF Crash
  <2>2. \A s \in Sources : lock'[s] = lock[s] \/ lock[s] = w
    BY <1>27 DEF Crash
  <2> QED BY <2>1, <2>2, LockIsReleased DEF Working, Idle
<1> QED
  BY <1>1, <1>2, <1>3, <1>4, <1>5, <1>6, <1>7, <1>8, <1>9, <1>10, <1>11, <1>12,
     <1>13, <1>14, <1>15, <1>16, <1>17, <1>18, <1>19, <1>20, <1>21, <1>22, <1>23,
     <1>24, <1>25, <1>26, <1>27
     DEF Round, QueuePass, Execute

LEMMA LockIsHeldInit == Init => LockIsHeld
BY DEF Init, LockIsHeld, WorksOn, Idle

LEMMA LockIsHeldNext == TypeOK /\ LockIsHeld /\ [Next]_vars => LockIsHeld'
<1> SUFFICES ASSUME TypeOK, LockIsHeld, [Next]_vars PROVE LockIsHeld'
  OBVIOUS
<1>1. ASSUME NEW w \in Workers, Round(w) \/ QueuePass(w) \/ Execute(w) \/ Crash(w)
      PROVE  LockIsHeld'
  BY <1>1, WorkerKeepsLocks
<1>2. ASSUME NEW s \in Sources, DropSession(s) PROVE LockIsHeld'
  BY <1>2 DEF DropSession, LockIsHeld
<1>3. CASE \/ \E j \in Jobs : CreateJob(j)
           \/ \E J \in SUBSET LegacyJobs : RecoverLegacy(J)
           \/ LapseLicense \/ RenewLicense \/ Tick \/ UNCHANGED vars
  <2>1. UNCHANGED <<lock, wk>>
    BY <1>3 DEF CreateJob, RecoverLegacy, LapseLicense, RenewLicense, Tick, vars
  <2> QED BY <2>1 DEF LockIsHeld, WorksOn
<1> QED BY <1>1, <1>2, <1>3 DEF Next, Environment

\* While the session of a named lock lives as long as its worker (no DropSession),
\* GET_LOCK serialises the scheduled round and the queue on every source.
THEOREM NamedLockSerialises ==
  ASSUME ~SessionDrops
  PROVE  Spec => []OneWorkerPerSource
<1>1. LockIsHeld => OneWorkerPerSource
  BY DEF LockIsHeld, OneWorkerPerSource
<1>2. Spec => []LockIsHeld
  BY TypeCorrect, LockIsHeldInit, LockIsHeldNext, PTL DEF Spec
<1> QED BY <1>1, <1>2, PTL

-----------------------------------------------------------------------------
(* The lease of a run whose heartbeats are in time *)

\* The lease of w is its own and at most two heartbeat intervals old.
Fresh(w) == Holds(w) /\ job[wk[w].job].ttl >= Lease - 2 * Beat

\* That a lease has not run out is not inductive: the next tick may end it.  That
\* it is at most two intervals old is, since InTime lets no tick make it older.
LeaseIsFresh == Timely => \A w \in Workers : Beating(w) => Fresh(w)

\* A fresh lease has not run out, by the bound queueSettings puts on the interval.
LEMMA FreshIsValid ==
  ASSUME TypeOK, NEW w \in Workers, Fresh(w)
  PROVE  LeaseValid(w)
<1>1. wk[w].job \in Jobs /\ job[wk[w].job].ttl \in Int
  BY DEF Fresh, Holds, TypeOK, NamesItsWork, JobRow
<1> QED BY <1>1, QueueSettings DEF Fresh, LeaseValid

\* A run that goes on, on a row that stays as it is, keeps a fresh lease.
LEMMA FreshStays ==
  ASSUME Inv, LeaseIsFresh, Timely, NEW v \in Workers,
         wk'[v].pc \in Busy, wk'[v].cause = "none",
         wk[v].pc \in Busy /\ wk'[v].job = wk[v].job /\ wk'[v].gen = wk[v].gen,
         wk[v].cause = "none",
         Fresh(v) => job'[wk[v].job] = job[wk[v].job]
  PROVE  Fresh(v)'
<1>1. Fresh(v)
  BY DEF LeaseIsFresh, Beating, Busy
<1> QED BY <1>1 DEF Fresh, Holds, Busy

\* What rewrites a job, the holder's own renewal aside, leaves the row of every
\* worker that keeps running alone.
LEMMA OthersKeepFresh ==
  ASSUME Inv, LeaseIsFresh, Timely, NEW w \in Workers, NEW state, Becomes(w, state),
         NEW j \in Jobs, NEW row, SetRow(j, row),
         \A v \in Workers \ {w} : Fresh(v) => wk[v].job # j,
         NEW v \in Workers \ {w}, Beating(v)'
  PROVE  Fresh(v)'
<1>1. wk'[v] = wk[v] /\ wk[v].pc \in Busy /\ wk[v].cause = "none"
  BY DEF Becomes, Inv, TypeOK, Beating, Busy
<1>2. Fresh(v) => job'[wk[v].job] = job[wk[v].job]
  BY <1>1 DEF SetRow, Inv, TypeOK, NamesItsWork, Busy
<1> QED BY <1>1, <1>2, FreshStays

\* Nobody claims the row of a fresh lease; whoever does claim starts a fresh one.
LEMMA ClaimKeepsFresh ==
  ASSUME Inv, LeaseIsFresh, Timely, NEW w \in Workers, Claim(w),
         NEW v \in Workers, Beating(v)'
  PROVE  Fresh(v)'
<1> DEFINE j == wk[w].job
           row == Claimed(job[j], w)
           state == [wk[w] EXCEPT !.pc = "run", !.gen = @ + 1]
<1>1. j \in Jobs /\ job[j] \in JobRow /\ wk[w] \in WorkerState
  BY DEF Claim, Inv, TypeOK, NamesItsWork
<1>2. SetRow(j, row) /\ Becomes(w, state) /\ MayClaim(w)
  BY DEF Claim
<1>3. CASE v = w
  <2>1. job'[j] = row /\ wk'[w] = state
    BY <1>1, <1>2 DEF SetRow, Becomes, Inv, TypeOK
  <2>2. state.pc = "run" /\ state.job = j /\ state.gen = wk[w].gen + 1
    BY <1>1 DEF WorkerState
  <2>3. /\ row.status = "RUNNING" /\ row.owner = w
        /\ row.gen = job[j].gen + 1 /\ row.ttl = Lease
    BY <1>1 DEF Claimed, JobRow
  <2>4. row.gen = state.gen
    BY <1>2, <2>2, <2>3 DEF MayClaim
  <2>5. Lease >= Lease - 2 * Beat
    BY QueueSettings
  <2>6. Holds(w)'
    BY <2>1, <2>2, <2>3, <2>4 DEF Holds
  <2>7. (job[wk[w].job].ttl >= Lease - 2 * Beat)'
    BY <2>1, <2>2, <2>3, <2>5
  <2> QED BY <1>3, <2>6, <2>7 DEF Fresh
<1>4. CASE v # w
  <2>1. ASSUME NEW u \in Workers, Fresh(u) PROVE wk[u].job # j
    BY <1>2, <2>1, FreshIsValid, HeldRow DEF MayClaim, Claimable, LeaseValid, Inv
  <2> QED BY <1>1, <1>2, <1>4, <2>1, OthersKeepFresh
<1> QED BY <1>3, <1>4

\* A renewal is the holder's, and makes its lease new.
LEMMA RenewKeepsFresh ==
  ASSUME Inv, LeaseIsFresh, Timely, NEW w \in Workers, Renew(w),
         NEW v \in Workers, Beating(v)'
  PROVE  Fresh(v)'
<1> DEFINE j == wk[w].job
           row == [job[j] EXCEPT !.ttl = Lease]
<1>1. SetRow(j, row) /\ LeaseValid(w) /\ UNCHANGED wk
  BY DEF Renew
<1>2. j \in Jobs /\ job[j] \in JobRow /\ job[j].owner = w
  BY <1>1, HeldRow
<1>3. row.status = job[j].status /\ row.owner = w /\ row.gen = job[j].gen
      /\ row.ttl = Lease
  BY <1>2 DEF JobRow
<1>4. Beating(v) /\ Fresh(v)
  BY <1>1 DEF LeaseIsFresh, Beating
<1>5. wk[v].job \in Jobs
  BY <1>4 DEF Beating, Inv, TypeOK, NamesItsWork
<1>6. job'[wk[v].job] = IF wk[v].job = j THEN row ELSE job[wk[v].job]
  BY <1>1, <1>5 DEF SetRow, Inv, TypeOK
<1>7. Lease >= Lease - 2 * Beat
  BY QueueSettings
<1> QED BY <1>1, <1>3, <1>4, <1>6, <1>7 DEF Fresh, Holds

\* A worker ends or gives back only its own job, and stops its heartbeat.
LEMMA LeaveKeepsFresh ==
  ASSUME Inv, LeaseIsFresh, Timely, NEW w \in Workers, Finish(w) \/ Pause(w),
         NEW v \in Workers, Beating(v)'
  PROVE  Fresh(v)'
<1>1. PICK row, todo :
        SetRow(wk[w].job, row) /\ Becomes(w, Leaving(w, todo)) /\ LeaseValid(w)
  BY DEF Finish, Pause
<1>2. v # w
  <2>1. Leaving(w, todo).pc = "release"
    BY DEF Leaving, Idle
  <2> QED BY <1>1, <2>1 DEF Becomes, Inv, TypeOK, Beating
<1>3. ASSUME NEW u \in Workers \ {w}, Fresh(u) PROVE wk[u].job # wk[w].job
  BY <1>1, <1>3, HeldRow DEF Fresh, Holds
<1> QED BY <1>1, <1>2, <1>3, HeldRow, OthersKeepFresh

\* The clock moves only while every heartbeat is in time.
LEMMA TickKeepsFresh ==
  ASSUME Inv, LeaseIsFresh, Timely, Tick, NEW v \in Workers, Beating(v)'
  PROVE  Fresh(v)'
<1> DEFINE j == wk[v].job
<1>1. UNCHANGED wk /\ InTime(v)
  <2>1. ~Timely \/ \A w \in Workers : InTime(w)
    BY Zenon DEF Tick
  <2> QED BY <2>1 DEF Tick
<1>2. Beating(v) /\ Holds(v)
  BY <1>1 DEF LeaseIsFresh, Beating, Fresh
<1>3. j \in Jobs /\ job[j] \in JobRow /\ job[j].ttl > Lease - 2 * Beat
  BY <1>1, <1>2 DEF Beating, InTime, Inv, TypeOK, NamesItsWork
<1>4. job'[j] = [job[j] EXCEPT !.ttl = IF @ > 0 THEN @ - 1 ELSE 0]
  BY <1>3 DEF Tick
<1>5. /\ job'[j].status = job[j].status /\ job'[j].owner = job[j].owner
      /\ job'[j].gen = job[j].gen
      /\ job'[j].ttl = IF job[j].ttl > 0 THEN job[j].ttl - 1 ELSE 0
  BY <1>3, <1>4 DEF JobRow
<1>6. job[j].ttl > 0 /\ job[j].ttl \in Int
  BY <1>3, QueueSettings DEF JobRow
<1>7. job[j].ttl - 1 >= Lease - 2 * Beat
  BY <1>3, <1>6, QueueSettings
<1>8. job'[j].ttl >= Lease - 2 * Beat
  BY <1>5, <1>6, <1>7
<1> QED BY <1>1, <1>2, <1>5, <1>8 DEF Fresh, Holds

LEMMA LeaseIsFreshInit == Init => LeaseIsFresh
BY DEF Init, LeaseIsFresh, Beating, Idle

LEMMA LeaseIsFreshNext == Inv /\ LeaseIsFresh /\ [Next]_vars => LeaseIsFresh'
<1> SUFFICES ASSUME Inv, LeaseIsFresh, [Next]_vars, Timely, NEW v \in Workers,
                    Beating(v)'
             PROVE  Fresh(v)'
  BY DEF LeaseIsFresh
<1>1. ASSUME Quiet PROVE Fresh(v)'
  BY <1>1, FreshStays DEF Quiet, Beating, Busy
<1>2. ASSUME NEW w \in Workers, Round(w) \/ QueuePass(w) \/ Execute(w) \/ Crash(w)
      PROVE  Fresh(v)'
  BY <1>1, <1>2, WorkerQuiet, ClaimKeepsFresh, RenewKeepsFresh, LeaveKeepsFresh
<1>3. ASSUME NEW j \in Jobs, CreateJob(j) PROVE Fresh(v)'
  <2>1. job[j].status = "ABSENT" /\ UNCHANGED wk
        /\ \A k \in Jobs : k # j => job'[k] = job[k]
    BY <1>3 DEF CreateJob, SetRow, Inv, TypeOK
  <2>2. Fresh(v) => wk[v].job \in Jobs /\ job'[wk[v].job] = job[wk[v].job]
    BY <2>1 DEF Fresh, Holds, Inv, TypeOK, NamesItsWork
  <2> QED BY <2>1, <2>2, FreshStays DEF Beating, Busy
<1>4. ASSUME NEW J \in SUBSET LegacyJobs, RecoverLegacy(J) PROVE Fresh(v)'
  <2>1. wk[v].pc = "idle" /\ UNCHANGED wk
    BY <1>4 DEF RecoverLegacy
  <2> QED BY <2>1 DEF Beating
<1>5. ASSUME Tick PROVE Fresh(v)'
  BY <1>5, TickKeepsFresh
<1>6. CASE (\E s \in Sources : DropSession(s)) \/ LapseLicense \/ RenewLicense
           \/ UNCHANGED vars
  <2>1. UNCHANGED <<job, recovered, claimant, wk>>
    BY <1>6 DEF DropSession, LapseLicense, RenewLicense, vars, tables, env
  <2> QED BY <1>1, <2>1 DEF Quiet
<1> QED BY <1>2, <1>3, <1>4, <1>5, <1>6 DEF Next, Environment

\* Where heartbeats meet their deadline, a run of any length keeps its lease, for
\* every lease and interval that queueSettings accepts.
THEOREM HealthyRunIsNeverReplaced == Spec => []HealthyRunKeepsItsLease
<1>1. Inv /\ LeaseIsFresh => HealthyRunKeepsItsLease
  BY FreshIsValid DEF LeaseIsFresh, HealthyRunKeepsItsLease, Inv
<1>2. Spec => []LeaseIsFresh
  BY InvHolds, LeaseIsFreshInit, LeaseIsFreshNext, PTL DEF Spec
<1> QED BY <1>1, <1>2, InvHolds, PTL

-----------------------------------------------------------------------------
(* The transaction of a batch *)

\* From its first check to its commit a transaction holds the row of its job, and
\* the row stays the one of its lease.
TransactionHolds ==
  \A w \in Workers :
    wk[w].pc = "tx" => rowLock[wk[w].job] = w /\ Holds(w)

\* A transaction goes on where neither its row nor the lock on it changes hands.
LEMMA TransactionStays ==
  ASSUME Inv, TransactionHolds, NEW w \in Workers,
         wk'[w].pc = "tx", wk[w].pc = "tx",
         wk'[w].job = wk[w].job, wk'[w].gen = wk[w].gen,
         rowLock[wk[w].job] = w => rowLock'[wk[w].job] = w,
         rowLock[wk[w].job] = w => /\ job'[wk[w].job].status = job[wk[w].job].status
                                   /\ job'[wk[w].job].owner = job[wk[w].job].owner
                                   /\ job'[wk[w].job].gen = job[wk[w].job].gen
  PROVE  (rowLock[wk[w].job] = w /\ Holds(w))'
BY DEF TransactionHolds, Holds

\* Only WriteBegin opens a transaction, and it opens only that of its worker.
LEMMA OnlyBeginOpens ==
  ASSUME TypeOK, NEW v \in Workers,
         Round(v) \/ QueuePass(v) \/ Execute(v) \/ Crash(v), ~WriteBegin(v),
         NEW w \in Workers, wk'[w].pc = "tx"
  PROVE  wk[w].pc = "tx" /\ wk'[w].job = wk[w].job /\ wk'[w].gen = wk[w].gen
<1> DEFINE Goal == wk[w].pc = "tx" /\ wk'[w].job = wk[w].job /\ wk'[w].gen = wk[w].gen
<1>0. wk[v] \in WorkerState /\ wk \in [Workers -> WorkerState]
  BY DEF TypeOK
<1>1. ASSUME NEW state, Becomes(v, state),
             state.pc = "tx" =>
               wk[v].pc = "tx" /\ state.job = wk[v].job /\ state.gen = wk[v].gen
      PROVE  Goal
  BY <1>0, <1>1 DEF Becomes
<1>2. ASSUME NEW state, Becomes(v, state), wk'[v].pc # "tx" PROVE Goal
  BY <1>0, <1>2 DEF Becomes
<1>3. ASSUME UNCHANGED wk PROVE Goal
  BY <1>3
<1>4. CASE Round(v)
  <2>1. \/ UNCHANGED wk
        \/ wk'[v].pc # "tx" /\ \E state : Becomes(v, state)
    <3>1. ASSUME NEW s \in Sources, RoundTake(v, s) \/ RoundSkip(v, s)
          PROVE  wk'[v].pc # "tx" /\ \E state : Becomes(v, state)
      BY <1>0, <3>1 DEF Becomes, RoundTake, RoundSkip, WorkerState
    <3>2. CASE StartRound(v) \/ RoundFinish(v) \/ RoundEnd(v)
      BY <1>0, <3>2 DEF Becomes, StartRound, RoundFinish, RoundEnd, Idle, WorkerState
    <3> QED BY <1>4, <3>1, <3>2 DEF Round, RoundWrite
  <2> QED BY <1>2, <1>3, <2>1
<1>5. CASE QueuePass(v) \/ Crash(v)
  <2>1. wk'[v].pc # "tx" /\ \E state : Becomes(v, state)
    <3>1. CASE TryLock(v) \/ SkipJob(v)
      BY <1>0, <3>1 DEF Becomes, TryLock, SkipJob, WorkerState
    <3>2. CASE AbortPass(v) \/ PassEnd(v) \/ Crash(v)
      BY <1>0, <3>2 DEF Becomes, AbortPass, PassEnd, Crash, Idle
    <3>4. CASE StartQueue(v)
      <4>1. PICK list : Becomes(v, IF licensed THEN [Idle EXCEPT !.pc = "pass", !.todo = list]
                                   ELSE Idle)
        BY <3>4 DEF StartQueue
      <4> QED BY <1>0, <4>1 DEF Becomes, Idle
    <3>3. CASE Claim(v) \/ ClaimMissed(v) \/ ClaimError(v)
      BY <1>0, <3>3 DEF Becomes, Claim, ClaimMissed, ClaimError, Leaving, Idle, WorkerState
    <3> QED BY <1>5, <3>1, <3>2, <3>3, <3>4 DEF QueuePass
  <2> QED BY <1>2, <2>1
<1>6. CASE Execute(v)
  <2>1. CASE BeatFails(v) \/ Cancel(v)
    <3>1. PICK c : Becomes(v, [wk[v] EXCEPT !.cause = c])
      BY <2>1 DEF BeatFails, Cancel
    <3> QED BY <1>0, <1>1, <3>1 DEF WorkerState
  <2>2. CASE Renew(v)
    BY <1>3, <2>2 DEF Renew
  <2>3. CASE WriteRefused(v) \/ WriteCommit(v) \/ WriteRollback(v) \/ RunEnds(v)
    <3>1. PICK p \in {"run", "ended"} :
                 \E o : Becomes(v, [wk[v] EXCEPT !.pc = p, !.outcome = o])
      <4>1. [wk[v] EXCEPT !.pc = "run"]
              = [wk[v] EXCEPT !.pc = "run", !.outcome = wk[v].outcome]
        BY <1>0 DEF WorkerState
      <4>2. CASE WriteRefused(v)
        BY <4>2 DEF WriteRefused
      <4>3. CASE WriteCommit(v)
        BY <4>1, <4>3 DEF WriteCommit
      <4>4. CASE WriteRollback(v)
        BY <4>1, <4>4 DEF WriteRollback
      <4>5. CASE RunEnds(v)
        BY <4>5 DEF RunEnds
      <4> QED BY <2>3, <4>2, <4>3, <4>4, <4>5
    <3>2. wk'[v].pc # "tx"
      BY <1>0, <3>1 DEF Becomes, WorkerState
    <3> QED BY <1>2, <3>1, <3>2
  <2>4. CASE Abandon(v) \/ Finish(v) \/ Pause(v) \/ FinishFails(v) \/ Release(v)
    <3>1. wk'[v].pc # "tx" /\ \E state : Becomes(v, state)
      BY <1>0, <2>4 DEF Becomes, Abandon, Finish, Pause, FinishFails, Release, Leaving, Idle
    <3> QED BY <1>2, <3>1
  <2> QED BY <1>6, <2>1, <2>2, <2>3, <2>4 DEF Execute
<1> QED BY <1>4, <1>5, <1>6

\* A step that rewrites a job finds its row unlocked.
LEMMA RewriteNeedsTheRow ==
  ASSUME Inv, NEW v \in Workers, Claim(v) \/ Renew(v) \/ Finish(v) \/ Pause(v),
         NEW k \in Jobs, rowLock[k] # NoWorker
  PROVE  job'[k] = job[k]
<1>1. PICK row : SetRow(wk[v].job, row) /\ rowLock[wk[v].job] = NoWorker
  BY DEF Claim, Renew, Finish, Pause, MayFinish
<1> QED BY <1>1 DEF SetRow, Inv, TypeOK

LEMMA TransactionHoldsNext == Inv /\ TransactionHolds /\ [Next]_vars => TransactionHolds'
<1> SUFFICES ASSUME Inv, TransactionHolds, [Next]_vars,
                    NEW w \in Workers, wk'[w].pc = "tx"
             PROVE  (rowLock[wk[w].job] = w /\ Holds(w))'
  BY DEF TransactionHolds
<1> DEFINE Goal == (rowLock[wk[w].job] = w /\ Holds(w))'
<1>0. /\ wk \in [Workers -> WorkerState] /\ rowLock \in [Jobs -> Workers \cup {NoWorker}]
      /\ job \in [Jobs -> JobRow]
      /\ \A v \in Workers : v # NoWorker /\ (wk[v].pc = "tx" => wk[v].job \in Jobs)
  BY WorkersAssumption DEF Inv, TypeOK, NamesItsWork
<1>1. ASSUME NEW v \in Workers, WriteBegin(v) PROVE Goal
  <2>1. /\ rowLock[wk[v].job] = NoWorker /\ LeaseValid(v) /\ UNCHANGED job
        /\ rowLock' = [rowLock EXCEPT ![wk[v].job] = v]
        /\ wk' = [wk EXCEPT ![v] = [wk[v] EXCEPT !.pc = "tx"]]
    BY <1>1 DEF WriteBegin, Becomes, tables
  <2>2. CASE v = w
    <3>1. wk'[w].job = wk[w].job /\ wk'[w].gen = wk[w].gen
      BY <1>0, <2>1, <2>2 DEF WorkerState
    <3>2. wk[w].job \in Jobs
      BY <2>1, <2>2, HeldRow
    <3> QED BY <1>0, <2>1, <2>2, <3>1, <3>2 DEF LeaseValid, Holds
  <2>3. CASE v # w
    <3>1. wk'[w] = wk[w] /\ wk[w].pc = "tx"
      BY <1>0, <2>1, <2>3
    <3>2. rowLock[wk[w].job] = w => wk[w].job # wk[v].job
      BY <1>0, <2>1
    <3> QED BY <1>0, <2>1, <3>1, <3>2, TransactionStays
  <2> QED BY <2>2, <2>3
<1>2. ASSUME NEW v \in Workers, Round(v) \/ QueuePass(v) \/ Execute(v) \/ Crash(v),
             ~WriteBegin(v)
      PROVE  Goal
  <2>1. wk[w].pc = "tx" /\ wk'[w].job = wk[w].job /\ wk'[w].gen = wk[w].gen
    BY <1>2, OnlyBeginOpens DEF Inv
  <2>2. wk[w].job \in Jobs /\ w # NoWorker /\ rowLock[wk[w].job] = w
    BY <1>0, <2>1 DEF TransactionHolds
  <2>3. job'[wk[w].job] = job[wk[w].job]
    <3>1. CASE Claim(v) \/ Renew(v) \/ Finish(v) \/ Pause(v)
      BY <2>2, <3>1, RewriteNeedsTheRow
    <3>2. CASE ~(Claim(v) \/ Renew(v) \/ Finish(v) \/ Pause(v))
      BY <1>2, <3>2, WorkerQuiet DEF Quiet
    <3> QED BY <3>1, <3>2
  <2>4. rowLock'[wk[w].job] = w
    <3>1. CASE WriteCommit(v) \/ WriteRollback(v)
      <4>1. wk[v].pc = "tx" /\ rowLock' = [rowLock EXCEPT ![wk[v].job] = NoWorker]
        BY <3>1 DEF WriteCommit, WriteRollback
      <4>2. v # w
        <5>1. PICK state :
                Becomes(v, state) /\ state.pc \in {"run", "ended"}
          <6>1. \A o : /\ [wk[v] EXCEPT !.pc = "run"].pc = "run"
                       /\ [wk[v] EXCEPT !.pc = "ended", !.outcome = o].pc = "ended"
            BY <1>0 DEF WorkerState
          <6> QED BY <3>1, <6>1 DEF WriteCommit, WriteRollback
        <5> QED BY <1>0, <5>1 DEF Becomes
      <4>3. rowLock[wk[v].job] = v
        BY <4>1 DEF TransactionHolds
      <4> QED BY <1>0, <2>2, <4>1, <4>2, <4>3
    <3>2. CASE Crash(v)
      <4>1. v # w
        <5>1. Becomes(v, Idle) /\ Idle.pc # "tx"
          BY <3>2 DEF Crash, Idle
        <5> QED BY <1>0, <5>1 DEF Becomes
      <4> QED BY <2>2, <3>2, <4>1 DEF Crash
    <3>3. CASE ~(WriteCommit(v) \/ WriteRollback(v) \/ Crash(v))
      <4>1. UNCHANGED rowLock
        BY <1>2, <3>3
           DEF Round, StartRound, RoundTake, RoundSkip, RoundWrite, RoundFinish,
               RoundEnd, QueuePass, StartQueue, TryLock, SkipJob, AbortPass, PassEnd,
               Claim, ClaimMissed, ClaimError, Execute, WriteRefused, RunEnds, Renew,
               BeatFails, Cancel, Abandon, Finish, Pause, FinishFails, Release
      <4> QED BY <2>2, <4>1
    <3> QED BY <3>1, <3>2, <3>3
  <2> QED BY <2>1, <2>3, <2>4, TransactionStays
<1>3. ASSUME UNCHANGED <<wk, rowLock>>,
             \A k \in Jobs : job[k].status = "RUNNING" =>
               /\ job'[k].status = job[k].status /\ job'[k].owner = job[k].owner
               /\ job'[k].gen = job[k].gen
      PROVE  Goal
  <2>1. wk[w].pc = "tx" /\ wk[w].job \in Jobs /\ job[wk[w].job].status = "RUNNING"
    BY <1>0, <1>3 DEF TransactionHolds, Holds
  <2> QED BY <1>3, <2>1, TransactionStays
<1>4. ASSUME NEW j \in Jobs, CreateJob(j) PROVE Goal
  <2>1. job[j].status = "ABSENT" /\ \A k \in Jobs \ {j} : job'[k] = job[k]
    BY <1>0, <1>4 DEF CreateJob, SetRow
  <2> QED BY <1>3, <1>4, <2>1 DEF CreateJob
<1>5. ASSUME NEW J \in SUBSET LegacyJobs, RecoverLegacy(J) PROVE Goal
  BY <1>5 DEF RecoverLegacy
<1>6. ASSUME Tick PROVE Goal
  <2>1. ASSUME NEW k \in Jobs
        PROVE  /\ job'[k].status = job[k].status /\ job'[k].owner = job[k].owner
               /\ job'[k].gen = job[k].gen
    BY <1>0, <1>6 DEF Tick, JobRow
  <2>2. UNCHANGED <<wk, rowLock>>
    BY <1>6 DEF Tick
  <2> QED BY <1>3, <2>1, <2>2
<1>7. CASE (\E s \in Sources : DropSession(s)) \/ LapseLicense \/ RenewLicense
           \/ UNCHANGED vars
  <2>1. UNCHANGED <<job, wk, rowLock>>
    BY <1>7 DEF DropSession, LapseLicense, RenewLicense, vars, tables
  <2> QED BY <1>3, <2>1
<1> QED BY <1>1, <1>2, <1>4, <1>5, <1>6, <1>7 DEF Next, Environment

\* Between the two checks of aggregationWrite the row lock keeps the lease where it
\* is: the second check fails because the lease ran out, the licence went or the run
\* was cancelled, never because another worker took the job over, and a batch is
\* never half one worker's and half another's.
THEOREM TransactionKeepsItsLease == Spec => []TransactionHolds
<1>1. Init => TransactionHolds
  BY DEF Init, Idle, TransactionHolds
<1> QED BY <1>1, TransactionHoldsNext, InvHolds, PTL DEF Spec

-----------------------------------------------------------------------------
(* The refinement of SyncJobs *)

\* Phase by phase, what the row of a job means to SyncJobs.
LEMMA PhaseCases ==
  ASSUME Inv, NEW j \in Jobs
  PROVE  /\ Phase(j) = "absent" <=> job[j].status = "ABSENT"
         /\ Phase(j) = "waiting" <=> job[j].status = "QUEUED"
         /\ Phase(j) = "legacy" <=> LegacyRunning(j)
         /\ Phase(j) = "running" <=> job[j].status = "RUNNING" /\ ~LegacyRunning(j)
         /\ Phase(j) = "done" <=> job[j].status \in Terminal
         /\ Phase(j) \in Promise!Open <=> job[j].active
<1>1. job[j].status \in Statuses /\ (job[j].status \in Live <=> job[j].active)
  BY DEF Inv, TypeOK, JobRow, NoStrandedJob
<1>2. LegacyRunning(j) => job[j].status = "RUNNING"
  BY DEF LegacyRunning
<1> QED BY <1>1, <1>2 DEF Phase, Statuses, Live, Terminal, Promise!Open

\* Only a running row has a runner: its owner, until the lease has run out.
LEMMA RunnerCases ==
  ASSUME Inv, NEW j \in Jobs
  PROVE  /\ Runner(j) # NoWorker => job[j].status = "RUNNING"
         /\ job[j].ttl = 0 => Runner(j) = NoWorker
         /\ job[j].ttl > 0 => Runner(j) = job[j].owner
BY DEF Runner, Inv, NoStrandedJob

\* A step that rewrites no row changes nothing of what SyncJobs sees of the jobs.
LEMMA SameJobs ==
  ASSUME UNCHANGED job
  PROVE  UNCHANGED <<[j \in Jobs |-> Phase(j)], [j \in Jobs |-> Runner(j)]>>
<1>1. \A j \in Jobs : Phase(j)' = Phase(j) /\ Runner(j)' = Runner(j)
  BY DEF Phase, Runner, LegacyRunning
<1> QED BY <1>1

\* One rewritten row moves one job.
LEMMA OneJobMoves ==
  ASSUME Inv, NEW j \in Jobs, NEW row, SetRow(j, row)
  PROVE  /\ [k \in Jobs |-> Phase(k)]'
              = [[k \in Jobs |-> Phase(k)] EXCEPT ![j] = Phase(j)']
         /\ [k \in Jobs |-> Runner(k)]'
              = [[k \in Jobs |-> Runner(k)] EXCEPT ![j] = Runner(j)']
         /\ job'[j] = row
<1>1. \A k \in Jobs : job'[k] = IF k = j THEN row ELSE job[k]
  BY DEF SetRow, Inv, TypeOK
<1>2. \A k \in Jobs \ {j} : Phase(k)' = Phase(k) /\ Runner(k)' = Runner(k)
  BY <1>1 DEF Phase, Runner, LegacyRunning
<1> QED BY <1>1, <1>2

\* A claim finds a job that waits or lost its runner, and becomes its runner.
LEMMA ClaimStarts ==
  ASSUME Inv, Inv', NEW w \in Workers, Claim(w)
  PROVE  Promise!Start(wk[w].job, w)
<1>0. PICK j \in Jobs : j = wk[w].job
  BY DEF Claim, Inv, TypeOK, NamesItsWork
<1> DEFINE row == Claimed(job[j], w)
<1>1. job[j] \in JobRow /\ SetRow(j, row) /\ Claimable(j) /\ UNCHANGED dim
  BY <1>0 DEF Claim, MayClaim, Inv, TypeOK
<1>2. row.status = "RUNNING" /\ row.owner = w /\ row.ttl = Lease /\ Lease > 0
  BY <1>1, QueueSettings DEF Claimed, JobRow
<1>3. Phase(j) \in {"waiting", "running"} /\ Runner(j) = NoWorker
  BY <1>1, PhaseCases, RunnerCases
     DEF Claimable, LegacyRunning, Inv, NoStrandedJob
<1>4. job'[j] = row
  BY <1>1, OneJobMoves
<1>5. Phase(j)' = "running" /\ Runner(j)' = w
  BY <1>2, <1>4, WorkersAssumption DEF Phase, Runner, LegacyRunning
<1> QED BY <1>0, <1>1, <1>3, <1>5, OneJobMoves DEF Promise!Start

\* A renewal keeps the runner.
LEMMA RenewStutters ==
  ASSUME Inv, NEW w \in Workers, Renew(w)
  PROVE  UNCHANGED Promise!vars
<1>0. PICK j \in Jobs : j = wk[w].job
  BY HeldRow DEF Renew
<1> DEFINE row == [job[j] EXCEPT !.ttl = Lease]
<1>1. SetRow(j, row) /\ LeaseValid(w) /\ UNCHANGED dim
  BY <1>0 DEF Renew
<1>2. job[j] \in JobRow /\ job[j].ttl > 0 /\ Lease > 0
  BY <1>0, <1>1, HeldRow, QueueSettings DEF LeaseValid
<1>3. job'[j] = row
  BY <1>1, <1>2, OneJobMoves
<1>4. /\ job'[j].status = job[j].status /\ job'[j].owner = job[j].owner
      /\ job'[j].gen = job[j].gen /\ job'[j].ttl > 0
  BY <1>2, <1>3 DEF JobRow
<1>5. Phase(j)' = Phase(j) /\ Runner(j)' = Runner(j)
  BY <1>2, <1>4 DEF Phase, Runner, LegacyRunning
<1> QED BY <1>1, <1>2, <1>5, OneJobMoves DEF Promise!vars

\* The runner ends its job, or gives it back.
LEMMA LeaveLeaves ==
  ASSUME Inv, NEW w \in Workers, LeaseValid(w), UNCHANGED dim,
         NEW row, SetRow(wk[w].job, row), row.ttl = 0, NEW p,
         \/ row.status = "QUEUED" /\ p = "waiting"
         \/ row.status \in Terminal /\ p = "done"
  PROVE  Promise!Leave(wk[w].job, p)
<1>0. PICK j \in Jobs : j = wk[w].job
  BY HeldRow
<1>1. SetRow(j, row) /\ job[j].owner = w /\ job[j].ttl > 0 /\ w # NoWorker
  BY <1>0, HeldRow, WorkersAssumption DEF LeaseValid
<1>2. Runner(j) # NoWorker
  BY <1>1 DEF Runner
<1>3. job'[j] = row
  BY <1>1, OneJobMoves
<1>4. Phase(j)' = p /\ Runner(j)' = NoWorker
  BY <1>3 DEF Phase, Runner, Terminal
<1> QED BY <1>0, <1>1, <1>2, <1>4, OneJobMoves DEF Promise!Leave

\* The batch of a lease holder is the batch of the runner of its job.
LEMMA CommitPublishes ==
  ASSUME Inv, NEW w \in Workers, WriteCommit(w)
  PROVE  wk[w].job \in Jobs /\ Promise!Publish(wk[w].job)
<1> DEFINE j == wk[w].job
<1>1. LeaseValid(w) /\ UNCHANGED job /\ dim' = [dim EXCEPT ![wk[w].src] = j]
  BY DEF WriteCommit, MayCommit
<1>2. j \in Jobs /\ Runner(j) # NoWorker
  BY <1>1, HeldRow, WorkersAssumption DEF LeaseValid, Runner
<1>3. wk[w].src = SourceOf[j]
  BY DEF WriteCommit, Inv, TypeOK, NamesItsWork
<1> QED BY <1>1, <1>2, <1>3, SameJobs DEF Promise!Publish

\* The unique key on active_key is what Submit asks of the open jobs.
LEMMA CreateSubmits ==
  ASSUME Inv, NEW j \in Jobs, CreateJob(j)
  PROVE  Promise!Submit(j)
<1> DEFINE row == [job[j] EXCEPT !.status = "QUEUED", !.active = TRUE]
<1>1. /\ job[j] \in JobRow /\ job[j].status = "ABSENT" /\ SetRow(j, row)
      /\ \A k \in Jobs : SourceOf[k] = SourceOf[j] => ~job[k].active
      /\ UNCHANGED dim
  BY DEF CreateJob, Inv, TypeOK
<1>2. job[j].ttl = 0 /\ row.status = "QUEUED" /\ row.ttl = job[j].ttl
  BY <1>1 DEF JobRow, Inv, NoStrandedJob
<1>3. job'[j] = row
  BY <1>1, OneJobMoves
<1>4. Phase(j)' = "waiting" /\ Runner(j)' = Runner(j)
  BY <1>2, <1>3 DEF Phase, Runner
<1>5. Phase(j) = "absent" /\ \A k \in Jobs : SourceOf[k] = SourceOf[j] =>
                                               Phase(k) \notin Promise!Open
  BY <1>1, PhaseCases
<1> QED BY <1>1, <1>4, <1>5, OneJobMoves DEF Promise!Submit

\* Recovered rows wait; none of them had or gets a runner.
LEMMA RecoveryAdopts ==
  ASSUME Inv, NEW J \in SUBSET LegacyJobs, RecoverLegacy(J)
  PROVE  J \in SUBSET Jobs /\ Promise!Adopt(J)
<1>1. /\ J \in SUBSET Jobs /\ \A k \in J : LegacyRunning(k)
      /\ \A k \in Jobs : job[k] \in JobRow
      /\ \A k \in Jobs : job'[k] =
           IF k \in J THEN [job[k] EXCEPT !.status = "QUEUED", !.active = TRUE]
                      ELSE job[k]
      /\ UNCHANGED dim
  BY JobsAssumption DEF RecoverLegacy, Inv, TypeOK
<1>2. \A k \in J : /\ job'[k].status = "QUEUED" /\ job'[k].ttl = job[k].ttl
                   /\ job'[k].owner = job[k].owner
  BY <1>1 DEF JobRow
<1>3. \A k \in J : Phase(k) = "legacy" /\ Phase(k)' = "waiting" /\ Runner(k)' = Runner(k)
  BY <1>1, <1>2, PhaseCases DEF Phase, Runner
<1>4. \A k \in Jobs \ J : Phase(k)' = Phase(k) /\ Runner(k)' = Runner(k)
  BY <1>1 DEF Phase, Runner, LegacyRunning
<1> QED BY <1>1, <1>3, <1>4 DEF Promise!Adopt

\* A tick loses the runners whose lease had one tick left.
LEMMA TickLoses ==
  ASSUME Inv, Tick
  PROVE  Promise!Lose({j \in Jobs : job[j].ttl = 1})
<1> DEFINE J == {j \in Jobs : job[j].ttl = 1}
<1>1. ASSUME NEW k \in Jobs
      PROVE  /\ job[k].ttl \in Nat
             /\ job'[k].status = job[k].status /\ job'[k].owner = job[k].owner
             /\ job'[k].gen = job[k].gen
             /\ job'[k].ttl = IF job[k].ttl > 0 THEN job[k].ttl - 1 ELSE 0
  <2>1. job[k] \in JobRow
        /\ job'[k] = [job[k] EXCEPT !.ttl = IF @ > 0 THEN @ - 1 ELSE 0]
    BY DEF Tick, Inv, TypeOK
  <2> QED BY <2>1 DEF JobRow
<1>2. \A k \in Jobs : Phase(k)' = Phase(k)
  BY <1>1 DEF Phase, LegacyRunning
<1>3. ASSUME NEW k \in Jobs
      PROVE  Runner(k)' = IF k \in J THEN NoWorker ELSE Runner(k)
  <2>1. (job'[k].ttl > 0) <=> (job[k].ttl > 0 /\ k \notin J)
    BY <1>1
  <2> QED BY <1>1, <2>1 DEF Runner
<1>4. UNCHANGED dim
  BY DEF Tick
<1> QED BY <1>2, <1>3, <1>4 DEF Promise!Lose

\* Every step is a step of SyncJobs, or nothing SyncJobs can see.
LEMMA PromiseNext == Inv /\ [Next]_vars => [Promise!Next]_(Promise!vars)
<1> SUFFICES ASSUME Inv, [Next]_vars PROVE [Promise!Next]_(Promise!vars)
  OBVIOUS
<1>0. Inv'
  BY InvNext
<1>1. ASSUME UNCHANGED <<job, dim>> PROVE UNCHANGED Promise!vars
  BY <1>1, SameJobs DEF Promise!vars
<1>2. ASSUME NEW w \in Workers, Claim(w) PROVE Promise!Next
  <2>1. wk[w].job \in Jobs
    BY <1>2 DEF Claim, Inv, TypeOK, NamesItsWork
  <2> QED BY <1>0, <1>2, <2>1, ClaimStarts DEF Promise!Next
<1>3. ASSUME NEW w \in Workers, Finish(w) PROVE Promise!Next
  <2> DEFINE row == Completed(job[wk[w].job], wk[w].outcome = "ok")
  <2>1. LeaseValid(w) /\ SetRow(wk[w].job, row) /\ UNCHANGED dim
    BY <1>3 DEF Finish
  <2>2. wk[w].job \in Jobs /\ row.ttl = 0 /\ row.status \in Terminal
    BY <2>1, HeldRow DEF Completed, JobRow, Terminal
  <2>3. Promise!Leave(wk[w].job, "done")
    BY <2>1, <2>2, LeaveLeaves
  <2> QED BY <2>2, <2>3 DEF Promise!Next
<1>4. ASSUME NEW w \in Workers, Pause(w) PROVE Promise!Next
  <2> DEFINE row == Paused(job[wk[w].job])
  <2>1. LeaseValid(w) /\ SetRow(wk[w].job, row) /\ UNCHANGED dim
    BY <1>4 DEF Pause
  <2>2. wk[w].job \in Jobs /\ row.ttl = 0 /\ row.status = "QUEUED"
    BY <2>1, HeldRow DEF Paused, JobRow
  <2>3. Promise!Leave(wk[w].job, "waiting")
    BY <2>1, <2>2, LeaveLeaves
  <2> QED BY <2>2, <2>3 DEF Promise!Next
<1>5. ASSUME NEW w \in Workers, WriteCommit(w) PROVE Promise!Next
  BY <1>5, CommitPublishes DEF Promise!Next
<1>6. ASSUME NEW w \in Workers, RoundWrite(w) PROVE Promise!Next
  <2>1. wk[w].src \in Sources
    BY <1>6 DEF RoundWrite, Inv, TypeOK, NamesItsWork
  <2>2. Promise!PublishRound(wk[w].src)
    BY <1>6, SameJobs DEF RoundWrite, Promise!PublishRound
  <2> QED BY <2>1, <2>2 DEF Promise!Next
<1>7. ASSUME NEW w \in Workers, Round(w) \/ QueuePass(w) \/ Execute(w) \/ Crash(w)
      PROVE  Promise!Next \/ UNCHANGED Promise!vars
  <2>1. CASE Claim(w) \/ Finish(w) \/ Pause(w) \/ WriteCommit(w) \/ RoundWrite(w)
    BY <1>2, <1>3, <1>4, <1>5, <1>6, <2>1
  <2>2. CASE Renew(w)
    BY <2>2, RenewStutters
  <2>3. CASE ~(\/ Claim(w) \/ Finish(w) \/ Pause(w) \/ WriteCommit(w)
               \/ RoundWrite(w) \/ Renew(w))
    <3>1. UNCHANGED job
      BY <1>7, <2>3, WorkerQuiet DEF Quiet
    <3>2. UNCHANGED dim
      BY <1>7, <2>3
         DEF tables, Round, StartRound, RoundTake, RoundSkip, RoundFinish, RoundEnd,
             QueuePass, StartQueue, TryLock, SkipJob, AbortPass, PassEnd, ClaimMissed,
             ClaimError, Execute, WriteBegin, WriteRefused, WriteRollback, RunEnds,
             BeatFails, Cancel, Abandon, FinishFails, Release, Crash
    <3> QED BY <1>1, <3>1, <3>2
  <2> QED BY <2>1, <2>2, <2>3
<1>8. ASSUME NEW j \in Jobs, CreateJob(j) PROVE Promise!Next
  BY <1>8, CreateSubmits DEF Promise!Next
<1>9. ASSUME NEW J \in SUBSET LegacyJobs, RecoverLegacy(J) PROVE Promise!Next
  BY <1>9, RecoveryAdopts DEF Promise!Next
<1>10. ASSUME Tick PROVE Promise!Next
  <2>1. {j \in Jobs : job[j].ttl = 1} \in SUBSET Jobs
    OBVIOUS
  <2> QED BY <1>10, <2>1, TickLoses DEF Promise!Next
<1>11. CASE (\E s \in Sources : DropSession(s)) \/ LapseLicense \/ RenewLicense
            \/ UNCHANGED vars
  <2>1. UNCHANGED <<job, dim>>
    BY <1>11 DEF DropSession, LapseLicense, RenewLicense, vars, tables
  <2> QED BY <1>1, <2>1
<1> QED
  BY <1>7, <1>8, <1>9, <1>10, <1>11 DEF Next, Environment

\* Leases, generations, locks, stalls and crashes implement what SyncJobs promises.
THEOREM PromiseIsKept == Spec => KeepsPromise
<1>1. Init => Promise!Init
  <2> SUFFICES ASSUME Init PROVE Promise!Init
    OBVIOUS
  <2>1. ASSUME NEW j \in Jobs
        PROVE  /\ Phase(j) = IF j \in LegacyJobs THEN "legacy" ELSE "absent"
               /\ Runner(j) = NoWorker
    <3>1. job[j] = IF j \in LegacyJobs THEN Legacy ELSE Absent
      BY DEF Init
    <3>2. /\ Legacy.status = "RUNNING" /\ Legacy.owner = NoWorker /\ Legacy.gen = 0
          /\ Absent.status = "ABSENT" /\ Absent.ttl = 0 /\ Legacy.ttl = 0
      BY DEF Legacy, Absent
    <3> QED BY <3>1, <3>2 DEF Phase, Runner, LegacyRunning
  <2>2. dim = [s \in Sources |-> NoJob]
    BY DEF Init
  <2> QED BY <2>1, <2>2 DEF Promise!Init
<1> QED BY <1>1, PromiseNext, InvHolds, PTL DEF Spec, KeepsPromise, Promise!Spec

=============================================================================
