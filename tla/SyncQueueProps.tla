--------------------------- MODULE SyncQueueProps ---------------------------
(* What must be true of SyncQueue, and its fairness. *)
EXTENDS SyncQueue

\* A stage that works on a source or a job names it.
NamesItsWork(state) ==
  /\ state.pc \in {"locked", "run", "tx", "ended"} =>
       state.job \in Jobs /\ state.src = SourceOf[state.job]
  /\ state.pc \in {"sync", "release"} => state.src \in Sources

\* Every variable has its type.
TypeOK ==
  /\ job \in [Jobs -> JobRow]
  /\ recovered \in SUBSET Jobs
  /\ source \in [Sources -> SourceRow]
  /\ dim \in [Sources -> Jobs \cup {NoJob}]
  /\ rowLock \in [Jobs -> Workers \cup {NoWorker}]
  /\ lock \in [Sources -> Workers \cup {NoWorker}]
  /\ wk \in [Workers -> WorkerState]
  /\ \A w \in Workers : NamesItsWork(wk[w])
  /\ claimant \in [Sources -> Workers \cup {NoWorker}]
  /\ now \in Nat /\ licensed \in BOOLEAN /\ faults \in Nat

-----------------------------------------------------------------------------
(* Safety of the queue *)

\* A source never has two jobs that are queued or running, whatever sequence of
\* claims, pauses, expiries and recoveries led there (uk on active_key).
OneOpenJobPerSource ==
  \A j, k \in Jobs :
    /\ job[j].status \in Live /\ job[k].status \in Live
    /\ SourceOf[j] = SourceOf[k]
    => j = k

\* No job can be stranded: an open row is one that a later pass may claim (it is
\* queued without an owner, or running with an owner whose lease runs down), or
\* a legacy row awaiting its recovery; a finished row keeps neither owner nor slot.
NoStrandedJob ==
  \A j \in Jobs :
    /\ job[j].status = "RUNNING" =>
         job[j].owner # NoWorker \/ (j \in LegacyJobs \ recovered /\ job[j].gen = 0)
    /\ job[j].status # "RUNNING" => job[j].owner = NoWorker
    /\ job[j].owner = NoWorker => job[j].ttl = 0
    /\ job[j].status \in Live <=> job[j].active

\* A worker whose token and generation still stand in the row of its job is the
\* last one that claimed any job of that source.
HolderClaimedLast ==
  \A w \in Workers : Holds(w) => claimant[SourceOf[wk[w].job]] = w

\* Two workers never both hold a matching lease row for the same source.
OneHolderPerSource ==
  \A v, w \in Workers : Holds(v) /\ Holds(w) /\ wk[v].src = wk[w].src => v = w

\* A legacy row leaves its state only through an audited recovery.
LegacyNeedsAudit ==
  \A j \in LegacyJobs : ~LegacyRunning(j) => j \in recovered

\* A worker that was replaced never publishes again: every committed batch of the
\* queue comes from the last worker that claimed a job of that source.
LateWriterNeverPublishes ==
  [][\A w \in Workers : WriteCommit(w) => claimant[wk[w].src] = w]_vars

\* No batch of a job is committed once the job has ended.
FinishedJobNeverPublishes ==
  [][\A j \in Jobs :
       job[j].status \in Terminal /\ dim[SourceOf[j]] # j => dim'[SourceOf[j]] # j]_vars

\* Every change of owner raises the generation, so a list of jobs read before it
\* can never be used to claim after it; ended jobs do not change at all.
TakeoverRaisesGeneration ==
  [][\A j \in Jobs :
       /\ job'[j].owner \notin {NoWorker, job[j].owner} => job'[j].gen > job[j].gen
       /\ job[j].status \in Terminal => job'[j] = job[j]]_vars

\* The watermark of a source never goes back, whichever channel, clock or late
\* worker writes it.
WatermarkNeverRegresses ==
  [][\A s \in Sources : source'[s].run >= source[s].run]_vars

\* A claim never takes a job from a run whose heartbeats are in time, however
\* long that run lasts (docs/sync-job-lease-recovery.md:8).
HealthyRunKeepsItsLease ==
  Timely => \A w \in Workers : Beating(w) => LeaseValid(w)

\* At most one worker is between taking and releasing the lock of a source.
OneWorkerPerSource ==
  \A s \in Sources : \A v, w \in Workers : WorksOn(v, s) /\ WorksOn(w, s) => v = w

-----------------------------------------------------------------------------
(* Liveness *)

\* Steps of a running worker that need no fault: the loops over batches and
\* heartbeats are left out, RunEnds and Renew have a condition of their own.
Progress(w) ==
  /\ NoFault
  /\ \/ StartRound(w) \/ RoundFinish(w) \/ RoundEnd(w)
     \/ \E s \in Sources : RoundTake(w, s) \/ RoundSkip(w, s)
     \/ StartQueue(w) \/ TryLock(w) \/ SkipJob(w) \/ AbortPass(w) \/ PassEnd(w)
     \/ Claim(w) \/ ClaimMissed(w)
     \/ WriteRefused(w) \/ WriteCommit(w) \/ WriteRollback(w)
     \/ Abandon(w) \/ Finish(w) \/ Pause(w) \/ FinishFails(w) \/ Release(w)

\* Goroutines and the ticker run, a source has finitely many batches (each turn
\* of the loop can be the last), the clock moves, a lapsed licence is renewed.
Fairness ==
  /\ \A w \in Workers :
       WF_vars(Progress(w)) /\ SF_vars(RunEnds(w)) /\ WF_vars(Renew(w))
  /\ WF_vars(Tick) /\ WF_vars(RenewLicense)

FairSpec == Spec /\ Fairness

\* After the last fault every open job that has no legacy owner ends, also one
\* whose worker crashed: its lease expires and another worker takes it over.
EveryJobEnds ==
  \A j \in Jobs : job[j].status \in Live /\ ~LegacyRunning(j) ~> job[j].status \in Terminal

-----------------------------------------------------------------------------
(* Refinement *)

\* Where the job of a row stands, and who may publish for it: the holder of a
\* lease that has not run out.
Phase(j) ==
  CASE job[j].status = "ABSENT" -> "absent"
    [] job[j].status = "QUEUED" -> "waiting"
    [] job[j].status = "RUNNING" -> IF LegacyRunning(j) THEN "legacy" ELSE "running"
    [] OTHER -> "done"
Runner(j) == IF job[j].ttl > 0 THEN job[j].owner ELSE NoWorker

Promise == INSTANCE SyncJobs WITH
  phase <- [j \in Jobs |-> Phase(j)], runner <- [j \in Jobs |-> Runner(j)], dim <- dim

\* The lease protocol implements the promise of SyncJobs.
KeepsPromise == Promise!Spec
=============================================================================
