------------------------------ MODULE SyncQueue ------------------------------
(***************************************************************************)
(* The synchronisation workers of one tenant and the two tables and one    *)
(* named lock they share.                                                  *)
(*                                                                         *)
(* An aggregation worker runs passes one after another.  A pass first runs *)
(* the scheduled round (every configured source in turn) and then drains   *)
(* the queue of manually requested jobs (internal/aggregation:             *)
(* runScheduledSources, runLeasedQueue).  Several workers run at once.      *)
(*   - A job of the queue is owned through a lease on its sync_job row:     *)
(*     owner token, generation, expiry on the clock of the database.       *)
(*   - Both channels first take the named lock of the source (GET_LOCK),   *)
(*     held by a database session that may die while the worker lives on.  *)
(*   - Both channels report into the sync_source row of the source.         *)
(*                                                                         *)
(* A job is a number, its rank in ORDER BY requested_at, id.  The owner    *)
(* token of a claim is the worker that drew it: a worker runs one job at a *)
(* time, so two tokens of the same worker never coexist, and a crash       *)
(* forgets the old one.  A lease expiry is kept as the time that is left    *)
(* (ttl, 0 when the expiry has passed or the column is NULL).              *)
(***************************************************************************)
EXTENDS Integers, FiniteSets

CONSTANTS Workers,      \* worker processes
          NoWorker,     \* NULL in lease_owner, a free lock
          Jobs,         \* sync_job rows that may exist
          Sources,      \* source subsystems
          SourceOf,     \* the source a job synchronises
          LegacyJobs,   \* rows left RUNNING by a release without leases
          Scheduled,    \* sources the scheduled round has configured
          ListLimit,    \* jobs one pass lists at most (10)
          Lease,        \* lease duration, in clock ticks
          Beat,         \* heartbeat interval, in clock ticks
          Skew,         \* how far the host clock of a worker is ahead
          MaxClock,     \* the timestamps distinguished (later ones coincide)
          MaxFaults,    \* bound on crashes, stalls, cancellations and other faults
          Timely,       \* no worker stalls past its heartbeat's deadline
          SessionDrops  \* the session of a named lock may die alone

NoJob == 0
NoRun == -1

ASSUME WorkersAssumption == NoWorker \notin Workers
ASSUME JobsAssumption == Jobs \subseteq Nat \ {NoJob} /\ LegacyJobs \subseteq Jobs
ASSUME SourcesAssumption == SourceOf \in [Jobs -> Sources] /\ Scheduled \subseteq Sources
\* Two legacy rows of one source would violate the unique key on active_key.
ASSUME LegacyAssumption ==
  \A j, k \in LegacyJobs : SourceOf[j] = SourceOf[k] => j = k
\* queueSettings refuses every other configuration.
ASSUME QueueSettings == Lease \in Nat /\ Beat \in Nat \ {0} /\ Lease >= 3 * Beat
ASSUME ClockAssumption == Skew \in [Workers -> Nat] /\ MaxClock \in Nat
ASSUME BoundsAssumption ==
  /\ ListLimit \in Nat \ {0} /\ MaxFaults \in Nat
  /\ Timely \in BOOLEAN /\ SessionDrops \in BOOLEAN

VARIABLES job,        \* table sync_job
          recovered,  \* jobs with a row in sync_job_recovery_audit
          source,     \* table sync_source
          dim,        \* the job whose batch a source's projection got last
          rowLock,    \* transaction that holds the row lock of a job
          lock,       \* holder of the named lock of a source
          wk,         \* local state of the workers
          claimant,   \* history: the last worker that claimed a job of a source
          now,        \* clock of the database
          licensed,   \* the verdict of LicenseCheck
          faults      \* faults so far

tables == <<job, recovered, source, dim>>
env == <<now, licensed, faults>>
vars == <<job, recovered, source, dim, rowLock, lock, wk, claimant, now,
          licensed, faults>>

-----------------------------------------------------------------------------
Statuses == {"ABSENT", "QUEUED", "RUNNING", "SUCCESS", "FAILED"}
Live == {"QUEUED", "RUNNING"}
Terminal == {"SUCCESS", "FAILED"}
Stages == {"idle", "round", "sync", "due", "pass", "locked",
           "run", "tx", "ended", "release"}
Outcomes == {"none", "ok", "error", "lost"}
\* Why the context of a job is cancelled, if it is.
Causes == {"none", "beat", "timeout", "shutdown"}

Entry == [job : Jobs, gen : Nat]

JobRow == [status : Statuses, active : BOOLEAN, owner : Workers \cup {NoWorker},
           gen : Nat, ttl : 0 .. Lease, started : Nat]
SourceRow == [status : {"PENDING", "RUNNING", "SUCCESS", "FAILED"},
              run : Nat \cup {NoRun}, succeeded : BOOLEAN]
WorkerState == [pc : Stages, left : SUBSET Sources, start : Nat,
                todo : SUBSET Entry, job : Jobs \cup {NoJob}, gen : Nat,
                src : Sources \cup {NoWorker}, cause : Causes,
                outcome : Outcomes]

Idle == [pc |-> "idle", left |-> {}, start |-> 0, todo |-> {}, job |-> NoJob,
         gen |-> 0, src |-> NoWorker, cause |-> "none",
         outcome |-> "none"]

\* About to release its lock; a pass that was aborted has nothing left to do.
Leaving(w, todo) ==
  [Idle EXCEPT !.pc = "release", !.src = wk[w].src, !.todo = todo]

Absent == [status |-> "ABSENT", active |-> FALSE, owner |-> NoWorker,
           gen |-> 0, ttl |-> 0, started |-> 0]
Legacy == [Absent EXCEPT !.status = "RUNNING", !.active = TRUE]

Init ==
  /\ job = [j \in Jobs |-> IF j \in LegacyJobs THEN Legacy ELSE Absent]
  /\ recovered = {}
  /\ source = [s \in Sources |->
                 [status |-> "PENDING", run |-> NoRun, succeeded |-> FALSE]]
  /\ dim = [s \in Sources |-> NoJob]
  /\ rowLock = [j \in Jobs |-> NoWorker]
  /\ lock = [s \in Sources |-> NoWorker]
  /\ wk = [w \in Workers |-> Idle]
  /\ claimant = [s \in Sources |-> NoWorker]
  /\ now = 0
  /\ licensed = TRUE
  /\ faults = 0

-----------------------------------------------------------------------------
(* Helpers *)

\* A fault of the environment, of which a behaviour has at most MaxFaults.
Fault == faults < MaxFaults /\ faults' = faults + 1
NoFault == UNCHANGED faults

\* One worker changes its local state; one row of sync_job is updated.
Becomes(w, state) == wk' = [wk EXCEPT ![w] = state]
SetRow(j, row) == job' = [job EXCEPT ![j] = row]

HostNow(w) == now + Skew[w]

\* Mutants of Claimable: expiry ignored; a row without an owner taken as expired;
\* an interrupted job never picked up again.
ClaimableWhileRunning(j) ==
  \/ job[j].status = "QUEUED"
  \/ job[j].status = "RUNNING" /\ job[j].owner # NoWorker
ClaimableUnowned(j) == job[j].status \in Live /\ job[j].ttl = 0
ClaimableQueued(j) == job[j].status = "QUEUED"

\* The rows a pass lists and a claim accepts.
Claimable(j) ==
  \/ job[j].status = "QUEUED"
  \/ job[j].status = "RUNNING" /\ job[j].owner # NoWorker /\ job[j].ttl = 0

\* ORDER BY requested_at, id LIMIT ListLimit
Listed ==
  {j \in Jobs : Claimable(j) /\
     Cardinality({k \in Jobs : k < j /\ Claimable(k)}) < ListLimit}

\* The entry of its list a pass turns to next.
First(w) == {e \in wk[w].todo : \A f \in wk[w].todo : e.job <= f.job}

\* The row still carries the owner token and the generation of w's lease.
Holds(w) ==
  /\ wk[w].pc \in {"run", "tx", "ended"}
  /\ job[wk[w].job].status = "RUNNING"
  /\ job[wk[w].job].owner = w
  /\ job[wk[w].job].gen = wk[w].gen

\* Mutants of LeaseValid: any unexpired lease will do; writes without a fence.
LeaseUnexpired(w) == wk[w].pc \in {"run", "tx", "ended"} /\ job[wk[w].job].ttl > 0
LeaseAssumed(w) == wk[w].pc \in {"run", "tx", "ended"}

\* lockedQueueJob: expiry is exclusive.
LeaseValid(w) == Holds(w) /\ job[wk[w].job].ttl > 0

\* The heartbeat goroutine of w is alive.
Beating(w) == wk[w].pc \in {"run", "tx", "ended"} /\ wk[w].cause = "none"

\* Mutant of Marked: no watermark.
MarkedAlways(row, status, start, success) ==
  [status |-> status, run |-> start, succeeded |-> row.succeeded \/ success]

\* mark and markQueueSource: only if the stored run is not a later one.
Marked(row, status, start, success) ==
  IF row.run <= start
  THEN [status |-> status, run |-> start, succeeded |-> row.succeeded \/ success]
  ELSE row

\* Worker w is between taking and releasing the named lock of source s.
WorksOn(w, s) ==
  wk[w].pc \in {"sync", "locked", "run", "tx", "ended", "release"} /\ wk[w].src = s

-----------------------------------------------------------------------------
(* The scheduled round (runScheduledSources) *)

StartRound(w) ==
  /\ wk[w].pc = "idle" /\ licensed
  /\ Becomes(w, [Idle EXCEPT !.pc = "round", !.left = Scheduled,
                            !.start = HostNow(w)])
  /\ UNCHANGED <<tables, rowLock, lock, claimant, env>>

\* Take the lock of s and mark its source RUNNING; mark drops write errors.
RoundTake(w, s) ==
  /\ wk[w].pc = "round" /\ s \in wk[w].left /\ licensed
  /\ lock[s] = NoWorker
  /\ lock' = [lock EXCEPT ![s] = w]
  /\ \/ /\ NoFault
        /\ source' = [source EXCEPT ![s] = Marked(@, "RUNNING", wk[w].start, FALSE)]
     \/ Fault /\ UNCHANGED source
  /\ Becomes(w, [wk[w] EXCEPT !.pc = "sync", !.src = s, !.left = @ \ {s}])
  /\ UNCHANGED <<job, recovered, dim, rowLock, claimant, now, licensed>>

\* Another worker holds the lock, or it cannot be asked for.
RoundSkip(w, s) ==
  /\ wk[w].pc = "round" /\ s \in wk[w].left /\ licensed
  /\ (lock[s] # NoWorker /\ NoFault) \/ Fault
  /\ Becomes(w, [wk[w] EXCEPT !.left = @ \ {s}])
  /\ UNCHANGED <<tables, rowLock, lock, claimant, now, licensed>>

\* A batch of the scheduled channel: no lease in its context, so no fence.
RoundWrite(w) ==
  /\ wk[w].pc = "sync" /\ licensed
  /\ dim' = [dim EXCEPT ![wk[w].src] = NoJob]
  /\ UNCHANGED <<job, recovered, source, rowLock, lock, wk, claimant, env>>

\* The source is done: mark it (again dropping errors) and release its lock.
RoundFinish(w) ==
  LET s == wk[w].src IN
  /\ wk[w].pc = "sync"
  /\ \/ /\ NoFault /\ licensed
        /\ \E ok \in BOOLEAN :
             source' = [source EXCEPT ![s] =
                Marked(@, IF ok THEN "SUCCESS" ELSE "FAILED", wk[w].start, ok)]
     \/ NoFault /\ ~licensed /\ UNCHANGED source
     \/ Fault /\ UNCHANGED source
  /\ lock' = [lock EXCEPT ![s] = IF @ = w THEN NoWorker ELSE @]
  /\ Becomes(w, [wk[w] EXCEPT !.pc = "round", !.src = NoWorker])
  /\ UNCHANGED <<job, recovered, dim, rowLock, claimant, now, licensed>>

\* All sources visited, licence gone, or the context cancelled.
RoundEnd(w) ==
  /\ wk[w].pc = "round"
  /\ ((wk[w].left = {} \/ ~licensed) /\ NoFault) \/ Fault
  /\ Becomes(w, [Idle EXCEPT !.pc = "due"])
  /\ UNCHANGED <<tables, rowLock, lock, claimant, now, licensed>>

-----------------------------------------------------------------------------
(* The queue pass (runLeasedQueue) *)

\* List the claimable rows with the generation seen now.
StartQueue(w) ==
  /\ wk[w].pc = "due"
  /\ Becomes(w,
       IF licensed
         THEN [Idle EXCEPT !.pc = "pass",
                 !.todo = {[job |-> j, gen |-> job[j].gen] : j \in Listed}]
         ELSE Idle)
  /\ UNCHANGED <<tables, rowLock, lock, claimant, env>>

\* Mutant of TryLock: the answer of GET_LOCK is not looked at.
TryLockIgnored(w) ==
  /\ wk[w].pc = "pass" /\ licensed
  /\ \E e \in First(w) :
       Becomes(w, [wk[w] EXCEPT !.pc = "locked", !.todo = @ \ {e}, !.job = e.job,
                                !.gen = e.gen, !.src = SourceOf[e.job]])
  /\ UNCHANGED <<tables, rowLock, lock, claimant, env>>

\* The source lock comes before the claim.
TryLock(w) ==
  /\ wk[w].pc = "pass" /\ licensed
  /\ \E e \in First(w) :
       /\ lock[SourceOf[e.job]] = NoWorker
       /\ lock' = [lock EXCEPT ![SourceOf[e.job]] = w]
       /\ Becomes(w, [wk[w] EXCEPT !.pc = "locked", !.todo = @ \ {e},
                         !.job = e.job, !.gen = e.gen,
                         !.src = SourceOf[e.job]])
  /\ UNCHANGED <<tables, rowLock, claimant, env>>

\* The lock is taken: the job stays as it is for a later pass.
SkipJob(w) ==
  /\ wk[w].pc = "pass" /\ licensed
  /\ \E e \in First(w) :
       /\ lock[SourceOf[e.job]] # NoWorker
       /\ Becomes(w, [wk[w] EXCEPT !.todo = @ \ {e}])
  /\ UNCHANGED <<tables, rowLock, lock, claimant, env>>

\* No licence, a cancelled context or a lock error end the pass.
AbortPass(w) ==
  /\ wk[w].pc = "pass" /\ wk[w].todo # {}
  /\ (~licensed /\ NoFault) \/ Fault
  /\ Becomes(w, Idle)
  /\ UNCHANGED <<tables, rowLock, lock, claimant, now, licensed>>

PassEnd(w) ==
  /\ wk[w].pc = "pass" /\ wk[w].todo = {}
  /\ Becomes(w, Idle)
  /\ UNCHANGED <<tables, rowLock, lock, claimant, env>>

\* The claim's conditional update, under the row lock.
MayClaim(w) == job[wk[w].job].gen = wk[w].gen /\ Claimable(wk[w].job)

\* Mutant of Claimed: the generation stays.
ClaimedSameGeneration(row, w) ==
  [row EXCEPT !.status = "RUNNING", !.active = TRUE, !.owner = w, !.ttl = Lease,
              !.started = now]

Claimed(row, w) ==
  [row EXCEPT !.status = "RUNNING", !.active = TRUE, !.owner = w,
              !.gen = @ + 1, !.ttl = Lease, !.started = now]

Claim(w) ==
  LET j == wk[w].job IN
  /\ wk[w].pc = "locked" /\ rowLock[j] = NoWorker /\ MayClaim(w)
  /\ SetRow(j, Claimed(job[j], w))
  /\ claimant' = [claimant EXCEPT ![SourceOf[j]] = w]
  /\ Becomes(w, [wk[w] EXCEPT !.pc = "run", !.gen = @ + 1])
  /\ UNCHANGED <<recovered, source, dim, rowLock, lock, env>>

\* Somebody was faster: release the lock and go on with the pass.
ClaimMissed(w) ==
  /\ wk[w].pc = "locked" /\ rowLock[wk[w].job] = NoWorker /\ ~MayClaim(w)
  /\ Becomes(w, Leaving(w, wk[w].todo))
  /\ UNCHANGED <<tables, rowLock, lock, claimant, env>>

ClaimError(w) ==
  /\ wk[w].pc = "locked" /\ Fault
  /\ Becomes(w, Leaving(w, {}))
  /\ UNCHANGED <<tables, rowLock, lock, claimant, now, licensed>>

-----------------------------------------------------------------------------
(* One job (executeQueueJob): the run, its fenced writes, its heartbeat *)

\* aggregationWrite opens a transaction: row lock, lease check, licence.
WriteBegin(w) ==
  /\ wk[w].pc = "run" /\ wk[w].cause = "none" /\ licensed
  /\ rowLock[wk[w].job] = NoWorker /\ LeaseValid(w)
  /\ rowLock' = [rowLock EXCEPT ![wk[w].job] = w]
  /\ Becomes(w, [wk[w] EXCEPT !.pc = "tx"])
  /\ UNCHANGED <<tables, lock, claimant, env>>

\* The first check finds the lease gone.
WriteRefused(w) ==
  /\ wk[w].pc = "run" /\ wk[w].cause = "none"
  /\ rowLock[wk[w].job] = NoWorker /\ ~LeaseValid(w)
  /\ Becomes(w, [wk[w] EXCEPT !.pc = "ended", !.outcome = "lost"])
  /\ UNCHANGED <<tables, rowLock, lock, claimant, env>>

\* Second check just before the commit, the row lock still held.
MayCommit(w) == wk[w].cause = "none" /\ LeaseValid(w) /\ licensed

WriteCommit(w) ==
  /\ wk[w].pc = "tx" /\ MayCommit(w)
  /\ dim' = [dim EXCEPT ![wk[w].src] = wk[w].job]
  /\ rowLock' = [rowLock EXCEPT ![wk[w].job] = NoWorker]
  /\ Becomes(w, [wk[w] EXCEPT !.pc = "run"])
  /\ UNCHANGED <<job, recovered, source, lock, claimant, env>>

\* Rolled back.  The run ends with the error, except where it drops the error
\* of a status mark (contract_approval) and goes on.
WriteRollback(w) ==
  /\ wk[w].pc = "tx"
  /\ (~MayCommit(w) /\ NoFault) \/ Fault
  /\ rowLock' = [rowLock EXCEPT ![wk[w].job] = NoWorker]
  /\ \/ Becomes(w, [wk[w] EXCEPT !.pc = "run"])
     \/ Becomes(w, [wk[w] EXCEPT !.pc = "ended",
                       !.outcome = IF wk[w].cause = "none" /\ ~LeaseValid(w)
                                     THEN "lost" ELSE "error"])
  /\ UNCHANGED <<tables, lock, claimant, now, licensed>>

\* The source is read to its end, or the run fails.
RunEnds(w) ==
  /\ wk[w].pc = "run"
  /\ \E o \in {"ok", "error"} :
       Becomes(w, [wk[w] EXCEPT !.pc = "ended", !.outcome = o])
  /\ UNCHANGED <<tables, rowLock, lock, claimant, env>>

\* Mutant of Renew: counts from the old expiry.
RenewAdding(w) ==
  /\ Beating(w) /\ rowLock[wk[w].job] = NoWorker /\ LeaseValid(w)
  /\ SetRow(wk[w].job, [job[wk[w].job] EXCEPT !.ttl = @ + Lease])
  /\ UNCHANGED <<recovered, source, dim, rowLock, lock, wk, claimant, env>>

Renew(w) ==
  /\ Beating(w) /\ rowLock[wk[w].job] = NoWorker /\ LeaseValid(w)
  /\ SetRow(wk[w].job, [job[wk[w].job] EXCEPT !.ttl = Lease])
  /\ UNCHANGED <<recovered, source, dim, rowLock, lock, wk, claimant, env>>

\* A failed or late heartbeat cancels the run.
BeatFails(w) ==
  /\ Beating(w)
  /\ (rowLock[wk[w].job] = NoWorker /\ ~LeaseValid(w) /\ NoFault) \/ Fault
  /\ Becomes(w, [wk[w] EXCEPT !.cause = "beat"])
  /\ UNCHANGED <<tables, rowLock, lock, claimant, now, licensed>>

\* The task timeout, or the shutdown of the process.
Cancel(w) ==
  /\ Beating(w) /\ Fault
  /\ \E c \in {"timeout", "shutdown"} : Becomes(w, [wk[w] EXCEPT !.cause = c])
  /\ UNCHANGED <<tables, rowLock, lock, claimant, now, licensed>>

\* Without a sure lease the job is left to expire, and the pass ends.
Abandon(w) ==
  /\ wk[w].pc = "ended" /\ (wk[w].cause = "beat" \/ wk[w].outcome = "lost")
  /\ Becomes(w, Leaving(w, {}))
  /\ UNCHANGED <<tables, rowLock, lock, claimant, env>>

\* finishQueueJob in a transaction of its own.
MayFinish(w) ==
  /\ wk[w].pc = "ended" /\ wk[w].cause # "beat" /\ wk[w].outcome # "lost"
  /\ rowLock[wk[w].job] = NoWorker

Pausing(w) == wk[w].cause # "none" \/ ~licensed

\* Mutants of Paused: the slot of the source is given up; the lease is kept.
PausedFreeingSlot(row) ==
  [row EXCEPT !.status = "QUEUED", !.active = FALSE, !.owner = NoWorker, !.ttl = 0]
PausedWithLease(row) == [row EXCEPT !.status = "QUEUED", !.started = 0]

Paused(row) ==
  [row EXCEPT !.status = "QUEUED", !.active = TRUE, !.owner = NoWorker,
              !.ttl = 0, !.started = 0]

Completed(row, ok) ==
  [row EXCEPT !.status = IF ok THEN "SUCCESS" ELSE "FAILED",
              !.active = FALSE, !.owner = NoWorker, !.ttl = 0]

\* Terminal state of the job and watermark of its source, atomically.
Finish(w) ==
  LET j  == wk[w].job
      ok == wk[w].outcome = "ok"
  IN
  /\ MayFinish(w) /\ LeaseValid(w) /\ ~Pausing(w)
  /\ SetRow(j, Completed(job[j], ok))
  /\ source' = [source EXCEPT ![SourceOf[j]] =
       Marked(@, IF ok THEN "SUCCESS" ELSE "FAILED", job[j].started, FALSE)]
  /\ Becomes(w, Leaving(w, wk[w].todo))
  /\ UNCHANGED <<recovered, dim, rowLock, lock, claimant, env>>

\* Cancelled or unlicensed: back to the queue, and the pass ends.
Pause(w) ==
  /\ MayFinish(w) /\ LeaseValid(w) /\ Pausing(w)
  /\ SetRow(wk[w].job, Paused(job[wk[w].job]))
  /\ Becomes(w, Leaving(w, {}))
  /\ UNCHANGED <<recovered, source, dim, rowLock, lock, claimant, env>>

FinishFails(w) ==
  /\ MayFinish(w)
  /\ (~LeaseValid(w) /\ NoFault) \/ Fault
  /\ Becomes(w, Leaving(w, {}))
  /\ UNCHANGED <<tables, rowLock, lock, claimant, now, licensed>>

\* RELEASE_LOCK; an error is only logged.
Release(w) ==
  /\ wk[w].pc = "release"
  /\ lock' = [lock EXCEPT ![wk[w].src] = IF @ = w THEN NoWorker ELSE @]
  /\ Becomes(w, [Idle EXCEPT !.pc = "pass", !.todo = wk[w].todo])
  /\ UNCHANGED <<tables, rowLock, claimant, env>>

-----------------------------------------------------------------------------
(* The rest of the system *)

\* CreateSyncJob: the unique key on active_key admits one row per source.
CreateJob(j) ==
  /\ job[j].status = "ABSENT"
  /\ \A k \in Jobs : SourceOf[k] = SourceOf[j] => ~job[k].active
  /\ SetRow(j, [job[j] EXCEPT !.status = "QUEUED", !.active = TRUE])
  /\ UNCHANGED <<recovered, source, dim, rowLock, lock, wk, claimant, env>>

LegacyRunning(j) ==
  job[j].status = "RUNNING" /\ job[j].owner = NoWorker /\ job[j].gen = 0

\* RecoverLegacySyncJobs: all the named rows or none, workers proved stopped.
RecoverLegacy(J) ==
  /\ J # {} /\ \A j \in J : LegacyRunning(j)
  /\ \A w \in Workers : wk[w].pc = "idle"
  /\ job' = [j \in Jobs |->
               IF j \in J THEN [job[j] EXCEPT !.status = "QUEUED", !.active = TRUE]
                          ELSE job[j]]
  /\ recovered' = recovered \cup J
  /\ UNCHANGED <<source, dim, rowLock, lock, wk, claimant, env>>

\* The process dies: its sessions end, with their transaction and lock.
Crash(w) ==
  /\ wk[w].pc # "idle" /\ Fault
  /\ Becomes(w, Idle)
  /\ lock' = [s \in Sources |-> IF lock[s] = w THEN NoWorker ELSE lock[s]]
  /\ rowLock' = [j \in Jobs |-> IF rowLock[j] = w THEN NoWorker ELSE rowLock[j]]
  /\ UNCHANGED <<tables, claimant, now, licensed>>

\* The session of the named lock dies; its worker does not notice.
DropSession(s) ==
  /\ SessionDrops /\ lock[s] # NoWorker /\ Fault
  /\ lock' = [lock EXCEPT ![s] = NoWorker]
  /\ UNCHANGED <<tables, rowLock, wk, claimant, now, licensed>>

LapseLicense == licensed /\ Fault /\ licensed' = FALSE
                /\ UNCHANGED <<tables, rowLock, lock, wk, claimant, now>>
RenewLicense == ~licensed /\ licensed' = TRUE
                /\ UNCHANGED <<tables, rowLock, lock, wk, claimant, now, faults>>

\* A renewal is done within two heartbeat intervals of the last one: one until
\* the ticker fires, one until the heartbeat's own deadline.
InTime(w) == Beating(w) /\ Holds(w) => job[wk[w].job].ttl > Lease - 2 * Beat

\* The clock moves while a lease runs down; idle time is stuttering.  Unless
\* Timely, a worker may stall past the deadline of its heartbeat.
Tick ==
  /\ \E j \in Jobs : job[j].ttl > 0
  /\ \/ NoFault /\ \A w \in Workers : InTime(w)
     \/ Fault /\ ~Timely
  /\ now' = IF now < MaxClock THEN now + 1 ELSE now
  /\ job' = [j \in Jobs |->
               [job[j] EXCEPT !.ttl = IF @ > 0 THEN @ - 1 ELSE 0]]
  /\ UNCHANGED <<recovered, source, dim, rowLock, lock, wk, claimant, licensed>>

-----------------------------------------------------------------------------
Round(w) ==
  \/ StartRound(w) \/ RoundWrite(w) \/ RoundFinish(w) \/ RoundEnd(w)
  \/ \E s \in Sources : RoundTake(w, s) \/ RoundSkip(w, s)

QueuePass(w) ==
  \/ StartQueue(w) \/ TryLock(w) \/ SkipJob(w) \/ AbortPass(w) \/ PassEnd(w)
  \/ Claim(w) \/ ClaimMissed(w) \/ ClaimError(w)

Execute(w) ==
  \/ WriteBegin(w) \/ WriteRefused(w) \/ WriteCommit(w) \/ WriteRollback(w)
  \/ RunEnds(w) \/ Renew(w) \/ BeatFails(w) \/ Cancel(w) \/ Abandon(w)
  \/ Finish(w) \/ Pause(w) \/ FinishFails(w) \/ Release(w)

Environment ==
  \/ \E j \in Jobs : CreateJob(j)
  \/ \E J \in SUBSET LegacyJobs : RecoverLegacy(J)
  \/ \E w \in Workers : Crash(w)
  \/ \E s \in Sources : DropSession(s)
  \/ LapseLicense \/ RenewLicense \/ Tick

Next ==
  \/ \E w \in Workers : Round(w) \/ QueuePass(w) \/ Execute(w)
  \/ Environment

Spec == Init /\ [][Next]_vars

=============================================================================
