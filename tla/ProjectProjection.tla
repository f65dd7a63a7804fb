-------------------------- MODULE ProjectProjection --------------------------
(***************************************************************************)
(* The complete projection of the projects of one tenant                   *)
(* (internal/aggregation/project.go, project_stream.go, apisync.go).       *)
(*                                                                         *)
(* An attempt draws a generation, clears what older attempts staged, reads *)
(* a snapshot of the project service line by line, stages it in batches    *)
(* and replaces dim_project by it in one transaction.  Attempts of several *)
(* workers may overlap (the named lock of the source can be lost): each    *)
(* transaction locks the state row and compares the attempt with it.       *)
(* aggregationWrite may refuse any transaction (lease, licence, deadline); *)
(* here every step may be refused, any number of times.                    *)
(*                                                                         *)
(* The random run id of an attempt is abstracted to its generation: both    *)
(* are drawn once, together, under the lock of the state row.               *)
(***************************************************************************)
EXTENDS Integers, FiniteSets

CONSTANTS Workers,
          Snapshots,      \* snapshot ids of the project service
          NoSnapshot,     \* the empty published_snapshot_id
          Projects,       \* project ids, in their order
          Content,        \* the projects of a snapshot
          MaxProjects,    \* limit on the rows of one snapshot (50000)
          BatchSize,      \* rows staged or reclaimed at once (200)
          MaxBatches,     \* batches one attempt reclaims at most (250)
          MaxGeneration   \* the last generation (MaxUint64)

\* A project id is a string of at most 32 characters, so there are finitely many.
ASSUME ProjectsAssumption ==
  /\ Projects \subseteq Nat /\ IsFiniteSet(Projects)
  /\ Content \in [Snapshots -> SUBSET Projects]
ASSUME SnapshotsAssumption == NoSnapshot \notin Snapshots
ASSUME LimitsAssumption ==
  /\ MaxProjects \in Nat /\ BatchSize \in Nat \ {0}
  /\ MaxBatches \in Nat \ {0} /\ MaxGeneration \in Nat

VARIABLES state,  \* the row of project_projection_state
          stage,  \* table project_projection_stage
          dim,    \* table dim_project
          wk      \* local state of the workers

vars == <<state, stage, dim, wk>>

NoRun == 0

StageRow == [run : Nat, snapshot : Snapshots, project : Projects]
DimRow == [snapshot : Snapshots \cup {NoSnapshot}, project : Projects]
StateRow == [gen : Nat, status : {"UNKNOWN", "RUNNING", "SUCCESS", "FAILED"},
             pubRun : Nat, pubSnapshot : Snapshots \cup {NoSnapshot}, pubTotal : Nat]
Stages == {"idle", "reclaim", "request", "read", "flush", "last", "publish", "fail"}
Attempt == [pc : Stages, run : Nat, reclaimed : Nat,
            snapshot : Snapshots \cup {NoSnapshot}, rest : SUBSET Projects,
            batch : SUBSET Projects, total : Nat, whole : BOOLEAN]

Idle == [pc |-> "idle", run |-> NoRun, reclaimed |-> 0, snapshot |-> NoSnapshot,
         rest |-> {}, batch |-> {}, total |-> 0, whole |-> TRUE]

\* Rows of dim_project from before the projection existed carry no snapshot id.
Init ==
  /\ state = [gen |-> 0, status |-> "UNKNOWN", pubRun |-> NoRun,
              pubSnapshot |-> NoSnapshot, pubTotal |-> 0]
  /\ stage = {}
  /\ dim \in {{}, [snapshot : {NoSnapshot}, project : Projects]}
  /\ wk = [w \in Workers |-> Idle]

-----------------------------------------------------------------------------
(* Helpers *)

Becomes(w, attempt) == wk' = [wk EXCEPT ![w] = attempt]

\* Mutant of Owns: a newer attempt is not noticed.
OwnsWhileRunning(w) == state.status = "RUNNING"

\* lockProjectAttempt: the attempt is still the current one.
Owns(w) == state.gen = wk[w].run /\ state.status = "RUNNING"

Staged(run) == {r \in stage : r.run = run}

\* At most BatchSize rows of other runs (which ones, ORDER BY decides; left open).
Reclaimable(run) ==
  LET old == {r \in stage : r.run # run}
  IN  {rows \in SUBSET old :
         /\ Cardinality(rows) <= BatchSize
         /\ Cardinality(rows) < BatchSize => rows = old}

\* What a reader gets: the rows of the published snapshot, if there is one.
Visible ==
  IF state.pubRun = NoRun THEN {}
  ELSE {r.project : r \in {x \in dim : x.snapshot = state.pubSnapshot}}

-----------------------------------------------------------------------------
(* Beginning an attempt: beginProjectProjection, reclaimProjectStaging *)

Begin(w) ==
  /\ wk[w].pc = "idle" /\ state.gen < MaxGeneration
  /\ state' = [state EXCEPT !.gen = @ + 1, !.status = "RUNNING"]
  /\ Becomes(w, [Idle EXCEPT !.pc = "reclaim", !.run = state.gen + 1])
  /\ UNCHANGED <<stage, dim>>

\* Mutant of Reclaim: one batch, whatever is left.
ReclaimOnce(w) ==
  /\ wk[w].pc = "reclaim" /\ Owns(w)
  /\ \E rows \in Reclaimable(wk[w].run) : stage' = stage \ rows
  /\ Becomes(w, [wk[w] EXCEPT !.pc = "request"])
  /\ UNCHANGED <<state, dim>>

\* A short batch is the last one.  After MaxBatches full ones the attempt ends
\* with an error and its row stays RUNNING, even if nothing more is left.
Reclaim(w) ==
  \E rows \in Reclaimable(wk[w].run) :
    LET count == wk[w].reclaimed + 1 IN
    /\ wk[w].pc = "reclaim" /\ Owns(w)
    /\ stage' = stage \ rows
    /\ Becomes(w, IF Cardinality(rows) < BatchSize
                    THEN [wk[w] EXCEPT !.pc = "request"]
                    ELSE IF count = MaxBatches THEN Idle
                         ELSE [wk[w] EXCEPT !.reclaimed = count])
    /\ UNCHANGED <<state, dim>>

-----------------------------------------------------------------------------
(* Reading and staging a snapshot: readProjectSnapshot, stageProjectProjection *)

\* The answer of the project service: the lines of one snapshot are to come.
Request(w, q) ==
  /\ wk[w].pc = "request"
  /\ Becomes(w, [wk[w] EXCEPT !.pc = "read", !.snapshot = q, !.rest = Content[q]])
  /\ UNCHANGED <<state, stage, dim>>

\* Rows come in ascending order; one that is lost on the way breaks the checksum.
ReadRow(w) ==
  \E p \in wk[w].rest, lost \in BOOLEAN :
    LET batch == IF lost THEN wk[w].batch ELSE wk[w].batch \cup {p}
        full  == Cardinality(batch) = BatchSize
    IN
    /\ wk[w].pc = "read" /\ \A q \in wk[w].rest : p <= q
    /\ wk[w].total < MaxProjects
    /\ Becomes(w, [wk[w] EXCEPT !.pc = IF full THEN "flush" ELSE "read",
                     !.rest = @ \ {p}, !.batch = batch,
                     !.total = IF lost THEN @ ELSE @ + 1,
                     !.whole = @ /\ ~lost])
    /\ UNCHANGED <<state, stage, dim>>

\* Mutant of ReadEnd: neither total nor checksum compared.
ReadEndUnverified(w) ==
  /\ wk[w].pc = "read" /\ wk[w].rest = {}
  /\ Becomes(w, [wk[w] EXCEPT !.pc = IF wk[w].batch = {} THEN "publish" ELSE "last"])
  /\ UNCHANGED <<state, stage, dim>>

\* The end line: total and checksum must be those of the rows received.
ReadEnd(w) ==
  /\ wk[w].pc = "read" /\ wk[w].rest = {}
  /\ Becomes(w, [wk[w] EXCEPT !.pc = IF ~wk[w].whole THEN "fail"
                                     ELSE IF wk[w].batch = {} THEN "publish"
                                     ELSE "last"])
  /\ UNCHANGED <<state, stage, dim>>

Stage(w) ==
  /\ wk[w].pc \in {"flush", "last"} /\ Owns(w)
  /\ stage' = stage \cup [run : {wk[w].run}, snapshot : {wk[w].snapshot},
                          project : wk[w].batch]
  /\ Becomes(w, [wk[w] EXCEPT !.pc = IF @ = "flush" THEN "read" ELSE "publish",
                              !.batch = {}])
  /\ UNCHANGED <<state, dim>>

-----------------------------------------------------------------------------
(* Ending an attempt: publishProjectProjection, failProjectProjection *)

\* The staged rows are those of the summary.
Matches(w) ==
  /\ Cardinality(Staged(wk[w].run)) = wk[w].total
  /\ \A r \in Staged(wk[w].run) : r.snapshot = wk[w].snapshot

\* Mutant of Publish: the staged rows stay.
PublishKeepingStage(w) ==
  LET rows == Staged(wk[w].run) IN
  /\ wk[w].pc = "publish" /\ Owns(w) /\ Matches(w)
  /\ dim' = {[snapshot |-> r.snapshot, project |-> r.project] : r \in rows}
  /\ state' = [state EXCEPT !.status = "SUCCESS", !.pubRun = wk[w].run,
                            !.pubSnapshot = wk[w].snapshot, !.pubTotal = wk[w].total]
  /\ Becomes(w, Idle)
  /\ UNCHANGED stage

Publish(w) ==
  LET rows == Staged(wk[w].run) IN
  /\ wk[w].pc = "publish" /\ Owns(w) /\ Matches(w)
  /\ dim' = {[snapshot |-> r.snapshot, project |-> r.project] : r \in rows}
  /\ state' = [state EXCEPT !.status = "SUCCESS", !.pubRun = wk[w].run,
                            !.pubSnapshot = wk[w].snapshot, !.pubTotal = wk[w].total]
  /\ stage' = stage \ rows
  /\ Becomes(w, Idle)

\* Mutant of Fail: the published snapshot is withdrawn.
FailWithdrawing(w) ==
  /\ wk[w].pc = "fail" /\ Owns(w)
  /\ state' = [state EXCEPT !.status = "FAILED", !.pubRun = NoRun]
  /\ stage' = stage \ Staged(wk[w].run)
  /\ Becomes(w, Idle)
  /\ UNCHANGED dim

Fail(w) ==
  /\ wk[w].pc = "fail" /\ Owns(w)
  /\ state' = [state EXCEPT !.status = "FAILED"]
  /\ stage' = stage \ Staged(wk[w].run)
  /\ Becomes(w, Idle)
  /\ UNCHANGED dim

\* A request, a line, a transaction or a deadline fails: the attempt is to be
\* marked failed, except while it reclaims (its caller never got it).
Stumble(w) ==
  /\ wk[w].pc \notin {"idle", "fail"}
  /\ Becomes(w, IF wk[w].pc = "reclaim" THEN Idle ELSE [wk[w] EXCEPT !.pc = "fail"])
  /\ UNCHANGED <<state, stage, dim>>

\* The failure itself is refused, or the process dies.
Vanish(w) ==
  /\ wk[w].pc # "idle"
  /\ Becomes(w, Idle)
  /\ UNCHANGED <<state, stage, dim>>

-----------------------------------------------------------------------------
Next ==
  \E w \in Workers :
    \/ Begin(w) \/ Reclaim(w) \/ ReadRow(w) \/ ReadEnd(w) \/ Stage(w)
    \/ Publish(w) \/ Fail(w) \/ Stumble(w) \/ Vanish(w)
    \/ \E q \in Snapshots : Request(w, q)

Spec == Init /\ [][Next]_vars

=============================================================================
