------------------------ MODULE ProjectProjectionProps ------------------------
(* What must be true of ProjectProjection. *)
EXTENDS ProjectProjection

\* Every variable has its type.
TypeOK ==
  /\ state \in StateRow
  /\ stage \in SUBSET StageRow
  /\ dim \in SUBSET DimRow
  /\ wk \in [Workers -> Attempt]

\* Whatever attempts overlapped, failed or died, dim_project holds exactly the
\* rows of the snapshot the state row names, and as many as it says.
PublishedIsWhole ==
  state.pubRun # NoRun =>
    /\ state.pubSnapshot \in Snapshots
    /\ dim = [snapshot : {state.pubSnapshot}, project : Content[state.pubSnapshot]]
    /\ Cardinality(dim) = state.pubTotal

\* Staging never accumulates (project.go:128-129): a new attempt stages nothing
\* before the rows of all others are gone, in however many batches.
StagingHoldsOneRun == \A r, q \in stage : r.run = q.run

\* An attempt that ends, either way, leaves no staged row, not even of others.
EndedLeavesNothing == state.status # "RUNNING" => stage = {}

\* Staging is as large as one attempt while one runs and empty when none does,
\* however many attempts died over it and in their reclamation.
StagingIsBounded == StagingHoldsOneRun /\ EndedLeavesNothing

\* A superseded attempt writes nothing any more: while it runs, a step of its own
\* that changes a table is only taken if no attempt has begun later.
SupersededWritesNothing ==
  [][\A w \in Workers :
       /\ wk[w].pc # "idle" /\ wk'[w] # wk[w]
       /\ <<state, stage, dim>>' # <<state, stage, dim>>
       => \A v \in Workers : wk[v].run <= wk[w].run]_vars

View == INSTANCE ProjectView WITH
  turn <- state.gen, open <- state.status = "RUNNING",
  shown <- state.pubSnapshot, view <- Visible

\* Attempts, batches and reclamation implement the promise of ProjectView; in
\* particular a failed attempt leaves the old publication (README.md:69).
KeepsView == View!Spec

-----------------------------------------------------------------------------
(* The inductive invariant *)

\* Generations are drawn one after another and never shared.
TurnsAreDrawn ==
  /\ \A r \in stage : r.run <= state.gen
  /\ \A w \in Workers :
       wk[w].run <= state.gen /\ (wk[w].pc # "idle" => wk[w].run # NoRun)
  /\ \A v, w \in Workers :
       wk[v].pc # "idle" /\ wk[w].pc # "idle" /\ wk[v].run = wk[w].run => v = w

Projected == {r.project : r \in stage}

\* The attempt whose turn it is has the staging table to itself once it has
\* cleared it; what it staged, holds and still expects makes up its snapshot.
HasStaging(w) ==
  wk[w].pc # "idle" /\ Owns(w) =>
    /\ wk[w].pc = "reclaim" => \A r \in stage : r.run # wk[w].run
    /\ wk[w].pc # "reclaim" => \A r \in stage : r.run = wk[w].run
    /\ wk[w].pc = "request" => stage = {}
    /\ wk[w].pc \in {"reclaim", "request", "publish"} => wk[w].batch = {}
    /\ wk[w].pc \in {"read", "flush", "last", "publish"} =>
         /\ wk[w].snapshot \in Snapshots
         /\ \A r \in stage : r.snapshot = wk[w].snapshot
         /\ wk[w].whole =>
              Projected \cup wk[w].batch \cup wk[w].rest = Content[wk[w].snapshot]
    /\ wk[w].pc \in {"last", "publish"} => wk[w].whole /\ wk[w].rest = {}

Inv ==
  /\ TypeOK /\ TurnsAreDrawn
  /\ \A w \in Workers : HasStaging(w)
  /\ StagingHoldsOneRun /\ EndedLeavesNothing /\ PublishedIsWhole
=============================================================================
