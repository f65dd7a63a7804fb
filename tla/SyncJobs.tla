------------------------------ MODULE SyncJobs ------------------------------
(***************************************************************************)
(* What the queue of manual synchronisation jobs promises, without leases, *)
(* locks, clocks or passes: a source has one open job at a time, an open   *)
(* job has at most one runner, only a job that has a runner publishes into *)
(* the projection of its source or changes its own state, a runner may be  *)
(* lost at any moment and replaced, and a job that is done stays done.     *)
(***************************************************************************)
EXTENDS Naturals

CONSTANTS Workers, NoWorker, Jobs, NoJob, Sources, SourceOf, LegacyJobs

VARIABLES phase,   \* where a job stands
          runner,  \* who may publish for it
          dim      \* whose data the projection of a source got last

vars == <<phase, runner, dim>>

Open == {"waiting", "running", "legacy"}

Init ==
  /\ phase = [j \in Jobs |-> IF j \in LegacyJobs THEN "legacy" ELSE "absent"]
  /\ runner = [j \in Jobs |-> NoWorker]
  /\ dim = [s \in Sources |-> NoJob]

Submit(j) ==
  /\ phase[j] = "absent"
  /\ \A k \in Jobs : SourceOf[k] = SourceOf[j] => phase[k] \notin Open
  /\ phase' = [phase EXCEPT ![j] = "waiting"]
  /\ UNCHANGED <<runner, dim>>

\* A waiting job, or one whose runner is lost, gets a runner.
Start(j, w) ==
  /\ phase[j] \in {"waiting", "running"} /\ runner[j] = NoWorker
  /\ phase' = [phase EXCEPT ![j] = "running"]
  /\ runner' = [runner EXCEPT ![j] = w]
  /\ UNCHANGED dim

Publish(j) ==
  /\ runner[j] # NoWorker
  /\ dim' = [dim EXCEPT ![SourceOf[j]] = j]
  /\ UNCHANGED <<phase, runner>>

\* The scheduled channel publishes too.
PublishRound(s) ==
  /\ dim' = [dim EXCEPT ![s] = NoJob]
  /\ UNCHANGED <<phase, runner>>

Lose(J) ==
  /\ runner' = [j \in Jobs |-> IF j \in J THEN NoWorker ELSE runner[j]]
  /\ UNCHANGED <<phase, dim>>

\* The runner gives the job back, or brings it to its end.
Leave(j, p) ==
  /\ runner[j] # NoWorker
  /\ phase' = [phase EXCEPT ![j] = p]
  /\ runner' = [runner EXCEPT ![j] = NoWorker]
  /\ UNCHANGED dim

Adopt(J) ==
  /\ \A j \in J : phase[j] = "legacy"
  /\ phase' = [j \in Jobs |-> IF j \in J THEN "waiting" ELSE phase[j]]
  /\ UNCHANGED <<runner, dim>>

Next ==
  \/ \E j \in Jobs :
       \/ Submit(j) \/ Publish(j)
       \/ \E w \in Workers : Start(j, w)
       \/ \E p \in {"waiting", "done"} : Leave(j, p)
  \/ \E s \in Sources : PublishRound(s)
  \/ \E J \in SUBSET Jobs : Lose(J) \/ Adopt(J)

Spec == Init /\ [][Next]_vars
=============================================================================
