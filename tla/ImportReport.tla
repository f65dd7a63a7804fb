----------------------------- MODULE ImportReport -----------------------------
(***************************************************************************)
(* The contract import report (internal/aggregation/import_report.go and   *)
(* import_report_source.go) and its readers (internal/importreport).       *)
(*                                                                         *)
(* A run of a worker takes a generation, fetches the source's summary,     *)
(* reads the facts of the items that need both channels from the source    *)
(* database, and publishes all of it in one transaction: the history is    *)
(* replaced and each item and version gets its credential.  Only the last  *)
(* generation may publish.  A run that fails marks itself FAILED.          *)
(*                                                                         *)
(* Summary and facts come from one contract system, which may change at    *)
(* any time: `upstream` is what it would answer now.  An item's content is *)
(* a record with its version (rev, rel), whether it requires both channels *)
(* and a body for everything else; its digest is the content itself.  What *)
(* validateImportReport refuses is a failed fetch: a snapshot is a partial *)
(* function from items to contents.  Times and error wordings are left out. *)
(***************************************************************************)
EXTENDS Integers, FiniteSets

CONSTANTS Workers,    \* runs of different processes
          Items,
          Offers,     \* Offers[i]: the contents the source may give item i
          Absent,     \* an item the source does not list
          MaxRuns,    \* bound on the generations
          MaxFaults   \* bound on failed calls and crashes

Contents == UNION {Offers[i] : i \in Items}
VersionOf(c) == <<c.rev, c.rel>>
Versions == {VersionOf(c) : c \in Contents}
Snapshots == [Items -> Contents \cup {Absent}]

ASSUME OffersAssumption ==
  /\ \A i \in Items : \A c \in Offers[i] : c.rev \in Nat /\ c.rel \in Nat /\ c.both \in BOOLEAN
  /\ Absent \notin Contents
  /\ MaxRuns \in Nat /\ MaxFaults \in Nat

VARIABLES upstream,  \* what the contract system holds
          run,       \* contract_import_report_run: generation, status, published_run_id
          row,       \* contract_import_report_status, by item and version
          history,   \* contract_import_history
          wk,        \* the runs under way
          matched,   \* history: contents that a run found equal in the source
          faults

vars == <<upstream, run, row, history, wk, matched, faults>>

States == {"none", "APPLIED", "WAITING_SOURCE", "BLOCKED", "WITHDRAWN"}
Row == [state : States, content : Contents \cup {Absent}, gen : 0..MaxRuns, facts : BOOLEAN]
NoRow == [state |-> "none", content |-> Absent, gen |-> 0, facts |-> FALSE]

History == [content : Contents \cup {Absent}, gen : 0..MaxRuns, facts : BOOLEAN]
NoHistory == [content |-> Absent, gen |-> 0, facts |-> FALSE]

RunStatuses == {"", "RUNNING", "SUCCESS", "WAITING_SOURCE", "BLOCKED", "FAILED"}
Errors == {"", "SOURCE_NOT_CONFIGURED", "SOURCE_UNAVAILABLE"}
WorkerState == [pc : {"idle", "fetch", "facts", "publish", "fail"}, gen : 0..MaxRuns,
                snapshot : Snapshots, facts : Snapshots, error : Errors]
Nothing == [i \in Items |-> Absent]
Idle == [pc |-> "idle", gen |-> 0, snapshot |-> Nothing, facts |-> Nothing, error |-> ""]

Init ==
  /\ upstream \in {s \in Snapshots : \A i \in Items : s[i] \in Offers[i] \cup {Absent}}
  /\ run = [gen |-> 0, status |-> "", published |-> 0]
  /\ row = [i \in Items |-> [v \in Versions |-> NoRow]]
  /\ history = [i \in Items |-> NoHistory]
  /\ wk = [w \in Workers |-> Idle]
  /\ matched = {}
  /\ faults = 0

NoFault == UNCHANGED faults
Fault == faults < MaxFaults /\ faults' = faults + 1

GivesUp(w) == wk' = [wk EXCEPT ![w] = [Idle EXCEPT !.pc = "fail", !.gen = wk[w].gen]]
Ends(w) == wk' = [wk EXCEPT ![w] = Idle]

-----------------------------------------------------------------------------
(* The environment *)

\* The contract system revises, adds or withdraws an item.
SourceChanges ==
  /\ \E i \in Items : \E c \in Offers[i] \cup {Absent} :
       c # upstream[i] /\ upstream' = [upstream EXCEPT ![i] = c]
  /\ UNCHANGED <<run, row, history, wk, matched, faults>>

-----------------------------------------------------------------------------
(* A run *)

\* The generation is taken before anything is read; what was published stays.
Begin(w) ==
  /\ wk[w].pc = "idle" /\ run.gen < MaxRuns
  /\ run' = [run EXCEPT !.gen = @ + 1, !.status = "RUNNING"]
  /\ wk' = [wk EXCEPT ![w] = [Idle EXCEPT !.pc = "fetch", !.gen = run.gen + 1]]
  /\ UNCHANGED <<upstream, row, history, matched>> /\ NoFault

Fetch(w) ==
  /\ wk[w].pc = "fetch"
  /\ wk' = [wk EXCEPT ![w].snapshot = upstream, ![w].pc = "facts"]
  /\ UNCHANGED <<upstream, run, row, history, matched>> /\ NoFault

\* No token, no answer, an answer that is refused, or the time of the run is over.
FetchFails(w) ==
  /\ wk[w].pc = "fetch" /\ GivesUp(w)
  /\ UNCHANGED <<upstream, run, row, history, matched>> /\ Fault

NeedsFacts(s) == {i \in Items : s[i] # Absent /\ s[i].both}

HasFacts(w, facts, error) ==
  wk' = [wk EXCEPT ![w].facts = facts, ![w].error = error, ![w].pc = "publish"]

\* One read-only transaction over the items that require both channels.
ReadFacts(w) ==
  /\ wk[w].pc = "facts"
  /\ HasFacts(w, [i \in Items |-> IF i \in NeedsFacts(wk[w].snapshot) THEN upstream[i] ELSE Absent], "")
  /\ UNCHANGED <<upstream, run, row, history, matched>> /\ NoFault

\* The process was started without the DSN of the contract database.
NotConfigured(w) ==
  /\ wk[w].pc = "facts" /\ NeedsFacts(wk[w].snapshot) # {}
  /\ HasFacts(w, Nothing, "SOURCE_NOT_CONFIGURED")
  /\ UNCHANGED <<upstream, run, row, history, matched>> /\ NoFault

FactsUnavailable(w) ==
  /\ wk[w].pc = "facts" /\ NeedsFacts(wk[w].snapshot) # {}
  /\ HasFacts(w, Nothing, "SOURCE_UNAVAILABLE")
  /\ UNCHANGED <<upstream, run, row, history, matched>> /\ Fault

-----------------------------------------------------------------------------
(* publishImportReport *)

Withdrawn(r) == IF r.state = "none" THEN r ELSE [r EXCEPT !.state = "WITHDRAWN"]

\* Mutant of Later: only a higher revision counts.
LaterRevision(v, c) == v[1] > c.rev

\* A version that one component puts after the content now released.
Later(v, c) == v[1] > c.rev \/ v[2] > c.rel

Matches(w, i) == wk[w].snapshot[i] # Absent /\ wk[w].facts[i] = wk[w].snapshot[i]

\* Mutant of Preserved: the version is taken for the content.
PreservedVersion(w, i) ==
  LET c == wk[w].snapshot[i]  old == row[i][VersionOf(c)]
  IN  /\ old.state = "APPLIED" /\ old.facts
      /\ c.both /\ wk[w].error # "" /\ ~Matches(w, i)

\* The source cannot be read, but this very content was verified before: its
\* credential stays as it is.
Preserved(w, i) ==
  LET c == wk[w].snapshot[i]  old == row[i][VersionOf(c)]
  IN  /\ old.state = "APPLIED" /\ old.facts /\ old.content = c
      /\ c.both /\ wk[w].error # "" /\ ~Matches(w, i)

\* The state of a content whose facts are verified, missing or out of reach.
StateOf(w, i) ==
  CASE ~wk[w].snapshot[i].both \/ Matches(w, i) -> "APPLIED"
    [] OTHER -> IF wk[w].error = "SOURCE_UNAVAILABLE" THEN "BLOCKED" ELSE "WAITING_SOURCE"

Applied(w, i) ==
  [state |-> StateOf(w, i), content |-> wk[w].snapshot[i], gen |-> wk[w].gen,
   facts |-> wk[w].snapshot[i].both /\ Matches(w, i)]

NewRow(w, i, v) ==
  LET c == wk[w].snapshot[i]
  IN  IF c = Absent THEN Withdrawn(row[i][v])
      ELSE IF v = VersionOf(c) THEN IF Preserved(w, i) THEN row[i][v] ELSE Applied(w, i)
      ELSE IF Later(v, c) THEN Withdrawn(row[i][v])
      ELSE row[i][v]

NewHistory(w, i) ==
  IF wk[w].snapshot[i] = Absent THEN NoHistory
  ELSE [content |-> wk[w].snapshot[i], gen |-> wk[w].gen,
        facts |-> wk[w].snapshot[i].both /\ (Matches(w, i) \/ Preserved(w, i))]

Listed(w) == {i \in Items : wk[w].snapshot[i] # Absent}

\* Mutant of Outcome: a run that kept an old credential counts as verified.
OutcomePreservedCounts(w) ==
  IF wk[w].error = "SOURCE_UNAVAILABLE" THEN "BLOCKED"
  ELSE IF \E i \in Listed(w) : ~Preserved(w, i) /\ StateOf(w, i) # "APPLIED" THEN "WAITING_SOURCE"
  ELSE "SUCCESS"

Outcome(w) ==
  IF wk[w].error = "SOURCE_UNAVAILABLE" THEN "BLOCKED"
  ELSE IF \E i \in Listed(w) : Preserved(w, i) \/ StateOf(w, i) # "APPLIED" THEN "WAITING_SOURCE"
  ELSE "SUCCESS"

\* Mutant of Fence: any run still under way may publish.
FenceOpen(w) == run.status = "RUNNING"
Fence(w) == run.gen = wk[w].gen

Publish(w) ==
  /\ wk[w].pc = "publish" /\ Fence(w)
  /\ row' = [i \in Items |-> [v \in Versions |-> NewRow(w, i, v)]]
  /\ history' = [i \in Items |-> NewHistory(w, i)]
  /\ run' = [run EXCEPT !.status = Outcome(w),
                        !.published = IF Outcome(w) = "SUCCESS" THEN wk[w].gen ELSE @]
  /\ matched' = matched \cup
       {<<i, wk[w].snapshot[i], wk[w].gen>> : i \in {j \in NeedsFacts(wk[w].snapshot) : Matches(w, j)}}
  /\ IF wk[w].error = "SOURCE_UNAVAILABLE" THEN GivesUp(w) ELSE Ends(w)
  /\ UNCHANGED upstream /\ NoFault

\* A later run has begun: nothing is written.
Superseded(w) ==
  /\ wk[w].pc = "publish" /\ ~Fence(w) /\ GivesUp(w)
  /\ UNCHANGED <<upstream, run, row, history, matched>> /\ NoFault

\* The licence, the database or the deadline ends the transaction; it is rolled back.
PublishFails(w) ==
  /\ wk[w].pc = "publish" /\ GivesUp(w)
  /\ UNCHANGED <<upstream, run, row, history, matched>> /\ Fault

FailedStatus(w) ==
  IF run.gen = wk[w].gen /\ run.status = "RUNNING" THEN "FAILED" ELSE run.status

\* Only a run that is still the last and has not published is marked.
Fail(w) ==
  /\ wk[w].pc = "fail" /\ Ends(w)
  /\ run' = [run EXCEPT !.status = FailedStatus(w)]
  /\ UNCHANGED <<upstream, row, history, matched>> /\ NoFault

\* The mark of the failure fails, or the process dies.
Stops(w) ==
  /\ wk[w].pc # "idle" /\ Ends(w)
  /\ UNCHANGED <<upstream, run, row, history, matched>> /\ Fault

Run(w) ==
  \/ Begin(w) \/ Fetch(w) \/ FetchFails(w)
  \/ ReadFacts(w) \/ NotConfigured(w) \/ FactsUnavailable(w)
  \/ Publish(w) \/ Superseded(w) \/ PublishFails(w)
  \/ Fail(w) \/ Stops(w)

Next == SourceChanges \/ \E w \in Workers : Run(w)

Spec == Init /\ [][Next]_vars

-----------------------------------------------------------------------------
(* What is read of it *)

\* ReadImportReportStatus: the exact version, never the highest one.
ReadsAPIApplied(i, v) == row[i][v].state \notin {"none", "WITHDRAWN"}
ReadsFactsApplied(i, v) == ReadsAPIApplied(i, v) /\ row[i][v].facts

\* History: the page does not mark its data as stale.  (It also does when the last
\* success is 48 hours old; that only leaves fewer pages fresh.)
PageIsFresh == run.status = "SUCCESS"
=============================================================================
