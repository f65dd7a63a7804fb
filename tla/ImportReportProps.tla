--------------------------- MODULE ImportReportProps ---------------------------
(* What must be true of ImportReport. *)
EXTENDS ImportReport

\* Every variable has its type.
TypeOK ==
  /\ upstream \in Snapshots
  /\ run \in [gen : 0..MaxRuns, status : RunStatuses, published : 0..MaxRuns]
  /\ row \in [Items -> [Versions -> Row]]
  /\ history \in [Items -> History]
  /\ wk \in [Workers -> WorkerState]
  /\ matched \subseteq Items \X Contents \X (1..MaxRuns)
  /\ faults \in 0..MaxFaults

\* Source facts are applied, as a reader is told or the history shows, only of a content
\* that a run found in the source: outages, republished versions and kept credentials
\* never make up a verification (import_report.go:357-379).
VerifiedWasMatched ==
  \A i \in Items :
    /\ \A v \in Versions : ReadsFactsApplied(i, v) => <<i, row[i][v].content, row[i][v].gen>> \in matched
    /\ history[i].facts => \E g \in 1..MaxRuns : <<i, history[i].content, g>> \in matched

\* What is reported as applied is current: the item is in the projection, and not in
\* an earlier version than the one reported (import_report.go:297, :413).
ReportedIsCurrent ==
  \A i \in Items, v \in Versions :
    ReadsAPIApplied(i, v) =>
      LET c == history[i].content
      IN  c # Absent /\ v[1] <= c.rev /\ v[2] <= c.rel

\* A page that is not marked stale shows the run it names as the last verified one, and
\* each of its items is applied in every channel it requires by that very run.
FreshPageIsVerified ==
  PageIsFresh =>
    /\ run.published = run.gen
    /\ \A i \in Items :
         LET h == history[i]
         IN  h.content # Absent =>
               /\ h.gen = run.published /\ (h.content.both => h.facts)
               /\ row[i][VersionOf(h.content)] =
                    [state |-> "APPLIED", content |-> h.content,
                     gen |-> run.published, facts |-> h.facts]

\* A run that began earlier never writes over a later one's data, and a failure never
\* over what is published.
NewestWins ==
  [][/\ run'.published >= run.published
     /\ \A i \in Items, v \in Versions : row'[i][v].gen >= row[i][v].gen
     /\ \A i \in Items : history'[i].content # Absent => history'[i].gen >= history[i].gen
     /\ history' # history => \A i \in Items : history'[i].gen \in {0, run.gen}
     /\ run.status # "RUNNING" /\ run'.status # run.status => run'.gen > run.gen]_vars
=============================================================================
