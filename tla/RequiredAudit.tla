---------------------------- MODULE RequiredAudit ----------------------------
(***************************************************************************)
(* AuditWrites (internal/middleware/audit.go) around the handler of a      *)
(* request it reports: a write, or a read whose answer gives data away,    *)
(* such as an embed token.  Where the audit is required the answer stays   *)
(* in a buffer until the platform has the event.                           *)
(***************************************************************************)
EXTENDS Session

\* PLATFORM_AUDIT_REQUIRED, or the environment is prod.
AuditRequired == "AuditRequired" \in mix

\* No platform credentials are configured: the reporter is nil.
NoReporter == "NoReporter" \in mix

\* Reads are reported when their path has to do with embedding or downloads.
SensitiveRead == {"issue"}

\* Before the handler: without a reporter nothing that must be audited happens.
AuditUnavailable(r) ==
  /\ req[r].kind \in SensitiveRead /\ req[r].step = "handler"
  /\ AuditRequired /\ NoReporter
  /\ Becomes(r, Refused(req[r]))
  /\ UNCHANGED <<mix, row, lock, platform, cache, replay, acked>>

Reaches(r) == req[r].step = "handler" /\ ~(AuditRequired /\ NoReporter)

\* Mutant of Buffered: only unsafe methods are buffered.
WritesBuffered(kind) == AuditRequired /\ kind \notin SensitiveRead

\* The handler writes into auditBuffer, not to the client.
Buffered(kind) == AuditRequired /\ kind \in SensitiveRead

\* After the handler: its answer, refusals included, waits for the report.
Handled(r, q) == Becomes(r, [q EXCEPT !.step = "audit"])

Answered(q) == IF q.rights THEN Served(q) ELSE Refused(q)

\* Only in the required mode a rejected report becomes the answer.
Reported(r, accepted) ==
  /\ req[r].step = "audit"
  /\ accepted => ~NoReporter
  /\ Becomes(r, IF ~accepted /\ AuditRequired THEN Refused(req[r]) ELSE Answered(req[r]))
=============================================================================
