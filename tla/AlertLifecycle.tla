---------------------------- MODULE AlertLifecycle ----------------------------
(***************************************************************************)
(* Expiry alerts of one tenant (internal/alertworker, modules/alerts, the  *)
(* alert rules of modules/admin).                                          *)
(*                                                                         *)
(* Alert workers, which nothing keeps apart, evaluate the rule: they find  *)
(* the contracts that meet its condition, insert or refresh their alerts,  *)
(* and, where ALERT_AUTO_RESOLVE is on, reconcile the rest: an alert that  *)
(* was missed often enough is closed, one that a worker closed and that is *)
(* hit again is opened.  People acknowledge and close alerts meanwhile.    *)
(* Administrators edit the rule by compare and set of its version, and may *)
(* delete it while it has no alerts.                                       *)
(*                                                                         *)
(* CONTRACT_EXPIRY is the only rule the code accepts.  Its threshold, the  *)
(* day and the contracts are abstracted to the set of candidates each      *)
(* round finds: any.  Audit events of the same transactions are in         *)
(* AuditOutbox.                                                            *)
(***************************************************************************)
EXTENDS Integers, FiniteSets

CONSTANTS Workers,
          Targets,      \* contracts
          Editors,      \* administrators
          Ids,          \* identifiers the rule can be given
          NoId,
          ConfirmRounds,\* ALERT_CONFIRM_ROUNDS
          AutoResolve,  \* ALERT_AUTO_RESOLVE
          AutoReopen,   \* ALERT_REOPEN_POLICY is auto
          MaxStreak,    \* largest TINYINT UNSIGNED (255)
          MaxVersion,   \* bound on edits of the rule
          MaxHuman      \* bound on acknowledgements and manual closes

ASSUME AlertAssumption ==
  /\ ConfirmRounds \in 1..10 /\ {AutoResolve, AutoReopen} \subseteq BOOLEAN
  /\ MaxStreak \in Nat /\ MaxStreak >= ConfirmRounds
  /\ MaxVersion \in Nat \ {0} /\ MaxHuman \in Nat /\ NoId \notin Ids

VARIABLES rule,    \* alert_rule: its id, whether it is enabled
          latest,  \* version of the rule with each id, 0 for an id not yet used
          item,    \* alert_item of each contract
          wk,      \* the workers
          editor,  \* what each administrator read
          human    \* human decisions so far

vars == <<rule, latest, item, wk, editor, human>>

NoRule == [id |-> NoId, enabled |-> FALSE]
Rule == {NoRule} \cup [id : Ids, enabled : BOOLEAN]
Exists == rule.id # NoId

NoItem == [status |-> "NONE", reason |-> "", miss |-> 0, hit |-> 0]
NewItem == [NoItem EXCEPT !.status = "OPEN"]
Item == [status : {"NONE", "OPEN", "ACK", "CLOSED"}, reason : {"", "MANUAL", "AUTO"},
         miss : 0..MaxStreak, hit : 0..MaxStreak]
ActiveItems == {t \in Targets : item[t].status \in {"OPEN", "ACK"}}

WorkerState == [pc : {"idle", "find", "upsert", "count", "reconcile"}, hits : SUBSET Targets]
Idle == [pc |-> "idle", hits |-> {}]

\* What the list of rules showed: version 0 is that there was none.
View == [rule : Rule, version : 0..MaxVersion]
Unread == [rule |-> NoRule, version |-> 0]

\* A migration inserts the default rule; without a version row it has version 1.
Init ==
  /\ rule \in {[id |-> i, enabled |-> TRUE] : i \in Ids}
  /\ latest = [i \in Ids |-> IF i = rule.id THEN 1 ELSE 0]
  /\ item = [t \in Targets |-> NoItem]
  /\ wk = [w \in Workers |-> Idle]
  /\ editor = [a \in Editors |-> Unread]
  /\ human = 0

-----------------------------------------------------------------------------
(* Workers *)

Becomes(w, pc, hits) == wk' = [wk EXCEPT ![w] = [pc |-> pc, hits |-> hits]]

ListEnabledRules(w) ==
  /\ wk[w].pc = "idle" /\ rule.enabled /\ Becomes(w, "find", {})
  /\ UNCHANGED <<rule, latest, item, editor, human>>

FindContractExpiryCandidates(w) ==
  /\ wk[w].pc = "find"
  /\ \E candidates \in SUBSET Targets : Becomes(w, "upsert", candidates)
  /\ UNCHANGED <<rule, latest, item, editor, human>>

\* Mutant of MayWrite: the rule is as enabled as when it was listed.
MayWriteListed == TRUE

\* Under the lock of the rule row.
MayWrite == rule.enabled

\* The status of an alert that exists stays as it is.
UpsertAlerts(w) ==
  /\ wk[w].pc = "upsert" /\ Becomes(w, "count", wk[w].hits)
  /\ item' = [t \in Targets |->
                IF MayWrite /\ t \in wk[w].hits /\ item[t] = NoItem THEN NewItem ELSE item[t]]
  /\ UNCHANGED <<rule, latest, editor, human>>

\* ALERT_CLOSE_GUARD_RATIO has its default, one half.
CloseGuarded(hits) == hits = {} \/ 2 * Cardinality(hits) < Cardinality(ActiveItems)

CountActiveAlerts(w) ==
  /\ wk[w].pc = "count"
  /\ IF ~AutoResolve \/ CloseGuarded(wk[w].hits) THEN Becomes(w, "idle", {})
     ELSE Becomes(w, "reconcile", wk[w].hits)
  /\ UNCHANGED <<rule, latest, item, editor, human>>

\* Mutant of Reopens: whoever closed the alert.
ReopensAny(alert) == AutoReopen /\ alert.status = "CLOSED"

\* Only what a worker closed.
Reopens(alert) == AutoReopen /\ alert.status = "CLOSED" /\ alert.reason = "AUTO"

\* A hit of an active alert, then of a closed one; a miss of an active alert.
Hit(alert) ==
  IF alert.status \in {"OPEN", "ACK"}
  THEN [alert EXCEPT !.miss = 0, !.hit = @ + 1]
  ELSE IF Reopens(alert) THEN [alert EXCEPT !.status = "OPEN", !.reason = "", !.miss = 0, !.hit = @ + 1]
  ELSE alert

Missed(alert) ==
  IF alert.status \notin {"OPEN", "ACK"} THEN alert
  ELSE IF alert.miss + 1 < ConfirmRounds THEN [alert EXCEPT !.miss = @ + 1]
  ELSE [alert EXCEPT !.miss = @ + 1, !.status = "CLOSED", !.reason = "AUTO"]

Reconciled(hits) ==
  [t \in Targets |-> IF t \in hits THEN Hit(item[t]) ELSE Missed(item[t])]

\* A counter above its column's range fails the transaction.
InRange(items) == \A t \in Targets : items[t].hit <= MaxStreak /\ items[t].miss <= MaxStreak

\* Whether the rule is still enabled is not asked.
ReconcileAlerts(w) ==
  /\ wk[w].pc = "reconcile" /\ Becomes(w, "idle", {})
  /\ item' = IF InRange(Reconciled(wk[w].hits)) THEN Reconciled(wk[w].hits) ELSE item
  /\ UNCHANGED <<rule, latest, editor, human>>

\* Any step can fail, for want of a licence or of the database; the next round starts over.
Fails(w) ==
  /\ wk[w].pc # "idle" /\ Becomes(w, "idle", {})
  /\ UNCHANGED <<rule, latest, item, editor, human>>

-----------------------------------------------------------------------------
(* People *)

\* Any status may be acknowledged or closed; the counters stay.
UpdateStatus(t, status) ==
  /\ item[t] # NoItem /\ human < MaxHuman /\ human' = human + 1
  /\ item' = [item EXCEPT ![t].status = status,
                          ![t].reason = IF status = "CLOSED" THEN "MANUAL" ELSE ""]
  /\ UNCHANGED <<rule, latest, wk, editor>>

ListAlertRules(a) ==
  /\ editor' = [editor EXCEPT ![a] = [rule |-> rule, version |-> IF Exists THEN latest[rule.id] ELSE 0]]
  /\ UNCHANGED <<rule, latest, item, wk, human>>

\* Mutant of Accepts: the version is not compared.
AcceptsAny(view) == IF Exists THEN view.rule.id = rule.id ELSE view.version = 0

\* The rule row is locked: same id, same version, or no rule and none expected.
Accepts(view) ==
  IF Exists THEN view.rule.id = rule.id /\ view.version = latest[rule.id]
  ELSE view.version = 0

\* A rule that is not there is created with an id that was never used.
ReplaceAlertRules(a, enabled) ==
  /\ Accepts(editor[a])
  /\ \E i \in IF Exists THEN {rule.id} ELSE {i \in Ids : latest[i] = 0} :
       /\ latest[i] < MaxVersion /\ latest' = [latest EXCEPT ![i] = @ + 1]
       /\ rule' = [id |-> i, enabled |-> enabled]
  /\ editor' = [editor EXCEPT ![a] = Unread]
  /\ UNCHANGED <<item, wk, human>>

\* Mutant of HasHistory: alerts that are closed are not looked for.
HasHistoryActive == ActiveItems # {}

HasHistory == \E t \in Targets : item[t] # NoItem

DeleteAlertRule(a) ==
  /\ Exists /\ editor[a].rule.id = rule.id /\ ~HasHistory
  /\ rule' = NoRule /\ editor' = [editor EXCEPT ![a] = Unread]
  /\ UNCHANGED <<latest, item, wk, human>>

-----------------------------------------------------------------------------

Evaluate(w) ==
  \/ ListEnabledRules(w) \/ FindContractExpiryCandidates(w) \/ UpsertAlerts(w)
  \/ CountActiveAlerts(w) \/ ReconcileAlerts(w)

Next ==
  \/ \E w \in Workers : Evaluate(w) \/ Fails(w)
  \/ \E t \in Targets, status \in {"ACK", "CLOSED"} : UpdateStatus(t, status)
  \/ \E a \in Editors :
       \/ ListAlertRules(a) \/ DeleteAlertRule(a)
       \/ \E enabled \in BOOLEAN : ReplaceAlertRules(a, enabled)

Spec == Init /\ [][Next]_vars
=============================================================================
