-------------------------- MODULE AlertLifecycleProps --------------------------
(* What must be true of AlertLifecycle, and its fairness. *)
EXTENDS AlertLifecycle

\* Every variable has its type.
TypeOK ==
  /\ rule \in Rule /\ latest \in [Ids -> 0..MaxVersion]
  /\ item \in [Targets -> Item] /\ wk \in [Workers -> WorkerState]
  /\ editor \in [Editors -> View]
  /\ human \in 0..MaxHuman

\* What a person closed no worker opens, however stale its candidates
\* (docs/alert-lifecycle.md: CLOSED + MANUAL; gorm_repository.go:152-155).
HumanCloseStands ==
  [][\A t \in Targets :
       item[t].reason = "MANUAL" /\ wk' # wk
         => item'[t].status = "CLOSED" /\ item'[t].reason = "MANUAL"]_vars

\* A rule that a worker listed but that was disabled or deleted since gets no new alert,
\* and a rule whose alerts are kept is never gone (gorm_store.go:162, service.go:72).
AlertsHaveTheirRule ==
  /\ [](HasHistory => Exists)
  /\ [][\A t \in Targets : item[t] = NoItem /\ item'[t] # NoItem => rule.enabled]_vars

\* Whoever saves the rule had read what the save replaces, also when the rule was
\* deleted and created in between, and when it never had a version row.
EditsAreNotLost ==
  [][\A a \in Editors :
       rule' # rule /\ editor'[a] # editor[a] /\ rule'.id # NoId => editor[a].rule = rule]_vars

-----------------------------------------------------------------------------
(* The inductive invariant *)

\* The reason belongs to a closed alert.
ReasonsFit == \A t \in Targets : item[t].reason # "" => item[t].status = "CLOSED"

\* A rule has a version, alerts have a rule.
RuleStands == (Exists => latest[rule.id] > 0) /\ (HasHistory => Exists)

\* What an administrator read is an older version, or the rule as it is, or nothing.
ViewsAreOld ==
  \A a \in Editors :
    LET view == editor[a] IN
    IF view.version = 0 THEN view.rule = NoRule
    ELSE /\ view.rule.id \in Ids /\ view.version <= latest[view.rule.id]
         /\ view.rule.id = rule.id /\ view.version = latest[rule.id] => view.rule = rule

Inv == TypeOK /\ ReasonsFit /\ RuleStands /\ ViewsAreOld

-----------------------------------------------------------------------------
(* Liveness *)

\* RunLoop starts a round at every tick and carries it on; of the rounds that come to
\* reconcile not all fail for want of a licence or of the database.
FairSpec ==
  /\ Spec
  /\ \A w \in Workers : WF_vars(Evaluate(w)) /\ SF_vars(ReconcileAlerts(w))

\* An alert that is never hit again is closed, as long as rounds come past the close
\* guard (docs/alert-lifecycle.md: OPEN, missed).
ClearedAlertCloses ==
  \A t \in Targets :
    (\E w \in Workers : []<>(wk[w].pc = "reconcile")) /\ <>[](\A w \in Workers : t \notin wk[w].hits)
      => []<>(t \notin ActiveItems)
=============================================================================
