------------------------ MODULE AlertLifecycleProofs ------------------------
(* Proofs about AlertLifecycle for any workers, contracts and limits. *)
EXTENDS AlertLifecycleProps, TLAPS

-----------------------------------------------------------------------------
(* Alerts *)

LEMMA NewItemType == NoItem \in Item /\ NewItem \in Item /\ NewItem # NoItem
<1>1. 0 \in 0..MaxStreak
  BY AlertAssumption
<1>2. NoItem \in Item /\ NoItem.status = "NONE"
  BY <1>1 DEF NoItem, Item
<1>3. NewItem \in Item /\ NewItem.status = "OPEN"
  BY <1>2 DEF NewItem, Item
<1> QED BY <1>2, <1>3

\* A counter that stays in its column's range.
LEMMA Counted ==
  ASSUME NEW n \in 0..MaxStreak, n + 1 <= MaxStreak
  PROVE  n + 1 \in 0..MaxStreak /\ 0 \in 0..MaxStreak
BY AlertAssumption

\* One round keeps the type of an alert whose counters stay in range; it touches no
\* alert that a person closed and brings none into being or out of it.
LEMMA ReconciledFacts ==
  ASSUME TypeOK, ReasonsFit, NEW hits, NEW t \in Targets,
         Reconciled(hits)[t].hit <= MaxStreak, Reconciled(hits)[t].miss <= MaxStreak
  PROVE  /\ Reconciled(hits)[t] \in Item
         /\ Reconciled(hits)[t].reason # "" => Reconciled(hits)[t].status = "CLOSED"
         /\ item[t].reason = "MANUAL" => Reconciled(hits)[t] = item[t]
         /\ Reconciled(hits)[t].status = "NONE" <=> item[t].status = "NONE"
         /\ item[t].status = "NONE" => Reconciled(hits)[t] = item[t]
<1>1. item[t] \in Item /\ (item[t].reason # "" => item[t].status = "CLOSED")
  BY DEF TypeOK, ReasonsFit
<1>2. Reconciled(hits)[t] = IF t \in hits THEN Hit(item[t]) ELSE Missed(item[t])
  BY DEF Reconciled
<1>3. /\ item[t].status \in {"NONE", "OPEN", "ACK", "CLOSED"}
      /\ item[t].reason \in {"", "MANUAL", "AUTO"}
      /\ item[t].miss \in 0..MaxStreak /\ item[t].hit \in 0..MaxStreak
  BY <1>1 DEF Item
<1> DEFINE new == Reconciled(hits)[t]
<1>4. CASE new = item[t]
  BY <1>1, <1>4
<1>5. CASE t \in hits /\ item[t].status \in {"OPEN", "ACK"}
  <2>1. new = [item[t] EXCEPT !.miss = 0, !.hit = @ + 1]
    BY <1>2, <1>5 DEF Hit
  <2>2. /\ new.status = item[t].status /\ new.reason = item[t].reason
        /\ new.hit = item[t].hit + 1
    BY <1>1, <2>1 DEF Item
  <2>3. item[t].hit + 1 \in 0..MaxStreak /\ 0 \in 0..MaxStreak
    <3>1. item[t].hit + 1 <= MaxStreak
      BY <2>2
    <3> QED BY <1>3, <3>1, Counted
  <2>4. new \in Item
    BY <1>1, <2>1, <2>3 DEF Item
  <2> QED BY <1>1, <1>5, <2>2, <2>4
<1>6. CASE t \in hits /\ item[t].status \notin {"OPEN", "ACK"} /\ Reopens(item[t])
  <2>1. new = [item[t] EXCEPT !.status = "OPEN", !.reason = "", !.miss = 0, !.hit = @ + 1]
    BY <1>2, <1>6 DEF Hit
  <2>2. new.status = "OPEN" /\ new.reason = "" /\ new.hit = item[t].hit + 1
    BY <1>1, <2>1 DEF Item
  <2>3. item[t].hit + 1 \in 0..MaxStreak /\ 0 \in 0..MaxStreak
    <3>1. item[t].hit + 1 <= MaxStreak
      BY <2>2
    <3> QED BY <1>3, <3>1, Counted
  <2>4. new \in Item
    BY <1>1, <2>1, <2>3 DEF Item
  <2>5. item[t].reason = "AUTO" /\ item[t].status = "CLOSED"
    BY <1>6 DEF Reopens
  <2> QED BY <2>2, <2>4, <2>5
<1>7. CASE t \notin hits /\ item[t].status \in {"OPEN", "ACK"}
  <2>1. \/ new = [item[t] EXCEPT !.miss = @ + 1]
        \/ new = [item[t] EXCEPT !.miss = @ + 1, !.status = "CLOSED", !.reason = "AUTO"]
    BY <1>2, <1>7 DEF Missed
  <2>2. /\ \/ new.status = item[t].status /\ new.reason = item[t].reason
           \/ new.status = "CLOSED" /\ new.reason = "AUTO"
        /\ new.miss = item[t].miss + 1
    BY <1>1, <2>1 DEF Item
  <2>3. item[t].miss + 1 \in 0..MaxStreak
    <3>1. item[t].miss + 1 <= MaxStreak
      BY <2>2
    <3> QED BY <1>3, <3>1, Counted
  <2>4. new \in Item
    BY <1>1, <2>1, <2>3 DEF Item
  <2> QED BY <1>1, <1>7, <2>2, <2>4
<1> QED BY <1>2, <1>4, <1>5, <1>6, <1>7 DEF Hit, Missed

\* What a worker's step does to an alert.
LEMMA WorkerFacts ==
  ASSUME Inv, NEW w \in Workers, Evaluate(w) \/ Fails(w), NEW t \in Targets
  PROVE  /\ item' \in [Targets -> Item]
         /\ item'[t].reason # "" => item'[t].status = "CLOSED"
         /\ item[t].reason = "MANUAL" => item'[t] = item[t]
         /\ item[t] = NoItem /\ item'[t] # NoItem => rule.enabled
         /\ item[t] # NoItem => item'[t] # NoItem
         /\ UNCHANGED <<rule, latest, editor, human>>
<1>1. TypeOK /\ ReasonsFit
  BY DEF Inv
<1>2. CASE UNCHANGED item /\ UNCHANGED <<rule, latest, editor, human>>
  BY <1>1, <1>2 DEF TypeOK, ReasonsFit
<1>3. CASE UpsertAlerts(w)
  <2>1. \A u \in Targets :
          item'[u] = IF MayWrite /\ u \in wk[w].hits /\ item[u] = NoItem THEN NewItem ELSE item[u]
    BY <1>3 DEF UpsertAlerts
  <2>2. item' \in [Targets -> Item]
    BY <1>1, <1>3, NewItemType DEF UpsertAlerts, TypeOK
  <2>3. NoItem.reason = "" /\ NewItem.reason = ""
    BY DEF NoItem, NewItem
  <2> QED BY <1>1, <1>3, <2>1, <2>2, <2>3, NewItemType
        DEF UpsertAlerts, MayWrite, ReasonsFit
<1>4. CASE ReconcileAlerts(w)
  <2>1. CASE ~InRange(Reconciled(wk[w].hits))
    BY <1>1, <1>4, <2>1 DEF ReconcileAlerts, TypeOK, ReasonsFit
  <2>2. CASE InRange(Reconciled(wk[w].hits))
    <3> DEFINE new == Reconciled(wk[w].hits)
    <3>1. item' = new
      BY <1>4, <2>2 DEF ReconcileAlerts
    <3>2. \A u \in Targets : new[u].hit <= MaxStreak /\ new[u].miss <= MaxStreak
      BY <2>2 DEF InRange
    <3>3. \A u \in Targets :
            /\ new[u] \in Item
            /\ new[u].reason # "" => new[u].status = "CLOSED"
            /\ item[u].reason = "MANUAL" => new[u] = item[u]
            /\ new[u].status = "NONE" <=> item[u].status = "NONE"
            /\ item[u].status = "NONE" => new[u] = item[u]
      BY <1>1, <3>2, ReconciledFacts
    <3>4. new = [u \in Targets |-> new[u]]
      BY DEF Reconciled
    <3> HIDE DEF new
    <3>5. new \in [Targets -> Item]
      BY <3>3, <3>4
    <3>6. NoItem.status = "NONE"
      BY DEF NoItem
    <3>7. item[t] # NoItem => new[t] # NoItem
      BY <3>3, <3>6
    <3>8. item[t] = NoItem => new[t] = NoItem
      BY <3>3, <3>6
    <3> QED BY <1>4, <3>1, <3>3, <3>5, <3>7, <3>8 DEF ReconcileAlerts
  <2> QED BY <2>1, <2>2
<1> QED BY <1>2, <1>3, <1>4
      DEF Evaluate, Fails, ListEnabledRules, FindContractExpiryCandidates, CountActiveAlerts

\* A worker's own state keeps its type.
LEMMA WorkerType ==
  ASSUME TypeOK, NEW w \in Workers, Evaluate(w) \/ Fails(w)
  PROVE  wk' \in [Workers -> WorkerState]
<1>1. wk \in [Workers -> WorkerState] /\ wk[w].hits \in SUBSET Targets
  BY DEF TypeOK, WorkerState
<1>2. ASSUME NEW pc \in {"idle", "find", "upsert", "count", "reconcile"},
             NEW hits \in SUBSET Targets, Becomes(w, pc, hits)
      PROVE  wk' \in [Workers -> WorkerState]
  BY <1>1, <1>2 DEF Becomes, WorkerState
<1>3. {} \in SUBSET Targets
  OBVIOUS
<1>4. CASE ListEnabledRules(w) \/ FindContractExpiryCandidates(w)
  BY <1>2, <1>3, <1>4 DEF ListEnabledRules, FindContractExpiryCandidates
<1>5. CASE UpsertAlerts(w) \/ CountActiveAlerts(w)
  BY <1>1, <1>2, <1>3, <1>5 DEF UpsertAlerts, CountActiveAlerts
<1>6. CASE ReconcileAlerts(w) \/ Fails(w)
  BY <1>2, <1>3, <1>6 DEF ReconcileAlerts, Fails
<1> QED BY <1>4, <1>5, <1>6 DEF Evaluate

-----------------------------------------------------------------------------
(* The rule *)

LEMMA RuleTypes == NoRule \in Rule /\ NoRule.id = NoId /\ ~NoRule.enabled
                   /\ \A r \in Rule : r.id = NoId => r = NoRule
BY AlertAssumption DEF NoRule, Rule

\* A save replaces what its editor read and gives the rule a version never used.
LEMMA SaveFacts ==
  ASSUME Inv, NEW a \in Editors, NEW enabled \in BOOLEAN, ReplaceAlertRules(a, enabled)
  PROVE  /\ editor[a].rule = rule
         /\ \E i \in Ids : /\ Exists => i = rule.id
                           /\ latest[i] < MaxVersion /\ latest' = [latest EXCEPT ![i] = @ + 1]
                           /\ rule' = [id |-> i, enabled |-> enabled]
                           /\ ~Exists => latest[i] = 0
<1>1. TypeOK /\ RuleStands /\ ViewsAreOld
  BY DEF Inv
<1>2. editor[a].rule = rule
  <2>1. CASE Exists
    <3>1. editor[a].rule.id = rule.id /\ editor[a].version = latest[rule.id]
      BY <2>1 DEF ReplaceAlertRules, Accepts
    <3>2. latest[rule.id] > 0
      BY <1>1, <2>1 DEF RuleStands
    <3>3. rule.id \in Ids
      BY <1>1, <2>1 DEF TypeOK, Rule, Exists, NoRule
    <3>4. latest[rule.id] \in Nat
      BY <1>1, <3>3, AlertAssumption DEF TypeOK
    <3> QED BY <1>1, <3>1, <3>2, <3>4 DEF ViewsAreOld
  <2>2. CASE ~Exists
    <3>1. editor[a].version = 0
      BY <2>2 DEF ReplaceAlertRules, Accepts
    <3> QED BY <1>1, <2>2, <3>1, RuleTypes DEF ViewsAreOld, Exists, TypeOK
  <2> QED BY <2>1, <2>2
<1>3. PICK i \in IF Exists THEN {rule.id} ELSE {j \in Ids : latest[j] = 0} :
        /\ latest[i] < MaxVersion /\ latest' = [latest EXCEPT ![i] = @ + 1]
        /\ rule' = [id |-> i, enabled |-> enabled]
  BY DEF ReplaceAlertRules
<1>4. i \in Ids
  BY <1>1, <1>3 DEF TypeOK, Rule, Exists, NoRule
<1> QED BY <1>2, <1>3, <1>4

-----------------------------------------------------------------------------
(* The invariant *)

LEMMA InvInit == Init => Inv
<1> SUFFICES ASSUME Init PROVE Inv
  OBVIOUS
<1>1. PICK i \in Ids : rule = [id |-> i, enabled |-> TRUE]
  BY DEF Init
<1>2. rule \in Rule /\ rule.id = i
  BY <1>1 DEF Rule
<1>3. latest \in [Ids -> 0..MaxVersion] /\ latest[i] = 1
  BY <1>2, AlertAssumption DEF Init
<1>4. TypeOK
  BY <1>2, <1>3, NewItemType, RuleTypes, AlertAssumption
     DEF TypeOK, Init, WorkerState, Idle, View, Unread
<1>5. ReasonsFit
  BY DEF ReasonsFit, Init, NoItem
<1>6. RuleStands
  BY <1>2, <1>3 DEF RuleStands, HasHistory, Init
<1>7. ViewsAreOld
  BY DEF ViewsAreOld, Init, Unread
<1> QED BY <1>4, <1>5, <1>6, <1>7 DEF Inv

LEMMA WorkersKeepInv ==
  ASSUME Inv, NEW w \in Workers, Evaluate(w) \/ Fails(w)
  PROVE  Inv'
<1>1. TypeOK /\ RuleStands /\ ViewsAreOld /\ ReasonsFit
  BY DEF Inv
<1>2. UNCHANGED <<rule, latest, editor, human>>
  BY DEF Evaluate, Fails, ListEnabledRules, FindContractExpiryCandidates, UpsertAlerts,
         CountActiveAlerts, ReconcileAlerts
<1>3. item' \in [Targets -> Item]
  <2>1. CASE Targets = {}
    BY <1>1, <2>1
       DEF TypeOK, Evaluate, Fails, ListEnabledRules, FindContractExpiryCandidates,
           UpsertAlerts, CountActiveAlerts, ReconcileAlerts, Reconciled
  <2>2. CASE Targets # {}
    BY <2>2, WorkerFacts
  <2> QED BY <2>1, <2>2
<1>4. TypeOK'
  BY <1>1, <1>2, <1>3, WorkerType DEF TypeOK
<1>5. ReasonsFit'
  BY WorkerFacts DEF ReasonsFit
<1>6. RuleStands'
  <2>1. Exists' = Exists /\ (rule.enabled => Exists)
    BY <1>1, <1>2, RuleTypes DEF Exists, TypeOK
  <2>2. ASSUME HasHistory' PROVE Exists
    <3>1. PICK t \in Targets : item'[t] # NoItem
      BY <2>2 DEF HasHistory
    <3>2. CASE item[t] # NoItem
      BY <1>1, <3>2 DEF HasHistory, RuleStands
    <3>3. CASE item[t] = NoItem
      BY <2>1, <3>1, <3>3, WorkerFacts
    <3> QED BY <3>2, <3>3
  <2> QED BY <1>1, <1>2, <2>1, <2>2 DEF RuleStands, Exists
<1>7. ViewsAreOld'
  BY <1>1, <1>2 DEF ViewsAreOld
<1> QED BY <1>4, <1>5, <1>6, <1>7 DEF Inv

LEMMA PeopleKeepInv ==
  ASSUME Inv, NEW t \in Targets, NEW status \in {"ACK", "CLOSED"}, UpdateStatus(t, status)
  PROVE  Inv'
<1>1. TypeOK /\ RuleStands /\ ViewsAreOld /\ ReasonsFit
  BY DEF Inv
<1>2. UNCHANGED <<rule, latest, editor, wk>>
  BY DEF UpdateStatus
<1> DEFINE reason == IF status = "CLOSED" THEN "MANUAL" ELSE ""
<1>3. item' = [item EXCEPT ![t] = [item[t] EXCEPT !.status = status, !.reason = reason]]
  BY <1>1 DEF UpdateStatus, TypeOK
<1>4. item' \in [Targets -> Item] /\ human' \in 0..MaxHuman
  <2>1. item[t] \in Item /\ reason \in {"", "MANUAL", "AUTO"}
    BY <1>1 DEF TypeOK
  <2>2. [item[t] EXCEPT !.status = status, !.reason = reason] \in Item
    BY <2>1 DEF Item
  <2>3. human' = human + 1 /\ human < MaxHuman
    BY DEF UpdateStatus
  <2>4. human' \in 0..MaxHuman
    BY <1>1, <2>3, AlertAssumption DEF TypeOK
  <2> QED BY <1>1, <1>3, <2>2, <2>4 DEF TypeOK
<1>5. TypeOK'
  BY <1>1, <1>2, <1>4 DEF TypeOK
<1>6. ReasonsFit'
  BY <1>1, <1>3 DEF ReasonsFit, TypeOK, Item
<1>7. HasHistory' => HasHistory
  BY DEF HasHistory, UpdateStatus
<1>8. RuleStands' /\ ViewsAreOld'
  BY <1>1, <1>2, <1>7 DEF RuleStands, Exists, ViewsAreOld
<1> QED BY <1>5, <1>6, <1>8 DEF Inv

LEMMA SavesKeepInv ==
  ASSUME Inv, NEW a \in Editors, NEW enabled \in BOOLEAN, ReplaceAlertRules(a, enabled)
  PROVE  Inv'
<1>1. TypeOK /\ RuleStands /\ ViewsAreOld /\ ReasonsFit
  BY DEF Inv
<1>2. PICK i \in Ids : /\ Exists => i = rule.id
                       /\ latest[i] < MaxVersion /\ latest' = [latest EXCEPT ![i] = @ + 1]
                       /\ rule' = [id |-> i, enabled |-> enabled]
                       /\ ~Exists => latest[i] = 0
  BY SaveFacts
<1>3. UNCHANGED <<item, wk, human>> /\ editor' = [editor EXCEPT ![a] = Unread]
  BY DEF ReplaceAlertRules
<1>4. latest \in [Ids -> 0..MaxVersion] /\ MaxVersion \in Nat
  BY <1>1, AlertAssumption DEF TypeOK
<1>5. latest' \in [Ids -> 0..MaxVersion] /\ latest'[i] = latest[i] + 1
  BY <1>2, <1>4
<1>6. \A j \in Ids : latest'[j] >= latest[j]
  BY <1>2, <1>4
<1>7. rule' \in Rule /\ rule'.id = i /\ i # NoId
  BY <1>2, AlertAssumption DEF Rule
<1>8. Unread \in View
  BY <1>4, RuleTypes DEF Unread, View
<1>9. TypeOK'
  BY <1>1, <1>3, <1>5, <1>7, <1>8 DEF TypeOK
<1>10. ReasonsFit' /\ RuleStands'
  <2>1. latest'[rule'.id] > 0
    BY <1>4, <1>5, <1>7
  <2>2. rule'.id # NoId
    BY <1>7
  <2> QED BY <1>1, <1>3, <2>1, <2>2 DEF ReasonsFit, RuleStands, Exists
<1>11. ViewsAreOld'
  <2> SUFFICES ASSUME NEW b \in Editors
               PROVE  LET view == editor'[b] IN
                      IF view.version = 0 THEN view.rule = NoRule
                      ELSE /\ view.rule.id \in Ids /\ view.version <= latest'[view.rule.id]
                           /\ view.rule.id = rule'.id /\ view.version = latest'[rule'.id]
                                => view.rule = rule'
    BY DEF ViewsAreOld
  <2>1. CASE b = a
    BY <1>1, <1>3, <2>1 DEF Unread, TypeOK
  <2>2. CASE b # a
    <3>1. editor'[b] = editor[b] /\ editor[b] \in View
      BY <1>1, <1>3, <2>2 DEF TypeOK
    <3>2. CASE editor[b].version = 0
      BY <1>1, <3>1, <3>2 DEF ViewsAreOld
    <3>3. CASE editor[b].version # 0
      <4>1. editor[b].rule.id \in Ids /\ editor[b].version <= latest[editor[b].rule.id]
        BY <1>1, <3>3 DEF ViewsAreOld
      <4>2. editor[b].version \in Nat
        BY <1>4, <3>1 DEF View
      <4>3. editor[b].version <= latest'[editor[b].rule.id]
        BY <1>4, <1>5, <1>6, <4>1, <4>2
      <4>4. ~(editor[b].rule.id = rule'.id /\ editor[b].version = latest'[rule'.id])
        BY <1>4, <1>5, <1>7, <4>1, <4>2
      <4> QED BY <3>1, <3>3, <4>1, <4>3, <4>4
    <3> QED BY <3>2, <3>3
  <2> QED BY <2>1, <2>2
<1> QED BY <1>9, <1>10, <1>11 DEF Inv

LEMMA ListsKeepInv ==
  ASSUME Inv, NEW a \in Editors, ListAlertRules(a)
  PROVE  Inv'
<1>1. TypeOK /\ RuleStands /\ ViewsAreOld /\ ReasonsFit
  BY DEF Inv
<1> DEFINE view == [rule |-> rule, version |-> IF Exists THEN latest[rule.id] ELSE 0]
<1>2. UNCHANGED <<rule, latest, item, wk, human>> /\ editor' = [editor EXCEPT ![a] = view]
  BY DEF ListAlertRules
<1>3. Exists => rule.id \in Ids
  BY <1>1 DEF TypeOK, Rule, Exists, NoRule
<1>4. latest \in [Ids -> 0..MaxVersion] /\ MaxVersion \in Nat
  BY <1>1, AlertAssumption DEF TypeOK
<1>5. view \in View
  BY <1>1, <1>3, <1>4 DEF View, TypeOK
<1>6. TypeOK'
  BY <1>1, <1>2, <1>5 DEF TypeOK
<1>7. ReasonsFit' /\ RuleStands'
  BY <1>1, <1>2 DEF ReasonsFit, RuleStands, Exists, HasHistory
<1>8. ViewsAreOld'
  <2>1. ~Exists => rule = NoRule
    BY <1>1, RuleTypes DEF Exists, TypeOK
  <2>2. Exists => latest[rule.id] # 0
    BY <1>1, <1>3, <1>4 DEF RuleStands
  <2> SUFFICES ASSUME NEW b \in Editors
               PROVE  LET v == editor'[b] IN
                      IF v.version = 0 THEN v.rule = NoRule
                      ELSE /\ v.rule.id \in Ids /\ v.version <= latest[v.rule.id]
                           /\ v.rule.id = rule.id /\ v.version = latest[rule.id]
                                => v.rule = rule
    BY <1>2 DEF ViewsAreOld
  <2>3. CASE b = a
    <3>1. editor'[b] = view
      BY <1>1, <1>2, <2>3 DEF TypeOK
    <3>2. Exists => latest[rule.id] <= latest[rule.id]
      BY <1>3, <1>4
    <3> QED BY <1>3, <2>1, <2>2, <3>1, <3>2
  <2>4. CASE b # a
    <3>1. editor'[b] = editor[b]
      BY <1>1, <1>2, <2>4 DEF TypeOK
    <3> QED BY <1>1, <3>1 DEF ViewsAreOld
  <2> QED BY <2>3, <2>4
<1> QED BY <1>6, <1>7, <1>8 DEF Inv

LEMMA DeletesKeepInv ==
  ASSUME Inv, NEW a \in Editors, DeleteAlertRule(a)
  PROVE  Inv'
<1>1. TypeOK /\ RuleStands /\ ViewsAreOld /\ ReasonsFit
  BY DEF Inv
<1>2. /\ ~HasHistory /\ rule' = NoRule /\ editor' = [editor EXCEPT ![a] = Unread]
      /\ UNCHANGED <<latest, item, wk, human>>
  BY DEF DeleteAlertRule
<1>3. Unread \in View
  BY RuleTypes, AlertAssumption DEF Unread, View
<1>4. TypeOK'
  BY <1>1, <1>2, <1>3, RuleTypes DEF TypeOK
<1>5. ReasonsFit' /\ RuleStands'
  BY <1>1, <1>2, RuleTypes DEF ReasonsFit, RuleStands, Exists, HasHistory
<1>6. ViewsAreOld'
  <2> SUFFICES ASSUME NEW b \in Editors
               PROVE  LET v == editor'[b] IN
                      IF v.version = 0 THEN v.rule = NoRule
                      ELSE v.rule.id \in Ids /\ v.version <= latest[v.rule.id] /\ v.rule.id # NoId
    BY <1>2, RuleTypes DEF ViewsAreOld
  <2>1. CASE b = a
    BY <1>1, <1>2, <2>1 DEF Unread, TypeOK
  <2>2. CASE b # a
    <3>1. editor'[b] = editor[b]
      BY <1>1, <1>2, <2>2 DEF TypeOK
    <3> QED BY <1>1, <3>1, AlertAssumption DEF ViewsAreOld
  <2> QED BY <2>1, <2>2
<1> QED BY <1>4, <1>5, <1>6 DEF Inv

LEMMA InvNext == Inv /\ [Next]_vars => Inv'
<1> SUFFICES ASSUME Inv, [Next]_vars PROVE Inv'
  OBVIOUS
<1>1. ASSUME NEW w \in Workers, Evaluate(w) \/ Fails(w) PROVE Inv'
  BY <1>1, WorkersKeepInv
<1>2. ASSUME NEW t \in Targets, NEW status \in {"ACK", "CLOSED"}, UpdateStatus(t, status)
      PROVE  Inv'
  BY <1>2, PeopleKeepInv
<1>3. ASSUME NEW a \in Editors, ListAlertRules(a) PROVE Inv'
  BY <1>3, ListsKeepInv
<1>4. ASSUME NEW a \in Editors, DeleteAlertRule(a) PROVE Inv'
  BY <1>4, DeletesKeepInv
<1>5. ASSUME NEW a \in Editors, NEW enabled \in BOOLEAN, ReplaceAlertRules(a, enabled)
      PROVE  Inv'
  BY <1>5, SavesKeepInv
<1>6. CASE UNCHANGED vars
  BY <1>6 DEF vars, Inv, TypeOK, ReasonsFit, RuleStands, Exists, HasHistory, ViewsAreOld
<1> QED BY <1>1, <1>2, <1>3, <1>4, <1>5, <1>6 DEF Next

\* The inductive invariant holds in every reachable state.
THEOREM Invariance == Spec => []Inv
BY InvInit, InvNext, PTL DEF Spec

\* Every variable keeps its type; in particular no counter leaves its column's range.
THEOREM TypeCorrect == Spec => []TypeOK
<1>1. Inv => TypeOK
  BY DEF Inv
<1> QED BY <1>1, Invariance, PTL

-----------------------------------------------------------------------------
(* What the runs check *)

\* No worker opens what a person closed, whatever it found and however long ago.
THEOREM HumanClosesStand == Spec => HumanCloseStands
<1> DEFINE Stands == \A t \in Targets :
                       item[t].reason = "MANUAL" /\ wk' # wk
                         => item'[t].status = "CLOSED" /\ item'[t].reason = "MANUAL"
<1>1. Inv /\ [Next]_vars => [Stands]_vars
  <2> SUFFICES ASSUME Inv, Next, NEW t \in Targets, item[t].reason = "MANUAL", wk' # wk
               PROVE  item'[t].status = "CLOSED" /\ item'[t].reason = "MANUAL"
    BY DEF vars
  <2>1. PICK w \in Workers : Evaluate(w) \/ Fails(w)
    BY DEF Next, UpdateStatus, ListAlertRules, DeleteAlertRule, ReplaceAlertRules
  <2>2. item'[t] = item[t]
    BY <2>1, WorkerFacts
  <2> QED BY <2>2 DEF Inv, ReasonsFit
<1> QED BY <1>1, Invariance, PTL DEF Spec, HumanCloseStands

\* No alert is inserted for a rule that is off or gone, and none outlives its rule.
THEOREM AlertsKeepTheirRule == Spec => AlertsHaveTheirRule
<1> DEFINE ByRule == \A t \in Targets : item[t] = NoItem /\ item'[t] # NoItem => rule.enabled
<1>1. Inv => (HasHistory => Exists)
  BY DEF Inv, RuleStands
<1>2. Inv /\ [Next]_vars => [ByRule]_vars
  <2> SUFFICES ASSUME Inv, Next, NEW t \in Targets, item[t] = NoItem, item'[t] # NoItem
               PROVE  rule.enabled
    BY DEF vars
  <2>1. PICK w \in Workers : Evaluate(w) \/ Fails(w)
    <3>1. ASSUME NEW u \in Targets, NEW status, UpdateStatus(u, status) PROVE FALSE
      BY <3>1 DEF UpdateStatus, Inv, TypeOK
    <3> QED BY <3>1 DEF Next, ListAlertRules, DeleteAlertRule, ReplaceAlertRules
  <2> QED BY <2>1, WorkerFacts
<1> QED BY <1>1, <1>2, Invariance, PTL DEF Spec, AlertsHaveTheirRule

\* A save replaces exactly what its editor had read.
THEOREM EditsAreKept == Spec => EditsAreNotLost
<1> DEFINE Kept == \A a \in Editors :
                     rule' # rule /\ editor'[a] # editor[a] /\ rule'.id # NoId
                       => editor[a].rule = rule
<1>1. Inv /\ [Next]_vars => [Kept]_vars
  <2> SUFFICES ASSUME Inv, Next, NEW a \in Editors,
                      rule' # rule, editor'[a] # editor[a], rule'.id # NoId
               PROVE  editor[a].rule = rule
    BY DEF vars
  <2>1. PICK b \in Editors, enabled \in BOOLEAN : ReplaceAlertRules(b, enabled)
    <3>1. ASSUME NEW w \in Workers, Evaluate(w) \/ Fails(w) PROVE FALSE
      BY <3>1 DEF Evaluate, Fails, ListEnabledRules, FindContractExpiryCandidates,
                  UpsertAlerts, CountActiveAlerts, ReconcileAlerts
    <3> QED BY <3>1, RuleTypes DEF Next, UpdateStatus, ListAlertRules, DeleteAlertRule
  <2>2. b = a
    BY <2>1 DEF ReplaceAlertRules, Inv, TypeOK
  <2> QED BY <2>1, <2>2, SaveFacts
<1> QED BY <1>1, Invariance, PTL DEF Spec, EditsAreNotLost
=============================================================================
