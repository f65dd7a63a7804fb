---------------------------- MODULE MetricCatalog ----------------------------
(***************************************************************************)
(* The metric dictionary of one tenant (internal/modules/dictionary): the  *)
(* rows of metric_definition, their snapshots in metric_definition_version *)
(* and administrators who change what they have been shown.                *)
(*                                                                         *)
(* A change is one transaction.  It locks the rows it finds with FOR       *)
(* UPDATE until it commits, so that all it does with those is one step,    *)
(* Commit.  What it finds absent is not locked: Begin is that look, and    *)
(* the insert at Commit meets the unique key.                              *)
(***************************************************************************)
EXTENDS Integers, FiniteSets

CONSTANTS Codes,      \* metric codes
          Builtin,    \* publishedMetrics
          Bound,      \* those that a calculation is bound to (code 2.1)
          Editors,    \* administrators with an open page
          Limit,      \* 500
          MaxVersion  \* bound: versions

ASSUME CatalogAssumption ==
  /\ Bound \subseteq Builtin /\ Builtin \subseteq Codes
  /\ Limit \in Nat /\ MaxVersion \in Nat \ {0}

VARIABLES row,      \* row[c]: the tenant's row of the code
          history,  \* history[c]: its snapshots
          view,     \* view[e]: the catalogue on the page of e
          change    \* change[e]: what the transaction of e is about to do

vars == <<row, history, view, change>>

\* The definition as published, or something else.
Contents == {"published", "other"}

Metric == [version : 0..MaxVersion, content : Contents, enabled : BOOLEAN]
NoMetric == [version |-> 0, content |-> "other", enabled |-> FALSE]

Row == [state : {"absent", "live", "deleted"}, metric : Metric]

Op == [name : {"CREATE", "UPDATE", "ENABLE", "DISABLE", "DELETE"}, content : Contents]

\* Operations by code, and which codes the transaction has found absent.
Change == [plan : UNION {[S -> Op] : S \in SUBSET Codes}, absent : SUBSET Codes]
NoChange == [plan |-> [c \in {} |-> NoMetric], absent |-> {}]

CanEnable(c, content) == c \in Bound /\ content = "published"

\* What has no calculation is not enabled.
derived(c, m) == IF CanEnable(c, m.content) THEN m ELSE [m EXCEPT !.enabled = FALSE]

builtin(c) == [version |-> 1, content |-> "published", enabled |-> CanEnable(c, "published")]

Absent == [state |-> "absent", metric |-> NoMetric]

\* Rows of migration 12, from before there were snapshots: edits had raised their version.
Legacy ==
  {[state |-> "live", metric |-> [version |-> v, content |-> k, enabled |-> FALSE]] :
     v \in 1..MaxVersion, k \in Contents}

\* Tables as migration 13 leaves them.
Init ==
  /\ row \in [Codes -> {Absent} \cup Legacy]
  /\ history = [c \in Codes |-> {}]
  /\ view = [e \in Editors |-> [c \in Codes |-> NoMetric]]
  /\ change = [e \in Editors |-> NoChange]

Rows == {c \in Codes : row[c].state # "absent"}

Shown(c) ==
  CASE row[c].state = "live" -> derived(c, row[c].metric)
    [] row[c].state = "absent" /\ c \in Builtin -> builtin(c)
    [] OTHER -> NoMetric

\* With more rows than the limit the catalogue cannot be read any more.
ListForTenant(e) ==
  /\ change[e] = NoChange /\ Cardinality(Rows) <= Limit
  /\ view' = [view EXCEPT ![e] = [c \in Codes |-> Shown(c)]]
  /\ UNCHANGED <<row, history, change>>

-----------------------------------------------------------------------------
(* Changes *)

\* create: the code is free, also of deleted metrics, and the rows are below the limit.
MayCreate(c) == c \notin Builtin /\ row[c].state = "absent" /\ Cardinality(Rows) < Limit

\* Delete: published metrics are protected.
MayDelete(c) == c \notin Builtin

\* An operation on a metric the page shows, or the creation of one.
Chosen(e, c, op) ==
  IF op.name = "CREATE" THEN MayCreate(c)
  ELSE /\ view[e][c] # NoMetric
       /\ op.name # "UPDATE" => op.content = view[e][c].content
       /\ op.name = "DELETE" => MayDelete(c)

\* One operation, or a PUT of several.  (Bound: two, of which one adds a row.)
Begin(e) ==
  /\ change[e] = NoChange
  /\ \E S \in SUBSET Codes :
       /\ Cardinality(S) \in 1..2
       /\ \E plan \in [S -> Op] :
            /\ \A c \in S : Chosen(e, c, plan[c])
            /\ Cardinality(S) > 1 => \A c \in S : plan[c].name \in {"CREATE", "UPDATE"}
            /\ Cardinality(S \ Rows) <= 1
            /\ change' = [change EXCEPT ![e] = [plan |-> plan, absent |-> S \ Rows]]
  /\ UNCHANGED <<row, history, view>>

\* load under the row lock; a code that was absent has its published definition.
load(c) == IF row[c].state = "absent" THEN builtin(c) ELSE row[c].metric

\* SetEnabled: only what a calculation is bound to.
MayEnable(c) == CanEnable(c, load(c).content)

\* Mutant of Matches: the version of the request is not compared.
AnyVersion(e, c) == TRUE

\* The version on the page is that of the row.
Matches(e, c) == view[e][c].version = load(c).version

\* The transaction gets through with this operation.
Passes(e, c) ==
  /\ row[c].state # "deleted"
  /\ c \in change[e].absent => row[c].state = "absent"
  /\ change[e].plan[c].name # "CREATE" =>
       /\ Matches(e, c)
       /\ change[e].plan[c].name = "ENABLE" => MayEnable(c)

\* Mutant of NextVersion: the first override of a published metric keeps its version.
SameVersion(e, c) == IF c \in Builtin /\ row[c].state = "absent" THEN 1 ELSE load(c).version + 1

NextVersion(e, c) == IF change[e].plan[c].name = "CREATE" THEN 1 ELSE load(c).version + 1

\* What save stores.
Saved(e, c) ==
  LET op == change[e].plan[c]
      m == derived(c, [version |-> NextVersion(e, c), content |-> op.content,
                       enabled |-> op.name = "ENABLE"
                                     \/ (op.name = "UPDATE" /\ load(c).enabled)])
  IN  [state |-> IF op.name = "DELETE" THEN "deleted" ELSE "live", metric |-> m]

\* Mutant of Baseline: a published metric is changed without a baseline.
NoBaseline(e, c) ==
  IF change[e].plan[c].name = "CREATE" \/ row[c].state = "absent"
       \/ \E h \in history[c] : h.version = load(c).version
    THEN {} ELSE {derived(c, load(c))}

\* A row without snapshots, or a published metric without a row, gets a baseline first.
Baseline(e, c) ==
  IF change[e].plan[c].name = "CREATE" \/ \E h \in history[c] : h.version = load(c).version
    THEN {} ELSE {derived(c, load(c))}

\* All operations and snapshots of a transaction are stored together.
Commit(e) ==
  LET S == DOMAIN change[e].plan
  IN  /\ change[e] # NoChange
      /\ \A c \in S : Passes(e, c) /\ NextVersion(e, c) <= MaxVersion
      /\ row' = [c \in Codes |-> IF c \in S THEN Saved(e, c) ELSE row[c]]
      /\ history' = [c \in Codes |->
           IF c \in S THEN history[c] \cup Baseline(e, c) \cup {Saved(e, c).metric} ELSE history[c]]
      /\ change' = [change EXCEPT ![e] = NoChange]
      /\ UNCHANGED view

\* A conflict, a deadlock or a failing statement rolls all of them back.
Rollback(e) ==
  /\ change[e] # NoChange
  /\ change' = [change EXCEPT ![e] = NoChange]
  /\ UNCHANGED <<row, history, view>>

Next == \E e \in Editors : ListForTenant(e) \/ Begin(e) \/ Commit(e) \/ Rollback(e)

Spec == Init /\ [][Next]_vars
=============================================================================
