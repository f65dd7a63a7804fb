------------------------- MODULE MetricCatalogProofs -------------------------
(* Proofs about MetricCatalog for any codes, editors and limits. *)
EXTENDS MetricCatalogProps, TLAPS

LEMMA MetricTypes ==
  /\ NoMetric \in Metric
  /\ \A c \in Codes : builtin(c) \in Metric /\ builtin(c).version = 1
  /\ \A c \in Codes, m \in Metric :
       derived(c, m) \in Metric /\ derived(c, m).version = m.version
  /\ \A c \in Codes : derived(c, builtin(c)) = builtin(c)
  /\ Absent \in Row /\ Absent.state = "absent"
  /\ \A l \in Legacy : l \in Row /\ l.state = "live" /\ l.metric.version # 0
<1>1. NoMetric \in Metric
  BY CatalogAssumption DEF NoMetric, Metric, Contents
<1>2. \A c \in Codes : builtin(c) \in Metric /\ builtin(c).version = 1
  BY CatalogAssumption DEF builtin, Metric, CanEnable, Contents
<1>3. \A c \in Codes, m \in Metric : derived(c, m) \in Metric /\ derived(c, m).version = m.version
  BY DEF derived, Metric, CanEnable
<1>4. \A c \in Codes : derived(c, builtin(c)) = builtin(c)
  <2> SUFFICES ASSUME NEW c \in Codes PROVE derived(c, builtin(c)) = builtin(c)
    OBVIOUS
  <2>1. CASE CanEnable(c, "published")
    BY <2>1 DEF derived, builtin
  <2>2. CASE ~CanEnable(c, "published")
    <3>1. builtin(c) \in Metric /\ builtin(c).enabled = FALSE /\ builtin(c).content = "published"
      BY <1>2, <2>2 DEF builtin
    <3>2. \A m \in Metric : m.enabled = FALSE => [m EXCEPT !.enabled = FALSE] = m
      BY DEF Metric
    <3> QED BY <2>2, <3>1, <3>2 DEF derived
  <2> QED BY <2>1, <2>2
<1>5. Absent \in Row /\ Absent.state = "absent"
  BY <1>1 DEF Absent, Row
<1>6. ASSUME NEW l \in Legacy
      PROVE  l \in Row /\ l.state = "live" /\ l.metric.version # 0
  <2>1. PICK v \in 1..MaxVersion : \E k \in Contents :
          l = [state |-> "live", metric |-> [version |-> v, content |-> k, enabled |-> FALSE]]
    BY DEF Legacy
  <2>2. PICK k \in Contents :
          l = [state |-> "live", metric |-> [version |-> v, content |-> k, enabled |-> FALSE]]
    BY <2>1
  <2>3. v \in 0..MaxVersion /\ v # 0
    BY CatalogAssumption
  <2>4. [version |-> v, content |-> k, enabled |-> FALSE] \in Metric
    BY <2>3 DEF Metric
  <2> QED BY <2>2, <2>3, <2>4 DEF Row
<1> QED BY <1>1, <1>2, <1>3, <1>4, <1>5, <1>6

\* What the page shows has the type of a metric.
LEMMA ShownType ==
  ASSUME TypeOK, NEW c \in Codes
  PROVE  Shown(c) \in Metric
BY MetricTypes DEF Shown, TypeOK, Row

\* What a transaction is about to do has its type.
LEMMA PlanType ==
  ASSUME TypeOK, NEW e \in Editors, NEW c \in DOMAIN change[e].plan
  PROVE  c \in Codes /\ change[e].plan[c] \in Op
BY DEF TypeOK, Change

\* One code of a commit: the version goes up by one, from a row that is not deleted.
LEMMA SavedFacts ==
  ASSUME TypeOK, CreatesAreNew, NEW e \in Editors, Commit(e),
         NEW c \in DOMAIN change[e].plan
  PROVE  /\ c \in Codes
         /\ row'[c] = Saved(e, c) /\ Saved(e, c) \in Row /\ Saved(e, c).state # "absent"
         /\ history'[c] = history[c] \cup Baseline(e, c) \cup {Saved(e, c).metric}
         /\ Baseline(e, c) \in SUBSET Metric
         /\ Saved(e, c).metric = derived(c, Saved(e, c).metric)
         /\ row[c].state # "deleted"
         /\ IF change[e].plan[c].name = "CREATE"
              THEN /\ Saved(e, c).metric.version = 1 /\ Baseline(e, c) = {}
                   /\ row[c].state = "absent" /\ c \notin Builtin
              ELSE /\ load(c) \in Metric
                   /\ Saved(e, c).metric.version = load(c).version + 1
                   /\ view[e][c].version = load(c).version
                   /\ Baseline(e, c) =
                        IF \E h \in history[c] : h.version = load(c).version THEN {}
                        ELSE {derived(c, load(c))}
<1>1. c \in Codes /\ change[e].plan[c] \in Op
  BY PlanType
<1>2. Passes(e, c) /\ NextVersion(e, c) <= MaxVersion
  BY DEF Commit
<1>3. load(c) \in Metric
  BY <1>1, MetricTypes DEF load, TypeOK, Row
<1>4. NextVersion(e, c) \in 0..MaxVersion
  BY <1>2, <1>3, CatalogAssumption DEF NextVersion, Metric
<1> DEFINE m == [version |-> NextVersion(e, c), content |-> change[e].plan[c].content,
                 enabled |-> change[e].plan[c].name = "ENABLE"
                               \/ (change[e].plan[c].name = "UPDATE" /\ load(c).enabled)]
<1>5. m \in Metric
  BY <1>1, <1>3, <1>4 DEF Metric, Op
<1>6. Saved(e, c) = [state |-> IF change[e].plan[c].name = "DELETE" THEN "deleted" ELSE "live",
                     metric |-> derived(c, m)]
  BY DEF Saved
<1>7. derived(c, m) \in Metric /\ derived(c, m).version = NextVersion(e, c)
  BY <1>1, <1>5, MetricTypes
<1>8. derived(c, derived(c, m)) = derived(c, m)
  BY <1>5 DEF derived, Metric
<1>9. Saved(e, c) \in Row /\ Saved(e, c).state # "absent"
  BY <1>6, <1>7 DEF Row
<1>10. row'[c] = Saved(e, c) /\ history'[c] = history[c] \cup Baseline(e, c) \cup {Saved(e, c).metric}
  BY <1>1 DEF Commit, TypeOK
<1>11. Baseline(e, c) \in SUBSET Metric
  BY <1>1, <1>3, MetricTypes DEF Baseline
<1> HIDE DEF m
<1> QED BY <1>1, <1>2, <1>3, <1>6, <1>7, <1>8, <1>9, <1>10, <1>11
      DEF Passes, Matches, NextVersion, Baseline, CreatesAreNew

-----------------------------------------------------------------------------
\* Init satisfies the inductive invariant: legacy rows are allowed to have no history.
THEOREM InvInit == Init => Inv
<1> SUFFICES ASSUME Init PROVE Inv
  OBVIOUS
<1>1. TypeOK
  <2>1. NoChange \in Change
    <3>1. [c \in {} |-> NoMetric] \in [{} -> Op]
      OBVIOUS
    <3>2. {} \in SUBSET Codes
      OBVIOUS
    <3> QED BY <3>1, <3>2 DEF NoChange, Change
  <2> QED BY <2>1, MetricTypes DEF Init, TypeOK
<1>2. VersionTells
  BY DEF VersionTells, Init, NoMetric
<1>3. RowsHaveHistory
  BY MetricTypes DEF RowsHaveHistory, Init
<1>4. HistoryIsWhole
  BY DEF HistoryIsWhole, Init
<1>5. CreatesAreNew
  BY DEF CreatesAreNew, Init, NoChange
<1> QED BY <1>1, <1>2, <1>3, <1>4, <1>5 DEF Inv

\* Looking at the catalogue.
LEMMA ListKeepsInv ==
  ASSUME Inv, NEW e \in Editors, ListForTenant(e)
  PROVE  Inv'
<1> USE DEF Inv
<1>1. TypeOK'
  BY ShownType DEF ListForTenant, TypeOK
<1>2. \A d \in Editors, c \in Codes :
        view'[d][c] = IF d = e THEN Shown(c) ELSE view[d][c]
  BY DEF ListForTenant, TypeOK
<1>3. UNCHANGED <<row, history>>
  BY DEF ListForTenant
<1>4. VersionTells'
  <2> SUFFICES ASSUME NEW d \in Editors, NEW c \in Codes, view'[d][c].version # 0
               PROVE  IF row[c].state = "absent" THEN c \in Builtin /\ view'[d][c] = builtin(c)
                      ELSE /\ view'[d][c].version <= row[c].metric.version
                           /\ row[c].state = "live" /\ view'[d][c].version = row[c].metric.version
                                => view'[d][c] = derived(c, row[c].metric)
    BY <1>3 DEF VersionTells
  <2>1. CASE d = e
    <3>1. row[c] \in Row
      BY DEF TypeOK
    <3>2. view'[d][c] = Shown(c) /\ NoMetric.version = 0
      BY <1>2, <2>1 DEF NoMetric
    <3>3. derived(c, row[c].metric).version = row[c].metric.version /\ row[c].metric.version \in Nat
      BY <3>1, MetricTypes, CatalogAssumption DEF Row, Metric
    <3> QED BY <3>1, <3>2, <3>3 DEF Shown, Row
  <2>2. CASE d # e
    BY <1>2, <2>2 DEF VersionTells
  <2> QED BY <2>1, <2>2
<1>5. RowsHaveHistory'
  BY <1>3 DEF RowsHaveHistory
<1>6. HistoryIsWhole'
  <2>1. \A d \in Editors, c \in Codes : view'[d][c] # NoMetric /\ view'[d][c] # Shown(c) => view'[d][c] \in history[c]
    BY <1>2 DEF HistoryIsWhole
  <2> QED BY <1>3, <2>1 DEF HistoryIsWhole, Shown, Versions
<1>7. CreatesAreNew'
  BY DEF CreatesAreNew, ListForTenant
<1> QED BY <1>1, <1>4, <1>5, <1>6, <1>7

\* Steps that change neither a row nor a page.
LEMMA TablesKeepInv ==
  ASSUME Inv, TypeOK', CreatesAreNew', UNCHANGED <<row, history, view>>
  PROVE  Inv'
BY DEF Inv, VersionTells, RowsHaveHistory, HistoryIsWhole, Shown, Versions

LEMMA BeginKeepsInv ==
  ASSUME Inv, NEW e \in Editors, Begin(e)
  PROVE  Inv'
<1>1. PICK S \in SUBSET Codes : \E plan \in [S -> Op] :
        /\ \A c \in S : Chosen(e, c, plan[c])
        /\ change' = [change EXCEPT ![e] = [plan |-> plan, absent |-> S \ Rows]]
  BY DEF Begin
<1>2. PICK plan \in [S -> Op] :
        /\ \A c \in S : Chosen(e, c, plan[c])
        /\ change' = [change EXCEPT ![e] = [plan |-> plan, absent |-> S \ Rows]]
  BY <1>1
<1>3. [plan |-> plan, absent |-> S \ Rows] \in Change
  BY DEF Change
<1>4. TypeOK'
  BY <1>2, <1>3 DEF Inv, TypeOK, Begin
<1>5. \A c \in S : plan[c].name = "CREATE" => c \in (S \ Rows) \ Builtin
  BY <1>2 DEF Chosen, MayCreate, Rows
<1>6. CreatesAreNew'
  <2> SUFFICES ASSUME NEW d \in Editors, NEW c \in DOMAIN change'[d].plan,
                      change'[d].plan[c].name = "CREATE"
               PROVE  c \in change'[d].absent \ Builtin
    BY DEF CreatesAreNew
  <2>1. CASE d = e
    BY <1>2, <1>5, <2>1 DEF Inv, TypeOK
  <2>2. CASE d # e
    BY <1>2, <2>2 DEF Inv, TypeOK, CreatesAreNew
  <2> QED BY <2>1, <2>2
<1> QED BY <1>4, <1>6, TablesKeepInv DEF Begin

\* A transaction is over, committed or not.
LEMMA NoChangeFacts ==
  ASSUME TypeOK, CreatesAreNew, NEW e \in Editors, change' = [change EXCEPT ![e] = NoChange]
  PROVE  change' \in [Editors -> Change] /\ CreatesAreNew'
<1>1. NoChange \in Change
  <2>1. [c \in {} |-> NoMetric] \in [{} -> Op] /\ {} \in SUBSET Codes
    OBVIOUS
  <2> QED BY <2>1 DEF NoChange, Change
<1>2. DOMAIN NoChange.plan = {}
  BY DEF NoChange
<1> QED BY <1>1, <1>2 DEF TypeOK, CreatesAreNew

LEMMA RollbackKeepsInv ==
  ASSUME Inv, NEW e \in Editors, Rollback(e)
  PROVE  Inv'
<1>1. change' \in [Editors -> Change] /\ CreatesAreNew'
  BY NoChangeFacts DEF Inv, Rollback
<1>2. TypeOK'
  BY <1>1 DEF Inv, TypeOK, Rollback
<1> QED BY <1>1, <1>2, TablesKeepInv DEF Rollback

\* The codes a transaction does not name stay as they are.
LEMMA OtherCodes ==
  ASSUME TypeOK, NEW e \in Editors, Commit(e), NEW c \in Codes, c \notin DOMAIN change[e].plan
  PROVE  row'[c] = row[c] /\ history'[c] = history[c]
BY DEF Commit, TypeOK

\* Nobody's page is ahead of the row, and no snapshot either.
LEMMA NothingIsAhead ==
  ASSUME Inv, NEW c \in Codes
  PROVE  /\ \A d \in Editors :
              view[d][c].version # 0 /\ (row[c].state # "absent" \/ c \in Builtin)
                => view[d][c].version <= load(c).version
         /\ \A h \in history[c] : h.version <= load(c).version /\ h.version \in Nat
         /\ row[c].state = "absent" => history[c] = {}
<1>1. row[c] \in Row /\ history[c] \subseteq Metric /\ builtin(c).version = 1
  BY MetricTypes DEF Inv, TypeOK
<1>2. row[c].metric.version \in Nat
  BY <1>1, CatalogAssumption DEF Row, Metric
<1>3. ASSUME NEW d \in Editors, view[d][c].version # 0
      PROVE  view[d][c].version <= load(c).version
  BY <1>1, <1>2, <1>3 DEF Inv, VersionTells, load
<1>4. \A h \in history[c] : h.version \in Nat
  BY <1>1, CatalogAssumption DEF Metric
<1>5. row[c].state = "absent" => history[c] = {}
  BY DEF Inv, RowsHaveHistory
<1>6. ASSUME NEW h \in history[c]
      PROVE  h.version <= load(c).version
  <2>1. PICK first \in 1..row[c].metric.version : h.version \in first..row[c].metric.version
    BY <1>6 DEF Inv, HistoryIsWhole, Versions
  <2> QED BY <1>2, <1>5, <2>1 DEF load
<1> QED BY <1>3, <1>4, <1>5, <1>6

LEMMA CommitKeepsInv ==
  ASSUME Inv, NEW e \in Editors, Commit(e)
  PROVE  Inv'
<1> DEFINE S == DOMAIN change[e].plan
<1>1. TypeOK /\ CreatesAreNew
  BY DEF Inv
<1>2. change' \in [Editors -> Change] /\ CreatesAreNew' /\ UNCHANGED view
  BY <1>1, NoChangeFacts DEF Commit
<1>3. \A c \in Codes : row'[c] \in Row /\ history'[c] \in SUBSET Metric
  <2> SUFFICES ASSUME NEW c \in Codes PROVE row'[c] \in Row /\ history'[c] \in SUBSET Metric
    OBVIOUS
  <2>1. CASE c \in S
    BY <1>1, <2>1, SavedFacts DEF TypeOK, Row
  <2>2. CASE c \notin S
    BY <1>1, <2>2, OtherCodes DEF TypeOK
  <2> QED BY <2>1, <2>2
<1>4. TypeOK'
  <2>1. row' = [c \in Codes |-> row'[c]] /\ history' = [c \in Codes |-> history'[c]]
    BY DEF Commit
  <2>2. row' \in [Codes -> Row] /\ history' \in [Codes -> SUBSET Metric]
    BY <1>3, <2>1
  <2> QED BY <1>1, <1>2, <2>2 DEF TypeOK
<1>5. VersionTells'
  <2> SUFFICES ASSUME NEW d \in Editors, NEW c \in Codes, view'[d][c].version # 0
               PROVE  IF row'[c].state = "absent" THEN c \in Builtin /\ view'[d][c] = builtin(c)
                      ELSE /\ view'[d][c].version <= row'[c].metric.version
                           /\ row'[c].state = "live" /\ view'[d][c].version = row'[c].metric.version
                                => view'[d][c] = derived(c, row'[c].metric)
    BY DEF VersionTells
  <2>1. CASE c \notin S
    BY <1>1, <1>2, <2>1, OtherCodes DEF Inv, VersionTells
  <2>2. CASE c \in S
    <3>1. view[d][c] \in Metric /\ load(c).version \in Nat
      BY <1>1, MetricTypes, CatalogAssumption DEF TypeOK, load, Row, Metric
    <3>2. row[c].state = "absent" => c \in Builtin
      BY <1>2 DEF Inv, VersionTells
    <3>3. change[e].plan[c].name # "CREATE"
      BY <1>1, <2>2, <3>2, SavedFacts
    <3>4. /\ row'[c] = Saved(e, c) /\ row'[c].state # "absent"
          /\ row'[c].metric.version = load(c).version + 1
      BY <1>1, <2>2, <3>3, SavedFacts
    <3>5. view[d][c].version <= load(c).version
      BY <1>2, <3>2, NothingIsAhead
    <3>6. view[d][c].version \in Nat
      BY <3>1, CatalogAssumption DEF Metric
    <3> QED BY <1>2, <3>1, <3>4, <3>5, <3>6
  <2> QED BY <2>1, <2>2
<1>6. RowsHaveHistory'
  <2> SUFFICES ASSUME NEW c \in Codes
               PROVE  /\ row'[c].state = "absent" => history'[c] = {}
                      /\ row'[c].state # "absent" /\ history'[c] = {} =>
                           row'[c].state = "live" /\ row'[c].metric.version # 0
                      /\ history'[c] # {} => row'[c].metric = derived(c, row'[c].metric)
    BY DEF RowsHaveHistory
  <2>1. CASE c \notin S
    BY <1>1, <2>1, OtherCodes DEF Inv, RowsHaveHistory
  <2>2. CASE c \in S
    <3>1. /\ row'[c] = Saved(e, c) /\ Saved(e, c).state # "absent"
          /\ Saved(e, c).metric \in history'[c]
          /\ Saved(e, c).metric = derived(c, Saved(e, c).metric)
      BY <1>1, <2>2, SavedFacts
    <3> QED BY <3>1
  <2> QED BY <2>1, <2>2
<1>7. HistoryIsWhole'
  <2> SUFFICES ASSUME NEW c \in Codes
               PROVE  /\ \A d \in Editors :
                           view'[d][c] # NoMetric /\ view'[d][c] # Shown(c)' => view'[d][c] \in history'[c]
                      /\ \A g, h \in history'[c] : g.version = h.version => g = h
                      /\ history'[c] # {} => /\ row'[c].metric \in history'[c]
                                             /\ \E first \in 1..row'[c].metric.version :
                                                  {h.version : h \in history'[c]}
                                                    = first..row'[c].metric.version
    BY DEF HistoryIsWhole, Versions
  <2>1. CASE c \notin S
    <3>1. row'[c] = row[c] /\ history'[c] = history[c]
      BY <1>1, <2>1, OtherCodes
    <3>2. Shown(c)' = Shown(c)
      BY <3>1 DEF Shown
    <3> QED BY <1>2, <3>1, <3>2 DEF Inv, HistoryIsWhole, Versions
  <2>2. CASE c \in S /\ change[e].plan[c].name = "CREATE"
    <3>1. /\ row'[c].metric.version = 1 /\ row[c].state = "absent" /\ c \notin Builtin
          /\ history'[c] = history[c] \cup {row'[c].metric}
      BY <1>1, <2>2, SavedFacts
    <3>2. history'[c] = {row'[c].metric}
      BY <3>1, NothingIsAhead
    <3>3. ASSUME NEW d \in Editors PROVE view[d][c] = NoMetric \/ view[d][c] \in history[c]
      BY <3>1 DEF Inv, HistoryIsWhole, Shown
    <3>4. {h.version : h \in history'[c]} = 1..1
      BY <3>1, <3>2
    <3>5. row'[c].metric \in history'[c] /\ \A g, h \in history'[c] : g = h
      BY <3>2
    <3>6. \E first \in 1..row'[c].metric.version :
            {h.version : h \in history'[c]} = first..row'[c].metric.version
      BY <3>1, <3>4
    <3>7. \A d \in Editors : view'[d][c] # NoMetric => view'[d][c] \in history'[c]
      BY <1>2, <3>1, <3>3
    <3> QED BY <3>5, <3>6, <3>7
  <2>3. CASE c \in S /\ change[e].plan[c].name # "CREATE"
    <3> DEFINE v == load(c).version
               new == row'[c].metric
               base == IF \E h \in history[c] : h.version = v THEN {} ELSE {derived(c, load(c))}
    <3>1. /\ load(c) \in Metric /\ row[c].state # "deleted"
          /\ row'[c] = Saved(e, c) /\ new.version = v + 1 /\ view[e][c].version = v
          /\ history'[c] = history[c] \cup base \cup {new}
          /\ new \in Metric
      BY <1>1, <2>3, SavedFacts DEF Row
    <3>2. v \in Nat /\ derived(c, load(c)).version = v
      BY <3>1, MetricTypes, CatalogAssumption DEF Metric
    <3>3. \A h \in history[c] : h.version <= v /\ h.version \in Nat
      BY NothingIsAhead
    <3>4. row[c].state = "absent" \/ row[c].state = "live"
      BY <1>1, <3>1 DEF TypeOK, Row
    <3>5. history[c] = {} => v # 0
      BY <3>4, MetricTypes DEF Inv, RowsHaveHistory, load
    <3>6. history[c] # {} => load(c) = row[c].metric /\ row[c].metric \in history[c]
                             /\ (\E first \in 1..v : Versions(c) = first..v) /\ derived(c, load(c)) = load(c)
      BY <3>4 DEF Inv, RowsHaveHistory, HistoryIsWhole, load
    <3>7. history[c] # {} => base = {} /\ derived(c, load(c)) \in history[c]
      BY <3>6
    <3>8. derived(c, load(c)) \in history'[c]
      BY <3>1, <3>7
    <3>9. history[c] = {} => history'[c] = {derived(c, load(c)), new}
      BY <3>1
    <3>10. history[c] # {} => history'[c] = history[c] \cup {new}
      BY <3>1, <3>7
    <3> HIDE DEF base
    <3>11. ASSUME NEW d \in Editors, view[d][c] # NoMetric PROVE view[d][c] \in history'[c]
      <4>1. CASE view[d][c] # Shown(c)
        BY <3>1, <3>11, <4>1 DEF Inv, HistoryIsWhole
      <4>2. CASE view[d][c] = Shown(c)
        <5>1. view[d][c] = derived(c, load(c))
          BY <3>4, <3>11, <4>2, MetricTypes DEF Shown, load
        <5> QED BY <3>8, <5>1
      <4> QED BY <4>1, <4>2
    <3>12. \A g, h \in history'[c] : g.version = h.version => g = h
      <4>1. CASE history[c] = {}
        BY <3>1, <3>2, <3>9, <4>1
      <4>2. CASE history[c] # {}
        <5>1. \A g, h \in history[c] : g.version = h.version => g = h
          BY DEF Inv, HistoryIsWhole
        <5> QED BY <3>1, <3>2, <3>3, <3>10, <4>2, <5>1
      <4> QED BY <4>1, <4>2
    <3>13. \E first \in 1..(v + 1) : {h.version : h \in history'[c]} = first..(v + 1)
      <4>1. CASE history[c] = {}
        <5>1. {h.version : h \in history'[c]} = v..(v + 1)
          BY <3>1, <3>2, <3>9, <4>1
        <5> QED BY <3>2, <3>5, <4>1, <5>1
      <4>2. CASE history[c] # {}
        <5>1. PICK first \in 1..v : {h.version : h \in history[c]} = first..v
          BY <3>6, <4>2 DEF Versions
        <5>2. {h.version : h \in history'[c]} = {h.version : h \in history[c]} \cup {v + 1}
          BY <3>1, <3>10, <4>2
        <5>3. first..v \cup {v + 1} = first..(v + 1) /\ first \in 1..(v + 1)
          BY <3>2
        <5> QED BY <5>1, <5>2, <5>3
      <4> QED BY <4>1, <4>2
    <3> QED BY <1>2, <3>1, <3>11, <3>12, <3>13
  <2> QED BY <2>1, <2>2, <2>3
<1> QED BY <1>2, <1>4, <1>5, <1>6, <1>7 DEF Inv

\* Every operation on the catalogue preserves it, and so does a stuttering step.
THEOREM InvStep == Inv /\ [Next]_vars => Inv'
<1> SUFFICES ASSUME Inv, [Next]_vars PROVE Inv'
  OBVIOUS
<1>1. ASSUME NEW e \in Editors, ListForTenant(e) PROVE Inv'
  BY <1>1, ListKeepsInv
<1>2. ASSUME NEW e \in Editors, Begin(e) PROVE Inv'
  BY <1>2, BeginKeepsInv
<1>3. ASSUME NEW e \in Editors, Commit(e) PROVE Inv'
  BY <1>3, CommitKeepsInv
<1>4. ASSUME NEW e \in Editors, Rollback(e) PROVE Inv'
  BY <1>4, RollbackKeepsInv
<1>5. CASE UNCHANGED vars
  BY <1>5 DEF vars, Inv, TypeOK, VersionTells, RowsHaveHistory, CreatesAreNew, HistoryIsWhole,
              Shown, Versions
<1> QED BY <1>1, <1>2, <1>3, <1>4, <1>5 DEF Next

\* Pages, rows and snapshots agree in every state.
THEOREM InvHolds == Spec => []Inv
BY InvInit, InvStep, PTL DEF Spec

\* The history of every metric is whole.
THEOREM HistoryHolds == Spec => []HistoryIsWhole
<1>1. Inv => HistoryIsWhole
  BY DEF Inv
<1> QED BY <1>1, InvHolds, PTL

\* A version names one state: who has it may change the metric, and nobody else's edit is lost.
LEMMA CommitIsBasedOnTheRow ==
  ASSUME Inv, NEW e \in Editors, Commit(e), NEW c \in DOMAIN change[e].plan,
         change[e].plan[c].name # "CREATE"
  PROVE  view[e][c] = Shown(c)
<1>1. /\ c \in Codes /\ row[c].state # "deleted" /\ load(c) \in Metric
      /\ view[e][c].version = load(c).version
  BY SavedFacts DEF Inv
<1>2. row[c].state \in {"absent", "live"}
  BY <1>1 DEF Inv, TypeOK, Row
<1>3. load(c).version # 0
  <2>1. CASE row[c].state = "absent"
    BY <1>1, <2>1, MetricTypes DEF load
  <2>2. CASE row[c].state = "live"
    <3>1. history[c] = {} => row[c].metric.version # 0
      BY <1>1, <2>2 DEF Inv, RowsHaveHistory
    <3>2. history[c] # {} => \E first \in 1..row[c].metric.version : TRUE
      BY <1>1 DEF Inv, HistoryIsWhole
    <3>3. row[c].metric.version \in Nat
      BY <1>1, CatalogAssumption DEF Inv, TypeOK, Row, Metric
    <3> QED BY <2>2, <3>1, <3>2, <3>3 DEF load
  <2> QED BY <1>2, <2>1, <2>2
<1> QED BY <1>1, <1>2, <1>3 DEF Inv, VersionTells, Shown, load

\* No edit is lost.
THEOREM EditsAreKept == Spec => EditsAreNotLost
<1> DEFINE A == \A e \in Editors : Commit(e) =>
                  \A c \in DOMAIN change[e].plan :
                    change[e].plan[c].name # "CREATE" => view[e][c] = Shown(c)
<1>1. Inv => A
  BY CommitIsBasedOnTheRow
<1>2. Inv /\ [Next]_vars => [A]_vars
  BY <1>1
<1> QED BY <1>2, InvHolds, PTL DEF Spec, EditsAreNotLost
=============================================================================
