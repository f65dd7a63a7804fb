-------------------------- MODULE MetricCatalogProps --------------------------
(* What must be true of MetricCatalog. *)
EXTENDS MetricCatalog

\* Every variable has its type.
TypeOK ==
  /\ row \in [Codes -> Row]
  /\ history \in [Codes -> SUBSET Metric]
  /\ view \in [Editors -> [Codes -> Metric]]
  /\ change \in [Editors -> Change]

\* No edit is lost: a metric is changed only by somebody whose page shows all of its
\* current state, which the version stands for in every sequence of creations,
\* overrides, deletions and changes (governance.go:339, :381, :414, :239).
EditsAreNotLost ==
  [][\A e \in Editors : Commit(e) =>
       \A c \in DOMAIN change[e].plan :
         change[e].plan[c].name # "CREATE" => view[e][c] = Shown(c)]_vars

Versions(c) == {h.version : h \in history[c]}

\* The history of a metric is whole since there are snapshots: every state that a page has
\* ever shown and that was replaced since is in it, published and legacy definitions
\* included, once for every version; from its first version on none is missing, and the
\* last one is the row (governance.go:214-222, :253-260).  A legacy row's first is the
\* version its edits before migration 13 had left it at; nobody has kept the ones before.
HistoryIsWhole ==
  \A c \in Codes :
    /\ \A e \in Editors :
         view[e][c] # NoMetric /\ view[e][c] # Shown(c) => view[e][c] \in history[c]
    /\ \A g, h \in history[c] : g.version = h.version => g = h
    /\ history[c] # {} => /\ row[c].metric \in history[c]
                          /\ \E first \in 1..row[c].metric.version :
                               Versions(c) = first..row[c].metric.version
-----------------------------------------------------------------------------
(* The inductive invariant *)

\* A page shows an older version than the row, or exactly what the row is.
VersionTells ==
  \A e \in Editors, c \in Codes :
    view[e][c].version # 0 =>
      IF row[c].state = "absent" THEN c \in Builtin /\ view[e][c] = builtin(c)
      ELSE /\ view[e][c].version <= row[c].metric.version
           /\ row[c].state = "live" /\ view[e][c].version = row[c].metric.version
                => view[e][c] = derived(c, row[c].metric)

\* What has a row has a version; only a legacy row that is as it was has no history.
RowsHaveHistory ==
  \A c \in Codes :
    /\ row[c].state = "absent" => history[c] = {}
    /\ row[c].state # "absent" /\ history[c] = {} => row[c].state = "live" /\ row[c].metric.version # 0
    /\ history[c] # {} => row[c].metric = derived(c, row[c].metric)

\* What a transaction creates is not published, and it has looked for the row.
CreatesAreNew ==
  \A e \in Editors : \A c \in DOMAIN change[e].plan :
    change[e].plan[c].name = "CREATE" => c \in change[e].absent \ Builtin

Inv == TypeOK /\ VersionTells /\ RowsHaveHistory /\ CreatesAreNew /\ HistoryIsWhole
=============================================================================
