--------------------------- MODULE MCMetricCatalog ---------------------------
(* Values for the constants of MetricCatalog. *)
EXTENDS MetricCatalogProps, TLC

Symmetry == Permutations(Editors)
=============================================================================
