---------------------------- MODULE MCImportReport ----------------------------
(* Values for the constants of ImportReport. *)
EXTENDS ImportReportProps, TLC

CONSTANTS w1, w2, i1, i2

Content(rev, rel, both, body) == [rev |-> rev, rel |-> rel, both |-> both, body |-> body]

\* i1 has two contents of one version, a later revision and a later release of the
\* first; i2 requires the API only.
MCOffers == i1 :> {Content(1, 1, TRUE, "a"), Content(1, 1, TRUE, "b"), Content(1, 2, TRUE, "a")}
              @@ i2 :> {Content(1, 1, FALSE, "a")}

Symmetry == Permutations(Workers)
=============================================================================
