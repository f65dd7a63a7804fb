----------------------------- MODULE MCSyncRound -----------------------------
(* Values for the constants of SyncRound. *)
EXTENDS SyncRoundProps, TLC

CONSTANTS w1, w2, c1, a1, u1

MCContract == <<c1>>
MCApproval == <<a1>>
MCCRM == <<u1>>
Symmetry == Permutations(Workers)
=============================================================================
