---------------------------- MODULE MCScoresheets ----------------------------
(* Workers and administrators are interchangeable where no liveness is     *)
(* checked.                                                                *)
EXTENDS Scoresheets, TLC

CONSTANTS w1, w2, admin, root

WorkerSymmetry == Permutations(Worker)
=============================================================================
