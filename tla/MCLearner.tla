----------------------------- MODULE MCLearner -----------------------------
(***************************************************************************)
(* Small instances of Learner for TLC.                                     *)
(***************************************************************************)
EXTENDS Learner
=============================================================================
