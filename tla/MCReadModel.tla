---------------------------- MODULE MCReadModel ----------------------------
(***************************************************************************)
(* ReadModel for TLC.                                                      *)
(***************************************************************************)
EXTENDS ReadModel, TLC

UserSymmetry == Permutations(Users)
=============================================================================
