-------------------------- MODULE MCInMemoryStorage --------------------------
(***************************************************************************)
(* An instance of InMemoryStorage for TLC.                                 *)
(***************************************************************************)
EXTENDS InMemoryStorage, TLC

ScopeSymmetry == Permutations(Scopes)
=============================================================================
