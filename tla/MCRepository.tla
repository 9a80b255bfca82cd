---------------------------- MODULE MCRepository ----------------------------
(***************************************************************************)
(* Instances of Repository for TLC.                                        *)
(***************************************************************************)
EXTENDS RepositoryInvariant, TLC

ScopeSymmetry == Permutations(Scopes)

AllFaults == {"append", "publish", "snapshot", "crash"}
NoFaults  == {}
PublisherFaults == {"publish"}
=============================================================================
