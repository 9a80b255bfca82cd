--------------------------- MODULE SnapshotPolicy ---------------------------
(***************************************************************************)
(* When Repository.SaveSnapshotAsync takes a snapshot.                     *)
(*                                                                         *)
(* The decision is a piece of arithmetic on the version the aggregate has  *)
(* reached, the number of events the save has just committed and the       *)
(* frequency the snapshot provider was configured with.  Versions start at *)
(* 0 and the stream that does not exist has version -1, so the events of a *)
(* save are those that bring an aggregate to the versions                  *)
(* currentVersion - count + 1 .. currentVersion.                           *)
(***************************************************************************)
EXTENDS Integers

(* Mutants: only a save that ends on a multiple counts; a save that ends   *)
(* just before its first event counts too.                                 *)
EndsOnMultiple(currentVersion, count, frequency) ==
  /\ currentVersion >= frequency
  /\ \/ count >= frequency
     \/ currentVersion % frequency = 0
ReachesOrLeavesMultiple(currentVersion, count, frequency) ==
  /\ currentVersion >= frequency
  /\ \/ count >= frequency
     \/ currentVersion % frequency <= count

(* The condition of SaveSnapshotAsync, disjunct by disjunct.  A frequency  *)
(* of zero or less never reaches the remainder: the count of a save is     *)
(* positive, and the first disjunct of the condition decides.              *)
ShouldSnapshot(currentVersion, count, frequency) ==
  /\ currentVersion >= frequency
  /\ \/ count >= frequency
     \/ currentVersion % frequency < count
     \/ currentVersion % frequency = 0

(* What the condition computes: one of the versions the save has just      *)
(* reached is a positive multiple of the frequency.                        *)
ReachesMultiple(currentVersion, count, frequency) ==
  \E k \in 1 .. currentVersion :
    /\ currentVersion - count < k * frequency
    /\ k * frequency <= currentVersion
=============================================================================
