-------------------------- MODULE SnapshotCadence --------------------------
(***************************************************************************)
(* The rhythm at which a sequence of saves leaves snapshots behind.        *)
(*                                                                         *)
(* One writer commits batch after batch and no provider fails, so that the *)
(* only question is the arithmetic of SnapshotPolicy: how far the last     *)
(* snapshot may lag behind the stream, which is the number of events the   *)
(* next GetByIdAsync replays.                                              *)
(***************************************************************************)
EXTENDS SnapshotPolicy

CONSTANTS
  Frequencies,   \* the values SnapshotFrequency may be configured with
  MaxBatch,      \* bound: the events one save commits
  MaxVersion     \* bound: the version at which the exploration stops

ASSUME CadenceAssumption ==
  /\ Frequencies \subseteq Int
  /\ MaxBatch \in Nat
  /\ MaxVersion \in Nat

VARIABLES
  frequency,     \* SnapshotFrequency of the provider
  version,       \* CurrentVersion of the aggregate, all of it committed
  covered        \* version of the stored snapshot, -1 when there is none

vars == <<frequency, version, covered>>

Init ==
  /\ frequency \in Frequencies
  /\ version = -1
  /\ covered = -1

(* Mutant: the snapshot carries the number of events, not the version. *)
SaveCounting(count) ==
  /\ version + count <= MaxVersion
  /\ version' = version + count
  /\ covered' = IF ShouldSnapshot(version', count, frequency)
                  THEN version' + 1 ELSE covered
  /\ UNCHANGED frequency

(* SaveAsync with count uncommitted events: they are appended, and the     *)
(* snapshot is taken of the version they lead to.                          *)
Save(count) ==
  /\ version + count <= MaxVersion
  /\ version' = version + count
  /\ covered' = IF ShouldSnapshot(version', count, frequency)
                  THEN version' ELSE covered
  /\ UNCHANGED frequency

Next == \E count \in 1 .. MaxBatch : Save(count)

Spec == Init /\ [][Next]_vars

-----------------------------------------------------------------------------

(* Versions start at the version of no stream and a snapshot never is      *)
(* ahead of the aggregate it was taken from (AggregateRoot.CurrentVersion, *)
(* ISnapshot.Version).                                                     *)
TypeOK ==
  /\ frequency \in Frequencies
  /\ version \in -1 .. MaxVersion
  /\ covered \in -1 .. version

(* Loading replays at most SnapshotFrequency events, whatever the sizes of *)
(* the saves were: no batch steps over a multiple of the frequency without *)
(* leaving a snapshot (Repository.SaveSnapshotAsync).                      *)
ReplayIsBounded ==
  frequency > 0 => version - covered <= frequency

(* A snapshot is written exactly by the saves that reach a multiple of the *)
(* frequency, so never twice for one multiple; with a frequency of zero or *)
(* less every save writes one (Repository.SaveSnapshotAsync).              *)
SnapshotsMarkMultiples ==
  [][ (covered' # covered) <=>
        \/ frequency <= 0
        \/ ReachesMultiple(version', version' - version, frequency) ]_vars
=============================================================================
