------------------------- MODULE RepositoryInvariant -------------------------
(***************************************************************************)
(* The inductive invariants behind the safety properties of Repository.    *)
(*                                                                         *)
(* ContiguityInv needs an event store that compares versions; HistoryInv   *)
(* needs in addition that no scope applies events while its save is        *)
(* awaited.  RepositoryProofs shows that both are inductive.               *)
(***************************************************************************)
EXTENDS Repository

(* The first n elements of two sequences are the same. *)
AgreeUpTo(n, s, t) ==
  /\ n <= Len(s)
  /\ n <= Len(t)
  /\ \A i \in 1 .. n : s[i] = t[i]

-----------------------------------------------------------------------------
(* Contiguity *)

(* A batch on its way to the store is a run of versions. *)
IsRun(events) ==
  events # <<>> /\ CanReplay(Head(events).target, events)

ChangesLeadToVersion ==
  \A c \in Scopes :
    LET changes == agg[c].uncommitted
    IN CanReplay(agg[c].cv - Len(changes), changes)

RequestsAreRuns ==
  /\ \A events \in inflight : IsRun(events)
  /\ \A c \in Scopes : pc[c] = "appending" => IsRun(batch[c])

ContiguityInv ==
  /\ TypeOK
  /\ VersionsAreContiguous
  /\ ChangesLeadToVersion
  /\ RequestsAreRuns

-----------------------------------------------------------------------------
(* History *)

(* An instance is its committed history and its uncommitted changes, which *)
(* are the scope's own events for the versions that follow.                *)
InstanceIsHistoryAndChanges(c) ==
  LET a == agg[c]
  IN /\ a.lcv <= a.cv
     /\ Len(a.applied) = a.cv + 1
     /\ Len(a.uncommitted) = a.cv - a.lcv
     /\ AgreeUpTo(a.lcv + 1, a.applied, stream)
     /\ \A i \in 1 .. Len(a.uncommitted) :
          /\ a.uncommitted[i] = [by |-> c, target |-> a.lcv + i - 1]
          /\ a.applied[a.lcv + 1 + i] = a.uncommitted[i]

NoInstanceYet(c) == pc[c] \in {"idle", "loading"} => agg[c] = NewInstance

(* Stored events of a scope follow what its instance has applied. *)
OwnEventsFollowHistory(c) ==
  \A i \in 1 .. Len(stream) :
    stream[i].by = c => AgreeUpTo(i, agg[c].applied, stream)

(* The whole instance is stored. *)
Stored(c) == AgreeUpTo(agg[c].cv + 1, agg[c].applied, stream)

(* The locals of a save in progress. *)
SaveInProgress(c) ==
  /\ pc[c] \in Saving =>
       batch[c] = agg[c].uncommitted /\ batch[c] # <<>>
  /\ pc[c] \in {"publishing", "marking"} => Stored(c)
  /\ pc[c] \notin {"publishing", "marking"} => sent[c] = 0
  /\ sent[c] <= Len(batch[c])
  /\ pc[c] = "marking" => sent[c] = Len(batch[c])

(* A request nobody waits for any more extends a version its instance has  *)
(* committed or had loaded, with events the instance has applied.          *)
RequestOf(c, events) ==
  LET base == Head(events).target
  IN /\ base <= agg[c].lcv
     /\ base + Len(events) <= agg[c].cv
     /\ \A i \in 1 .. Len(events) :
          /\ events[i].by = c
          /\ agg[c].applied[base + 1 + i] = events[i]

RequestsAreOwned ==
  \A events \in inflight : \E c \in Scopes : RequestOf(c, events)

SnapshotsArePrefixes ==
  \A s \in {snapshot} \cup {found[c] : c \in Scopes} :
    /\ Len(s.applied) = s.version + 1
    /\ AgreeUpTo(s.version + 1, s.applied, stream)

(* Published events are stored, and all of them are different. *)
PublishedAreStored ==
  \A i \in 1 .. Len(published) :
    /\ published[i].target + 2 <= Len(stream)
    /\ stream[published[i].target + 2] = published[i]

PublishedOnce ==
  \A i, j \in 1 .. Len(published) : published[i] = published[j] => i = j

(* Of its uncommitted changes, a save has published the first sent[c].     *)
PublishedIsSent(c) ==
  pc[c] \in Saving =>
    /\ \A i \in 1 .. Len(published) :
         published[i].by = c => published[i].target < agg[c].lcv + sent[c]
    /\ \A i \in 1 .. sent[c] : batch[c][i] \in ToSet(published)

ScopeInv(c) ==
  /\ InstanceIsHistoryAndChanges(c)
  /\ NoInstanceYet(c)
  /\ OwnEventsFollowHistory(c)
  /\ SaveInProgress(c)
  /\ PublishedIsSent(c)

HistoryInv ==
  /\ ContiguityInv
  /\ SnapshotsArePrefixes
  /\ RequestsAreOwned
  /\ PublishedAreStored
  /\ PublishedOnce
  /\ \A c \in Scopes : ScopeInv(c)

(* A scope that has no instance yet has not seen an exception either.      *)
NothingRaisedYet ==
  \A c \in Scopes : pc[c] \in {"idle", "loading"} => raised[c] = "none"

-----------------------------------------------------------------------------
(* Conflicts *)

(* While no provider fails, a scope that has not had its append answered   *)
(* finds no event of its own behind the version it loaded or committed.    *)
NoOwnEventsAhead(c) ==
  pc[c] \in {"idle", "loading", "ready", "appending"} =>
    \A i \in agg[c].lcv + 2 .. Len(stream) : stream[i].by # c

ConflictInv ==
  /\ HistoryInv
  /\ NothingRaisedYet
  /\ inflight = {}
  /\ \A c \in Scopes : NoOwnEventsAhead(c)
  /\ ConflictMeansForeignWrite
=============================================================================
