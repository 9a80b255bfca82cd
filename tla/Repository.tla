----------------------------- MODULE Repository -----------------------------
(***************************************************************************)
(* Loading and saving one aggregate through Repository.cs.                 *)
(*                                                                         *)
(* Several scopes (a web request, a command, each with a repository and an *)
(* instance of the aggregate of its own) share an event store, a snapshot  *)
(* store and a publisher.  GetByIdAsync and CommitChanges are sequences of *)
(* awaited calls, so the steps of the scopes interleave; one action here   *)
(* is the code between two awaits together with the effect of the call it  *)
(* starts.  A scope holds one instance during its life and then is gone;   *)
(* loading again after a conflict is the work of another scope.            *)
(*                                                                         *)
(* All events of the model belong to one aggregate id: stores keep the     *)
(* streams of different ids apart.  The state that event handlers compute  *)
(* is represented by the sequence of events they were given, from which    *)
(* any such state is a function.                                           *)
(***************************************************************************)
EXTENDS SnapshotPolicy, SequencesExt

CONSTANTS
  Scopes,             \* the instances of the aggregate and their users
  SnapshotFrequency,  \* ISnapshotStorageProvider.SnapshotFrequency
  AppendChecksVersion,\* the event store compares versions when it appends
                      \* (Event Store does, the in-memory provider does not)
  AppliesDuringSave,  \* a scope may apply events while its save is awaited
  Faults,             \* the calls that may fail
  MaxVersion          \* bound: no event is applied at this version

ASSUME RepositoryAssumption ==
  /\ SnapshotFrequency \in Int
  /\ AppendChecksVersion \in BOOLEAN
  /\ AppliesDuringSave \in BOOLEAN
  /\ Faults \subseteq {"append", "publish", "snapshot", "crash"}
  /\ MaxVersion \in Nat

VARIABLES
  stream,      \* event store: the events of the aggregate, oldest first
  inflight,    \* appends whose caller gave up waiting and that may still land
  snapshot,    \* snapshot store: the latest snapshot, or NoSnapshot
  published,   \* the events given to the publisher, in order
  pc,          \* where each scope is
  agg,         \* the instance of the aggregate of each scope
  found,       \* the snapshot a load has read (a local of GetByIdAsync)
  batch,       \* changesToCommit of a save in progress
  sent,        \* how many of them PublishEventsAsync has published
  raised       \* the exception that ended the last call of the scope

stores == <<stream, inflight, snapshot, published>>
locals == <<found, batch, sent>>
vars   == <<stores, pc, agg, locals, raised>>

NoStream   == -1
Versions   == Nat \cup {NoStream}
Event      == [by : Scopes, target : Versions]
Snapshot   == [version : Versions, applied : Seq(Event)]
NoSnapshot == [version |-> NoStream, applied |-> <<>>]

(* CurrentVersion, LastCommittedVersion, the state and the uncommitted     *)
(* changes of an AggregateRoot.                                            *)
Aggregate  == [cv : Versions, lcv : Versions,
               applied : Seq(Event), uncommitted : Seq(Event)]
NewInstance == [cv |-> NoStream, lcv |-> NoStream,
                applied |-> <<>>, uncommitted |-> <<>>]

Conflicts  == {"AggregateCreationException", "ConcurrencyException",
               "WrongExpectedVersionException"}
Exceptions == Conflicts \cup {"AggregateNotFoundException",
               "AggregateStateMismatchException", "ProviderException"}

Saving == {"appending", "publishing", "marking"}

Init ==
  /\ stream = <<>>
  /\ inflight = {}
  /\ snapshot = NoSnapshot
  /\ published = <<>>
  /\ pc = [c \in Scopes |-> "idle"]
  /\ agg = [c \in Scopes |-> NewInstance]
  /\ found = [c \in Scopes |-> NoSnapshot]
  /\ batch = [c \in Scopes |-> <<>>]
  /\ sent = [c \in Scopes |-> 0]
  /\ raised = [c \in Scopes |-> "none"]

-----------------------------------------------------------------------------
(* Obtaining an instance *)

(* The application news up an aggregate to create it in the store. *)
Create(c) ==
  /\ pc[c] = "idle"
  /\ pc' = [pc EXCEPT ![c] = "ready"]
  /\ UNCHANGED <<stores, agg, locals, raised>>

(* GetByIdAsync up to the answer of the snapshot store. *)
ReadSnapshot(c) ==
  /\ pc[c] = "idle"
  /\ found' = [found EXCEPT ![c] = snapshot]
  /\ pc' = [pc EXCEPT ![c] = "loading"]
  /\ UNCHANGED <<stores, agg, batch, sent, raised>>

(* Mutant: the event of the snapshot's own version is read again. *)
EventsFrom(s) ==
  SubSeq(stream, IF s.version < 0 THEN 1 ELSE s.version + 1, Len(stream))

(* The events GetByIdAsync asks the store for: those after the snapshot it *)
(* found, or all of them.                                                  *)
EventsAfter(s) == SubSeq(stream, s.version + 2, Len(stream))

(* AggregateRoot.CanApply for each event of a history in turn: it targets  *)
(* the version the instance has by then.                                   *)
CanReplay(version, events) ==
  \A i \in DOMAIN events : events[i].target = version + i - 1

NothingStored(c) == found[c] = NoSnapshot /\ EventsAfter(found[c]) = <<>>

(* The rest of GetByIdAsync: read the events and, when every one of them   *)
(* can be applied, hand out an instance without uncommitted changes.       *)
ReadEvents(c) ==
  LET events  == EventsAfter(found[c])
      version == found[c].version + Len(events)
  IN /\ pc[c] = "loading"
     /\ ~ NothingStored(c)
     /\ CanReplay(found[c].version, events)
     /\ agg' = [agg EXCEPT ![c] = [cv |-> version, lcv |-> version,
                                   applied |-> found[c].applied \o events,
                                   uncommitted |-> <<>>]]
     /\ pc' = [pc EXCEPT ![c] = "ready"]
     /\ found' = [found EXCEPT ![c] = NoSnapshot]
     /\ UNCHANGED <<stores, batch, sent, raised>>

(* GetByIdAsync throws: there is nothing to load, or the history does not  *)
(* replay.  The scope has no instance and ends.                            *)
LoadFails(c) ==
  /\ pc[c] = "loading"
  /\ \/ /\ NothingStored(c)
        /\ raised' = [raised EXCEPT ![c] = "AggregateNotFoundException"]
     \/ /\ ~ NothingStored(c)
        /\ ~ CanReplay(found[c].version, EventsAfter(found[c]))
        /\ raised' = [raised EXCEPT ![c] = "AggregateStateMismatchException"]
  /\ pc' = [pc EXCEPT ![c] = "gone"]
  /\ found' = [found EXCEPT ![c] = NoSnapshot]
  /\ UNCHANGED <<stores, agg, batch, sent>>

-----------------------------------------------------------------------------
(* Changing the instance *)

(* A domain method applies a new event, made for the current version.  The *)
(* locks of AggregateRoot do not know of a save in progress.               *)
ApplyEvent(c) ==
  LET event == [by |-> c, target |-> agg[c].cv]
  IN /\ pc[c] = "ready" \/ (AppliesDuringSave /\ pc[c] \in Saving)
     /\ agg[c].cv < MaxVersion
     /\ agg' = [agg EXCEPT ![c].cv = @ + 1,
                           ![c].applied = Append(@, event),
                           ![c].uncommitted = Append(@, event)]
     /\ UNCHANGED <<stores, pc, locals, raised>>

-----------------------------------------------------------------------------
(* Saving the instance: SaveAsync and CommitChanges *)

(* CommitChanges ends with an exception: its locals are lost and the       *)
(* instance keeps its uncommitted changes and LastCommittedVersion.        *)
Throw(c, exception) ==
  /\ raised' = [raised EXCEPT ![c] = exception]
  /\ pc' = [pc EXCEPT ![c] = "ready"]
  /\ batch' = [batch EXCEPT ![c] = <<>>]
  /\ sent' = [sent EXCEPT ![c] = 0]
  /\ UNCHANGED <<agg, found>>

(* Mutant: the version an event targets is taken for the one it produces. *)
ModifiedUnlessTargeted(c) ==
  stream # <<>> /\ agg[c].lcv # NoStream /\ Last(stream).target # agg[c].lcv

(* What the last stored event says of the version this instance was loaded *)
(* at or last committed.  No event at all raises no objection.             *)
AlreadyExists(c) ==
  stream # <<>> /\ agg[c].lcv = NoStream
ModifiedExternally(c) ==
  stream # <<>> /\ agg[c].lcv # NoStream /\ Last(stream).target + 1 # agg[c].lcv

BeginsSave(c) == pc[c] = "ready" /\ agg[c].uncommitted # <<>>

(* GetLastEventAsync answers and the version is as expected: the changes   *)
(* are copied and sent to the event store.                                 *)
PassCheck(c) ==
  /\ BeginsSave(c)
  /\ ~ AlreadyExists(c)
  /\ ~ ModifiedExternally(c)
  /\ batch' = [batch EXCEPT ![c] = agg[c].uncommitted]
  /\ pc' = [pc EXCEPT ![c] = "appending"]
  /\ UNCHANGED <<stores, agg, found, sent, raised>>

FailCheck(c) ==
  /\ BeginsSave(c)
  /\ \/ AlreadyExists(c) /\ Throw(c, "AggregateCreationException")
     \/ ModifiedExternally(c) /\ Throw(c, "ConcurrencyException")
  /\ UNCHANGED stores

(* Mutant: ExpectedVersion.Any. *)
AcceptsAnyVersion(events) == TRUE

(* Mutant: a write at a place that is taken counts as a repeated one. *)
HoldsSomething(events) == Len(stream) > Head(events).target + 1

(* The event store.  Event Store compares the version the first event of a *)
(* batch targets with that of the stream, and answers a batch that it      *)
(* already holds at that very place as if it had just written it (events   *)
(* are identified by their ids).  The in-memory provider appends.          *)
Accepts(events) ==
  AppendChecksVersion => Head(events).target = Len(stream) - 1
Holds(events) ==
  /\ AppendChecksVersion
  /\ IsPrefix(events, SubSeq(stream, Head(events).target + 2, Len(stream)))

(* The append call returns. *)
AppendEvents(c) ==
  /\ pc[c] = "appending"
  /\ Accepts(batch[c]) \/ Holds(batch[c])
  /\ stream' = IF Accepts(batch[c]) THEN stream \o batch[c] ELSE stream
  /\ pc' = [pc EXCEPT ![c] = "publishing"]
  /\ UNCHANGED <<inflight, snapshot, published, agg, locals, raised>>

RejectEvents(c) ==
  /\ pc[c] = "appending"
  /\ ~ Accepts(batch[c]) /\ ~ Holds(batch[c])
  /\ Throw(c, "WrongExpectedVersionException")
  /\ UNCHANGED stores

(* The append call throws although the request may be on its way. *)
AppendTimesOut(c) ==
  /\ "append" \in Faults
  /\ pc[c] = "appending"
  /\ inflight' = inflight \cup {batch[c]}
  /\ Throw(c, "ProviderException")
  /\ UNCHANGED <<stream, snapshot, published>>

(* Nobody waits for the outcome any more.  A request that the store does   *)
(* not accept, or that never reaches it, changes nothing.                  *)
LateAppend ==
  /\ \E events \in inflight :
       /\ Accepts(events)
       /\ stream' = stream \o events
       /\ inflight' = inflight \ {events}
  /\ UNCHANGED <<snapshot, published, pc, agg, locals, raised>>

(* One iteration of PublishEventsAsync. *)
PublishNext(c) ==
  /\ pc[c] = "publishing"
  /\ sent[c] < Len(batch[c])
  /\ published' = Append(published, batch[c][sent[c] + 1])
  /\ sent' = [sent EXCEPT ![c] = @ + 1]
  /\ UNCHANGED <<stream, inflight, snapshot, pc, agg, found, batch, raised>>

(* PublishAsync throws, before or after the subscribers had the event. *)
PublishFails(c) ==
  /\ "publish" \in Faults
  /\ pc[c] = "publishing"
  /\ sent[c] < Len(batch[c])
  /\ published' \in {published, Append(published, batch[c][sent[c] + 1])}
  /\ Throw(c, "ProviderException")
  /\ UNCHANGED <<stream, inflight, snapshot>>

SnapshotIsDue(c) ==
  ShouldSnapshot(agg[c].cv, Len(batch[c]), SnapshotFrequency)

(* Mutants: a snapshot that forgets the state, and one that carries the    *)
(* version that is committed already.                                      *)
TakeEmptySnapshot(c) == [version |-> agg[c].cv]
TakeCommittedSnapshot(c) == [version |-> agg[c].lcv, applied |-> agg[c].applied]

(* The snapshot that TakeSnapshot makes of the instance as it is now. *)
TakeSnapshot(c) == [version |-> agg[c].cv, applied |-> agg[c].applied]

(* Mutant: PublishEventsAsync is not awaited. *)
StartedPublishing(c) == pc[c] = "publishing"

AllPublished(c) == pc[c] = "publishing" /\ sent[c] = Len(batch[c])

(* SaveSnapshotAsync: the snapshot replaces the one the store holds.       *)
SaveSnapshot(c) ==
  /\ AllPublished(c)
  /\ snapshot' = IF SnapshotIsDue(c) THEN TakeSnapshot(c) ELSE snapshot
  /\ pc' = [pc EXCEPT ![c] = "marking"]
  /\ UNCHANGED <<stream, inflight, published, agg, locals, raised>>

(* The snapshot store throws, before or after it has written. *)
SnapshotFails(c) ==
  /\ "snapshot" \in Faults
  /\ AllPublished(c)
  /\ SnapshotIsDue(c)
  /\ snapshot' \in {snapshot, TakeSnapshot(c)}
  /\ Throw(c, "ProviderException")
  /\ UNCHANGED <<stream, inflight, published>>

(* Mutant: the uncommitted changes are not cleared. *)
MarkVersionOnly(c) ==
  /\ pc[c] = "marking"
  /\ agg' = [agg EXCEPT ![c].lcv = agg[c].cv]
  /\ pc' = [pc EXCEPT ![c] = "ready"]
  /\ batch' = [batch EXCEPT ![c] = <<>>]
  /\ sent' = [sent EXCEPT ![c] = 0]
  /\ raised' = [raised EXCEPT ![c] = "none"]
  /\ UNCHANGED <<stores, found>>

(* MarkChangesAsCommitted, after which SaveAsync returns. *)
MarkChangesAsCommitted(c) ==
  /\ pc[c] = "marking"
  /\ agg' = [agg EXCEPT ![c].lcv = agg[c].cv, ![c].uncommitted = <<>>]
  /\ pc' = [pc EXCEPT ![c] = "ready"]
  /\ batch' = [batch EXCEPT ![c] = <<>>]
  /\ sent' = [sent EXCEPT ![c] = 0]
  /\ raised' = [raised EXCEPT ![c] = "none"]
  /\ UNCHANGED <<stores, found>>

-----------------------------------------------------------------------------

(* The scope is disposed of between two calls, or the process dies in the  *)
(* middle of one.  Nothing refers to the instance any more; the invariants *)
(* do, which is why agg keeps it.                                          *)
Leave(c) ==
  /\ \/ pc[c] = "ready"
     \/ "crash" \in Faults /\ pc[c] \in Saving \cup {"loading"}
  /\ pc' = [pc EXCEPT ![c] = "gone"]
  /\ found' = [found EXCEPT ![c] = NoSnapshot]
  /\ batch' = [batch EXCEPT ![c] = <<>>]
  /\ sent' = [sent EXCEPT ![c] = 0]
  /\ UNCHANGED <<stores, agg, raised>>

Load(c) == ReadSnapshot(c) \/ ReadEvents(c) \/ LoadFails(c)
Save(c) ==
  \/ PassCheck(c) \/ FailCheck(c)
  \/ AppendEvents(c) \/ RejectEvents(c)
  \/ PublishNext(c) \/ SaveSnapshot(c) \/ MarkChangesAsCommitted(c)
Fault(c) == AppendTimesOut(c) \/ PublishFails(c) \/ SnapshotFails(c)

Step(c) == Create(c) \/ Load(c) \/ ApplyEvent(c) \/ Save(c) \/ Fault(c) \/ Leave(c)

Next == LateAppend \/ \E c \in Scopes : Step(c)

Spec == Init /\ [][Next]_vars

(* The task of a load or a save that has begun is run to its end; nothing  *)
(* obliges the application to begin one, nor a provider to fail.           *)
CallsRun(c) == Load(c) \/ (pc[c] \in Saving /\ Save(c))
FairSpec == Spec /\ \A c \in Scopes : WF_vars(pc[c] # "idle" /\ CallsRun(c))

-----------------------------------------------------------------------------
(* Properties *)

(* The shape of the state: the stores, the instances and the calls in      *)
(* progress (Repository.cs, AggregateRoot.cs, the storage providers).      *)
TypeOK ==
  /\ stream \in Seq(Event)
  /\ inflight \subseteq Seq(Event)
  /\ snapshot \in Snapshot
  /\ published \in Seq(Event)
  /\ pc \in [Scopes -> Saving \cup {"idle", "loading", "ready", "gone"}]
  /\ agg \in [Scopes -> Aggregate]
  /\ found \in [Scopes -> Snapshot]
  /\ batch \in [Scopes -> Seq(Event)]
  /\ sent \in [Scopes -> Nat]
  /\ raised \in [Scopes -> Exceptions \cup {"none"}]

(* Every version of the aggregate is the work of one event: the check of   *)
(* CommitChanges and the store's own leave no gap and no duplicate.        *)
VersionsAreContiguous ==
  \A i \in DOMAIN stream : stream[i].target = i - 2

(* The snapshot a load may start from is the state at one version of the   *)
(* stream, though SaveSnapshotAsync takes it from the instance in memory   *)
(* and a slow save may put an old one in the place of a newer one.         *)
SnapshotIsPrefix ==
  /\ IsPrefix(snapshot.applied, stream)
  /\ Len(snapshot.applied) = snapshot.version + 1

(* GetByIdAsync reads the snapshot and then the events, with saves of      *)
(* other scopes in between: what it returns is the aggregate as the stream *)
(* was at the second read, it reports a missing aggregate only when there  *)
(* is none, and stored history always replays.                             *)
LoadsReplayTheStream ==
  [][ \A c \in Scopes : pc[c] = "loading" =>
        /\ pc'[c] = "ready" =>
             agg'[c].applied = stream /\ agg'[c].lcv = Len(stream) - 1
        /\ raised'[c] = "AggregateNotFoundException" => stream = <<>>
        /\ raised'[c] # "AggregateStateMismatchException" ]_vars

(* Optimistic concurrency: an event is stored only behind the very history *)
(* its instance had applied when the event was made, even when the append  *)
(* lands after its caller has given up on it (CommitChanges, SaveAsync of  *)
(* the event store provider).                                              *)
AuthorsSawHistory ==
  \A c \in Scopes : \A i \in DOMAIN stream :
    stream[i].by = c => IsPrefix(SubSeq(stream, 1, i), agg[c].applied)

(* A save that returns has stored and published every change that it then  *)
(* removes from the instance ("Finally mark them committed").              *)
NothingDropped ==
  [][ \A c \in Scopes : pc[c] = "marking" /\ pc'[c] = "ready" =>
        ToSet(agg[c].uncommitted) \subseteq ToSet(stream) \cap ToSet(published)
    ]_vars

(* The exceptions that say the aggregate was created or "modified          *)
(* externally" are true: another scope has stored an event that this       *)
(* instance has not seen (CommitChanges).                                  *)
ConflictMeansForeignWrite ==
  \A c \in Scopes : raised[c] \in Conflicts =>
    \E i \in agg[c].lcv + 2 .. Len(stream) : stream[i].by # c

(* The message of ConcurrencyException at its word: "has been modified      *)
(* externally".                                                            *)
ModifiedExternallyIsTrue ==
  \A c \in Scopes : raised[c] = "ConcurrencyException" =>
    \E i \in agg[c].lcv + 2 .. Len(stream) : stream[i].by # c

(* When providers answer, an event that was stored is published in the     *)
(* end: a conflict elsewhere, or the end of other scopes, never stops the  *)
(* save that owes it (PublishEventsAsync).  The events are told apart by   *)
(* their versions, of which the stream has one each.                       *)
StoredIsPublished ==
  \A v \in NoStream .. MaxVersion :
    (\E e \in ToSet(stream) : e.target = v)
      ~> (\E e \in ToSet(published) : e.target = v)

(* The repository implements the log of one aggregate: batches extend the  *)
(* stream in one piece and in version order, and PublishEventsAsync tells  *)
(* of stored events only and of none of them twice, retries included; in   *)
(* which order is left open, as two scopes may publish at once.            *)
Log == INSTANCE EventLog WITH log <- stream, delivered <- published
ImplementsEventLog == Log!Spec
=============================================================================
