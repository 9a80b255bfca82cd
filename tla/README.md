# NEventLite in TLA+

NEventLite is a library for event-sourced aggregates in C#. An application loads an aggregate from the
events stored for it (or from a snapshot and the events after it), calls domain methods that make and apply
new events, and saves it: the new events are appended to the aggregate's stream, given to a publisher, and
now and then a snapshot is stored. This directory models version 2 of the library (`src/src`); of what is left
of version 1 (`src/legacy`) it models the example, whose read model and command bus have no successor.

Paths below are those of the repository; `Repository.cs` and so on stand for
`src/src/NEventLite/Repository/Repository.cs`.

## 1. The system

| component | state it keeps | operations | what is hard about it | what makes it correct |
|---|---|---|---|---|
| **Repository** (`Repository.cs`, `EventOnlyRepository.cs`) | none of its own; it moves data between an instance, the event store, the snapshot store and the publisher | `GetByIdAsync` (snapshot, then events after it), `SaveAsync` / `CommitChanges` (read last event, compare versions, append, publish one by one, snapshot, mark committed) | every `await` is a point at which other scopes run; any of the calls may throw, answer late or be cut off by the end of the process; nothing is retried or rolled back | versions have no gap and no duplicate, an event follows the history it was made on, a load gives a prefix of the stream, nothing is published that is not stored or twice, no change is lost by a save that returns |
| **Snapshot cadence** (`SaveSnapshotAsync`) | the version of the last snapshot | an arithmetic condition | versions count from 0, batches step over multiples, frequencies of zero and less | replays stay bounded, a snapshot exactly at the saves that reach a multiple |
| **AggregateRoot** (`AggregateRoot.cs`, `EventExtensions.cs`) | `Id`, `CurrentVersion`, `LastCommittedVersion`, uncommitted changes, two semaphores | `ApplyEvent`, `LoadsFromHistoryAsync`, `HydrateFromSnapshot`, `MarkChangesAsCommitted` | events are made from fields read without a lock; handlers throw half-way, are async, or apply events themselves | uncommitted changes lead from the committed to the current version; a caller can trust the way its call ended; replay gives the same state |
| **Session**, **MasterSession** (`Session.cs`, `MasterSession.cs`) | the tracked instances, one semaphore | `GetByIdAsync`, `Attach`, `Detach`, `DetachAll`, `SaveAsync`, `Dispose` | repository calls are awaited under the lock; a save stops at the first failure; `Dispose` takes no lock; identifiers change after `Attach` | one instance for an id; a save that returns is complete; calls end |
| **In-memory providers** | a dictionary of streams, one of snapshots, a dump file each | read, last event, append, snapshot read and write | no comparison of versions, no lock, whole file rewritten at each save, one object per scope on the same file in the console sample | the stream of a single user survives restarts; concurrent users need a store that compares versions |
| **Event Store providers** | a lazy connection; the streams are in Event Store | paged read, last event, append with the expected version, snapshots appended unconditionally to a stream of their own | lost answers, idempotent appends, paging, a connection task cached for good, `Dispose` while it is being made | append only behind the expected version; reads without gaps; no connection left open |
| **Reflection and DI** (`ReflectionHelper.cs`, `AssemblyExtensions.cs`, the extension packages) | caches of functions of declared types | discovery of handlers and aggregates, registrations | none that depends on time | - |
| **Samples** (`Schedule.cs`, handlers, console programs) | a list of to-dos | create, add, update, complete; snapshot and its restoration | an async handler; a field that is stored in the snapshot and not restored; a handler whose exception nobody sees | a load gives the to-dos that the events make; what a snapshot forgets is bounded |
| **Legacy v1.0 framework** | as above, and a unit of work | the same commit protocol; `GetAsync` with an expected version, `CommitAsync` | versions that come from elsewhere | of the edits of one version one is stored (which its in-memory provider, comparing nothing, leaves to the check before the append) |
| **Legacy v1.0 example** (command bus, handlers, publisher, read model, the MVC pages) | a list of notes, a dump file | commands whose tasks nobody awaits, events that change the read model, pages that show it | an unlocked list, objects shared by all who got them, exceptions that are lost, appends that throw after they have stored | versions never go back; the pages show what is stored, in the end |
| **Vendored scripts** of the MVC example | - | - | third-party JavaScript | - |

How they interact: a handler (a command, a web request) has a scope with a session of its own. The session
calls the repository under its lock; the repository calls the two providers and the publisher, one await
after the other; it fills and reads the `AggregateRoot` instance, to which the application applies events
directly. The only things scopes share are the two stores and the publisher. README.md:116 asks for
sessions to be "scoped (per request in a web application)"; nothing prevents sharing one, so that the locks of the
session and of the instance are modelled with several tasks.

## 2. The modules

| module | models | built on |
|---|---|---|
| `EventLog` | the abstract specification: one append-only log whose events are delivered at most once, in any order | - |
| `SnapshotPolicy` | the condition of `SaveSnapshotAsync`, and the statement of what it computes | - |
| `SnapshotCadence` | a sequence of saves of one aggregate, under every frequency and batch size | `SnapshotPolicy` |
| `Schedule` | the Schedule aggregate of the samples and its handlers, saved at that rhythm | refines `SnapshotCadence` |
| `Repository` | loading and saving one aggregate by several scopes over shared stores | `SnapshotPolicy`, refines `EventLog` |
| `RepositoryInvariant` | the inductive invariants of `Repository` | `Repository` |
| `AggregateRoot` | tasks that apply events to one instance | - |
| `Session` | tasks that use one `Session` or `MasterSession` | - |
| `InMemoryStorage` | scopes that follow one another on the dump files of the in-memory providers | `SnapshotPolicy` |
| `EventStoreProvider` | tasks of one scope that read from Event Store, and the connection they share | - |
| `ReadModel` | the tasks of the commands of the legacy example, and the read model | - |
| `MC*` | instances of these for TLC | |
| `FoldLemmas` | induction on numbers and what it says of `FoldLeft` | - |
| `SnapshotProofs`, `RepositoryProofs`, `AggregateRootProofs`, `SessionProofs`, `InMemoryStorageProofs`, `EventStoreProofs`, `ReadModelProofs` | theorems and their proofs | the modules above |

Each operator whose comment begins with "Mutant" is a variant with a mistake in it, which stands before the
operator it is a variant of and is used by nothing; putting it in that operator's place makes TLC report one
of the properties, which is how the properties have been tested.

### Repository

One action is the code between two awaits together with the effect of the call it starts.

| action | code |
|---|---|
| `Create` | the application's `new TAggregate()` |
| `ReadSnapshot`, `ReadEvents`, `LoadFails` | `GetByIdAsync`: the snapshot (`found` is the local variable), then the events after its version; `CanReplay` is `CanApply` for each event in turn, `NothingStored` the branch that throws `AggregateNotFoundException` |
| `ApplyEvent` | a domain method, as one step (its inside is `AggregateRoot`) |
| `PassCheck`, `FailCheck` | `CommitChanges` up to the append: the version of the last event against `LastCommittedVersion`; the changes are copied into `batch` (`changesToCommit`) |
| `AppendEvents`, `RejectEvents`, `AppendTimesOut`, `LateAppend` | the provider's `SaveAsync`: Event Store compares versions and answers an append that it already holds with success (`Holds`); with `AppendChecksVersion = FALSE` it is the in-memory provider, which appends anything. An append whose answer is lost stays in `inflight` and may land whenever the store accepts it |
| `PublishNext`, `PublishFails` | one iteration of `PublishEventsAsync` |
| `SaveSnapshot`, `SnapshotFails` | `SaveSnapshotAsync`; the snapshot is taken of the instance as it is then |
| `MarkChangesAsCommitted` | the last statement of `CommitChanges` |
| `Leave` | the scope is disposed of, or, with the fault "crash", the process dies |

The data are abstract: an event is its author and its target version, and the state that handlers compute is the
sequence of events they were given, of which any such state is a function. One aggregate id is modelled, as
stores keep ids apart. Timestamps and serialization are left out. `EventOnlyRepository` is the case of a
`SnapshotFrequency` above `MaxVersion`.

`AppliesDuringSave` says whether a scope may apply events while its save is awaited. Nothing in the code
prevents it (the locks of `AggregateRoot` and of the session are different ones); it is a parameter because
what holds depends on it.

### AggregateRoot

A domain method reads `Id` (`ReadId`) and `CurrentVersion` (`ReadVersion`) without a lock, as the methods of
`Schedule.cs` do, and applies the event: `TakeLock`, then `Refuse` or `Admit` (which assigns `Id`), the
handler, `Record`. `_applyLock` is only taken under `_loadLock`, so that one variable `lock` is enough. A
handler returns (`HandlerReturns`), throws with or without having changed the state (`HandlerThrows`), is an
async method whose task `EventExtensions.cs:20` does not await, because the type of the task of an async
method is derived from `Task` (`AsyncHandlerIsLetGo`, `AsyncHandlerEnds`), or applies an event itself and waits for
ever (`HandlerNests`). Loads are part of `Init`, because the repository fills an instance before anyone sees it.
A save takes no part in those locks: `MarkChangesAsCommitted` may come between any two steps of a call, also between
the increment of `CurrentVersion` (`AggregateRoot.cs:159`) and the adding of the event (`:119`). The ghost `early`
says whether the last one did; `LastCommittedVersion` is then one ahead of what saves have taken, until the next.

### Schedule

`HandleCommand` is one of the command handlers: a load (or the instance the session still has), calls of
`AddTodo`, `UpdateTodo`, `CompleteTodoAsync` or the constructor, and a save, which takes a snapshot when
`SnapshotPolicy` says so. A schedule is a function from the ids of its to-dos to text and `isCompleted`; the name is left
out, as nothing changes it. `TakeSnapshot` copies a to-do whole, `ApplySnapshot` restores its id and text only.
`UpdateTodo` of an id that no to-do has throws and leaves no event; `CompleteTodoAsync` of such an id (`UnknownId`)
ends well and leaves one, because the exception stays in the task of an async method, which is not awaited.
`replayed` (what all events make) and `completedSince` are ghosts. Saves follow one another here; those that
overlap are in `Repository`, where the state is the sequence of the events that made it.

### Session

`master` chooses between the two classes. A `Session` finds items by the Id they have now, a `MasterSession`
by the key they were attached under; a `Session` removes by reference, a `MasterSession` by key; the
dictionary of a `MasterSession` puts new items anywhere. `Attach`, `Detach` and `DetachAll` are one action
each, since nothing is awaited under their lock. `Dispose` may come at any await: a `Session` clears the list
under the enumerator, which throws; the semaphore, once disposed of, cannot be released, which turns the result of the
call in progress into an exception and leaves those who wait where they are. `Repository.SaveAsync` is the
single step `SaveItem`, or `SaveItemFails` before or after the events are stored.

### InMemoryStorage

Every scope has providers of its own (`DependencyInjection.cs:55-58`), each with a dictionary (`items`) that is read
from its file when it is constructed (`Construct`) and written back whole at each save. A save is `AddEvents` (the check of
`CommitChanges` and the change of the dictionary), `BeginWrite` and `EndWrite` (`File.WriteAllText` empties the file
before it fills it), `AddSnapshot` with a write of its own where one is due, `MarkChangesAsCommitted`. `SaveFails`
is an exception of the file system or of the publisher, after which the scope goes on; `Leave` is the end of
a scope or of the process. Either may leave a file empty or cut short (`Tear`). An empty file is an empty store to the next scope
(`null ?? new Dictionary`), a file that is cut short an exception of every constructor (`ConstructFails`). `MaxLong` stands for
`long.MaxValue`, so that the addition in `GetEventsAsync` overflows where it does in the code. The ghosts `stored` and
`unwritten` say what has been written to the file of events and what a failed write has left in a dictionary
only. Scopes do not overlap: with scopes that do, the last one to write erases what the others have written, as anyone
can see from the code, and nothing claims otherwise.

### EventStoreProvider

`GetEvents` is a call up to `ConnectAsync`, `Connect` the evaluation of `_lazyConnection.Value`: the first task that asks runs
the factory (`StartFactory`), which makes the connection and starts to connect, and only when the factory has
returned its task does `Lazy` have a value (`PublishValue`); the others wait for that (`GetValue`). `Resume` is the end of the await,
`ReadPage` an iteration of the loop of `ReadEvents`; `next` and `events` are its `nextSliceStart` and `streamEvents`.
An event is its number. `Slice`, `EndsStream` and `ReadRefused` are what the client of Event Store does: a slice says
whether it reaches the last event there is then, and the client refuses a count that is not positive.
`BeginDispose` and `EndDispose` are `Dispose`, which blocks between the two, and which does nothing while `IsValueCreated`
is false; nothing keeps calls from being made after it. The ghost `late` says that `Dispose` came while the factory ran, or
that the connection was first asked for after `Dispose`. A faulted connection stays faulted, as the lazy task keeps its exception. Other reads (last event, snapshot) and the append are single calls to the
store and part of `Repository`.

### ReadModel

A user opens the page of a note (`OpenForm`) and sends what was typed with the version shown (`SendEdit`), or creates the
note (`SendCreate`); `MyCommandBus` starts a task and reports success. The task loads (`LoadAndChange`, or
`LoadFails` when the version is not the expected one or the events do not replay), compares that version with the last stored event
(`CheckLast`, `CheckFails`), appends (`AppendChanges`) and publishes (`PublishNext`). The provider is the in-memory one that
`DependencyResolver.cs:55` registers (Event Store is commented out): it compares nothing, so that two tasks that have both
passed the check store both, and two `AddRange` at once may mix their events or leave empty places (`Appended`, `NullEvent`). At its end it
rewrites its file, which may throw: the events are stored then and nobody publishes them (`unanswered` counts them). Each
`DependencyResolver` has one provider and one read model, which all its tasks share. A handler of
`MyEventSubscriber` is a step for each access to what tasks share: `GetNote`, `SetVersion`, `SetField`, then
`FindAny`, `FindSingle`, `RemoveNote`, `AddNote` and `SaveList` (the dump file, whose writing may throw unseen) of `AddOrUpdate`. `shown` is the `NoteReadModel`, one object
that every task works on; `listed` counts the elements of the list that are it. `HandlerThrows` ends a handler
anywhere it may throw, an enumeration that meets a modified list included; the exception is lost.
`raced` (two tasks were between their check and their append at once) and `overlapped` (two handlers were at work at once) are
ghosts. There is one note and every user sends one command; values are two for each of two
fields. The console program of the example takes versions from the stored aggregate and not from the read model, so that
its commands may publish at once (a command is stored before it is published) and set the version in the
read model back; the pages cannot, which is what `VersionNeverGoesBack` says as long as no two tasks race to the stream.

## 3. The runs

| run | instance | what it shows |
|---|---|---|
| `repository_faults` | Event Store, 2 scopes, 4 versions, frequency 2, all faults | `VersionsAreContiguous`, `AuthorsSawHistory`, `NothingDropped`, `ImplementsEventLog` (and `TypeOK`) with appends that time out and land late, retries, failing publisher and snapshot store, crashes |
| `repository_three_scopes` | Event Store, 3 scopes, 3 versions, frequency 1, no faults | `SnapshotIsPrefix`, `LoadsReplayTheStream`, `ConflictMeansForeignWrite`: two savers leave snapshots in either order, a third loads between them; `StoredIsPublished`: every event that is stored is published in the end |
| `in_memory_race` (violation) | in-memory, 2 scopes | both pass the check at `Repository.cs:101` before either appends; a version gets two events |
| `apply_during_save` (violation) | 1 scope that applies while it saves | `MarkChangesAsCommitted` drops an event that was never stored |
| `retry_after_publish_failure` (violation) | 1 scope, failing publisher | the retry is told "modified externally", although nobody else wrote |
| `schedule` | 2 to-dos, 2 texts, frequencies -1 .. 4 and 7, batches up to 3, 16 versions | `ReplayIsBounded`, `SnapshotsMarkMultiples`: the rhythm of snapshots; `LoadsKeepTodosAndTexts`, `OnlyOldCompletionsAreLost`: what a load gives after any number of snapshots of reloaded instances, and that only completions before the newest snapshot may be missing |
| `aggregate_root` | 2 tasks, 3 versions, all kinds of handlers | `ChangesLeadToVersion`, `ResultIsTrue`, `StateIsReplayable`, `CallsEnd` |
| `async_handler` (violation) | 1 task, async handlers | the state changes outside `ApplyEvent` |
| `session` | 2 tasks, 2 aggregates, 2 instances, both kinds of session | `OneInstancePerId`, `SaveIsComplete`, `SavesInOrder`, `CallsEnd` |
| `in_memory_files` | 3 scopes, one after the other, 5 versions, frequency 2 | `SavesSurvive`, `LoadsGiveAllEvents`: what is on disk is one history, which writes that throw and processes that die do not damage, and the snapshots are no more than a cache of it |
| `event_store_reads` | 2 tasks, pages of 2, up to 4 events, counts 0, 3 and unbounded, starts below and inside the stream | `ReadIsRange`, `RefusedOnlyInside`, `ConnectionIsClosed`, `CallsEnd`: reads that others append to, a connection that fails, a scope that is disposed of while the connection is made, in the middle of a read or before a call |
| `read_model` | 3 users, 2 fields, 2 values | `EditsFollowTheirPage`, `ReplaysUnlessRaced`, `VersionNeverGoesBack`, `BlockedOnceUnanswered`: optimistic concurrency from the page to the stream and back, unless two tasks race between check and append; `CaughtUpUnlessOverlapped`, `HandlersEndUnlessOverlapped`: what the read model is worth when its handlers do not overlap |

**Bounds.** `MaxVersion` stops events from being applied and, with the number of scopes, tasks or instances, is the only
bound; nothing else is cut off. Two scopes are enough for every conflict (an author and a competitor); the
third is there for the loads that fall between two saves. Three or four versions allow a batch
of several events, a second save on a base that is not empty, a request in flight behind a newer one, and a
snapshot that is overtaken. In `session` two instances suffice to have two items of a list, or two instances
of one id. In `in_memory_files` three scopes allow a writer, one that dies and one that finds what is left;
five versions take two snapshots at frequency 2. In `event_store_reads` four events are two pages, and the
bound on them stands for a stream that stops growing while it is read. In `schedule` fifteen versions take four snapshots
at frequency 3 and two at 7; the snapshot of a reloaded instance is the case that matters. In `read_model` one user creates and two
compete on one version, or one edits what the other leaves. Without `~ overlapped` TLC finds `CaughtUpUnlessOverlapped` violated, and without
`~ raced` the other properties that have it, so that the cases are reached. Symmetry is used for scopes, users, to-dos and texts in runs without liveness.

**Fairness.** `Repository.FairSpec`, `Session.FairSpec` and `EventStoreProvider.FairSpec` say that a call that has begun goes on: the
task scheduler runs continuations whose await has completed, and providers answer (faults are off in
`repository_three_scopes`; in `session` an answer may be an exception). Nothing obliges an application to begin a call, to save, or to dispose. For tasks that
wait for a semaphore strong fairness is assumed: `SemaphoreSlim` serves its queue of async waiters in order,
so that a waiter is not passed over for ever.

**Deadlock.** Scopes end, `MaxVersion` is reached and a nested call is stuck; the systems may stop, and their
configurations turn deadlock checking off for that reason. `event_store_reads` checks it: a provider can always be called again.

## 4. What the violations say

- `MarkChangesAsCommitted` (`AggregateRoot.cs:52-59`) clears all uncommitted changes, not those that were saved:
  events applied between `Repository.cs:107` and `:125` are lost, and the instance believes itself at a version
  the stream does not have; a snapshot that is due at `:147` holds them too (`SnapshotIsPrefix` fails then). `ContiguityHolds` (below) is
  proved even so: the damage does not reach the stream.
- The in-memory event provider leaves the comparison of versions to `CommitChanges`, which decides on an
  old answer; scopes that share one provider can corrupt a stream, after which it does not load any more.
- A publisher that throws after the append leaves an instance that cannot be saved again and events that
  nobody publishes; the exception of the retry blames a writer that does not exist.
- The task of an async handler is not awaited (`EventExtensions.cs:20`): the handler of the sample
  `Schedule.OnTodoCompletedAsync` happens to do its work before its first await, a handler that does not
  changes the aggregate later and without its lock, and its exceptions are lost.

Smaller observations without a run of their own: after "every N events" (`Repository.cs:138`) means after N + 1 for the first
snapshot, as versions count from 0, so the bound of `ReplayIsBounded` is N and not N - 1;
`Schedule.ApplySnapshot` forgets which to-dos are done (`Schedule.cs:97`), and the next snapshot of a reloaded instance
makes that last; a save that ends while an event is being recorded leaves `LastCommittedVersion` one ahead, so that the
next save of that instance is refused as a conflict with nobody;
`Session.Detach` of a second instance of a tracked aggregate returns without detaching anything; and an empty dump file of
events, which a process leaves that dies while it writes, is taken for an empty store, so that a surviving
snapshot lets events be appended that no load finds; in the legacy example a handler of the read model that
overlaps another may lose its event for good, with success reported; in the same example two edits that pass the check of
`Repository.cs:78-87` (of version 1) before either appends are both stored, after which `LoadsFromHistory` throws and the note can
never be loaded again, and the version on the pages may go back; an append of it that throws after it has stored
(the dump file) is never published, so that every page goes on showing the version before and all later edits are refused
(`BlockedOnceUnanswered`); `Dispose` of the connection provider leaks a connection whose factory is running on another thread
(`Lazy.IsValueCreated` is false until it returns, `EventStoreStorageConnectionProvider.cs:34`), and one that a call makes after
`Dispose`; and a read of fewer events than the stream goes on to have is
refused by the client of Event Store (`EventStoreEventStorageProvider.cs:88`), which the library never notices, as
it always asks for all of them.

## 5. What is proved

The theorems hold for every number of scopes or tasks, every `MaxVersion`, every frequency, every set of faults
and every mix of handlers.
All are checked by TLAPS down to the last leaf.

- `SnapshotProofs`: `ConditionReachesMultiple` (for a positive frequency the condition of `SaveSnapshotAsync` holds
  exactly when one of the versions just reached is a positive multiple of it), from which `ReplayBoundHolds` and
  `SnapshotsMarkMultiplesHolds` follow by the invariant that no multiple lies between the last snapshot and the
  version; `TypeCorrect`. `ScheduleReplayIsBounded` carries the bound over to `Schedule`, whose handlers contain
  the saves of the cadence.
  `LoadsKeepTodosAndTextsHolds` and `OnlyOldCompletionsAreLostHolds` follow from `ScheduleInv`: the kept
  instance, the load and the replay of all events have the same to-dos and texts (`SameTodos`), a load completes nothing
  that the events do not (`NotAhead`) and everything that they complete behind the snapshot (`AllCompleted`), and nothing
  exists before the first save. That the latter is kept rests on what the methods of `Schedule` allow: a
  `ScheduleCreated`, which empties the list, is the first event or none (hence the second conjunct), and no id is
  created twice, as that would open a to-do again. Handlers keep the first two relations event by event
  (`HandleKeepsSame`, `HandleCompletes`), and induction makes that a fact of whole batches, of any length.
- `RepositoryProofs`: `TypeCorrect`, for both kinds of provider, and `ContiguityHolds`, under
  `AppendChecksVersion`. `VersionsAreContiguous` is not inductive: a batch on its way must be a run of
  versions, which needs the uncommitted changes of each instance to lead to its current version
  (`ContiguityInv`).
  Under `AppendChecksVersion` and `~ AppliesDuringSave`: `AuthorsSawHistoryHolds`,
  `NothingDroppedHolds`, `SnapshotIsPrefixHolds`, `LoadsReplayTheStreamHolds`. The invariant `HistoryInv` says
  that an instance is the part of the stream up to its committed version followed by its own uncommitted events;
  that what a scope has stored it has also applied; that a save in progress has stored its whole instance
  once it publishes; that requests in flight are made of events the instance applied, at a version not above its
  committed one; and that snapshots are prefixes, wherever they lie. Requests in flight are why contiguity is
  not enough: one may land long after its scope has gone on, and it can only land where nothing else is.
  `ConflictMeansForeignWriteHolds` needs also that no provider fails (`Faults \subseteq {"crash"}`), as
  `retry_after_publish_failure` shows: `ConflictInv` adds to `HistoryInv` that a scope whose append has not been answered
  finds no event of its own behind its committed version, so that an event found there is another's.
  `RepositoryImplementsEventLog`, under the assumptions of `HistoryInv`: appends are the steps `Commit`,
  `PublishNext` and a `PublishFails` that published are `Deliver`, everything else is a stutter. It says that the log is
  append-only and that an event is delivered only when stored and at most once; not in which order, as two scopes publish their batches
  concurrently. That no event is
  published twice needs `PublishedIsSent`: a scope has published below its committed version plus what it has
  sent of the batch.
- `AggregateRootProofs`, without an assumption on the handlers: `TypeCorrect` and `ChangesAreContiguous` from
  `ApplyInv` (whoever is between the check and the record holds the lock, so that the Id and the version the check
  compared are still those of the instance when the event is recorded, and the version is one ahead of
  the changes meanwhile, counted from `Taken`, which a save that ends early leaves one below `LastCommittedVersion`); `ResultsAreTrue` from `ResultInv` (recorded events are of versions below the current one,
  so that an event made of the current version is new, and a second creation event of one task is impossible
  once the instance has an Id); `StateReplays` from `ReplayInv` (the state is one event ahead of the record
  between the handler and the record, until something spoils it).
- `SessionProofs`, for both kinds of session: `TypeCorrect`, `OneInstancePerIdHolds`, `SaveIsCompleteHolds`,
  `SavesInOrderHolds` from `SessionInv`. Whoever is between `WaitAsync` and `finally` holds the lock (`LockInv`), so
  that an id that was not tracked when its load began is not tracked when it ends (`LoadInv`), and a save finds the
  list as it was when the enumeration began, with everything it has to store in it and what lies in front of
  it stored (`SaveInv`), unless `Dispose` has cleared the list of a `Session`, after which no call returns. Keys
  are those that items have or none (`KeysInv`): the two kinds of session track by different identities, and an
  instance may get its id after it was attached.
- `InMemoryStorageProofs`: `TypeCorrect`, `SavesSurviveHolds`, `LoadsGiveAllEventsHolds` from `StorageInv`. Scopes follow
  one another (`OneScope`); until a write of the events is torn, the dictionary of the scope at work is what is
  stored and what it has failed to write (`ScopeInv`), so that rewriting the file whole loses nothing, and the
  snapshots on disk and in memory start the events (`FileInv`), so that a load through one gives the same as a load
  through none.
- `ReadModelProofs`: `TypeCorrect` from `BaseInv`, which no race disturbs. `EditsFollowTheirPageHolds`, `ReplaysUnlessRacedHolds`,
  `VersionNeverGoesBackHolds` and `BlockedOnceUnansweredHolds` from `ReadModelInv`, which adds `RaceFreeInv` until two tasks race. A task
  commits what it made of the version on its page (`PlaceInv`, `AuthorInv`), so that what it stores is right behind that version
  (`StreamInv`); the check and the append are two steps, but nobody else appends between those of one task (`AppendInv`), so that the
  stream is still as it was checked. Of the version on the pages `VersionInv` says that at most one task is pending, that is,
  has stored events the subscriber has yet to be given the last of; that it has stored the newest event; and that
  what is shown is older meanwhile. So no page can have the newest version, and nothing can be stored, until that task has come to its
  last event: tasks that nobody awaits store and show their versions in turn, although their handlers overlap. When an append has
  thrown after storing, no task is pending and the newest version is never shown, which is why nothing is stored from then on.
  `HandlersEndUnlessOverlappedHolds` from `ListsInv`, whatever was stored: until two handlers overlap at most one task handles an event
  (`OneHandles`), and the note is in the list once, except from `Remove` to `Add` and before the first `Add` (`ListInv`), so that a handler
  that is alone finds what it looks for (`LoneDoesNotThrow`). `CaughtUpUnlessOverlappedHolds` from `CaughtUpInv`, which adds `ShownInv`: the
  version shown is that of the last event published, or the one before until the handler sets it (`FollowsOf`), and the
  fields shown are what the events up to that version make of them, short of one event between the two assignments of a
  handler. A stream may grow meanwhile, which changes nothing of its earlier fields (`FieldsOfMore`), and an event
  changes the fields as the fold does, because what is published is what was stored (`ContentInv`).
- `EventStoreProofs`: `TypeCorrect`, `ReadsAreRanges` and `RefusalsAreInside` from `ReadInv` (what a call has read is the range from
  its start to `next`, and as long as the loop goes on after a page the stream does too), by the lemma that
  ranges join; `ConnectionsAreClosed` from `ConnectionInv`: the factory runs once, and `Dispose` waits only for what
  it has made, so that what is left open is `late`. Nothing is assumed but that the page size is positive.

Both assumptions of `Repository` are needed: `in_memory_race` and `apply_during_save` are the counterexamples without them.

Two of the components are about what a list of events makes of a state, a `FoldLeft`. `FoldLemmas` has what their proofs
need of it. A number is the least outside a set or there is none (`NatLessThanWellFounded` and `WFMin` of
the library), so that a set that contains 0 and the successors of its elements contains all numbers: `Induction`,
which is about a set and needs no operator as a parameter. By it the recursive function that `FoldLeft` chooses exists
(`RecursionIsDefined`) and follows the chain of values that the elements make one after the other
(`IntervalsFollowChain`), of which there is one for every sequence (`ChainExists`, `ChainsAgree`). `HandleFold` and
`StoredFold` then say it of `Replay` and of the fields of a note. What is stated of every handler or every event
becomes a fact of every batch or stream by one more use of `Induction`.

Only model-checked: the liveness properties `StoredIsPublished` and `CallsEnd`, which rest on fairness and are outside the
reach of the prover. Every invariant that a passing run checks is a theorem.

## 6. What is not modelled

- Handler and aggregate discovery and the DI extensions: functions of declared types, evaluated once, whose caches hold
  equal values.
- JSON, stream names and event types of Event Store: pure functions on strings without state.
- The integration tests and console programs: they drive one scope at a time, the situation of `in_memory_files`
  and `schedule`.
- Scopes that overlap on the dump files of the in-memory providers: the last writer wins by the shape of the code, and
  nothing promises otherwise.
- Of version 1: units of work with several aggregates, its storage providers but for the stream of the in-memory one (predecessors
  of those of `src/src`), what its dump files hold and their loading, the logging decorator, and the snapshot of a note.
- The scripts of the legacy MVC example (jQuery, Bootstrap, Modernizr, Respond and their IntelliSense files). They are the
  only JavaScript in the repository, about twenty thousand lines of third-party code that NEventLite neither
  contains nor depends on; a model of them would say nothing of it. A measure that counts lines of JavaScript
  therefore finds nothing of this repository modelled. Of version 2, in C#, the components whose state
  changes, other than caches of equal values, have a module; of version 1 those named above are missing.

What could follow: the composition of `Session` with the awaits of `Repository`, which `Session` takes as one step.
