----------------------------- MODULE ReadModel -----------------------------
(***************************************************************************)
(* The example of version 1.0: commands that nobody awaits, and the read   *)
(* model that its users take their versions from.                          *)
(*                                                                         *)
(* A page of NoteDtoController shows a note of the read model.  What the   *)
(* user makes of it goes to MyCommandBus as a command, with the version    *)
(* that was shown; the bus starts a task for it and reports success at     *)
(* once.  The task loads the note in a unit of work, compares its version  *)
(* with that of the last stored event, appends its changes to the          *)
(* in-memory provider that DependencyResolver registers, which compares    *)
(* nothing, and publishes them one by one to MyEventSubscriber.  That      *)
(* changes the object that the list of MyInMemoryReadModelStorage refers   *)
(* to, and then removes the object from the list and adds it again.        *)
(* Nothing is locked: the steps of the tasks interleave between any two    *)
(* accesses to the stream, the object or the list.  An exception is lost   *)
(* with its task.                                                          *)
(*                                                                         *)
(* There is one note, and one DependencyResolver with its storage.  The    *)
(* dump files serve the next process: of their writing the model has when  *)
(* it happens and that it may throw.  The loading of snapshots is left     *)
(* out; it is that of Repository.                                          *)
(***************************************************************************)
EXTENDS SequencesExt, Integers

CONSTANTS
  Users,     \* each sends one command
  Fields,    \* title, description, category
  Values

ASSUME ReadModelAssumption == Values # {} /\ IsFiniteSet(Fields)

VARIABLES
  stream,     \* the stored events; the i-th makes version i - 1 of the note
  raced,      \* were two tasks between their check and their append at once?
  unanswered, \* how many events were stored by appends that threw after it
  pc,         \* where each user and the task of its command are
  form,       \* the version on the page of each user (TargetVersion)
  loaded,     \* LastCommittedVersion of the instance of the task
  changes,    \* the uncommitted events of the task
  published,  \* how many of them the subscriber has been called with
  shown,      \* the NoteReadModel, an object shared by all who got it
  listed,     \* how many elements of _allNotes refer to it
  overlapped  \* has the subscriber been entered twice at once?

vars ==
  <<stream, raced, unanswered, pc, form, loaded, changes, published, shown, listed, overlapped>>

store     == <<stream, raced, unanswered>>
readModel == <<shown, listed, overlapped>>

NoNote == [version |-> -1]
Event  == [by : Users, sets : SUBSET Fields, to : [Fields -> Values],
           target : Nat \cup {-1}]
(* What a list has where two AddRange calls have spoiled each other.       *)
NullEvent == [target |-> -2]
Note   == [version : Nat, fields : [Fields -> Values]]

Blank  == [f \in Fields |-> CHOOSE v \in Values : TRUE]

(* The places of a task between two accesses to the list or to the object. *)
Handling == {"get", "version", "field", "any", "single", "remove", "add", "save"}
Places   == Handling \cup {"idle", "form", "sent", "commit", "append", "publish", "done"}

Init ==
  /\ stream = <<>>
  /\ raced = FALSE
  /\ unanswered = 0
  /\ pc = [u \in Users |-> "idle"]
  /\ form = [u \in Users |-> -1]
  /\ loaded = [u \in Users |-> -1]
  /\ changes = [u \in Users |-> <<>>]
  /\ published = [u \in Users |-> 0]
  /\ shown = NoNote
  /\ listed = 0
  /\ overlapped = FALSE

-----------------------------------------------------------------------------
(* The pages *)

(* Edit shows the note when it is in the list. *)
OpenForm(u) ==
  /\ pc[u] = "idle"
  /\ listed > 0
  /\ form' = [form EXCEPT ![u] = shown.version]
  /\ pc' = [pc EXCEPT ![u] = "form"]
  /\ UNCHANGED <<store, loaded, changes, published, readModel>>

(* The user changes the form and sends it: ExecuteAsync starts the task.   *)
(* What the user has typed is chosen when the task first looks at it.      *)
SendEdit(u) ==
  /\ pc[u] = "form"
  /\ pc' = [pc EXCEPT ![u] = "sent"]
  /\ UNCHANGED <<store, form, loaded, changes, published, readModel>>

(* The page Create, used once for the note. *)
SendCreate(u) ==
  /\ pc[u] = "idle"
  /\ \A w \in Users : pc[w] = "idle"
  /\ pc' = [pc EXCEPT ![u] = "sent"]
  /\ UNCHANGED <<store, form, loaded, changes, published, readModel>>

-----------------------------------------------------------------------------
(* The task of a command: NoteCommandHandler, UnitOfWork and Repository *)

Stored(note, event) ==
  [f \in Fields |-> IF f \in event.sets THEN event.to[f] ELSE note[f]]

(* The fields of the note as its events make them. *)
Aggregate ==
  FoldLeft(Stored, Blank, stream)

(* Every event has the target version that ApplyEvent asks for: without,   *)
(* LoadsFromHistory throws, and with it every load of the note.            *)
Replays == \A i \in DOMAIN stream : stream[i].target = i - 2

(* One event for every field that differs, in the order of the calls. *)
ChangesOf(u, typed) ==
  LET differing == {f \in Fields : Aggregate[f] # typed[f]}
  IN [i \in 1 .. Cardinality(differing) |->
       [by |-> u, sets |-> {SetToSeq(differing)[i]}, to |-> typed,
        target |-> Len(stream) + i - 2]]

(* A new note, from the constructor. *)
NewNote(u, typed) ==
  /\ pc[u] = "sent"
  /\ form[u] = -1
  /\ changes' = [changes EXCEPT ![u] =
                   <<[by |-> u, sets |-> Fields, to |-> typed, target |-> -1]>>]
  /\ pc' = [pc EXCEPT ![u] = "commit"]
  /\ UNCHANGED <<store, form, loaded, published, readModel>>

(* Mutant: GetAsync is called without the expected version. *)
AnyVersionLoaded(u) == form[u] # -1

(* The version that GetAsync expects of the note it has loaded. *)
ExpectedIsLoaded(u) == form[u] # -1 /\ form[u] = Len(stream) - 1

(* GetAsync and the methods of Note; without changes SaveAsync does        *)
(* nothing.                                                                *)
LoadAndChange(u, typed) ==
  /\ pc[u] = "sent"
  /\ Replays /\ ExpectedIsLoaded(u)
  /\ loaded' = [loaded EXCEPT ![u] = Len(stream) - 1]
  /\ changes' = [changes EXCEPT ![u] = ChangesOf(u, typed)]
  /\ pc' = [pc EXCEPT ![u] = IF ChangesOf(u, typed) = <<>> THEN "done" ELSE "commit"]
  /\ UNCHANGED <<store, form, published, readModel>>

(* GetAsync throws: the events do not replay, they are enumerated while    *)
(* another task appends, or the version is not the expected one.           *)
LoadFails(u) ==
  /\ pc[u] = "sent"
  /\ form[u] # -1
  /\ ~ Replays \/ ~ ExpectedIsLoaded(u) \/ \E w \in Users : pc[w] = "append"
  /\ pc' = [pc EXCEPT ![u] = "done"]
  /\ UNCHANGED <<store, form, loaded, changes, published, readModel>>

(* Mutant: CommitChanges compares nothing. *)
AnyLast(u) == TRUE

(* What CommitChanges asks of the answer of GetLastEventAsync, if there is *)
(* one.                                                                    *)
LastIsExpected(u) ==
  stream # <<>> /\ Last(stream) # NullEvent => Last(stream).target + 1 = loaded[u]

(* CommitChanges up to the call of CommitChangesAsync. *)
CheckLast(u) ==
  /\ pc[u] = "commit"
  /\ LastIsExpected(u)
  /\ pc' = [pc EXCEPT ![u] = "append"]
  /\ raced' = (raced \/ \E w \in Users : pc[w] = "append")
  /\ UNCHANGED <<stream, unanswered, form, loaded, changes, published, readModel>>

(* ConcurrencyException. *)
CheckFails(u) ==
  /\ pc[u] = "commit"
  /\ ~ LastIsExpected(u)
  /\ pc' = [pc EXCEPT ![u] = "done"]
  /\ UNCHANGED <<store, form, loaded, changes, published, readModel>>

(* What two AddRange calls at once can make of a list: some of the places  *)
(* that both take have the events of the one and some those of the other.  *)
Mixed(u, own, n) ==
  [i \in 1 .. n |-> IF i \in own THEN changes[u][i - (loaded[u] + 1)]
                    ELSE IF i <= Len(stream) THEN stream[i] ELSE NullEvent]

(* The count of the list is what either of them has written, or both.      *)
Torn(u) ==
  LET first == loaded[u] + 2
      last  == loaded[u] + 1 + Len(changes[u])
  IN {Mixed(u, own, n) : own \in SUBSET (first .. last),
                         n \in {Len(stream), last, Len(stream) + Len(changes[u])}}

(* What AddRange makes of the list.  Only another that has been at it      *)
(* since the check can spoil it.                                           *)
Appended(u) ==
  {stream \o changes[u]} \cup IF Len(stream) = loaded[u] + 1 THEN {} ELSE Torn(u)

(* CommitChangesAsync compares nothing, and writes the dump file in the    *)
(* end.  When that throws the events stay stored, but CommitChanges does   *)
(* not come to publish them.                                               *)
AppendChanges(u) ==
  /\ pc[u] = "append"
  /\ stream' \in Appended(u)
  /\ \/ /\ pc' = [pc EXCEPT ![u] = "publish"]
        /\ UNCHANGED unanswered
     \/ /\ pc' = [pc EXCEPT ![u] = "done"]
        /\ unanswered' = unanswered + Len(changes[u])
  /\ UNCHANGED <<raced, form, loaded, changes, published, readModel>>

-----------------------------------------------------------------------------
(* Publishing: MyEventPublisher calls MyEventSubscriber *)

Current(u) == changes[u][published[u]]
(* TargetVersion + 1 of the event the subscriber is handling. *)
MadeVersion(u) == Current(u).target + 1
OthersHandle(u) == \E w \in Users \ {u} : pc[w] \in Handling

(* InvokeSubscriber; the task of the handler is not looked at again. *)
PublishNext(u) ==
  /\ pc[u] = "publish"
  /\ IF published[u] < Len(changes[u])
       THEN /\ published' = [published EXCEPT ![u] = @ + 1]
            /\ pc' = [pc EXCEPT ![u] = "get"]
            /\ overlapped' = (overlapped \/ OthersHandle(u))
       ELSE /\ pc' = [pc EXCEPT ![u] = "done"]
            /\ UNCHANGED <<published, overlapped>>
  /\ UNCHANGED <<store, form, loaded, changes, shown, listed>>

(* The step of a handler at one place, which leads to another. *)
Moves(u, here, there) ==
  /\ pc[u] = here
  /\ pc' = [pc EXCEPT ![u] = there]
  /\ UNCHANGED <<store, form, loaded, changes, published, overlapped>>

(* NoteCreatedEvent makes a new object, which nobody else knows yet. *)
MakeNote(u) ==
  /\ form[u] = -1
  /\ Moves(u, "get", "any")
  /\ shown' = [version |-> 0, fields |-> Current(u).to]
  /\ UNCHANGED listed

(* GetNote finds the object. *)
GetNote(u) ==
  /\ form[u] # -1
  /\ listed > 0
  /\ Moves(u, "get", "version")
  /\ UNCHANGED <<shown, listed>>

(* Mutant: the version the event was made for. *)
SetTargetVersion(u) ==
  /\ Moves(u, "version", "field")
  /\ shown' = [shown EXCEPT !.version = MadeVersion(u) - 1]
  /\ UNCHANGED listed

(* note.CurrentVersion = @event.TargetVersion + 1 *)
SetVersion(u) ==
  /\ Moves(u, "version", "field")
  /\ shown' = [shown EXCEPT !.version = MadeVersion(u)]
  /\ UNCHANGED listed

(* note.Title = @event.Title, or one of the other fields. *)
SetField(u) ==
  /\ Moves(u, "field", "any")
  /\ shown' = [shown EXCEPT !.fields = Stored(@, Current(u))]
  /\ UNCHANGED listed

(* AddOrUpdate asks whether there is Any element of this id. *)
FindAny(u) ==
  /\ Moves(u, "any", IF listed > 0 THEN "single" ELSE "add")
  /\ UNCHANGED <<shown, listed>>

FindSingle(u) ==
  /\ listed = 1
  /\ Moves(u, "single", "remove")
  /\ UNCHANGED <<shown, listed>>

(* Mutant: an element that has gone is removed again. *)
RemoveUnseen(u) ==
  /\ Moves(u, "remove", "add")
  /\ listed' = listed - 1
  /\ UNCHANGED shown

(* Mutant: the note is added once more and the old element stays. *)
RemoveNothing(u) ==
  /\ Moves(u, "remove", "add")
  /\ UNCHANGED <<shown, listed>>

(* Remove does nothing when the element has gone. *)
RemoveNote(u) ==
  /\ Moves(u, "remove", "add")
  /\ listed' = IF listed > 0 THEN listed - 1 ELSE 0
  /\ UNCHANGED shown

AddNote(u) ==
  /\ Moves(u, "add", "save")
  /\ listed' = listed + 1
  /\ UNCHANGED shown

(* SaveListToFile writes the list or throws, and nobody sees which. *)
SaveList(u) ==
  /\ Moves(u, "save", "publish")
  /\ UNCHANGED <<shown, listed>>

(* The handler throws and the rest of it is lost: GetNote found nothing,   *)
(* there is no Single element, or the list was modified by another task    *)
(* while it was enumerated.                                                *)
HandlerThrows(u) ==
  /\ \/ form[u] # -1 /\ listed = 0 /\ Moves(u, "get", "publish")
     \/ listed # 1 /\ Moves(u, "single", "publish")
     \/ /\ \E w \in Users \ {u} : pc[w] \in {"remove", "add"}
        /\ \/ form[u] # -1 /\ Moves(u, "get", "publish")
           \/ Moves(u, "any", "publish")
           \/ Moves(u, "single", "publish")
  /\ UNCHANGED <<shown, listed>>

Handle(u) ==
  \/ MakeNote(u) \/ GetNote(u) \/ SetVersion(u) \/ SetField(u)
  \/ FindAny(u) \/ FindSingle(u) \/ RemoveNote(u) \/ AddNote(u)
  \/ SaveList(u) \/ HandlerThrows(u)

Next ==
  \E u \in Users :
    \/ OpenForm(u) \/ SendEdit(u) \/ SendCreate(u)
    \/ \E typed \in [Fields -> Values] : NewNote(u, typed) \/ LoadAndChange(u, typed)
    \/ LoadFails(u) \/ CheckLast(u) \/ CheckFails(u) \/ AppendChanges(u) \/ PublishNext(u) \/ Handle(u)

Spec == Init /\ [][Next]_vars

-----------------------------------------------------------------------------

(* The shape of the stream, the pages, the tasks and the read model. *)
TypeOK ==
  /\ stream \in Seq(Event \cup {NullEvent})
  /\ raced \in BOOLEAN
  /\ unanswered \in Nat
  /\ pc \in [Users -> Places]
  /\ form \in [Users -> Nat \cup {-1}]
  /\ loaded \in [Users -> Nat \cup {-1}]
  /\ changes \in [Users -> Seq(Event)]
  /\ published \in [Users -> Nat]
  /\ \A u \in Users : published[u] <= Len(changes[u])
  /\ shown \in Note \cup {NoNote}
  /\ listed \in Nat
  /\ overlapped \in BOOLEAN

(* Optimistic concurrency from page to store: of all edits that were made  *)
(* on one version at most one is stored, and right behind that version,    *)
(* however late the tasks run, as long as no two have been between check   *)
(* and append at once (UnitOfWork.GetAsync, Repository.CommitChanges).     *)
EditsFollowTheirPage ==
  ~ raced =>
    \A u \in Users :
      LET mine == {i \in DOMAIN stream : stream[i].by = u}
      IN mine # {} => mine = form[u] + 2 .. form[u] + 1 + Len(changes[u])

(* So long the note can be loaded: its events follow one another (what     *)
(* AggregateRoot.LoadsFromHistory throws without).                         *)
ReplaysUnlessRaced == ~ raced => Replays

(* An append that throws after it has stored blocks the note: pages go on  *)
(* showing the version before, and nothing that is made of it can be       *)
(* stored, however often users try (MyEventSubscriber, CommitChanges).     *)
BlockedOnceUnanswered ==
  [][unanswered > 0 /\ ~ raced => stream' = stream]_vars

(* The version that pages show never goes back, although the tasks publish *)
(* on their own: who edits the newest version has seen the last event of   *)
(* the command before (MyEventSubscriber.HandleEventAsync).                *)
VersionNeverGoesBack ==
  [][~ raced => shown'.version >= shown.version]_vars

(* No event is lost without a trace: until two are handled at once every   *)
(* handler that has begun comes to the writing of the file at its end, and *)
(* throws none of the exceptions that nobody sees, whatever was stored     *)
(* (MyEventPublisher.PublishAsync, MyInMemoryReadModelStorage.AddOrUpdate).*)
HandlersEndUnlessOverlapped ==
  [][~ overlapped =>
       \A u \in Users :
         pc[u] \in Handling /\ pc'[u] \notin Handling => pc[u] = "save"]_vars

(* When all tasks have ended, pages show the note as it is stored, but for *)
(* the events of an append that threw after it had stored them, and show   *)
(* it once: else only when two events were handled at once, or two tasks   *)
(* have raced to the stream, can an event be lost, an old value be put     *)
(* over a newer one or the note be listed twice (CommitChanges,            *)
(* MyInMemoryReadModelStorage.AddOrUpdate).                                *)
CaughtUpUnlessOverlapped ==
  ~ overlapped /\ ~ raced /\ (\A u \in Users : pc[u] \in {"idle", "form", "done"}) =>
    LET answered == SubSeq(stream, 1, Len(stream) - unanswered)
    IN IF answered = <<>>
         THEN listed = 0
         ELSE /\ listed = 1
              /\ shown = [version |-> Len(answered) - 1,
                          fields |-> FoldLeft(Stored, Blank, answered)]
=============================================================================
