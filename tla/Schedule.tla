------------------------------ MODULE Schedule ------------------------------
(***************************************************************************)
(* The Schedule aggregate of the samples: its events, its handlers and the *)
(* snapshot it makes of itself, saved at the rhythm of SnapshotCadence.    *)
(*                                                                         *)
(* A scope obtains the schedule with GetByIdAsync, calls some of its       *)
(* methods and saves; the next call is made by the same session, which     *)
(* still has the instance, or by a scope that loads it.  Saves follow one  *)
(* another here (Repository has those that overlap), so that a load and    *)
(* the save behind it are one step.  A schedule is the function from the   *)
(* ids of its todos to what is known of them; its name never changes.      *)
(***************************************************************************)
EXTENDS SnapshotCadence, SequencesExt

CONSTANTS
  TodoIds,
  UnknownId,  \* an id that no todo has
  Texts

ASSUME ScheduleAssumption == UnknownId \notin TodoIds

VARIABLES
  item,           \* Todos of the instance the last session has
  stored,         \* Todos of the stored snapshot
  replayed,       \* what replaying every stored event gives
  loaded,         \* what GetByIdAsync gives: the snapshot and the events since
  completedSince  \* the todos that an event behind the snapshot completes

scheduleVars == <<vars, item, stored, replayed, loaded, completedSince>>

Todo     == [text : Texts, isCompleted : BOOLEAN]
TodoList == UNION {[ids -> Todo] : ids \in SUBSET TodoIds}
NoTodos  == [t \in {} |-> "none"]

Event ==
  [type : {"ScheduleCreated"}]
    \cup [type : {"TodoCreated", "TodoUpdated"}, id : TodoIds, text : Texts]
    \cup [type : {"TodoCompleted"}, id : TodoIds \cup {UnknownId}]

Batches == UNION {[1 .. n -> Event] : n \in 1 .. MaxBatch}

(* The handlers: OnScheduleCreated, OnTodoCreated, OnTodoUpdated and       *)
(* OnTodoCompletedAsync, whose exception is lost when there is no such     *)
(* todo: the task of an async method is not awaited (EventExtensions).     *)
Handle(todos, e) ==
  CASE e.type = "ScheduleCreated" -> NoTodos
    [] e.type = "TodoCreated" ->
         [t \in DOMAIN todos \cup {e.id} |->
           IF t = e.id THEN [text |-> e.text, isCompleted |-> FALSE] ELSE todos[t]]
    [] e.type = "TodoUpdated"   -> [todos EXCEPT ![e.id].text = e.text]
    [] e.type = "TodoCompleted" ->
         [t \in DOMAIN todos |->
           [todos[t] EXCEPT !.isCompleted = @ \/ t = e.id]]

Replay(todos, events) == FoldLeft(Handle, todos, events)

(* The todos that exist when the i-th of some events is made. *)
KnownBefore(todos, events, i) ==
  DOMAIN todos \cup
    {events[j].id : j \in {k \in 1 .. i - 1 : events[k].type = "TodoCreated"}}

(* The method calls that end without an exception: the constructor comes   *)
(* first and once, AddTodo makes an id of its own, UpdateTodo insists on a *)
(* Single todo, and CompleteTodoAsync ends well for any id.                *)
CanBeMade(todos, events) ==
  \A i \in DOMAIN events :
    /\ events[i].type = "ScheduleCreated" <=> version + i = 0
    /\ events[i].type = "TodoCreated" =>
         events[i].id \notin KnownBefore(todos, events, i)
    /\ events[i].type = "TodoUpdated" =>
         events[i].id \in KnownBefore(todos, events, i)
    /\ events[i].type = "TodoCompleted" =>
         events[i].id \in KnownBefore(todos, events, i) \cup {UnknownId}

(* Mutants: a snapshot of the open todos only, and one that forgets which  *)
(* are done and is restored as if all were.                                *)
TakeOpenTodos(todos) ==
  [t \in {u \in DOMAIN todos : ~ todos[u].isCompleted} |-> todos[t]]
ApplyAsCompleted(todos) ==
  [t \in DOMAIN todos |-> [todos[t] EXCEPT !.isCompleted = TRUE]]

(* Schedule.TakeSnapshot copies a todo whole. *)
TakeSnapshot(todos) == todos

(* Schedule.ApplySnapshot makes new todos, of which only the id and the    *)
(* text are those of the snapshot.                                         *)
ApplySnapshot(todos) ==
  [t \in DOMAIN todos |-> [todos[t] EXCEPT !.isCompleted = FALSE]]

ScheduleInit ==
  /\ Init
  /\ item = NoTodos
  /\ stored = NoTodos
  /\ replayed = NoTodos
  /\ loaded = NoTodos
  /\ completedSince = {}

CompletedBy(events) ==
  {t \in TodoIds : \E i \in DOMAIN events :
                     events[i].type = "TodoCompleted" /\ events[i].id = t}

(* A handler: methods called on an instance, and SaveAsync. *)
HandleCommand(instance, events) ==
  LET due == ShouldSnapshot(version + Len(events), Len(events), frequency)
  IN /\ CanBeMade(instance, events)
     /\ Save(Len(events))
     /\ item' = Replay(instance, events)
     /\ replayed' = Replay(replayed, events)
     /\ stored' = IF due THEN TakeSnapshot(item') ELSE stored
     /\ loaded' = IF due THEN ApplySnapshot(stored') ELSE Replay(loaded, events)
     /\ completedSince' = IF due THEN {} ELSE completedSince \cup CompletedBy(events)

ScheduleNext ==
  \E instance \in {item, loaded} : \E events \in Batches :
    HandleCommand(instance, events)

ScheduleSpec == ScheduleInit /\ [][ScheduleNext]_scheduleVars

-----------------------------------------------------------------------------

(* A load gives the todos and the texts that all events together make,     *)
(* however many snapshots of reloaded instances came before, and so does   *)
(* an instance that a session has kept (TakeSnapshot, ApplySnapshot).      *)
LoadsKeepTodosAndTexts ==
  \A todos \in {item, loaded} :
    /\ DOMAIN todos = DOMAIN replayed
    /\ \A t \in DOMAIN todos : todos[t].text = replayed[t].text

(* What ApplySnapshot forgets is bounded: a load never shows a todo as     *)
(* completed that is not, and shows those that were completed behind the   *)
(* snapshot it starts from.  Completions before it may be lost, and stay   *)
(* lost when the reloaded instance makes the next snapshot.                *)
OnlyOldCompletionsAreLost ==
  \A t \in DOMAIN replayed :
    /\ loaded[t].isCompleted => replayed[t].isCompleted
    /\ t \in completedSince => loaded[t].isCompleted
=============================================================================
