---------------------------- MODULE AggregateRoot ----------------------------
(***************************************************************************)
(* One instance of an aggregate and the tasks that apply events to it      *)
(* (AggregateRoot.cs, EventExtensions.cs).                                 *)
(*                                                                         *)
(* A domain method makes an event from the Id and the CurrentVersion it    *)
(* reads without a lock and then applies it: under _loadLock the event is  *)
(* checked, its handler is invoked, the version is incremented and the     *)
(* event is recorded.  _applyLock is only ever asked for by the holder of  *)
(* _loadLock, so that the one variable lock stands for both.               *)
(*                                                                         *)
(* A handler is a void method, a method that returns a Task which is       *)
(* awaited, or an async method, whose task is of a class derived from Task *)
(* and is therefore not awaited.  What handlers do to the state of the     *)
(* aggregate is represented by the sequence of the events that did it.     *)
(*                                                                         *)
(* Repository fills an instance before anyone else sees it, so loads are   *)
(* part of Init.  A save takes no part in the locks: it may come to its    *)
(* MarkChangesAsCommitted between any two steps of a call.  What it has    *)
(* stored before is in Repository.tla.                                     *)
(***************************************************************************)
EXTENDS Integers, SequencesExt

CONSTANTS
  Tasks,          \* the tasks that call domain methods of the instance
  HandlerKinds,   \* which handlers the aggregate has
  LoadedVersions, \* versions at which the instance may have been loaded
  MaxVersion,     \* bound: no event is made at this version
  NoId, LoadedId, None

ASSUME AggregateRootAssumption ==
  /\ HandlerKinds \subseteq {"void", "task", "async", "nested"}
  /\ LoadedVersions \subseteq Nat
  /\ MaxVersion \in Nat
  /\ NoId \notin Tasks \cup {LoadedId} /\ None \notin Tasks

VARIABLES
  id, cv, lcv,   \* Id, CurrentVersion, LastCommittedVersion
  uncommitted,   \* _uncommittedChanges
  committed,     \* the events of this instance that saves have taken from it
  handled,       \* the events whose handlers have changed the state, in order
  spoiled,       \* a handler has changed the state and then thrown, or was
                 \* let go before its end
  detached,      \* the events whose async handlers have yet to run to their end
  early,         \* did the last save commit a version whose event was still to
                 \* be recorded?
  lock,          \* the task that holds _loadLock, or None
  pc, event,     \* where each task is, and the event it has made
  result         \* how the last call of ApplyEvent of each task ended

state == <<id, cv, lcv, uncommitted, committed, handled, spoiled, detached, early>>
vars  == <<state, lock, pc, event, result>>

(* A creation event names a new aggregate: here, one for each task.        *)
Ids      == {NoId, LoadedId} \cup Tasks
Versions == {-1} \cup Nat
Event    == [by : Tasks, id : Ids, target : Versions]
NoEvent  == [by |-> None, id |-> NoId, target |-> -1]

Init ==
  /\ \/ id = NoId /\ cv = -1
     \/ id = LoadedId /\ cv \in LoadedVersions
  /\ lcv = cv
  /\ uncommitted = <<>> /\ committed = <<>>
  /\ handled = <<>> /\ spoiled = FALSE /\ detached = {} /\ early = FALSE
  /\ lock = None
  /\ pc = [t \in Tasks |-> "idle"]
  /\ event = [t \in Tasks |-> NoEvent]
  /\ result = [t \in Tasks |-> "none"]

-----------------------------------------------------------------------------
(* A domain method: new SomeEvent(Id, CurrentVersion, ...), ApplyEvent.    *)

ReadId(t) ==
  /\ pc[t] = "idle" /\ cv < MaxVersion
  /\ event' = [event EXCEPT ![t] = [by |-> t, id |-> id, target |-> -1]]
  /\ pc' = [pc EXCEPT ![t] = "reading"]
  /\ UNCHANGED <<state, lock, result>>

(* Mutant: the version before the current one. *)
ReadPreviousVersion(t) ==
  /\ pc[t] = "reading"
  /\ event' = [event EXCEPT ![t] = IF @.id = NoId THEN [@ EXCEPT !.id = t]
                                   ELSE [@ EXCEPT !.target = cv - 1]]
  /\ pc' = [pc EXCEPT ![t] = "waiting"]
  /\ UNCHANGED <<state, lock, result>>

(* A method that creates the aggregate asks for no version and brings an   *)
(* identifier of its own.                                                  *)
ReadVersion(t) ==
  /\ pc[t] = "reading"
  /\ event' = [event EXCEPT ![t] = IF @.id = NoId THEN [@ EXCEPT !.id = t]
                                   ELSE [@ EXCEPT !.target = cv]]
  /\ pc' = [pc EXCEPT ![t] = "waiting"]
  /\ UNCHANGED <<state, lock, result>>

(* Mutant: ApplyEventAsync without its lock. *)
TakeNoLock(t) ==
  /\ pc[t] = "waiting"
  /\ lock' = t
  /\ pc' = [pc EXCEPT ![t] = "entered"]
  /\ UNCHANGED <<state, event, result>>

TakeLock(t) ==
  /\ pc[t] = "waiting" /\ lock = None
  /\ lock' = t
  /\ pc' = [pc EXCEPT ![t] = "entered"]
  /\ UNCHANGED <<state, event, result>>

(* The call returns or throws; finally releases the locks either way.      *)
Return(t, how) ==
  /\ lock' = None
  /\ pc' = [pc EXCEPT ![t] = "idle"]
  /\ result' = [result EXCEPT ![t] = how]
  /\ UNCHANGED event

(* Mutants: the version alone decides, and any version will do. *)
TargetsVersion(e) == cv = e.target
TargetsAggregate(e) == cv = -1 \/ id = e.id

CanApply(e) == (cv = -1 \/ id = e.id) /\ cv = e.target

(* Mutant: a refusal that keeps the lock. *)
RefuseHoldingLock(t) ==
  /\ pc[t] = "entered" /\ ~ CanApply(event[t])
  /\ pc' = [pc EXCEPT ![t] = "idle"]
  /\ result' = [result EXCEPT ![t] = "mismatch"]
  /\ UNCHANGED <<state, lock, event>>

Refuse(t) ==
  /\ pc[t] = "entered" /\ ~ CanApply(event[t])
  /\ Return(t, "mismatch")
  /\ UNCHANGED state

(* The first event gives the instance its Id, before the handler is run.   *)
Admit(t) ==
  /\ pc[t] = "entered" /\ CanApply(event[t])
  /\ id' = IF cv = -1 THEN event[t].id ELSE id
  /\ pc' = [pc EXCEPT ![t] = "handling"]
  /\ UNCHANGED <<cv, lcv, uncommitted, committed, handled, spoiled, detached,
                 early, lock, event, result>>

(* The handler has returned; as far as DoApplyAsync can tell, all is well. *)
Handled(t) ==
  /\ pc[t] = "handling"
  /\ cv' = cv + 1
  /\ pc' = [pc EXCEPT ![t] = "recording"]
  /\ UNCHANGED <<id, lcv, uncommitted, committed, early, lock, event, result>>

HandlerReturns(t) ==
  /\ HandlerKinds # {"nested"}
  /\ Handled(t)
  /\ handled' = Append(handled, event[t])
  /\ UNCHANGED <<spoiled, detached>>

(* The task of an async handler that has not finished is let go, and the   *)
(* exception of one that has thrown with it.                               *)
AsyncHandlerIsLetGo(t) ==
  /\ "async" \in HandlerKinds
  /\ Handled(t)
  /\ detached' \in {detached, detached \cup {event[t]}}
  /\ spoiled' = TRUE
  /\ UNCHANGED handled

(* Later, without a lock: the handler changes the state, or throws.        *)
AsyncHandlerEnds ==
  \E e \in detached :
    /\ detached' = detached \ {e}
    /\ handled' \in {handled, Append(handled, e)}
    /\ UNCHANGED <<id, cv, lcv, uncommitted, committed, spoiled, early, lock, pc,
                   event, result>>

(* Mutant: the event is recorded before its handler is run. *)
HandlerThrowsRecorded(t) ==
  /\ HandlerKinds \cap {"void", "task"} # {}
  /\ pc[t] = "handling"
  /\ spoiled' \in {spoiled, TRUE}
  /\ uncommitted' = Append(uncommitted, event[t])
  /\ Return(t, "threw")
  /\ UNCHANGED <<id, cv, lcv, committed, handled, detached, early>>

(* A handler whose exception is seen.  It may have changed the state.      *)
HandlerThrows(t) ==
  /\ HandlerKinds \cap {"void", "task"} # {}
  /\ pc[t] = "handling"
  /\ spoiled' \in {spoiled, TRUE}
  /\ Return(t, "threw")
  /\ UNCHANGED <<id, cv, lcv, uncommitted, committed, handled, detached, early>>

(* A handler that applies an event itself waits for the lock it is under.  *)
HandlerNests(t) ==
  /\ "nested" \in HandlerKinds
  /\ pc[t] = "handling"
  /\ pc' = [pc EXCEPT ![t] = "stuck"]
  /\ UNCHANGED <<state, lock, event, result>>

Record(t) ==
  /\ pc[t] = "recording"
  /\ uncommitted' = Append(uncommitted, event[t])
  /\ Return(t, "applied")
  /\ UNCHANGED <<id, cv, lcv, committed, handled, spoiled, detached, early>>

(* A save that has stored the changes marks whatever version the instance  *)
(* has by now, although the event that made it may still have to be added. *)
MarkChangesAsCommitted ==
  /\ uncommitted # <<>>
  /\ committed' = committed \o uncommitted
  /\ uncommitted' = <<>>
  /\ lcv' = cv
  /\ early' = (\E t \in Tasks : pc[t] = "recording")
  /\ UNCHANGED <<id, cv, handled, spoiled, detached, lock, pc, event, result>>

Apply(t) ==
  \/ ReadVersion(t) \/ Refuse(t) \/ Admit(t) \/ HandlerReturns(t)
  \/ AsyncHandlerIsLetGo(t) \/ HandlerThrows(t) \/ HandlerNests(t) \/ Record(t)

Next ==
  \/ MarkChangesAsCommitted \/ AsyncHandlerEnds
  \/ \E t \in Tasks : ReadId(t) \/ TakeLock(t) \/ Apply(t)

Spec == Init /\ [][Next]_vars

(* A task that has begun a call goes on, and SemaphoreSlim wakes those who *)
(* wait for it one after the other: nobody is passed over for ever.        *)
FairSpec ==
  Spec /\ \A t \in Tasks : WF_vars(Apply(t)) /\ SF_vars(TakeLock(t))

-----------------------------------------------------------------------------
(* Properties *)

(* The shape of the state of an AggregateRoot and of its callers.          *)
TypeOK ==
  /\ id \in Ids /\ cv \in Versions /\ lcv \in Versions
  /\ uncommitted \in Seq(Event) /\ committed \in Seq(Event)
  /\ handled \in Seq(Event)
  /\ spoiled \in BOOLEAN /\ early \in BOOLEAN
  /\ detached \subseteq Event
  /\ lock \in Tasks \cup {None}
  /\ pc \in [Tasks -> {"idle", "reading", "waiting", "entered", "handling",
                       "recording", "stuck"}]
  /\ event \in [Tasks -> Event \cup {NoEvent}]
  /\ result \in [Tasks -> {"none", "mismatch", "threw", "applied"}]

(* Between calls the uncommitted changes are one event for each version    *)
(* since the last commit, in order and of this very aggregate, although    *)
(* events are made from an Id and a version that are read one after the    *)
(* other and without a lock (CanApply, DoApplyAsync).  LastCommittedVersion *)
(* may be one ahead of that, if a save ended between the increment of the  *)
(* version and the adding of its event, and no more than one.              *)
ChangesLeadToVersion ==
  lock = None =>
    LET stored == IF early THEN lcv - 1 ELSE lcv
    IN /\ cv = stored + Len(uncommitted)
       /\ \A i \in DOMAIN uncommitted :
            uncommitted[i].target = stored + i - 1 /\ uncommitted[i].id = id

(* A caller can trust the way its call ended: an event is recorded when    *)
(* ApplyEvent returns and is not when it throws, whoever else has applied  *)
(* events or saved the instance since.                                     *)
ResultIsTrue ==
  \A t \in Tasks : pc[t] = "idle" =>
    LET recorded == event[t] \in ToSet(committed \o uncommitted)
    IN /\ result[t] = "applied" => recorded
       /\ result[t] \in {"mismatch", "threw"} => ~ recorded

(* Until an async handler is let go or a handler throws half-way, the      *)
(* state is that of the recorded events applied in their order: replaying  *)
(* them gives it again (InvokeOnAggregateAsync under _applyLock).          *)
StateIsReplayable ==
  lock = None /\ ~ spoiled => handled = committed \o uncommitted

(* "All state changes to AggregateRoot must happen via the Apply method."  *)
StateChangesInApply ==
  [][handled' # handled => lock # None]_vars

(* A call of ApplyEvent ends, unless a handler has applied an event itself *)
(* and waits for the lock under which it was called.                       *)
CallsEnd ==
  \A t \in Tasks :
    pc[t] = "waiting" ~> (pc[t] = "idle" \/ \E u \in Tasks : pc[u] = "stuck")
=============================================================================
