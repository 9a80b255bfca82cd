------------------------- MODULE AggregateRootProofs -------------------------
(***************************************************************************)
(* The safety properties of AggregateRoot, proved for any number of tasks, *)
(* any mix of handlers and any bound.                                      *)
(***************************************************************************)
EXTENDS AggregateRoot, TLAPS

Recorded == committed \o uncommitted

(* Where a task has _loadLock. *)
Holding == {"entered", "handling", "recording", "stuck"}

(* The lock has the holder that the tasks say it has. *)
HolderIsAlone == \A t \in Tasks : pc[t] \in Holding <=> lock = t

(* A task applies an event that it has made itself. *)
EventsAreOwn ==
  \A t \in Tasks :
    /\ event[t] \in Event => event[t].by = t
    /\ pc[t] # "idle" => event[t] \in Event

(* The version up to which saves have taken the events of the instance.    *)
Taken == IF early THEN lcv - 1 ELSE lcv

(* The version counts one event more while that event is being recorded.   *)
VersionCounts ==
  /\ (\A t \in Tasks : pc[t] # "recording") => cv = Taken + Len(uncommitted)
  /\ \A t \in Tasks : pc[t] = "recording" => cv = Taken + Len(uncommitted) + 1

ChangesAreInOrder ==
  \A i \in 1 .. Len(uncommitted) :
    uncommitted[i].target = Taken + i - 1 /\ uncommitted[i].id = id

(* An event whose handler has been called fits the instance: nothing may   *)
(* change the Id or the version until the call has ended.                  *)
AdmittedFits ==
  \A t \in Tasks :
    /\ pc[t] \in {"handling", "stuck", "recording"} => event[t].id = id
    /\ pc[t] \in {"handling", "stuck"} => event[t].target = cv
    /\ pc[t] = "recording" => event[t].target = cv - 1

ApplyInv ==
  /\ TypeOK
  /\ HolderIsAlone
  /\ EventsAreOwn
  /\ VersionCounts
  /\ ChangesAreInOrder
  /\ AdmittedFits

(* Recorded events are of earlier versions, and what a task is about to    *)
(* apply is none of them.                                                  *)
RecordedIsPast ==
  /\ \A e \in ToSet(Recorded) : e.target < cv
  /\ Recorded # <<>> => id # NoId

PendingIsNew ==
  \A t \in Tasks :
    /\ pc[t] \in Holding \cup {"waiting"} =>
         event[t].id # NoId /\ event[t] \notin ToSet(Recorded)
    /\ pc[t] = "reading" /\ event[t].id = NoId =>
         [by |-> t, id |-> t, target |-> -1] \notin ToSet(Recorded)
    /\ pc[t] = "reading" => event[t].target = -1

ResultInv ==
  /\ ApplyInv
  /\ RecordedIsPast
  /\ PendingIsNew
  /\ ResultIsTrue

(* The state is one event ahead of the record while that is being made.    *)
ReplayInv ==
  /\ ApplyInv
  /\ ~ spoiled =>
       /\ detached = {}
       /\ (\A t \in Tasks : pc[t] # "recording") => handled = Recorded
       /\ \A t \in Tasks : pc[t] = "recording" => handled = Append(Recorded, event[t])

-----------------------------------------------------------------------------
(* Type correctness *)

LEMMA EventTypes ==
  ASSUME NEW e \in Event
  PROVE  /\ e.by \in Tasks /\ e.id \in Ids
         /\ e.target \in Versions /\ e.target \in Int /\ e.target >= -1
  BY DEF Event, Versions

LEMMA InitIsTyped == Init => TypeOK
<1> SUFFICES ASSUME Init PROVE TypeOK
  OBVIOUS
<1>1. id \in Ids /\ cv \in Versions
  BY AggregateRootAssumption DEF Init, Ids, Versions
<1>2. /\ pc \in [Tasks -> {"idle"}] /\ result \in [Tasks -> {"none"}]
      /\ event \in [Tasks -> {NoEvent}]
  BY DEF Init
<1>3. /\ uncommitted \in Seq(Event) /\ committed \in Seq(Event) /\ handled \in Seq(Event)
      /\ lcv = cv /\ lock = None /\ spoiled = FALSE /\ detached = {} /\ early = FALSE
  BY DEF Init
<1> QED
  BY <1>1, <1>2, <1>3 DEF TypeOK

LEMMA ReadsAreTyped ==
  ASSUME TypeOK, NEW t \in Tasks, ReadId(t) \/ ReadVersion(t), EventsAreOwn
  PROVE  TypeOK'
<1>1. CASE ReadId(t)
  <2>1. [by |-> t, id |-> id, target |-> -1] \in Event
    BY DEF TypeOK, Event, Versions
  <2> QED
    BY <1>1, <2>1 DEF TypeOK, ReadId, state
<1>2. CASE ReadVersion(t)
  <2>1. event[t] \in Event /\ t \in Ids /\ cv \in Versions
    BY <1>2 DEF ReadVersion, TypeOK, EventsAreOwn, Ids
  <2>2. event'[t] \in Event
    BY <1>2, <2>1 DEF ReadVersion, TypeOK, Event
  <2>3. \A u \in Tasks \ {t} : event'[u] = event[u]
    BY <1>2 DEF ReadVersion, TypeOK
  <2>4. event' \in [Tasks -> Event \cup {NoEvent}]
    BY <1>2, <2>2, <2>3 DEF ReadVersion, TypeOK
  <2> QED
    BY <1>2, <2>4 DEF TypeOK, ReadVersion, state
<1> QED
  BY <1>1, <1>2

LEMMA StepsAreTyped ==
  ASSUME TypeOK, EventsAreOwn, [Next]_vars
  PROVE  TypeOK'
<1>1. ASSUME NEW t \in Tasks, ReadId(t) \/ TakeLock(t) \/ Apply(t)
      PROVE  TypeOK'
  <2>1. CASE ReadId(t) \/ ReadVersion(t)
    BY <2>1, ReadsAreTyped
  <2>2. CASE TakeLock(t)
    BY <2>2 DEF TakeLock, TypeOK, state
  <2>3. CASE Refuse(t)
    BY <2>3 DEF Refuse, Return, TypeOK, state
  <2>4. CASE Admit(t)
    <3>1. event[t] \in Event
      BY <2>4 DEF Admit, EventsAreOwn
    <3>2. event[t].id \in Ids
      BY <3>1, EventTypes
    <3> QED
      BY <2>4, <3>2 DEF Admit, TypeOK
  <2>5. CASE HandlerReturns(t) \/ AsyncHandlerIsLetGo(t)
    <3>1. event[t] \in Event
      BY <2>5 DEF HandlerReturns, AsyncHandlerIsLetGo, Handled, EventsAreOwn
    <3>2. cv + 1 \in Versions
      BY DEF TypeOK, Versions
    <3> QED
      <4>1. handled' \in Seq(Event)
        <5>1. handled \in Seq(Event)
          BY DEF TypeOK
        <5>2. Append(handled, event[t]) \in Seq(Event)
          BY <3>1, <5>1
        <5> QED
          BY <2>5, <5>1, <5>2 DEF HandlerReturns, AsyncHandlerIsLetGo
      <4>2. detached' \subseteq Event /\ spoiled' \in BOOLEAN
        <5>1. CASE HandlerReturns(t)
          BY <5>1 DEF HandlerReturns, TypeOK
        <5>2. CASE AsyncHandlerIsLetGo(t)
          BY <3>1, <5>2 DEF AsyncHandlerIsLetGo, TypeOK
        <5> QED
          BY <2>5, <5>1, <5>2
      <4>3. Handled(t)
        BY <2>5 DEF HandlerReturns, AsyncHandlerIsLetGo
      <4> QED
        BY <3>2, <4>1, <4>2, <4>3 DEF Handled, TypeOK
  <2>6. CASE HandlerThrows(t) \/ HandlerNests(t)
    BY <2>6 DEF HandlerThrows, HandlerNests, Return, TypeOK, state
  <2>7. CASE Record(t)
    <3>1. event[t] \in Event
      BY <2>7 DEF Record, EventsAreOwn
    <3> QED
      BY <2>7, <3>1 DEF Record, Return, TypeOK
  <2> QED
    BY <1>1, <2>1, <2>2, <2>3, <2>4, <2>5, <2>6, <2>7 DEF Apply
<1>2. CASE MarkChangesAsCommitted
  BY <1>2 DEF MarkChangesAsCommitted, TypeOK
<1>3. CASE AsyncHandlerEnds
  <2>1. PICK e \in detached :
          /\ detached' = detached \ {e}
          /\ handled' \in {handled, Append(handled, e)}
          /\ UNCHANGED <<id, cv, lcv, uncommitted, committed, spoiled, early, lock,
                         pc, event, result>>
    BY <1>3 DEF AsyncHandlerEnds
  <2>2. e \in Event /\ detached' \subseteq Event
    BY <2>1 DEF TypeOK
  <2>3. handled \in Seq(Event)
    BY DEF TypeOK
  <2>4. Append(handled, e) \in Seq(Event)
    BY <2>2, <2>3
  <2>5. handled' \in Seq(Event)
    BY <2>1, <2>3, <2>4
  <2> QED
    BY <2>1, <2>2, <2>5 DEF TypeOK
<1>4. CASE UNCHANGED vars
  BY <1>4 DEF TypeOK, vars, state
<1> QED
  BY <1>1, <1>2, <1>3, <1>4 DEF Next

-----------------------------------------------------------------------------
(* The changes lead to the version *)

(* A task leaves the others where they are. *)
OthersStay(t) ==
  \A u \in Tasks \ {t} : pc'[u] = pc[u] /\ event'[u] = event[u]

LEMMA StepsAreOfOne ==
  ASSUME TypeOK, NEW t \in Tasks, ReadId(t) \/ TakeLock(t) \/ Apply(t)
  PROVE  OthersStay(t)
<1> USE DEF OthersStay, TypeOK
<1>1. CASE ReadId(t) \/ TakeLock(t) \/ ReadVersion(t)
  BY <1>1 DEF ReadId, TakeLock, ReadVersion
<1>2. CASE Refuse(t) \/ Admit(t) \/ HandlerThrows(t) \/ HandlerNests(t) \/ Record(t)
  BY <1>2 DEF Refuse, Admit, HandlerThrows, HandlerNests, Record, Return
<1>3. CASE HandlerReturns(t) \/ AsyncHandlerIsLetGo(t)
  BY <1>3 DEF HandlerReturns, AsyncHandlerIsLetGo, Handled
<1> QED
  BY <1>1, <1>2, <1>3 DEF Apply

(* While one task has the lock no other is at a place that needs it. *)
LEMMA OnlyHolder ==
  ASSUME HolderIsAlone, NEW t \in Tasks, pc[t] \in Holding
  PROVE  /\ lock = t
         /\ \A u \in Tasks \ {t} : pc[u] \notin Holding
  BY DEF HolderIsAlone

LEMMA NobodyHolds ==
  ASSUME HolderIsAlone, lock = None
  PROVE  \A t \in Tasks : pc[t] \notin Holding
  BY AggregateRootAssumption DEF HolderIsAlone

LEMMA ApplyInit == Init => ApplyInv
<1> SUFFICES ASSUME Init PROVE ApplyInv
  OBVIOUS
<1>1. TypeOK
  BY InitIsTyped
<1>2. HolderIsAlone
  BY AggregateRootAssumption DEF Init, HolderIsAlone, Holding
<1>3. EventsAreOwn
  <2>1. NoEvent \notin Event
    BY AggregateRootAssumption DEF NoEvent, Event
  <2> QED
    BY <2>1 DEF Init, EventsAreOwn
<1>4. VersionCounts /\ ChangesAreInOrder
  BY <1>1 DEF Init, VersionCounts, Taken, ChangesAreInOrder, TypeOK, Versions
<1>5. AdmittedFits
  BY DEF Init, AdmittedFits
<1> QED
  BY <1>1, <1>2, <1>3, <1>4, <1>5 DEF ApplyInv

LEMMA ApplyReads ==
  ASSUME ApplyInv, TypeOK', NEW t \in Tasks, ReadId(t) \/ ReadVersion(t)
  PROVE  ApplyInv'
<1> USE DEF ApplyInv
<1>1. OthersStay(t)
  BY StepsAreOfOne DEF Apply
<1>2. /\ UNCHANGED <<id, cv, lcv, early, uncommitted, lock>>
      /\ pc[t] \in {"idle", "reading"} /\ pc'[t] \in {"reading", "waiting"}
  BY DEF ReadId, ReadVersion, TypeOK, state
<1>3. HolderIsAlone'
  BY <1>1, <1>2 DEF HolderIsAlone, Holding, OthersStay
<1>4. EventsAreOwn'
  <2>1. event'[t] \in Event /\ event'[t].by = t
    <3>1. CASE ReadId(t)
      BY <3>1 DEF ReadId, TypeOK, Event, Versions
    <3>2. CASE ReadVersion(t)
      <4>1. event[t] \in Event /\ event[t].by = t
        BY <3>2 DEF ReadVersion, EventsAreOwn
      <4>2. t \in Ids /\ cv \in Versions
        BY DEF Ids, TypeOK
      <4> QED
        BY <3>2, <4>1, <4>2 DEF ReadVersion, TypeOK, Event
    <3> QED
      BY <3>1, <3>2
  <2> QED
    BY <1>1, <2>1 DEF EventsAreOwn, OthersStay
<1>5. VersionCounts' /\ ChangesAreInOrder'
  BY <1>1, <1>2 DEF VersionCounts, Taken, ChangesAreInOrder, OthersStay
<1>6. AdmittedFits'
  BY <1>1, <1>2 DEF AdmittedFits, OthersStay
<1> QED
  BY <1>3, <1>4, <1>5, <1>6

LEMMA ApplyTakeLock ==
  ASSUME ApplyInv, TypeOK', NEW t \in Tasks, TakeLock(t)
  PROVE  ApplyInv'
<1> USE DEF ApplyInv
<1>1. OthersStay(t)
  BY StepsAreOfOne
<1>2. /\ UNCHANGED <<id, cv, lcv, early, uncommitted, event>>
      /\ pc[t] = "waiting" /\ pc'[t] = "entered" /\ lock = None /\ lock' = t
  BY DEF TakeLock, TypeOK, state
<1>3. HolderIsAlone'
  BY <1>1, <1>2, NobodyHolds DEF HolderIsAlone, Holding, OthersStay
<1>4. EventsAreOwn'
  BY <1>1, <1>2 DEF EventsAreOwn, OthersStay
<1>5. VersionCounts' /\ ChangesAreInOrder'
  BY <1>1, <1>2 DEF VersionCounts, Taken, ChangesAreInOrder, OthersStay
<1>6. AdmittedFits'
  BY <1>1, <1>2 DEF AdmittedFits, OthersStay
<1> QED
  BY <1>3, <1>4, <1>5, <1>6

(* A call that ends without having recorded its event. *)
LEMMA ApplyGivesUp ==
  ASSUME ApplyInv, TypeOK', NEW t \in Tasks, Refuse(t) \/ HandlerThrows(t)
  PROVE  ApplyInv'
<1> USE DEF ApplyInv
<1>1. OthersStay(t)
  BY StepsAreOfOne DEF Apply
<1>2. /\ UNCHANGED <<id, cv, lcv, early, uncommitted, event>>
      /\ pc[t] \in {"entered", "handling"} /\ pc'[t] = "idle" /\ lock' = None
  BY DEF Refuse, HandlerThrows, Return, TypeOK, state
<1>3. pc[t] \in Holding
  BY <1>2 DEF Holding
<1>4. HolderIsAlone'
  BY <1>1, <1>2, <1>3, OnlyHolder, AggregateRootAssumption
     DEF HolderIsAlone, Holding, OthersStay
<1>5. EventsAreOwn'
  BY <1>1, <1>2 DEF EventsAreOwn, OthersStay
<1>6. VersionCounts' /\ ChangesAreInOrder'
  BY <1>1, <1>2 DEF VersionCounts, Taken, ChangesAreInOrder, OthersStay
<1>7. AdmittedFits'
  BY <1>1, <1>2 DEF AdmittedFits, OthersStay
<1> QED
  BY <1>4, <1>5, <1>6, <1>7

LEMMA TakenType ==
  ASSUME TypeOK
  PROVE  Taken \in Int
  BY DEF TypeOK, Versions, Taken

(* An instance at the version of a new one has no changes. *)
LEMMA NewHasNoChanges ==
  ASSUME ApplyInv, cv = -1, \A t \in Tasks : pc[t] # "recording"
  PROVE  Len(uncommitted) = 0
<1> DEFINE n == Len(uncommitted)
<1> USE DEF ApplyInv
<1>1. uncommitted \in Seq(Event) /\ n \in Nat /\ Taken \in Int
  BY TakenType DEF TypeOK
<1>2. -1 = Taken + n
  BY DEF VersionCounts
<1> SUFFICES ASSUME n # 0 PROVE FALSE
  OBVIOUS
<1>3. 1 \in 1 .. n /\ uncommitted[1] \in Event
  BY <1>1
<1>4. uncommitted[1].target = Taken
  BY <1>1, <1>3 DEF ChangesAreInOrder
<1>5. uncommitted[1].target >= -1
  BY <1>3, EventTypes
<1> QED
  BY <1>1, <1>2, <1>4, <1>5

LEMMA ApplyAdmit ==
  ASSUME ApplyInv, TypeOK', NEW t \in Tasks, Admit(t)
  PROVE  ApplyInv'
<1> USE DEF ApplyInv
<1>1. OthersStay(t)
  BY StepsAreOfOne DEF Apply
<1>2. /\ UNCHANGED <<cv, lcv, early, uncommitted, event, lock>>
      /\ pc[t] = "entered" /\ pc'[t] = "handling"
      /\ cv = event[t].target
  BY DEF Admit, CanApply, TypeOK
<1>3. \A u \in Tasks \ {t} : pc[u] \notin Holding
  BY <1>2, OnlyHolder DEF Holding
<1>4. HolderIsAlone'
  BY <1>1, <1>2 DEF HolderIsAlone, Holding, OthersStay
<1>5. EventsAreOwn'
  BY <1>1, <1>2 DEF EventsAreOwn, OthersStay
<1>6. \A u \in Tasks : pc[u] # "recording" /\ pc'[u] # "recording"
  BY <1>1, <1>2, <1>3 DEF OthersStay, Holding
<1>7. VersionCounts'
  BY <1>2, <1>6 DEF VersionCounts, Taken
<1>8. id' = event[t].id
  BY DEF Admit, CanApply
<1>9. ChangesAreInOrder'
  <2>1. CASE cv = -1
    <3>1. Len(uncommitted) = 0
      BY <1>6, <2>1, NewHasNoChanges
    <3> QED
      BY <1>2, <3>1 DEF ChangesAreInOrder, Taken
  <2>2. CASE cv # -1
    <3>1. id' = id
      BY <2>2 DEF Admit
    <3> QED
      BY <1>2, <3>1 DEF ChangesAreInOrder, Taken
  <2> QED
    BY <2>1, <2>2
<1>10. AdmittedFits'
  BY <1>1, <1>2, <1>3, <1>8 DEF AdmittedFits, OthersStay, Holding
<1> QED
  BY <1>4, <1>5, <1>7, <1>9, <1>10

LEMMA ApplyHandled ==
  ASSUME ApplyInv, TypeOK', NEW t \in Tasks, Handled(t),
         OthersStay(t)
  PROVE  ApplyInv'
<1> USE DEF ApplyInv
<1>1. /\ UNCHANGED <<id, lcv, early, uncommitted, event, lock>> /\ cv' = cv + 1
      /\ pc[t] = "handling" /\ pc'[t] = "recording"
  BY DEF Handled, TypeOK
<1>2. \A u \in Tasks \ {t} : pc[u] \notin Holding
  BY <1>1, OnlyHolder DEF Holding
<1>3. HolderIsAlone'
  BY <1>1 DEF HolderIsAlone, Holding, OthersStay
<1>4. EventsAreOwn'
  BY <1>1 DEF EventsAreOwn, OthersStay
<1>5. cv \in Int /\ Taken \in Int /\ Len(uncommitted) \in Nat /\ Taken' = Taken
  BY <1>1, TakenType DEF TypeOK, Versions, Taken
<1>6. VersionCounts'
  <2>1. \A u \in Tasks : pc[u] # "recording"
    BY <1>1, <1>2 DEF Holding
  <2>2. cv = Taken + Len(uncommitted)
    BY <2>1 DEF VersionCounts
  <2>3. cv + 1 = Taken + Len(uncommitted) + 1
    BY <1>5, <2>2
  <2> QED
    BY <1>1, <1>5, <2>3 DEF VersionCounts
<1>7. ChangesAreInOrder'
  BY <1>1, <1>5 DEF ChangesAreInOrder
<1>8. AdmittedFits'
  <2>1. event[t].id = id /\ event[t].target = cv
    BY <1>1 DEF AdmittedFits
  <2>2. \A u \in Tasks \ {t} : pc'[u] \notin Holding
    BY <1>2 DEF OthersStay
  <2>3. /\ event'[t].id = id' /\ event'[t].target = cv' - 1
        /\ pc'[t] = "recording"
    <3>1. cv = cv' - 1
      BY <1>1, <1>5
    <3> QED
      BY <1>1, <2>1, <3>1
  <2>4. ASSUME NEW u \in Tasks, pc'[u] \in {"handling", "stuck", "recording"}
        PROVE  u = t
    BY <2>2, <2>4 DEF Holding
  <2> QED
    BY <2>3, <2>4 DEF AdmittedFits
<1> QED
  BY <1>3, <1>4, <1>6, <1>7, <1>8

LEMMA ApplyNests ==
  ASSUME ApplyInv, TypeOK', NEW t \in Tasks, HandlerNests(t)
  PROVE  ApplyInv'
<1> USE DEF ApplyInv
<1>1. OthersStay(t)
  BY StepsAreOfOne DEF Apply
<1>2. /\ UNCHANGED <<id, cv, lcv, early, uncommitted, event, lock>>
      /\ pc[t] = "handling" /\ pc'[t] = "stuck"
  BY DEF HandlerNests, TypeOK, state
<1>3. HolderIsAlone' /\ EventsAreOwn'
  BY <1>1, <1>2 DEF HolderIsAlone, Holding, OthersStay, EventsAreOwn
<1>4. VersionCounts' /\ ChangesAreInOrder'
  BY <1>1, <1>2 DEF VersionCounts, Taken, ChangesAreInOrder, OthersStay
<1>5. AdmittedFits'
  BY <1>1, <1>2 DEF AdmittedFits, OthersStay
<1> QED
  BY <1>3, <1>4, <1>5

LEMMA ApplyRecord ==
  ASSUME ApplyInv, TypeOK', NEW t \in Tasks, Record(t)
  PROVE  ApplyInv'
<1> USE DEF ApplyInv
<1> DEFINE n == Len(uncommitted)
<1>1. OthersStay(t)
  BY StepsAreOfOne DEF Apply
<1>2. /\ UNCHANGED <<id, cv, lcv, early, event>> /\ uncommitted' = Append(uncommitted, event[t])
      /\ pc[t] = "recording" /\ pc'[t] = "idle" /\ lock' = None
  BY DEF Record, Return, TypeOK
<1>3. \A u \in Tasks \ {t} : pc[u] \notin Holding
  BY <1>2, OnlyHolder DEF Holding
<1>4. HolderIsAlone'
  BY <1>1, <1>2, <1>3, AggregateRootAssumption DEF HolderIsAlone, Holding, OthersStay
<1>5. EventsAreOwn'
  BY <1>1, <1>2 DEF EventsAreOwn, OthersStay
<1>6. /\ cv \in Int /\ Taken \in Int /\ Taken' = Taken /\ n \in Nat /\ cv = Taken + n + 1
      /\ uncommitted \in Seq(Event) /\ event[t] \in Event
      /\ event[t].target = cv - 1 /\ event[t].id = id
  <2>1. Taken \in Int /\ Taken' = Taken
    BY <1>2, TakenType DEF Taken
  <2>2. cv = Taken + n + 1
    BY <1>2 DEF VersionCounts
  <2> QED
    BY <1>2, <2>1, <2>2 DEF TypeOK, Versions, AdmittedFits, EventsAreOwn
<1>7. Len(uncommitted') = n + 1
  BY <1>2, <1>6
<1>8. VersionCounts'
  <2>1. \A u \in Tasks : pc'[u] # "recording"
    BY <1>1, <1>2, <1>3 DEF OthersStay, Holding
  <2>2. cv' = Taken' + Len(uncommitted')
    BY <1>2, <1>6, <1>7
  <2> QED
    BY <2>1, <2>2 DEF VersionCounts
<1>9. ChangesAreInOrder'
  <2> SUFFICES ASSUME NEW i \in 1 .. Len(uncommitted')
               PROVE  uncommitted'[i].target = Taken + i - 1 /\ uncommitted'[i].id = id
    BY <1>2, <1>6 DEF ChangesAreInOrder
  <2>1. CASE i \in 1 .. n
    <3>1. uncommitted'[i] = uncommitted[i]
      BY <1>2, <1>6, <2>1
    <3> QED
      BY <2>1, <3>1 DEF ChangesAreInOrder
  <2>2. CASE i = n + 1
    <3>1. uncommitted'[i] = event[t]
      BY <1>2, <1>6, <2>2
    <3>2. cv - 1 = Taken + i - 1
      BY <1>6, <2>2
    <3> QED
      BY <1>6, <3>1, <3>2
  <2> QED
    BY <1>6, <1>7, <2>1, <2>2
<1>10. AdmittedFits'
  BY <1>1, <1>2, <1>3 DEF AdmittedFits, OthersStay, Holding
<1> QED
  BY <1>4, <1>5, <1>8, <1>9, <1>10

LEMMA ApplyStep == ApplyInv /\ [Next]_vars => ApplyInv'
<1> SUFFICES ASSUME ApplyInv, [Next]_vars PROVE ApplyInv'
  OBVIOUS
<1>1. TypeOK'
  BY StepsAreTyped DEF ApplyInv
<1>2. ASSUME NEW t \in Tasks, ReadId(t) \/ TakeLock(t) \/ Apply(t)
      PROVE  ApplyInv'
  <2>1. OthersStay(t)
    BY <1>2, StepsAreOfOne DEF ApplyInv
  <2>2. CASE HandlerReturns(t) \/ AsyncHandlerIsLetGo(t)
    BY <1>1, <2>1, <2>2, ApplyHandled DEF HandlerReturns, AsyncHandlerIsLetGo
  <2> QED
    BY <1>1, <1>2, <2>2, ApplyReads, ApplyTakeLock, ApplyGivesUp, ApplyAdmit,
       ApplyNests, ApplyRecord DEF Apply
<1>3. CASE MarkChangesAsCommitted
  <2>1. /\ UNCHANGED <<id, cv, lock, pc, event>>
        /\ uncommitted' = <<>> /\ lcv' = cv
        /\ early' = (\E t \in Tasks : pc[t] = "recording")
    BY <1>3 DEF MarkChangesAsCommitted
  <2>2. cv \in Int
    BY DEF ApplyInv, TypeOK, Versions
  <2>3. Len(uncommitted') = 0
    BY <2>1
  <2>4. VersionCounts'
    <3>1. CASE \E t \in Tasks : pc[t] = "recording"
      <4>1. Taken' = cv - 1
        BY <2>1, <3>1 DEF Taken
      <4>2. cv = cv - 1 + 0 + 1
        BY <2>2
      <4> QED
        BY <2>1, <2>3, <3>1, <4>1, <4>2 DEF VersionCounts
    <3>2. CASE \A t \in Tasks : pc[t] # "recording"
      <4>1. Taken' = cv
        BY <2>1, <3>2 DEF Taken
      <4>2. cv = cv + 0
        BY <2>2
      <4> QED
        BY <2>1, <2>3, <3>2, <4>1, <4>2 DEF VersionCounts
    <3> QED
      BY <3>1, <3>2
  <2>5. ChangesAreInOrder'
    BY <2>3 DEF ChangesAreInOrder
  <2> QED
    BY <1>1, <2>1, <2>4, <2>5 DEF ApplyInv, HolderIsAlone, EventsAreOwn, AdmittedFits
<1>4. CASE AsyncHandlerEnds \/ UNCHANGED vars
  <2>1. UNCHANGED <<id, cv, lcv, early, uncommitted, lock, pc, event>>
    BY <1>4 DEF AsyncHandlerEnds, vars, state
  <2> QED
    BY <1>1, <2>1 DEF ApplyInv, HolderIsAlone, EventsAreOwn, VersionCounts,
                      Taken, ChangesAreInOrder, AdmittedFits
<1> QED
  BY <1>2, <1>3, <1>4 DEF Next

(* ApplyInv holds for ever, and so does what it implies. *)
LEMMA AlwaysApplyInv == Spec => []ApplyInv
  BY ApplyInit, ApplyStep, PTL DEF Spec

(* The state of an instance and of its callers keeps its shape.            *)
THEOREM TypeCorrect == Spec => []TypeOK
<1>1. ApplyInv => TypeOK
  BY DEF ApplyInv
<1> QED
  BY <1>1, AlwaysApplyInv, PTL

(* Between calls the uncommitted changes are one event for each version    *)
(* since the last commit, of the instance's own Id, however the tasks      *)
(* interleave, whatever their handlers do and wherever saves end; a save   *)
(* leaves LastCommittedVersion at most one ahead (CanApply, DoApplyAsync,  *)
(* MarkChangesAsCommitted).                                                *)
THEOREM ChangesAreContiguous == Spec => []ChangesLeadToVersion
<1>1. ApplyInv => ChangesLeadToVersion
  <2> SUFFICES ASSUME ApplyInv, lock = None
               PROVE  /\ cv = Taken + Len(uncommitted)
                      /\ \A i \in DOMAIN uncommitted :
                           uncommitted[i].target = Taken + i - 1 /\ uncommitted[i].id = id
    BY DEF ChangesLeadToVersion, Taken
  <2>1. \A t \in Tasks : pc[t] # "recording"
    BY NobodyHolds DEF ApplyInv, Holding
  <2>2. DOMAIN uncommitted = 1 .. Len(uncommitted)
    BY DEF ApplyInv, TypeOK
  <2> QED
    BY <2>1, <2>2 DEF ApplyInv, VersionCounts, Taken, ChangesAreInOrder
<1> QED
  BY <1>1, AlwaysApplyInv, PTL

-----------------------------------------------------------------------------
(* The result of a call is true *)

LEMMA RecordedType ==
  ASSUME TypeOK
  PROVE  Recorded \in Seq(Event)
  BY DEF TypeOK, Recorded

(* The record grows only where an event is recorded. *)
LEMMA RecordGrows ==
  ASSUME TypeOK, NEW t \in Tasks, event[t] \in Event, Record(t)
  PROVE  /\ Recorded' = Append(Recorded, event[t])
         /\ ToSet(Recorded') = ToSet(Recorded) \cup {event[t]}
<1>1. committed \in Seq(Event) /\ uncommitted \in Seq(Event) /\ Recorded \in Seq(Event)
  BY RecordedType DEF TypeOK
<1>2. Recorded' = committed \o Append(uncommitted, event[t])
  BY DEF Record, Recorded
<1>3. committed \o Append(uncommitted, event[t]) = Append(committed \o uncommitted, event[t])
  BY <1>1
<1>4. Recorded' = Append(Recorded, event[t])
  BY <1>2, <1>3 DEF Recorded
<1>5. ToSet(Append(Recorded, event[t])) = ToSet(Recorded) \cup {event[t]}
  <2> DEFINE n == Len(Recorded)
             longer == Append(Recorded, event[t])
  <2>1. /\ n \in Nat /\ DOMAIN Recorded = 1 .. n /\ DOMAIN longer = 1 .. n + 1
        /\ longer[n + 1] = event[t] /\ \A i \in 1 .. n : longer[i] = Recorded[i]
    BY <1>1
  <2>2. 1 .. n + 1 = (1 .. n) \cup {n + 1}
    BY <2>1
  <2> HIDE DEF longer, n
  <2>3. {longer[i] : i \in 1 .. n + 1} = {Recorded[i] : i \in 1 .. n} \cup {event[t]}
    BY <2>1, <2>2
  <2> QED
    BY <2>1, <2>3 DEF ToSet, longer
<1> QED
  BY <1>4, <1>5

LEMMA RecordStays ==
  ASSUME TypeOK,
         \/ MarkChangesAsCommitted
         \/ UNCHANGED <<committed, uncommitted>>
  PROVE  Recorded' = Recorded
<1>1. CASE MarkChangesAsCommitted
  <2>1. committed \in Seq(Event) /\ uncommitted \in Seq(Event)
    BY DEF TypeOK
  <2>2. Recorded' = (committed \o uncommitted) \o <<>>
    BY <1>1 DEF MarkChangesAsCommitted, Recorded
  <2> QED
    BY <2>1, <2>2 DEF Recorded
<1>2. CASE UNCHANGED <<committed, uncommitted>>
  BY <1>2 DEF Recorded
<1> QED
  BY <1>1, <1>2

(* What an idle task was told of its last call. *)
ToldTruth(t) ==
  pc[t] = "idle" =>
    /\ result[t] = "applied" => event[t] \in ToSet(Recorded)
    /\ result[t] \in {"mismatch", "threw"} => event[t] \notin ToSet(Recorded)

LEMMA AllToldTruth == ResultIsTrue <=> \A t \in Tasks : ToldTruth(t)
  BY DEF ResultIsTrue, ToldTruth, Recorded

(* What is said of the event that a task has in hand. *)
PendingOf(t) ==
  /\ pc[t] \in Holding \cup {"waiting"} =>
       event[t].id # NoId /\ event[t] \notin ToSet(Recorded)
  /\ pc[t] = "reading" /\ event[t].id = NoId =>
       [by |-> t, id |-> t, target |-> -1] \notin ToSet(Recorded)
  /\ pc[t] = "reading" => event[t].target = -1

LEMMA ResultInit == Init => ResultInv
<1> SUFFICES ASSUME Init PROVE ResultInv
  OBVIOUS
<1>1. ApplyInv
  BY ApplyInit
<1>2. Recorded = <<>>
  BY DEF Init, Recorded
<1>3. RecordedIsPast
  BY <1>2 DEF RecordedIsPast, ToSet
<1>4. PendingIsNew
  BY DEF Init, PendingIsNew, Holding
<1>5. ResultIsTrue
  BY DEF Init, ResultIsTrue
<1> QED
  BY <1>1, <1>3, <1>4, <1>5 DEF ResultInv

(* The other tasks keep what is said of them while nothing is recorded. *)
LEMMA OthersKeepResults ==
  ASSUME ResultInv, NEW t \in Tasks, OthersStay(t), Recorded' = Recorded,
         \A u \in Tasks \ {t} : result'[u] = result[u],
         PendingOf(t)', ToldTruth(t)'
  PROVE  PendingIsNew' /\ ResultIsTrue'
<1>1. ASSUME NEW u \in Tasks \ {t} PROVE PendingOf(u)' /\ ToldTruth(u)'
  <2>1. PendingOf(u) /\ ToldTruth(u)
    BY AllToldTruth DEF ResultInv, PendingIsNew, PendingOf
  <2>2. pc'[u] = pc[u] /\ event'[u] = event[u] /\ result'[u] = result[u]
    BY DEF OthersStay
  <2> QED
    BY <2>1, <2>2 DEF PendingOf, ToldTruth
<1>2. \A u \in Tasks : PendingOf(u)' /\ ToldTruth(u)'
  BY <1>1
<1>3. PendingIsNew'
  BY <1>2 DEF PendingIsNew, PendingOf
<1>4. ResultIsTrue'
  BY <1>2 DEF ResultIsTrue, ToldTruth, Recorded
<1> QED
  BY <1>3, <1>4

LEMMA ResultReads ==
  ASSUME ResultInv, ApplyInv', NEW t \in Tasks, ReadId(t) \/ ReadVersion(t)
  PROVE  ResultInv'
<1> USE DEF ResultInv
<1>1. TypeOK /\ OthersStay(t)
  BY StepsAreOfOne DEF ApplyInv, Apply
<1>2. UNCHANGED <<id, cv, committed, uncommitted, result>> /\ pc'[t] # "idle"
  BY <1>1 DEF ReadId, ReadVersion, TypeOK, state
<1>3. Recorded' = Recorded
  BY <1>2 DEF Recorded
<1>4. RecordedIsPast'
  BY <1>2, <1>3 DEF RecordedIsPast
<1>5. PendingOf(t)'
  <2>1. CASE ReadId(t)
    <3>1. /\ pc'[t] = "reading" /\ event'[t].target = -1 /\ event'[t].id = id
      BY <1>1, <2>1 DEF ReadId, TypeOK
    <3>2. id = NoId => ToSet(Recorded) = {}
      BY DEF RecordedIsPast, ToSet
    <3> QED
      BY <1>3, <3>1, <3>2 DEF PendingOf, Holding
  <2>2. CASE ReadVersion(t)
    <3>1. /\ pc[t] = "reading" /\ pc'[t] = "waiting" /\ event[t] \in Event
          /\ event[t].by = t /\ event[t].target = -1
      <4>1. pc[t] = "reading" /\ pc'[t] = "waiting"
        BY <1>1, <2>2 DEF ReadVersion, TypeOK
      <4>2. event[t] \in Event /\ event[t].by = t
        BY <4>1 DEF ApplyInv, EventsAreOwn
      <4> QED
        BY <4>1, <4>2 DEF PendingIsNew
    <3>2. CASE event[t].id = NoId
      <4>1. event'[t] = [by |-> t, id |-> t, target |-> -1]
        BY <1>1, <2>2, <3>1, <3>2 DEF ReadVersion, TypeOK, Event
      <4>2. event'[t].id # NoId
        BY <4>1, AggregateRootAssumption
      <4>3. event'[t] \notin ToSet(Recorded')
        BY <1>3, <3>1, <3>2, <4>1 DEF PendingIsNew
      <4> QED
        BY <3>1, <4>2, <4>3 DEF PendingOf
    <3>3. CASE event[t].id # NoId
      <4>1. event'[t].id # NoId /\ event'[t].target = cv
        BY <1>1, <2>2, <3>1, <3>3 DEF ReadVersion, TypeOK, Event
      <4>2. cv \in Int /\ ~ (cv < cv)
        BY <1>1 DEF TypeOK, Versions
      <4>3. event'[t] \notin ToSet(Recorded')
        BY <1>3, <4>1, <4>2 DEF RecordedIsPast
      <4> QED
        BY <3>1, <4>1, <4>3 DEF PendingOf
    <3> QED
      BY <3>2, <3>3
  <2> QED
    BY <2>1, <2>2
<1>6. ToldTruth(t)'
  BY <1>2 DEF ToldTruth
<1> QED
  BY <1>1, <1>2, <1>3, <1>4, <1>5, <1>6, OthersKeepResults

(* The steps of a call from the lock to the record, and its failures. *)
LEMMA ResultCall ==
  ASSUME ResultInv, ApplyInv', NEW t \in Tasks,
         \/ TakeLock(t) \/ Refuse(t) \/ Admit(t) \/ HandlerThrows(t)
         \/ HandlerReturns(t) \/ AsyncHandlerIsLetGo(t) \/ HandlerNests(t)
  PROVE  ResultInv'
<1> USE DEF ResultInv
<1>1. TypeOK /\ OthersStay(t)
  BY StepsAreOfOne DEF ApplyInv, Apply
<1>2. UNCHANGED <<committed, uncommitted, event>> /\ cv' \in {cv, cv + 1}
  BY DEF TakeLock, Refuse, Admit, HandlerThrows, HandlerReturns, AsyncHandlerIsLetGo,
         HandlerNests, Handled, Return, state
<1>3. /\ pc[t] \in Holding \cup {"waiting"}
      /\ \/ pc'[t] \in Holding
         \/ pc'[t] = "idle" /\ result'[t] \in {"mismatch", "threw"}
      /\ \A u \in Tasks \ {t} : result'[u] = result[u]
  <2>1. DOMAIN pc = Tasks /\ DOMAIN result = Tasks
    BY <1>1 DEF TypeOK
  <2>2. CASE TakeLock(t) \/ Admit(t)
    BY <2>1, <2>2 DEF TakeLock, Admit, Holding, state
  <2>3. CASE Refuse(t)
    BY <2>1, <2>3 DEF Refuse, Return, Holding
  <2>4. CASE HandlerThrows(t)
    BY <2>1, <2>4 DEF HandlerThrows, Return, Holding
  <2>5. CASE HandlerReturns(t) \/ AsyncHandlerIsLetGo(t)
    BY <2>1, <2>5 DEF HandlerReturns, AsyncHandlerIsLetGo, Handled, Holding
  <2>6. CASE HandlerNests(t)
    BY <2>1, <2>6 DEF HandlerNests, Holding, state
  <2> QED
    BY <2>2, <2>3, <2>4, <2>5, <2>6
<1>4. Recorded' = Recorded /\ Recorded \in Seq(Event)
  BY <1>1, <1>2, RecordedType DEF Recorded
<1>5. event[t].id # NoId /\ event[t] \notin ToSet(Recorded)
  BY <1>3 DEF PendingIsNew
<1>6. id' # id => id' = event[t].id
  BY DEF TakeLock, Refuse, Admit, HandlerThrows, HandlerReturns, AsyncHandlerIsLetGo,
         HandlerNests, Handled, Return, state
<1>7. RecordedIsPast'
  <2>1. ASSUME NEW e \in ToSet(Recorded) PROVE e.target < cv'
    <3>1. e \in Event
      BY <1>4 DEF ToSet
    <3>2. e.target \in Int /\ cv \in Int
      BY <1>1, <3>1, EventTypes DEF TypeOK, Versions
    <3>3. e.target < cv
      BY DEF RecordedIsPast
    <3>4. e.target < cv + 1
      BY <3>2, <3>3
    <3> QED
      BY <1>2, <3>3, <3>4
  <2> QED
    BY <1>4, <1>5, <1>6, <2>1 DEF RecordedIsPast
<1>8. PendingOf(t)' /\ ToldTruth(t)'
  BY <1>2, <1>3, <1>4, <1>5 DEF PendingOf, ToldTruth, Holding
<1> QED
  BY <1>1, <1>3, <1>4, <1>7, <1>8, OthersKeepResults

LEMMA ResultRecord ==
  ASSUME ResultInv, ApplyInv', NEW t \in Tasks, Record(t)
  PROVE  ResultInv'
<1> USE DEF ResultInv
<1>1. TypeOK /\ OthersStay(t)
  BY StepsAreOfOne DEF ApplyInv, Apply
<1>2. /\ UNCHANGED <<id, cv, event>> /\ pc[t] = "recording"
      /\ pc'[t] = "idle" /\ result'[t] = "applied"
      /\ \A u \in Tasks \ {t} : result'[u] = result[u]
  BY <1>1 DEF Record, Return, TypeOK
<1>3. /\ event[t] \in Event /\ event[t].by = t
      /\ event[t].id = id /\ event[t].target = cv - 1
  BY <1>2 DEF ApplyInv, EventsAreOwn, AdmittedFits
<1>4. ToSet(Recorded') = ToSet(Recorded) \cup {event[t]}
  BY <1>1, <1>3, RecordGrows
<1>5. id # NoId
  BY <1>2, <1>3 DEF PendingIsNew, Holding
<1>6. RecordedIsPast'
  <2>1. cv - 1 < cv
    BY <1>1 DEF TypeOK, Versions
  <2>2. event[t].target < cv
    BY <1>3, <2>1
  <2> QED
    BY <1>2, <1>4, <1>5, <2>2 DEF RecordedIsPast
<1>7. ASSUME NEW u \in Tasks \ {t} PROVE PendingOf(u)' /\ ToldTruth(u)'
  <2>1. PendingOf(u) /\ ToldTruth(u)
    BY AllToldTruth DEF PendingIsNew, PendingOf
  <2>2. pc'[u] = pc[u] /\ event'[u] = event[u] /\ result'[u] = result[u]
    BY <1>1, <1>2 DEF OthersStay
  <2>3. event[u] # event[t]
    BY <1>3 DEF ApplyInv, EventsAreOwn
  <2>4. [by |-> u, id |-> u, target |-> -1] # event[t]
    BY <1>3
  <2>5. PendingOf(u)'
    BY <1>4, <2>1, <2>2, <2>3, <2>4 DEF PendingOf
  <2>6. ToldTruth(u)'
    BY <1>4, <2>1, <2>2, <2>3 DEF ToldTruth
  <2> QED
    BY <2>5, <2>6
<1>8. PendingOf(t)' /\ ToldTruth(t)'
  BY <1>2, <1>4 DEF PendingOf, ToldTruth, Holding
<1>9. PendingIsNew'
  BY <1>7, <1>8 DEF PendingIsNew, PendingOf
<1>10. ResultIsTrue'
  BY <1>7, <1>8 DEF ResultIsTrue, ToldTruth, Recorded
<1> QED
  BY <1>6, <1>9, <1>10

LEMMA ResultStep == ResultInv /\ [Next]_vars => ResultInv'
<1> SUFFICES ASSUME ResultInv, [Next]_vars PROVE ResultInv'
  OBVIOUS
<1>1. ApplyInv' /\ TypeOK
  BY ApplyStep DEF ResultInv, ApplyInv
<1>2. ASSUME NEW t \in Tasks, ReadId(t) \/ TakeLock(t) \/ Apply(t)
      PROVE  ResultInv'
  BY <1>1, <1>2, ResultReads, ResultCall, ResultRecord DEF Apply
<1>3. CASE \/ MarkChangesAsCommitted \/ AsyncHandlerEnds \/ UNCHANGED vars
  <2>1. UNCHANGED <<id, cv, pc, event, result>>
    BY <1>3 DEF MarkChangesAsCommitted, AsyncHandlerEnds, vars, state
  <2>2. MarkChangesAsCommitted \/ UNCHANGED <<committed, uncommitted>>
    BY <1>3 DEF AsyncHandlerEnds, vars, state
  <2>3. Recorded' = Recorded
    BY <1>1, <2>2, RecordStays
  <2>4. RecordedIsPast'
    BY <2>1, <2>3 DEF ResultInv, RecordedIsPast
  <2>5. PendingIsNew'
    BY <2>1, <2>3 DEF ResultInv, PendingIsNew
  <2>6. ResultIsTrue'
    BY <2>1, <2>3 DEF ResultInv, ResultIsTrue, Recorded
  <2> QED
    BY <1>1, <2>4, <2>5, <2>6 DEF ResultInv
<1> QED
  BY <1>2, <1>3 DEF Next

(* An event is recorded when the call that applied it returned, and never  *)
(* when that call threw, whatever the other tasks do in between.           *)
THEOREM ResultsAreTrue == Spec => []ResultIsTrue
<1>1. ResultInv => ResultIsTrue
  BY DEF ResultInv
<1> QED
  BY <1>1, ResultInit, ResultStep, PTL DEF Spec

-----------------------------------------------------------------------------
(* The state replays *)

LEMMA ReplayInit == Init => ReplayInv
<1> SUFFICES ASSUME Init PROVE ReplayInv
  OBVIOUS
<1>1. ApplyInv
  BY ApplyInit
<1>2. Recorded = <<>>
  BY DEF Init, Recorded
<1> QED
  BY <1>1, <1>2 DEF Init, ReplayInv

(* The steps of a task that neither run its handler to the end nor record. *)
LEMMA ReplayElsewhere ==
  ASSUME ReplayInv, ApplyInv', NEW t \in Tasks,
         \/ ReadId(t) \/ ReadVersion(t) \/ TakeLock(t) \/ Refuse(t)
         \/ Admit(t) \/ HandlerThrows(t) \/ HandlerNests(t)
  PROVE  ReplayInv'
<1>1. TypeOK /\ OthersStay(t)
  BY StepsAreOfOne DEF ReplayInv, ApplyInv, Apply
<1>2. UNCHANGED <<committed, uncommitted, handled, detached>> /\ (~ spoiled' => ~ spoiled)
  <2>1. UNCHANGED <<committed, uncommitted, handled, detached>>
    BY DEF ReadId, ReadVersion, TakeLock, Refuse, Admit, HandlerThrows, HandlerNests,
           state
  <2>2. spoiled' \in {spoiled, TRUE}
    BY DEF ReadId, ReadVersion, TakeLock, Refuse, Admit, HandlerThrows, HandlerNests,
           state
  <2>3. CASE spoiled' = spoiled
    BY <2>1, <2>3
  <2>4. CASE spoiled' = TRUE
    BY <2>1, <2>4
  <2> QED
    BY <2>2, <2>3, <2>4
<1>3. pc[t] # "recording" /\ pc'[t] # "recording"
  <2>1. DOMAIN pc = Tasks
    BY <1>1 DEF TypeOK
  <2> QED
    BY <2>1 DEF ReadId, ReadVersion, TakeLock, Refuse, Admit, HandlerThrows,
                HandlerNests, Return
<1>4. Recorded' = Recorded
  BY <1>2 DEF Recorded
<1> QED
  BY <1>1, <1>2, <1>3, <1>4 DEF ReplayInv, OthersStay

LEMMA ReplayHandled ==
  ASSUME ReplayInv, ApplyInv', NEW t \in Tasks, HandlerReturns(t)
  PROVE  ReplayInv'
<1>1. TypeOK /\ OthersStay(t)
  BY StepsAreOfOne DEF ReplayInv, ApplyInv, Apply
<1>2. /\ UNCHANGED <<committed, uncommitted, detached, spoiled, event>>
      /\ handled' = Append(handled, event[t])
      /\ pc[t] = "handling" /\ pc'[t] = "recording"
  BY <1>1 DEF HandlerReturns, Handled, TypeOK
<1>3. \A u \in Tasks \ {t} : pc[u] \notin Holding /\ pc'[u] \notin Holding
  BY <1>1, <1>2, OnlyHolder DEF ReplayInv, ApplyInv, Holding, OthersStay
<1>4. \A u \in Tasks : pc[u] # "recording"
  BY <1>2, <1>3 DEF Holding
<1>5. \A u \in Tasks : pc'[u] = "recording" => u = t
  BY <1>3 DEF Holding
<1>6. Recorded' = Recorded
  BY <1>2 DEF Recorded
<1>7. ~ spoiled => detached = {} /\ handled' = Append(Recorded, event[t])
  BY <1>2, <1>4 DEF ReplayInv
<1> QED
  BY <1>2, <1>5, <1>6, <1>7 DEF ReplayInv

LEMMA ReplayRecord ==
  ASSUME ReplayInv, ApplyInv', NEW t \in Tasks, Record(t)
  PROVE  ReplayInv'
<1>1. TypeOK /\ OthersStay(t)
  BY StepsAreOfOne DEF ReplayInv, ApplyInv, Apply
<1>2. UNCHANGED <<detached, spoiled, handled>> /\ pc[t] = "recording" /\ pc'[t] = "idle"
  BY <1>1 DEF Record, Return, TypeOK
<1>3. \A u \in Tasks : pc'[u] # "recording"
  BY <1>1, <1>2, OnlyHolder DEF ReplayInv, ApplyInv, Holding, OthersStay
<1>4. event[t] \in Event
  BY <1>2 DEF ReplayInv, ApplyInv, EventsAreOwn
<1>5. Recorded' = Append(Recorded, event[t])
  BY <1>1, <1>4, RecordGrows
<1> QED
  BY <1>2, <1>3, <1>5 DEF ReplayInv

LEMMA ReplayStep == ReplayInv /\ [Next]_vars => ReplayInv'
<1> SUFFICES ASSUME ReplayInv, [Next]_vars PROVE ReplayInv'
  OBVIOUS
<1>1. ApplyInv' /\ TypeOK
  BY ApplyStep DEF ReplayInv, ApplyInv
<1>2. ASSUME NEW t \in Tasks, ReadId(t) \/ TakeLock(t) \/ Apply(t)
      PROVE  ReplayInv'
  <2>1. CASE AsyncHandlerIsLetGo(t)
    BY <1>1, <2>1 DEF AsyncHandlerIsLetGo, ReplayInv
  <2> QED
    BY <1>1, <1>2, <2>1, ReplayElsewhere, ReplayHandled, ReplayRecord DEF Apply
<1>3. CASE MarkChangesAsCommitted \/ UNCHANGED vars
  <2>1. UNCHANGED <<handled, spoiled, detached, pc, event>>
    BY <1>3 DEF MarkChangesAsCommitted, vars, state
  <2>2. MarkChangesAsCommitted \/ UNCHANGED <<committed, uncommitted>>
    BY <1>3 DEF vars, state
  <2>3. Recorded' = Recorded
    BY <1>1, <2>2, RecordStays
  <2> QED
    BY <1>1, <2>1, <2>3 DEF ReplayInv
<1>4. CASE AsyncHandlerEnds
  <2>1. detached # {} /\ spoiled' = spoiled
    BY <1>4 DEF AsyncHandlerEnds
  <2> QED
    BY <1>1, <2>1 DEF ReplayInv
<1> QED
  BY <1>2, <1>3, <1>4 DEF Next

(* Until a handler throws half-way or is not waited for, replaying the     *)
(* recorded events gives the state of the instance again.                  *)
THEOREM StateReplays == Spec => []StateIsReplayable
<1>1. ReplayInv => StateIsReplayable
  BY NobodyHolds DEF ReplayInv, ApplyInv, StateIsReplayable, Holding, Recorded
<1> QED
  BY <1>1, ReplayInit, ReplayStep, PTL DEF Spec
=============================================================================
