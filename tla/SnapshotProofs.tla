--------------------------- MODULE SnapshotProofs ---------------------------
(***************************************************************************)
(* The snapshot condition of SaveSnapshotAsync, proved for every frequency,*)
(* every version and every size of a save, and what the snapshots of a     *)
(* Schedule keep of it, proved for any todos, texts and commands.          *)
(***************************************************************************)
EXTENDS Schedule, FoldLemmas

(* The quotient and the remainder of C#'s % on versions, which are not     *)
(* negative where the condition evaluates it.                              *)
LEMMA Division ==
  ASSUME NEW a \in Nat, NEW f \in Nat \ {0}
  PROVE  /\ a % f \in 0 .. f - 1
         /\ a \div f \in Nat
         /\ a = f * (a \div f) + (a % f)
<1>1. a % f \in 0 .. f - 1
  BY SMT
<1>2. a = f * (a \div f) + (a % f)
  BY SMT
<1>3. a \div f \in Nat
  BY <1>1, <1>2, SMT
<1> QED
  BY <1>1, <1>2, <1>3

(* A number between q * f and (q + 1) * f - 1 has the quotient q. *)
LEMMA QuotientIsUnique ==
  ASSUME NEW a \in Nat, NEW f \in Nat \ {0}, NEW q \in Nat,
         NEW r \in 0 .. f - 1, a = f * q + r
  PROVE  a \div f = q
  BY SMT

(* The condition of SaveSnapshotAsync means that one of the versions the   *)
(* save has reached is a positive multiple of the frequency.               *)
THEOREM ConditionReachesMultiple ==
  ASSUME NEW version_ \in Nat, NEW count \in Nat \ {0}, NEW f \in Nat \ {0}
  PROVE  ShouldSnapshot(version_, count, f) <=> ReachesMultiple(version_, count, f)
<1> DEFINE q == version_ \div f
           r == version_ % f
<1>1. r \in 0 .. f - 1 /\ q \in Nat /\ version_ = f * q + r
  BY Division
<1>2. ASSUME ShouldSnapshot(version_, count, f)
      PROVE  ReachesMultiple(version_, count, f)
  <2>1. version_ >= f /\ r < count
    BY <1>1, <1>2 DEF ShouldSnapshot
  <2>2. q >= 1
    BY <1>1, <2>1
  <2>3. q * f = f * q /\ f * q >= q
    BY <1>1, <2>2
  <2>4. q \in 1 .. version_
    BY <1>1, <2>2, <2>3
  <2>5. version_ - count < q * f /\ q * f <= version_
    BY <1>1, <2>1, <2>3
  <2> QED
    BY <2>4, <2>5 DEF ReachesMultiple
<1>3. ASSUME ReachesMultiple(version_, count, f)
      PROVE  ShouldSnapshot(version_, count, f)
  <2>1. PICK k \in 1 .. version_ :
          version_ - count < k * f /\ k * f <= version_
    BY <1>3 DEF ReachesMultiple
  <2>2. k * f \in Nat /\ k * f >= f
    BY <2>1
  <2>3. k <= q
    <3>1. SUFFICES ASSUME k >= q + 1 PROVE FALSE
      BY <1>1, <2>1
    <3>2. k * f >= f * q + f
      BY <1>1, <2>1, <3>1
    <3> QED
      BY <1>1, <2>1, <3>2
  <2>4. f * q >= k * f
    BY <1>1, <2>1, <2>3
  <2>5. r < count
    BY <1>1, <2>1, <2>2, <2>4
  <2> QED
    BY <1>1, <2>1, <2>2, <2>5 DEF ShouldSnapshot
<1> QED
  BY <1>2, <1>3

-----------------------------------------------------------------------------

(* The inductive invariant: the last multiple of the frequency that the    *)
(* stream has reached is covered by the snapshot.                          *)
LastMultipleIsCovered ==
  frequency > 0 =>
    version < frequency \/ covered >= frequency * (version \div frequency)

CadenceInv == TypeOK /\ LastMultipleIsCovered

LEMMA CadenceInvInit == Init => CadenceInv
  BY CadenceAssumption DEF Init, CadenceInv, TypeOK, LastMultipleIsCovered

LEMMA CadenceInvSave ==
  ASSUME CadenceInv, NEW count \in 1 .. MaxBatch, Save(count)
  PROVE  CadenceInv'
<1> USE CadenceAssumption
<1>1. /\ version \in Int /\ version >= -1 /\ covered \in Int
      /\ version' \in Nat /\ version' = version + count
      /\ count \in Nat \ {0}
      /\ frequency \in Int /\ frequency' = frequency
  BY DEF CadenceInv, TypeOK, Save
<1>2. TypeOK'
  BY <1>1 DEF CadenceInv, TypeOK, Save
<1>3. LastMultipleIsCovered'
  <2> SUFFICES ASSUME frequency > 0, version' >= frequency
               PROVE  covered' >= frequency * (version' \div frequency)
    BY <1>1, <1>2 DEF LastMultipleIsCovered, TypeOK
  <2> DEFINE q == version' \div frequency
             r == version' % frequency
  <2>0. version' \in Nat /\ frequency \in Nat \ {0}
    BY <1>1
  <2>1. r \in 0 .. frequency - 1 /\ q \in Nat /\ version' = frequency * q + r
    BY <2>0, Division
  <2>2. CASE ShouldSnapshot(version', count, frequency)
    <3>1. covered' = version'
      BY <2>2 DEF Save
    <3> QED
      BY <1>1, <2>1, <3>1
  <2>3. CASE ~ ShouldSnapshot(version', count, frequency)
    <3>1. covered' = covered /\ count <= r
      BY <1>1, <2>1, <2>3 DEF Save, ShouldSnapshot
    <3>2. version = frequency * q + (r - count) /\ r - count \in 0 .. frequency - 1
      BY <1>1, <2>1, <3>1
    <3>3. q >= 1
      BY <1>1, <2>1
    <3>4. frequency * q >= frequency
      BY <1>1, <2>1, <3>3
    <3>5. version \in Nat /\ version >= frequency
      BY <1>1, <2>1, <3>2, <3>4
    <3>6. version \div frequency = q
      BY <1>1, <2>1, <3>2, <3>5, QuotientIsUnique
    <3> QED
      BY <1>1, <3>1, <3>5, <3>6 DEF CadenceInv, LastMultipleIsCovered
  <2> QED
    BY <2>2, <2>3
<1> QED
  BY <1>2, <1>3 DEF CadenceInv

LEMMA CadenceInvStep == CadenceInv /\ [Next]_vars => CadenceInv'
<1> SUFFICES ASSUME CadenceInv, [Next]_vars PROVE CadenceInv'
  OBVIOUS
<1>1. CASE Next
  BY <1>1, CadenceInvSave DEF Next
<1>2. CASE UNCHANGED vars
  BY <1>2 DEF vars, CadenceInv, TypeOK, LastMultipleIsCovered
<1> QED
  BY <1>1, <1>2

(* The covered multiple is at most the frequency behind the version. *)
LEMMA CadenceInvBounds == CadenceInv => ReplayIsBounded
<1> USE CadenceAssumption
<1> SUFFICES ASSUME CadenceInv, frequency > 0
             PROVE  version - covered <= frequency
  BY DEF ReplayIsBounded
<1>1. version \in Int /\ covered \in Int /\ covered >= -1 /\ frequency \in Nat \ {0}
  BY DEF CadenceInv, TypeOK
<1>2. CASE version < frequency
  BY <1>1, <1>2
<1>3. CASE version >= frequency
  <2>1. version % frequency < frequency
        /\ version = frequency * (version \div frequency) + (version % frequency)
        /\ version % frequency \in Nat /\ version \div frequency \in Nat
    BY <1>1, <1>3, Division
  <2>2. covered >= frequency * (version \div frequency)
    BY <1>1, <1>3 DEF CadenceInv, LastMultipleIsCovered
  <2> QED
    BY <1>1, <2>1, <2>2
<1> QED
  BY <1>1, <1>2, <1>3

(* Versions never leave their bounds and a snapshot is never ahead of what *)
(* is committed.                                                           *)
THEOREM TypeCorrect == Spec => []TypeOK
<1>1. CadenceInv => TypeOK
  BY DEF CadenceInv
<1> QED
  BY <1>1, CadenceInvInit, CadenceInvStep, PTL DEF Spec

(* A load replays at most as many events as the frequency says, for every  *)
(* frequency and every way of dividing the events among saves.             *)
THEOREM ReplayBoundHolds == Spec => []ReplayIsBounded
<1>1. Spec => []CadenceInv
  BY CadenceInvInit, CadenceInvStep, PTL DEF Spec
<1> QED
  BY <1>1, CadenceInvBounds, PTL

(* A save writes a snapshot exactly when it reaches a multiple. *)
THEOREM SnapshotsMarkMultiplesHolds == Spec => SnapshotsMarkMultiples
<1> DEFINE Marks == (covered' # covered) <=>
        \/ frequency <= 0
        \/ ReachesMultiple(version', version' - version, frequency)
<1>1. Spec => []CadenceInv
  BY CadenceInvInit, CadenceInvStep, PTL DEF Spec
<1>2. CadenceInv /\ [Next]_vars => [Marks]_vars
  <2> USE CadenceAssumption
  <2> SUFFICES ASSUME CadenceInv, NEW count \in 1 .. MaxBatch, Save(count)
               PROVE  Marks
    BY DEF Next
  <2>1. /\ version \in Int /\ covered \in Int /\ covered <= version
        /\ version' \in Nat /\ version' = version + count
        /\ count \in Nat \ {0} /\ frequency \in Int
    BY DEF CadenceInv, TypeOK, Save
  <2>2. (covered' # covered) <=> ShouldSnapshot(version', count, frequency)
    BY <2>1 DEF Save
  <2>3. CASE frequency <= 0
    BY <2>1, <2>2, <2>3 DEF ShouldSnapshot
  <2>4. CASE frequency > 0
    <3>1. version' - version = count
      BY <2>1
    <3> QED
      BY <2>1, <2>2, <2>4, <3>1, ConditionReachesMultiple
  <2> QED
    BY <2>1, <2>3, <2>4
<1> QED
  BY <1>1, <1>2, PTL DEF Spec, SnapshotsMarkMultiples

-----------------------------------------------------------------------------
(* Schedules *)

(* A command that commits a batch is a save of the cadence. *)
LEMMA CommandIsSave ==
  ASSUME NEW events \in Batches
  PROVE  Len(events) \in 1 .. MaxBatch
<1>1. PICK n \in 1 .. MaxBatch : events \in [1 .. n -> Event]
  BY DEF Batches
<1>2. n \in Nat /\ DOMAIN events = 1 .. n
  BY <1>1, CadenceAssumption
<1>3. events \in Seq(Event)
  BY <1>1, <1>2
<1>4. Len(events) = n
  BY <1>2, <1>3
<1> QED
  BY <1>4

(* Schedule contains the steps of the cadence, so that what is proved of   *)
(* them can be used for it.                                                *)
LEMMA ScheduleFollowsCadence == ScheduleSpec => Spec
<1>1. ScheduleInit => Init
  BY DEF ScheduleInit
<1>2. [ScheduleNext]_scheduleVars => [Next]_vars
  BY CommandIsSave DEF ScheduleNext, HandleCommand, Next, scheduleVars, vars
<1> QED
  BY <1>1, <1>2, PTL DEF ScheduleSpec, Spec

(* Loading a schedule replays at most as many events as the frequency says. *)
THEOREM ScheduleReplayIsBounded == ScheduleSpec => []ReplayIsBounded
  BY ScheduleFollowsCadence, ReplayBoundHolds, PTL

-----------------------------------------------------------------------------
(* Replaying *)

LEMMA HandleType ==
  ASSUME NEW todos \in TodoList, NEW e \in Event
  PROVE  Handle(todos, e) \in TodoList
<1>1. PICK ids \in SUBSET TodoIds : todos \in [ids -> Todo]
  BY DEF TodoList
<1>2. CASE e.type = "ScheduleCreated"
  <2>1. NoTodos \in [{} -> Todo]
    BY DEF NoTodos
  <2> QED
    BY <1>2, <2>1 DEF Handle, TodoList
<1>3. CASE e.type = "TodoCreated"
  <2>1. e.id \in TodoIds /\ e.text \in Texts
    BY <1>3 DEF Event
  <2>2. Handle(todos, e) \in [ids \cup {e.id} -> Todo]
    BY <1>1, <1>3, <2>1 DEF Handle, Todo
  <2> QED
    BY <2>1, <2>2 DEF TodoList
<1>4. CASE e.type = "TodoUpdated"
  <2>1. e.text \in Texts
    BY <1>4 DEF Event
  <2>2. Handle(todos, e) \in [ids -> Todo]
    BY <1>1, <1>4, <2>1 DEF Handle, Todo
  <2> QED
    BY <2>2 DEF TodoList
<1>5. CASE e.type = "TodoCompleted"
  <2>1. Handle(todos, e) \in [ids -> Todo]
    BY <1>1, <1>5 DEF Handle, Todo
  <2> QED
    BY <2>1 DEF TodoList
<1> QED
  BY <1>2, <1>3, <1>4, <1>5 DEF Event

HandleFcn == [p \in TodoList \X Event |-> Handle(p[1], p[2])]

LEMMA HandleFold ==
  ASSUME NEW todos \in TodoList, NEW events \in Seq(Event),
         NEW c \in [0 .. Len(events) -> TodoList], Chain(c, HandleFcn, todos, events)
  PROVE  Replay(todos, events) = c[Len(events)]
<1> DEFINE n == Len(events)
           Body(g) == [d \in SUBSET (1 .. n) |->
                        IF d = {} THEN todos ELSE Handle(g[d \ {Max(d)}], events[Max(d)])]
           iter == CHOOSE g : g = Body(g)
<1>1. n \in Nat /\ DOMAIN events = 1 .. n /\ \A i \in 1 .. n : events[i] \in Event
  OBVIOUS
<1>2. Replay(todos, events) = iter[1 .. n]
  BY <1>1 DEF Replay, FoldLeft, MapThenFoldSet
<1>3. HandleFcn \in [TodoList \X Event -> TodoList]
  BY HandleType DEF HandleFcn
<1>4. \A f \in TodoList, e \in Event : HandleFcn[<<f, e>>] = Handle(f, e)
  BY DEF HandleFcn
<1> HIDE DEF n
<1>5. \A d \in SUBSET (1 .. n) :
        d # {} => Max(d) \in 1 .. n /\ d \ {Max(d)} \in SUBSET (1 .. n)
  BY <1>1, MaxIsElement
<1>6. iter = Body(iter)
  <2>1. \A m \in 0 .. Len(events) :
          \E g \in [SUBSET (1 .. m) -> TodoList] : TakesLast(g, HandleFcn, todos, events, m)
    BY <1>3, RecursionIsDefined
  <2>2. PICK g \in [SUBSET (1 .. n) -> TodoList] : TakesLast(g, HandleFcn, todos, events, n)
    BY <1>1, <2>1 DEF n
  <2>3. \A d \in SUBSET (1 .. n) : g[d] = Body(g)[d]
    BY <1>1, <1>4, <1>5, <2>2 DEF TakesLast
  <2>4. g = Body(g)
    BY <2>3
  <2> HIDE DEF Body
  <2> QED
    BY <2>4
<1> HIDE DEF iter
<1>7. TakesLastTyped(iter, TodoList, HandleFcn, todos, events)
  <2>1. iter[{}] = todos
    BY <1>6
  <2>2. \A d \in SUBSET (1 .. n) :
          d # {} /\ iter[d \ {Max(d)}] \in TodoList =>
            iter[d] = HandleFcn[<<iter[d \ {Max(d)}], events[Max(d)]>>]
    BY <1>1, <1>4, <1>5, <1>6
  <2> QED
    BY <2>1, <2>2 DEF TakesLastTyped, n
<1>8. iter[1 .. Len(events)] = c[Len(events)]
  BY <1>1, <1>7, IntervalsFollowChain DEF n
<1> QED
  BY <1>2, <1>8 DEF n

(* The todos after each of the events, the last of which Replay gives.     *)
Replays(c, todos, events) ==
  /\ c \in [0 .. Len(events) -> TodoList]
  /\ c[0] = todos
  /\ \A k \in 1 .. Len(events) : c[k] = Handle(c[k - 1], events[k])
  /\ Replay(todos, events) = c[Len(events)]

LEMMA ReplayIsChain ==
  ASSUME NEW todos \in TodoList, NEW events \in Seq(Event)
  PROVE  \E c : Replays(c, todos, events)
<1>1. HandleFcn \in [TodoList \X Event -> TodoList]
  BY HandleType DEF HandleFcn
<1>2. PICK c \in [0 .. Len(events) -> TodoList] : Chain(c, HandleFcn, todos, events)
  BY <1>1, ChainExists
<1>3. Replay(todos, events) = c[Len(events)]
  BY <1>2, HandleFold
<1>4. ASSUME NEW k \in 1 .. Len(events) PROVE c[k] = Handle(c[k - 1], events[k])
  <2>1. c[k - 1] \in TodoList /\ events[k] \in Event
    OBVIOUS
  <2> QED
    BY <1>2, <2>1 DEF Chain, HandleFcn
<1> QED
  BY <1>2, <1>3, <1>4 DEF Replays, Chain

(* What every handler keeps, replaying keeps.                              *)
LEMMA ReplayType ==
  ASSUME NEW todos \in TodoList, NEW events \in Seq(Event)
  PROVE  Replay(todos, events) \in TodoList
<1>1. PICK c : Replays(c, todos, events)
  BY ReplayIsChain
<1>2. Len(events) \in 0 .. Len(events)
  OBVIOUS
<1> QED
  BY <1>1, <1>2 DEF Replays

-----------------------------------------------------------------------------
(* Todos that two instances have in common *)

SameTodos(a, b) ==
  /\ DOMAIN a = DOMAIN b
  /\ \A t \in DOMAIN a : a[t].text = b[t].text

NotAhead(a, b) ==
  \A t \in DOMAIN a : a[t].isCompleted => b[t].isCompleted

LEMMA HandleKeepsSame ==
  ASSUME NEW a \in TodoList, NEW b \in TodoList, NEW e \in Event, SameTodos(a, b)
  PROVE  /\ SameTodos(Handle(a, e), Handle(b, e))
         /\ NotAhead(a, b) => NotAhead(Handle(a, e), Handle(b, e))
<1>1. PICK ids \in SUBSET TodoIds : a \in [ids -> Todo] /\ b \in [ids -> Todo]
  BY DEF TodoList, SameTodos
<1>2. CASE e.type = "ScheduleCreated"
  BY <1>2 DEF Handle, SameTodos, NotAhead, NoTodos
<1>3. CASE e.type = "TodoCreated"
  BY <1>1, <1>3 DEF Handle, SameTodos, NotAhead, Todo
<1>4. CASE e.type = "TodoUpdated"
  BY <1>1, <1>4 DEF Handle, SameTodos, NotAhead, Todo
<1>5. CASE e.type = "TodoCompleted"
  BY <1>1, <1>5 DEF Handle, SameTodos, NotAhead, Todo
<1> QED
  BY <1>2, <1>3, <1>4, <1>5 DEF Event

LEMMA ReplayKeepsSame ==
  ASSUME NEW a \in TodoList, NEW b \in TodoList, NEW events \in Seq(Event), SameTodos(a, b)
  PROVE  /\ SameTodos(Replay(a, events), Replay(b, events))
         /\ NotAhead(a, b) => NotAhead(Replay(a, events), Replay(b, events))
<1> DEFINE n == Len(events)
<1>1. n \in Nat /\ \A k \in 1 .. n : events[k] \in Event
  OBVIOUS
<1>2. PICK c : Replays(c, a, events)
  BY ReplayIsChain
<1>3. PICK d : Replays(d, b, events)
  BY ReplayIsChain
<1> DEFINE Keeps(k) == /\ SameTodos(c[k], d[k])
                       /\ NotAhead(a, b) => NotAhead(c[k], d[k])
           A == {k \in Nat : k <= n => Keeps(k)}
<1>4. 0 \in A
  BY <1>2, <1>3 DEF Replays
<1>5. ASSUME NEW k \in Nat, k + 1 <= n, Keeps(k) PROVE Keeps(k + 1)
  <2>1. k + 1 \in 1 .. n /\ (k + 1) - 1 = k /\ k \in 0 .. n
    BY <1>1, <1>5
  <2>2. /\ c[k] \in TodoList /\ c[k + 1] = Handle(c[k], events[k + 1])
        /\ d[k] \in TodoList /\ d[k + 1] = Handle(d[k], events[k + 1])
    BY <1>2, <1>3, <2>1 DEF Replays
  <2>3. events[k + 1] \in Event
    BY <1>1, <2>1
  <2> QED
    BY <1>5, <2>2, <2>3, HandleKeepsSame
<1> HIDE DEF Keeps, n
<1>6. \A k \in A : k + 1 \in A
  BY <1>1, <1>5
<1>7. \A k \in Nat : k \in A
  BY <1>4, <1>6, Induction
<1>8. Keeps(n)
  BY <1>1, <1>7
<1> QED
  BY <1>2, <1>3, <1>8 DEF Keeps, n, Replays

-----------------------------------------------------------------------------
(* What a batch of legal calls completes *)

AllCompleted(todos, ids) ==
  ids \subseteq DOMAIN todos /\ \A t \in ids : todos[t].isCompleted

CompletedUpTo(events, k) ==
  {t \in TodoIds : \E i \in 1 .. k :
                     events[i].type = "TodoCompleted" /\ events[i].id = t}

(* The todos that are known before the next event are those that replaying *)
(* has made, and what was completed stays so: no event makes it again.     *)
LEMMA HandleCompletes ==
  ASSUME NEW a \in TodoList, NEW todos, NEW events \in Seq(Event), NEW k \in Nat,
         k + 1 <= Len(events), version \in Int, version >= -1, CanBeMade(todos, events),
         NEW done, version = -1 => todos = NoTodos /\ done = {},
         DOMAIN a = KnownBefore(todos, events, k + 1),
         AllCompleted(a, done \cup CompletedUpTo(events, k))
  PROVE  /\ DOMAIN Handle(a, events[k + 1]) = KnownBefore(todos, events, k + 2)
         /\ AllCompleted(Handle(a, events[k + 1]), done \cup CompletedUpTo(events, k + 1))
<1> DEFINE e == events[k + 1]
<1>1. /\ k + 1 \in DOMAIN events /\ e \in Event
      /\ e.type = "ScheduleCreated" <=> version + (k + 1) = 0
      /\ e.type = "TodoCreated" => e.id \notin KnownBefore(todos, events, k + 1)
      /\ e.type = "TodoUpdated" => e.id \in KnownBefore(todos, events, k + 1)
      /\ e.type = "TodoCompleted" => e.id \in KnownBefore(todos, events, k + 1) \cup {UnknownId}
  BY DEF CanBeMade
<1>2. 1 .. k + 1 = 1 .. k \cup {k + 1} /\ (k + 2) - 1 = k + 1 /\ (k + 1) - 1 = k
  OBVIOUS
<1>3. KnownBefore(todos, events, k + 2) =
        KnownBefore(todos, events, k + 1)
          \cup IF e.type = "TodoCreated" THEN {e.id} ELSE {}
  BY <1>2 DEF KnownBefore
<1>4. CompletedUpTo(events, k + 1) =
        CompletedUpTo(events, k)
          \cup IF e.type = "TodoCompleted" THEN {e.id} \cap TodoIds ELSE {}
  BY <1>2 DEF CompletedUpTo
<1>5. PICK ids \in SUBSET TodoIds : a \in [ids -> Todo]
  BY DEF TodoList
<1> HIDE DEF e
<1>6. CASE e.type = "ScheduleCreated"
  <2>1. version = -1 /\ k = 0
    BY <1>1, <1>6
  <2>2. /\ CompletedUpTo(events, k) = {} /\ done = {}
        /\ KnownBefore(todos, events, k + 1) = {}
    BY <2>1 DEF CompletedUpTo, KnownBefore, NoTodos
  <2>3. Handle(a, e) = NoTodos /\ DOMAIN NoTodos = {}
    BY <1>6 DEF Handle, NoTodos
  <2> QED
    BY <1>3, <1>4, <1>6, <2>2, <2>3 DEF AllCompleted, e
<1>7. CASE e.type = "TodoCreated"
  BY <1>1, <1>3, <1>4, <1>5, <1>7 DEF Handle, AllCompleted, e
<1>8. CASE e.type = "TodoUpdated"
  BY <1>1, <1>3, <1>4, <1>5, <1>8 DEF Handle, AllCompleted, Todo, e
<1>9. CASE e.type = "TodoCompleted"
  <2>1. e.id \in TodoIds => e.id \in ids
    BY <1>1, <1>5, <1>9, ScheduleAssumption
  <2> QED
    BY <1>1, <1>3, <1>4, <1>5, <1>9, <2>1 DEF Handle, AllCompleted, Todo, e
<1> QED
  BY <1>1, <1>6, <1>7, <1>8, <1>9 DEF Event

LEMMA ReplayCompletes ==
  ASSUME NEW todos \in TodoList, NEW events \in Seq(Event),
         version \in Int, version >= -1, CanBeMade(todos, events),
         NEW done, version = -1 => todos = NoTodos /\ done = {},
         AllCompleted(todos, done)
  PROVE  AllCompleted(Replay(todos, events), done \cup CompletedBy(events))
<1> DEFINE n == Len(events)
<1>1. n \in Nat /\ DOMAIN events = 1 .. n
  OBVIOUS
<1>2. PICK c : Replays(c, todos, events)
  BY ReplayIsChain
<1> DEFINE Completes(k) == /\ DOMAIN c[k] = KnownBefore(todos, events, k + 1)
                           /\ AllCompleted(c[k], done \cup CompletedUpTo(events, k))
           A == {k \in Nat : k <= n => Completes(k)}
<1>3. 0 \in A
  <2>1. 1 .. 0 = {} /\ (0 + 1) - 1 = 0
    OBVIOUS
  <2>2. CompletedUpTo(events, 0) = {} /\ KnownBefore(todos, events, 0 + 1) = DOMAIN todos
    BY <2>1 DEF CompletedUpTo, KnownBefore
  <2>3. c[0] = todos /\ done \cup {} = done
    BY <1>2 DEF Replays
  <2> QED
    BY <2>2, <2>3
<1>4. ASSUME NEW k \in Nat, k + 1 <= n, Completes(k) PROVE Completes(k + 1)
  <2>1. k + 1 \in 1 .. n /\ (k + 1) - 1 = k /\ k \in 0 .. n /\ (k + 1) + 1 = k + 2
    BY <1>1, <1>4
  <2>2. c[k] \in TodoList /\ c[k + 1] = Handle(c[k], events[k + 1])
    BY <1>2, <2>1 DEF Replays
  <2>3. k + 1 <= Len(events)
    BY <1>4
  <2>4. /\ DOMAIN c[k] = KnownBefore(todos, events, k + 1)
        /\ AllCompleted(c[k], done \cup CompletedUpTo(events, k))
    BY <1>4
  <2> HIDE DEF n
  <2>5. /\ DOMAIN Handle(c[k], events[k + 1]) = KnownBefore(todos, events, k + 2)
        /\ AllCompleted(Handle(c[k], events[k + 1]), done \cup CompletedUpTo(events, k + 1))
    BY <2>2, <2>3, <2>4, HandleCompletes
  <2> QED
    BY <2>1, <2>2, <2>5
<1> HIDE DEF Completes, n
<1>5. \A k \in A : k + 1 \in A
  BY <1>1, <1>4
<1>6. \A k \in Nat : k \in A
  BY <1>3, <1>5, Induction
<1>7. Completes(n)
  BY <1>1, <1>6
<1>8. CompletedBy(events) = CompletedUpTo(events, n)
  BY <1>1 DEF CompletedBy, CompletedUpTo
<1> QED
  BY <1>2, <1>7, <1>8 DEF Completes, n, Replays

-----------------------------------------------------------------------------
(* Saving and loading *)

(* The shape of the schedules and of what is stored of them. *)
ScheduleTypeOK ==
  /\ TypeOK
  /\ {item, stored, replayed, loaded} \subseteq TodoList
  /\ completedSince \subseteq TodoIds

(* The inductive invariant: the three versions of a schedule have the same *)
(* todos, a load is not ahead of the events, and what was completed since  *)
(* the snapshot is completed in a load.  Before the first save there are   *)
(* no todos, as the constructor's event makes the list anew.               *)
ScheduleInv ==
  /\ ScheduleTypeOK
  /\ version = -1 => /\ item = NoTodos /\ loaded = NoTodos
                     /\ completedSince = {}
  /\ SameTodos(item, replayed) /\ SameTodos(loaded, replayed)
  /\ NotAhead(loaded, replayed)
  /\ AllCompleted(loaded, completedSince)

LEMMA ScheduleInvInit == ScheduleInit => ScheduleInv
<1>1. NoTodos \in TodoList /\ DOMAIN NoTodos = {}
  <2>1. NoTodos \in [{} -> Todo]
    BY DEF NoTodos
  <2> QED
    BY <2>1 DEF TodoList
<1> QED
  BY <1>1, CadenceInvInit DEF ScheduleInit, ScheduleInv, ScheduleTypeOK, CadenceInv,
    SameTodos, NotAhead, AllCompleted

(* Two instances with the same todos allow the same calls. *)
LEMMA SameCallsCanBeMade ==
  ASSUME NEW a, NEW b, SameTodos(a, b), NEW events, CanBeMade(a, events)
  PROVE  CanBeMade(b, events)
  BY DEF SameTodos, CanBeMade, KnownBefore

LEMMA ScheduleInvCommand ==
  ASSUME ScheduleInv, NEW instance \in {item, loaded}, NEW events \in Batches,
         HandleCommand(instance, events)
  PROVE  ScheduleInv'
<1> DEFINE due == ShouldSnapshot(version + Len(events), Len(events), frequency)
<1>1. /\ CanBeMade(instance, events) /\ Save(Len(events))
      /\ item' = Replay(instance, events) /\ replayed' = Replay(replayed, events)
      /\ stored' = IF due THEN TakeSnapshot(item') ELSE stored
      /\ loaded' = IF due THEN ApplySnapshot(stored') ELSE Replay(loaded, events)
      /\ completedSince' = IF due THEN {} ELSE completedSince \cup CompletedBy(events)
  BY DEF HandleCommand
<1> HIDE DEF due
<1>2. /\ events \in Seq(Event)
      /\ Len(events) \in 1 .. MaxBatch
  <2>1. PICK n \in 1 .. MaxBatch : events \in [1 .. n -> Event]
    BY DEF Batches
  <2>2. n \in Nat
    BY <2>1, CadenceAssumption
  <2> QED
    BY <2>1, <2>2, CommandIsSave
<1>3. /\ {item, loaded, replayed, instance, stored} \subseteq TodoList
      /\ completedSince \subseteq TodoIds
      /\ version \in Int /\ version >= -1
  BY DEF ScheduleInv, ScheduleTypeOK, TypeOK
<1>4. /\ SameTodos(instance, replayed) /\ SameTodos(loaded, replayed)
      /\ SameTodos(instance, loaded)
  BY DEF ScheduleInv, SameTodos
<1>5. version' # -1 /\ version' \in Int
  <2>1. version' = version + Len(events)
    BY <1>1 DEF Save
  <2> QED
    BY <1>2, <1>3, <2>1
<1>6. /\ item' \in TodoList /\ replayed' \in TodoList
      /\ SameTodos(item', replayed')
  BY <1>1, <1>2, <1>3, <1>4, ReplayType, ReplayKeepsSame
<1>7. TypeOK'
  <2>1. /\ version + Len(events) <= MaxVersion /\ version' = version + Len(events)
        /\ covered' \in {covered, version'} /\ frequency' = frequency
    BY <1>1 DEF Save
  <2>2. /\ frequency \in Frequencies /\ covered \in Int /\ covered >= -1
        /\ covered <= version /\ MaxVersion \in Nat /\ Len(events) \in Nat
    BY <1>2, CadenceAssumption DEF ScheduleInv, ScheduleTypeOK, TypeOK
  <2> QED
    BY <1>3, <2>1, <2>2 DEF TypeOK
<1>8. CASE due
  <2>1. loaded' = ApplySnapshot(item') /\ stored' = item' /\ completedSince' = {}
    BY <1>1, <1>8 DEF TakeSnapshot
  <2>2. PICK ids \in SUBSET TodoIds : item' \in [ids -> Todo]
    BY <1>6 DEF TodoList
  <2>3. loaded' \in [ids -> Todo] /\ \A t \in ids : /\ loaded'[t].text = item'[t].text
                                                   /\ ~ loaded'[t].isCompleted
    BY <2>1, <2>2 DEF ApplySnapshot, Todo
  <2>4. loaded' \in TodoList /\ stored' \in TodoList
    BY <1>6, <2>1, <2>3 DEF TodoList
  <2>5. SameTodos(loaded', replayed') /\ NotAhead(loaded', replayed')
    BY <1>6, <2>2, <2>3 DEF SameTodos, NotAhead
  <2>6. ScheduleTypeOK'
    BY <1>6, <1>7, <2>1, <2>4 DEF ScheduleTypeOK
  <2> QED
    BY <1>5, <1>6, <2>1, <2>5, <2>6 DEF ScheduleInv, AllCompleted
<1>9. CASE ~ due
  <2>1. /\ loaded' = Replay(loaded, events) /\ stored' = stored
        /\ completedSince' = completedSince \cup CompletedBy(events)
    BY <1>1, <1>9
  <2>2. loaded' \in TodoList
    BY <1>2, <1>3, <2>1, ReplayType
  <2>3. SameTodos(loaded', replayed') /\ NotAhead(loaded', replayed')
    <3>1. NotAhead(loaded, replayed)
      BY DEF ScheduleInv
    <3> QED
      BY <1>1, <1>2, <1>3, <1>4, <2>1, <3>1, ReplayKeepsSame
  <2>4. AllCompleted(loaded', completedSince')
    <3>1. CanBeMade(loaded, events)
      BY <1>1, <1>4, SameCallsCanBeMade DEF SameTodos
    <3>2. /\ version = -1 => loaded = NoTodos /\ completedSince = {}
          /\ AllCompleted(loaded, completedSince)
      BY DEF ScheduleInv
    <3> QED
      BY <1>2, <1>3, <2>1, <3>1, <3>2, ReplayCompletes
  <2>5. ScheduleTypeOK'
    BY <1>3, <1>6, <1>7, <2>1, <2>2 DEF ScheduleTypeOK, CompletedBy
  <2> QED
    BY <1>5, <1>6, <2>3, <2>4, <2>5 DEF ScheduleInv
<1> QED
  BY <1>8, <1>9

LEMMA ScheduleInvStep == ScheduleInv /\ [ScheduleNext]_scheduleVars => ScheduleInv'
<1> SUFFICES ASSUME ScheduleInv, [ScheduleNext]_scheduleVars PROVE ScheduleInv'
  OBVIOUS
<1>1. CASE ScheduleNext
  BY <1>1, ScheduleInvCommand DEF ScheduleNext
<1>2. CASE UNCHANGED scheduleVars
  BY <1>2 DEF scheduleVars, vars, ScheduleInv, ScheduleTypeOK, TypeOK,
    SameTodos, NotAhead, AllCompleted
<1> QED
  BY <1>1, <1>2

LEMMA ScheduleInvariant == ScheduleSpec => []ScheduleInv
  BY ScheduleInvInit, ScheduleInvStep, PTL DEF ScheduleSpec

(* Whatever the batches, the frequency and the snapshots, a load and a kept *)
(* instance have the todos and the texts that all the events make.         *)
THEOREM LoadsKeepTodosAndTextsHolds == ScheduleSpec => []LoadsKeepTodosAndTexts
<1>1. ScheduleInv => LoadsKeepTodosAndTexts
  BY DEF ScheduleInv, SameTodos, LoadsKeepTodosAndTexts
<1> QED
  BY <1>1, ScheduleInvariant, PTL

(* A load is never ahead of the events, and the completions it has lost are *)
(* all older than the snapshot it starts from.                             *)
THEOREM OnlyOldCompletionsAreLostHolds == ScheduleSpec => []OnlyOldCompletionsAreLost
<1>1. ScheduleInv => OnlyOldCompletionsAreLost
  BY DEF ScheduleInv, SameTodos, NotAhead, AllCompleted, OnlyOldCompletionsAreLost
<1> QED
  BY <1>1, ScheduleInvariant, PTL
=============================================================================
