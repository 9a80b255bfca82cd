-------------------------- MODULE RepositoryProofs --------------------------
(***************************************************************************)
(* The safety properties of Repository, proved for any number of scopes,   *)
(* any snapshot frequency, any bound and any set of faults.                *)
(*                                                                         *)
(* What it promises of histories and of publishing is proved for a store   *)
(* that compares versions and for scopes that await their saves.           *)
(* HistoryInv is shown to be inductive action by action.  A step of one    *)
(* scope leaves what is said of the others alone (Bystander); what is left *)
(* is what it does to the stores and to its own scope.  At the end         *)
(* Repository is shown to implement EventLog.                              *)
(***************************************************************************)
EXTENDS RepositoryInvariant, TLAPS

-----------------------------------------------------------------------------
(* Type correctness *)

(* The events after a version are events, and there are none missing. *)
LEMMA EventsAfterType ==
  ASSUME stream \in Seq(Event), NEW s \in Snapshot
  PROVE  /\ EventsAfter(s) \in Seq(Event)
         /\ s.version + Len(EventsAfter(s)) \in Versions
         /\ Len(EventsAfter(s)) =
              IF s.version + 1 <= Len(stream) THEN Len(stream) - s.version - 1 ELSE 0
         /\ \A i \in 1 .. Len(EventsAfter(s)) :
              EventsAfter(s)[i] = stream[s.version + 1 + i]
<1> DEFINE v == s.version
<1>1. v \in Int /\ v >= -1
  BY DEF Snapshot, Versions, NoStream
<1>2. EventsAfter(s) = SubSeq(stream, v + 2, Len(stream))
  BY DEF EventsAfter
<1> HIDE DEF v
<1>3. EventsAfter(s) \in Seq(Event)
  BY <1>1, <1>2
<1>4. Len(EventsAfter(s)) = IF v + 1 <= Len(stream) THEN Len(stream) - v - 1 ELSE 0
  BY <1>1, <1>2
<1>5. \A i \in 1 .. Len(EventsAfter(s)) : EventsAfter(s)[i] = stream[v + 1 + i]
  BY <1>1, <1>2
<1>6. v + Len(EventsAfter(s)) \in Versions
  BY <1>1, <1>3 DEF Versions, NoStream
<1> QED
  BY <1>3, <1>4, <1>5, <1>6 DEF v

LEMMA NoSnapshotType == NoSnapshot \in Snapshot
  BY DEF NoSnapshot, Snapshot, Versions, NoStream

LEMMA NewInstanceType == NewInstance \in Aggregate
  BY DEF NewInstance, Aggregate, Versions, NoStream

LEMMA TypeInit == Init => TypeOK
  BY NoSnapshotType, NewInstanceType DEF Init, TypeOK

LEMMA TypeCreate == ASSUME TypeOK, NEW c \in Scopes, Create(c) PROVE TypeOK'
  BY DEF TypeOK, Create, stores, locals

LEMMA TypeReadSnapshot == ASSUME TypeOK, NEW c \in Scopes, ReadSnapshot(c) PROVE TypeOK'
  BY DEF TypeOK, ReadSnapshot, stores

LEMMA TypeReadEvents == ASSUME TypeOK, NEW c \in Scopes, ReadEvents(c) PROVE TypeOK'
<1> DEFINE events == EventsAfter(found[c])
           version == found[c].version + Len(events)
           loaded == [cv |-> version, lcv |-> version,
                      applied |-> found[c].applied \o events, uncommitted |-> <<>>]
<1>1. found[c] \in Snapshot /\ stream \in Seq(Event)
  BY DEF TypeOK
<1>2. events \in Seq(Event) /\ version \in Versions
  BY <1>1, EventsAfterType
<1>3. loaded \in Aggregate
  BY <1>1, <1>2 DEF Snapshot, Aggregate
<1>4. agg' = [agg EXCEPT ![c] = loaded]
  BY DEF ReadEvents
<1> QED
  BY <1>3, <1>4, NoSnapshotType DEF TypeOK, ReadEvents, stores

LEMMA TypeLoadFails == ASSUME TypeOK, NEW c \in Scopes, LoadFails(c) PROVE TypeOK'
  BY NoSnapshotType DEF TypeOK, LoadFails, stores, Exceptions

LEMMA TypeApplyEvent == ASSUME TypeOK, NEW c \in Scopes, ApplyEvent(c) PROVE TypeOK'
<1> DEFINE event == [by |-> c, target |-> agg[c].cv]
           changed == [agg[c] EXCEPT !.cv = @ + 1, !.applied = Append(@, event),
                                     !.uncommitted = Append(@, event)]
<1>1. agg[c] \in Aggregate
  BY DEF TypeOK
<1>2. event \in Event /\ agg[c].cv + 1 \in Versions
  BY <1>1 DEF Event, Aggregate, Versions, NoStream
<1>3. changed \in Aggregate
  <2>1. Append(agg[c].applied, event) \in Seq(Event)
        /\ Append(agg[c].uncommitted, event) \in Seq(Event)
    BY <1>1, <1>2 DEF Aggregate
  <2> HIDE DEF event
  <2> QED
    BY <1>1, <1>2, <2>1 DEF Aggregate
<1>4. agg' = [agg EXCEPT ![c] = changed]
  BY <1>1 DEF ApplyEvent, TypeOK, Aggregate
<1> QED
  BY <1>3, <1>4 DEF TypeOK, ApplyEvent, stores, locals

LEMMA TypeThrow ==
  ASSUME TypeOK, NEW c \in Scopes, NEW exception \in Exceptions, Throw(c, exception),
         (stream \in Seq(Event))', (inflight \subseteq Seq(Event))',
         (snapshot \in Snapshot)', (published \in Seq(Event))'
  PROVE  TypeOK'
  BY DEF TypeOK, Throw

LEMMA TypePassCheck == ASSUME TypeOK, NEW c \in Scopes, PassCheck(c) PROVE TypeOK'
  BY DEF TypeOK, PassCheck, stores, Saving, Aggregate

LEMMA TypeFailCheck == ASSUME TypeOK, NEW c \in Scopes, FailCheck(c) PROVE TypeOK'
<1>1. UNCHANGED stores
  BY DEF FailCheck
<1>2. PICK exception \in Exceptions : Throw(c, exception)
  BY DEF FailCheck, Exceptions, Conflicts
<1> QED
  BY <1>1, <1>2, TypeThrow DEF TypeOK, stores

LEMMA TypeAppendEvents == ASSUME TypeOK, NEW c \in Scopes, AppendEvents(c) PROVE TypeOK'
  BY DEF TypeOK, AppendEvents, Saving, locals

LEMMA TypeRejectEvents == ASSUME TypeOK, NEW c \in Scopes, RejectEvents(c) PROVE TypeOK'
  BY TypeThrow DEF TypeOK, RejectEvents, stores, Exceptions, Conflicts

LEMMA TypeAppendTimesOut == ASSUME TypeOK, NEW c \in Scopes, AppendTimesOut(c) PROVE TypeOK'
  BY TypeThrow DEF TypeOK, AppendTimesOut, Exceptions

LEMMA TypeLateAppend == ASSUME TypeOK, LateAppend PROVE TypeOK'
  BY DEF TypeOK, LateAppend, locals

LEMMA NextToSend ==
  ASSUME TypeOK, NEW c \in Scopes, sent[c] < Len(batch[c])
  PROVE  /\ sent[c] + 1 \in 1 .. Len(batch[c])
         /\ batch[c][sent[c] + 1] \in Event
         /\ Append(published, batch[c][sent[c] + 1]) \in Seq(Event)
<1>1. sent[c] \in Nat /\ batch[c] \in Seq(Event) /\ published \in Seq(Event)
  BY DEF TypeOK
<1> QED
  BY <1>1

LEMMA TypePublishNext == ASSUME TypeOK, NEW c \in Scopes, PublishNext(c) PROVE TypeOK'
<1>1. published' \in Seq(Event) /\ sent[c] + 1 \in Nat
  BY NextToSend DEF PublishNext, TypeOK
<1> QED
  BY <1>1 DEF TypeOK, PublishNext

LEMMA TypePublishFails == ASSUME TypeOK, NEW c \in Scopes, PublishFails(c) PROVE TypeOK'
<1>1. published' \in Seq(Event)
  BY NextToSend DEF PublishFails, TypeOK
<1> QED
  BY <1>1, TypeThrow DEF TypeOK, PublishFails, Exceptions

LEMMA TypeTakeSnapshot == ASSUME TypeOK, NEW c \in Scopes PROVE TakeSnapshot(c) \in Snapshot
  BY DEF TypeOK, TakeSnapshot, Snapshot, Aggregate

LEMMA TypeSaveSnapshot == ASSUME TypeOK, NEW c \in Scopes, SaveSnapshot(c) PROVE TypeOK'
  BY TypeTakeSnapshot DEF TypeOK, SaveSnapshot, Saving, locals

LEMMA TypeSnapshotFails == ASSUME TypeOK, NEW c \in Scopes, SnapshotFails(c) PROVE TypeOK'
  BY TypeTakeSnapshot, TypeThrow DEF TypeOK, SnapshotFails, Exceptions

LEMMA TypeMarkChangesAsCommitted ==
  ASSUME TypeOK, NEW c \in Scopes, MarkChangesAsCommitted(c) PROVE TypeOK'
<1> DEFINE marked == [agg[c] EXCEPT !.lcv = agg[c].cv, !.uncommitted = <<>>]
<1>1. marked \in Aggregate
  <2>1. agg[c] \in Aggregate /\ <<>> \in Seq(Event)
    BY DEF TypeOK
  <2> QED
    BY <2>1 DEF Aggregate
<1>2. agg' = [agg EXCEPT ![c] = marked]
  BY DEF MarkChangesAsCommitted, TypeOK, Aggregate
<1> QED
  BY <1>1, <1>2 DEF TypeOK, MarkChangesAsCommitted, stores

LEMMA TypeLeave == ASSUME TypeOK, NEW c \in Scopes, Leave(c) PROVE TypeOK'
  BY NoSnapshotType DEF TypeOK, Leave, stores

LEMMA TypeStep == TypeOK /\ [Next]_vars => TypeOK'
<1> SUFFICES ASSUME TypeOK, [Next]_vars PROVE TypeOK'
  OBVIOUS
<1>1. CASE UNCHANGED vars
  BY <1>1 DEF TypeOK, vars, stores, locals
<1>2. CASE LateAppend
  BY <1>2, TypeLateAppend
<1>3. ASSUME NEW c \in Scopes, Step(c) PROVE TypeOK'
  BY <1>3, TypeCreate, TypeReadSnapshot, TypeReadEvents, TypeLoadFails,
     TypeApplyEvent, TypePassCheck, TypeFailCheck, TypeAppendEvents,
     TypeRejectEvents, TypeAppendTimesOut, TypePublishNext, TypePublishFails,
     TypeSaveSnapshot, TypeSnapshotFails, TypeMarkChangesAsCommitted, TypeLeave
     DEF Step, Load, Save, Fault
<1> QED
  BY <1>1, <1>2, <1>3 DEF Next

(* Whatever the stores, the scopes and their faults do, the state keeps    *)
(* its shape.                                                              *)
THEOREM TypeCorrect == Spec => []TypeOK
  BY TypeInit, TypeStep, PTL DEF Spec

-----------------------------------------------------------------------------
(* Contiguity, for a store that compares versions *)

(* A run that starts at the version of the stream continues it. *)
LEMMA RunContinuesStream ==
  ASSUME stream \in Seq(Event), NEW events \in Seq(Event),
         VersionsAreContiguous, IsRun(events),
         Head(events).target = Len(stream) - 1
  PROVE  \A i \in DOMAIN (stream \o events) : (stream \o events)[i].target = i - 2
<1>1. \A i \in 1 .. Len(events) : events[i].target = Head(events).target + i - 1
  BY DEF IsRun, CanReplay
<1>2. \A i \in 1 .. Len(events) : events[i].target = Len(stream) + i - 2
  BY <1>1
<1>3. /\ DOMAIN (stream \o events) = 1 .. Len(stream) + Len(events)
      /\ \A i \in 1 .. Len(stream) : (stream \o events)[i] = stream[i]
      /\ \A i \in Len(stream) + 1 .. Len(stream) + Len(events) :
           (stream \o events)[i] = events[i - Len(stream)]
  OBVIOUS
<1>4. \A i \in Len(stream) + 1 .. Len(stream) + Len(events) :
        i - Len(stream) \in 1 .. Len(events)
  OBVIOUS
<1>5. \A i \in 1 .. Len(stream) : (stream \o events)[i].target = i - 2
  BY <1>3 DEF VersionsAreContiguous
<1>6. \A i \in Len(stream) + 1 .. Len(stream) + Len(events) :
        (stream \o events)[i].target = i - 2
  BY <1>2, <1>3, <1>4
<1> QED
  BY <1>3, <1>5, <1>6

(* Steps that write no event and begin no append. *)
LEMMA ContiguityFrame ==
  ASSUME ContiguityInv, TypeOK', stream' = stream, inflight' = inflight, agg' = agg,
         \A c \in Scopes : pc'[c] = "appending" =>
           pc[c] = "appending" /\ batch'[c] = batch[c]
  PROVE  ContiguityInv'
  BY DEF ContiguityInv, VersionsAreContiguous, ChangesLeadToVersion,
         RequestsAreRuns, IsRun, CanReplay

LEMMA ContiguityInit == Init => ContiguityInv
<1> SUFFICES ASSUME Init PROVE ContiguityInv
  OBVIOUS
<1>1. VersionsAreContiguous
  BY DEF Init, VersionsAreContiguous
<1>2. ChangesLeadToVersion
  BY DEF Init, ChangesLeadToVersion, NewInstance, CanReplay
<1>3. RequestsAreRuns
  BY DEF Init, RequestsAreRuns
<1> QED
  BY <1>1, <1>2, <1>3, TypeInit DEF ContiguityInv

LEMMA ContiguityReadEvents ==
  ASSUME ContiguityInv, TypeOK', NEW c \in Scopes, ReadEvents(c)
  PROVE  ContiguityInv'
<1> USE DEF ContiguityInv
<1>1. agg'[c].uncommitted = <<>> /\ \A d \in Scopes \ {c} : agg'[d] = agg[d]
  BY DEF ReadEvents, TypeOK
<1>2. ChangesLeadToVersion'
  BY <1>1 DEF ChangesLeadToVersion, CanReplay
<1>3. RequestsAreRuns'
  BY DEF ReadEvents, TypeOK, RequestsAreRuns, IsRun, CanReplay, stores
<1>4. VersionsAreContiguous'
  BY DEF ReadEvents, VersionsAreContiguous, stores
<1> QED
  BY <1>2, <1>3, <1>4

LEMMA ContiguityApplyEvent ==
  ASSUME ContiguityInv, TypeOK', NEW c \in Scopes, ApplyEvent(c)
  PROVE  ContiguityInv'
<1> USE DEF ContiguityInv
<1> DEFINE event == [by |-> c, target |-> agg[c].cv]
           changes == agg[c].uncommitted
<1>1. /\ agg'[c].cv = agg[c].cv + 1
      /\ agg'[c].uncommitted = Append(changes, event)
      /\ \A d \in Scopes \ {c} : agg'[d] = agg[d]
  BY DEF ApplyEvent, TypeOK, Aggregate
<1>2. changes \in Seq(Event) /\ agg[c].cv \in Int
  BY DEF TypeOK, Aggregate, Versions, NoStream
<1>3. CanReplay(agg[c].cv - Len(changes), changes)
  BY DEF ChangesLeadToVersion
<1>4. CanReplay(agg'[c].cv - Len(agg'[c].uncommitted), agg'[c].uncommitted)
  <2>1. Len(agg'[c].uncommitted) = Len(changes) + 1
    BY <1>1, <1>2
  <2>2. \A i \in 1 .. Len(changes) + 1 :
          agg'[c].uncommitted[i] = IF i = Len(changes) + 1 THEN event ELSE changes[i]
    BY <1>1, <1>2
  <2>3. \A i \in 1 .. Len(changes) : changes[i].target = agg[c].cv - Len(changes) + i - 1
    BY <1>2, <1>3 DEF CanReplay
  <2>4. Len(changes) \in Nat /\ event.target = agg[c].cv
    BY <1>2
  <2> HIDE DEF event, changes
  <2>5. \A i \in 1 .. Len(changes) + 1 :
          agg'[c].uncommitted[i].target = agg[c].cv - Len(changes) + i - 1
    <3> TAKE i \in 1 .. Len(changes) + 1
    <3>1. CASE i = Len(changes) + 1
      <4>1. agg'[c].uncommitted[i] = event
        BY <2>2, <3>1
      <4>2. agg[c].cv = agg[c].cv - Len(changes) + i - 1
        BY <1>2, <2>4, <3>1
      <4> QED
        BY <2>4, <4>1, <4>2
    <3>2. CASE i # Len(changes) + 1
      <4>1. i \in 1 .. Len(changes)
        BY <2>4, <3>2
      <4> QED
        BY <2>2, <2>3, <3>2, <4>1
    <3> QED
      BY <3>1, <3>2
  <2>6. DOMAIN agg'[c].uncommitted = 1 .. Len(changes) + 1
    <3>1. event \in Event
      BY DEF event, Event, TypeOK, Aggregate
    <3> QED
      BY <1>1, <1>2, <3>1
  <2>7. agg'[c].cv - Len(agg'[c].uncommitted) = agg[c].cv - Len(changes)
    BY <1>1, <1>2, <2>1, <2>4
  <2> QED
    BY <2>5, <2>6, <2>7 DEF CanReplay
<1>5. ChangesLeadToVersion'
  BY <1>1, <1>4 DEF ChangesLeadToVersion, CanReplay
<1>6. RequestsAreRuns'
  BY DEF ApplyEvent, RequestsAreRuns, IsRun, CanReplay, stores, locals
<1>7. VersionsAreContiguous'
  BY DEF ApplyEvent, VersionsAreContiguous, stores
<1> QED
  BY <1>5, <1>6, <1>7

LEMMA ContiguityPassCheck ==
  ASSUME ContiguityInv, TypeOK', NEW c \in Scopes, PassCheck(c)
  PROVE  ContiguityInv'
<1> USE DEF ContiguityInv
<1>1. batch'[c] = agg[c].uncommitted /\ agg[c].uncommitted # <<>>
  BY DEF PassCheck, BeginsSave, TypeOK
<1>2. \A d \in Scopes \ {c} : pc'[d] = pc[d] /\ batch'[d] = batch[d]
  BY DEF PassCheck, TypeOK
<1>3. IsRun(batch'[c])
  <2>1. CanReplay(agg[c].cv - Len(agg[c].uncommitted), agg[c].uncommitted)
    BY DEF ChangesLeadToVersion
  <2>2. agg[c].uncommitted \in Seq(Event) /\ agg[c].cv \in Int
    BY DEF TypeOK, Aggregate, Versions, NoStream
  <2>3. Head(agg[c].uncommitted).target = agg[c].cv - Len(agg[c].uncommitted)
    BY <1>1, <2>1, <2>2 DEF CanReplay
  <2> QED
    BY <1>1, <2>1, <2>3 DEF IsRun
<1>4. RequestsAreRuns'
  BY <1>2, <1>3 DEF PassCheck, RequestsAreRuns, IsRun, CanReplay, stores
<1>5. ChangesLeadToVersion' /\ VersionsAreContiguous'
  BY DEF PassCheck, ChangesLeadToVersion, VersionsAreContiguous, CanReplay, stores
<1> QED
  BY <1>4, <1>5

LEMMA ContiguityAppendEvents ==
  ASSUME AppendChecksVersion, ContiguityInv, TypeOK', NEW c \in Scopes, AppendEvents(c)
  PROVE  ContiguityInv'
<1> USE DEF ContiguityInv
<1>1. batch[c] \in Seq(Event) /\ stream \in Seq(Event)
  BY DEF TypeOK
<1>2. IsRun(batch[c])
  BY DEF AppendEvents, RequestsAreRuns
<1>3. VersionsAreContiguous'
  <2>1. CASE Accepts(batch[c])
    <3>1. stream' = stream \o batch[c] /\ Head(batch[c]).target = Len(stream) - 1
      BY <2>1 DEF AppendEvents, Accepts
    <3> QED
      BY <1>1, <1>2, <3>1, RunContinuesStream DEF VersionsAreContiguous
  <2>2. CASE ~ Accepts(batch[c])
    BY <2>2 DEF AppendEvents, VersionsAreContiguous
  <2> QED
    BY <2>1, <2>2
<1>4. ChangesLeadToVersion' /\ RequestsAreRuns'
  BY DEF AppendEvents, TypeOK, ChangesLeadToVersion, RequestsAreRuns, IsRun,
         CanReplay, locals
<1> QED
  BY <1>3, <1>4

LEMMA ContiguityAppendTimesOut ==
  ASSUME ContiguityInv, TypeOK', NEW c \in Scopes, AppendTimesOut(c)
  PROVE  ContiguityInv'
<1> USE DEF ContiguityInv
<1>1. IsRun(batch[c])
  BY DEF AppendTimesOut, RequestsAreRuns
<1>2. RequestsAreRuns'
  BY <1>1 DEF AppendTimesOut, Throw, TypeOK, RequestsAreRuns, IsRun, CanReplay
<1>3. ChangesLeadToVersion' /\ VersionsAreContiguous'
  BY DEF AppendTimesOut, Throw, ChangesLeadToVersion, VersionsAreContiguous, CanReplay
<1> QED
  BY <1>2, <1>3

LEMMA ContiguityLateAppend ==
  ASSUME AppendChecksVersion, ContiguityInv, TypeOK', LateAppend
  PROVE  ContiguityInv'
<1> USE DEF ContiguityInv
<1>1. PICK events \in inflight : /\ Accepts(events)
                                 /\ stream' = stream \o events
                                 /\ inflight' = inflight \ {events}
  BY DEF LateAppend
<1>2. events \in Seq(Event) /\ stream \in Seq(Event) /\ IsRun(events)
  BY DEF TypeOK, RequestsAreRuns
<1>3. VersionsAreContiguous'
  BY <1>1, <1>2, RunContinuesStream DEF Accepts, VersionsAreContiguous
<1>4. ChangesLeadToVersion' /\ RequestsAreRuns'
  BY <1>1 DEF LateAppend, ChangesLeadToVersion, RequestsAreRuns, IsRun, CanReplay, locals
<1> QED
  BY <1>3, <1>4

LEMMA ContiguityMarkChangesAsCommitted ==
  ASSUME ContiguityInv, TypeOK', NEW c \in Scopes, MarkChangesAsCommitted(c)
  PROVE  ContiguityInv'
<1> USE DEF ContiguityInv
<1>1. agg'[c].uncommitted = <<>> /\ \A d \in Scopes \ {c} : agg'[d] = agg[d]
  BY DEF MarkChangesAsCommitted, TypeOK, Aggregate
<1>2. ChangesLeadToVersion'
  BY <1>1 DEF ChangesLeadToVersion, CanReplay
<1>3. RequestsAreRuns' /\ VersionsAreContiguous'
  BY DEF MarkChangesAsCommitted, TypeOK, RequestsAreRuns, IsRun, CanReplay,
         VersionsAreContiguous, stores
<1> QED
  BY <1>2, <1>3

(* The steps that only move a scope along or tell others of its events. *)
LEMMA ContiguityQuietSteps ==
  ASSUME ContiguityInv, TypeOK', NEW c \in Scopes,
         \/ Create(c) \/ ReadSnapshot(c) \/ LoadFails(c) \/ FailCheck(c)
         \/ RejectEvents(c) \/ PublishNext(c) \/ PublishFails(c)
         \/ SaveSnapshot(c) \/ SnapshotFails(c) \/ Leave(c)
  PROVE  ContiguityInv'
<1>1. stream' = stream /\ inflight' = inflight /\ agg' = agg
  BY DEF Create, ReadSnapshot, LoadFails, FailCheck, RejectEvents, PublishNext,
         PublishFails, SaveSnapshot, SnapshotFails, Leave, Throw, stores
<1>2. \A d \in Scopes : pc'[d] = "appending" => pc[d] = "appending" /\ batch'[d] = batch[d]
  BY DEF ContiguityInv, TypeOK, Create, ReadSnapshot, LoadFails, FailCheck,
         RejectEvents, PublishNext, PublishFails, SaveSnapshot, SnapshotFails,
         Leave, Throw, locals
<1> QED
  BY <1>1, <1>2, ContiguityFrame

LEMMA ContiguityStep ==
  ASSUME AppendChecksVersion, ContiguityInv, [Next]_vars
  PROVE  ContiguityInv'
<1>1. TypeOK'
  BY TypeStep DEF ContiguityInv
<1>2. CASE UNCHANGED vars
  BY <1>1, <1>2, ContiguityFrame DEF vars, stores, locals
<1>3. CASE LateAppend
  BY <1>1, <1>3, ContiguityLateAppend
<1>4. ASSUME NEW c \in Scopes, Step(c) PROVE ContiguityInv'
  BY <1>1, <1>4, ContiguityQuietSteps, ContiguityReadEvents, ContiguityApplyEvent,
     ContiguityPassCheck, ContiguityAppendEvents, ContiguityAppendTimesOut,
     ContiguityMarkChangesAsCommitted DEF Step, Load, Save, Fault
<1> QED
  BY <1>2, <1>3, <1>4 DEF Next

(* A store that compares versions holds one event per version, even when   *)
(* events are applied while saves are awaited.                             *)
THEOREM ContiguityHolds ==
  ASSUME AppendChecksVersion
  PROVE  Spec => []VersionsAreContiguous
<1>1. ContiguityInv /\ [Next]_vars => ContiguityInv'
  BY ContiguityStep
<1>2. ContiguityInv => VersionsAreContiguous
  BY DEF ContiguityInv
<1> QED
  BY ContiguityInit, <1>1, <1>2, PTL DEF Spec

-----------------------------------------------------------------------------
(* Sequences that agree *)

LEMMA AgreeIsTransitive ==
  ASSUME NEW S, NEW s \in Seq(S), NEW t \in Seq(S), NEW u \in Seq(S),
         NEW n \in Nat, AgreeUpTo(n, s, t), AgreeUpTo(Len(t), t, u)
  PROVE  AgreeUpTo(n, s, u)
  BY DEF AgreeUpTo

LEMMA AgreeIsReflexive ==
  ASSUME NEW S, NEW s \in Seq(S)
  PROVE  AgreeUpTo(Len(s), s, s)
  BY DEF AgreeUpTo

LEMMA AgreeOnFewer ==
  ASSUME NEW S, NEW s \in Seq(S), NEW t \in Seq(S), NEW m \in Int, NEW n \in Int,
         m <= n, AgreeUpTo(n, s, t)
  PROVE  AgreeUpTo(m, s, t)
  BY DEF AgreeUpTo

LEMMA AgreeIsPrefix ==
  ASSUME NEW S, NEW s \in Seq(S), NEW t \in Seq(S), AgreeUpTo(Len(s), s, t)
  PROVE  IsPrefix(s, t)
  BY DEF AgreeUpTo, IsPrefix

LEMMA ConcatAgrees ==
  ASSUME NEW S, NEW s \in Seq(S), NEW t \in Seq(S)
  PROVE  /\ s \o t \in Seq(S)
         /\ Len(s \o t) = Len(s) + Len(t)
         /\ AgreeUpTo(Len(s), s, s \o t)
         /\ \A i \in 1 .. Len(t) : (s \o t)[Len(s) + i] = t[i]
         /\ \A i \in Len(s) + 1 .. Len(s) + Len(t) :
              i - Len(s) \in 1 .. Len(t) /\ (s \o t)[i] = t[i - Len(s)]
  BY DEF AgreeUpTo

LEMMA AppendAgrees ==
  ASSUME NEW S, NEW s \in Seq(S), NEW e \in S
  PROVE  /\ Append(s, e) \in Seq(S)
         /\ Len(Append(s, e)) = Len(s) + 1
         /\ AgreeUpTo(Len(s), s, Append(s, e))
         /\ Append(s, e)[Len(s) + 1] = e
  BY DEF AgreeUpTo

-----------------------------------------------------------------------------
(* What a step leaves alone *)

(* The stream has grown, by events that are not those of scope d. *)
StreamGrowsBeside(d) ==
  /\ AgreeUpTo(Len(stream), stream, stream')
  /\ \A i \in Len(stream) + 1 .. Len(stream') : stream'[i].by # d

PublishedGrowsBeside(d) ==
  /\ AgreeUpTo(Len(published), published, published')
  /\ \A i \in Len(published) + 1 .. Len(published') : published'[i].by # d

(* The types that the arguments below use. *)
LEMMA Types ==
  ASSUME TypeOK, NEW c \in Scopes
  PROVE  /\ stream \in Seq(Event) /\ Len(stream) \in Nat
         /\ published \in Seq(Event) /\ Len(published) \in Nat
         /\ batch[c] \in Seq(Event) /\ Len(batch[c]) \in Nat
         /\ sent[c] \in Nat
         /\ agg[c].applied \in Seq(Event) /\ Len(agg[c].applied) \in Nat
         /\ agg[c].uncommitted \in Seq(Event) /\ Len(agg[c].uncommitted) \in Nat
         /\ agg[c].cv \in Int /\ agg[c].cv >= -1
         /\ agg[c].lcv \in Int /\ agg[c].lcv >= -1
  BY DEF TypeOK, Aggregate, Versions, NoStream

LEMMA VersionTypes ==
  ASSUME NEW v \in Versions
  PROVE  v \in Int /\ v >= -1 /\ v + 1 \in Nat
  BY DEF Versions, NoStream

LEMMA SnapshotTypes ==
  ASSUME NEW s \in Snapshot
  PROVE  s.applied \in Seq(Event) /\ s.version \in Int /\ s.version + 1 \in Nat
<1>1. s.applied \in Seq(Event) /\ s.version \in Versions
  BY DEF Snapshot
<1> QED
  BY <1>1, VersionTypes

LEMMA EventTypes ==
  ASSUME NEW e \in Event
  PROVE  e.by \in Scopes /\ e.target \in Int /\ e.target >= -1
<1>1. e.by \in Scopes /\ e.target \in Versions
  BY DEF Event
<1> QED
  BY <1>1, VersionTypes

LEMMA StreamStays ==
  ASSUME TypeOK, stream' = stream
  PROVE  \A d \in Scopes : StreamGrowsBeside(d)
<1>1. stream \in Seq(Event)
  BY DEF TypeOK
<1>2. AgreeUpTo(Len(stream), stream, stream')
  BY <1>1, AgreeIsReflexive
<1>3. Len(stream) + 1 .. Len(stream') = {}
  BY <1>1
<1> QED
  BY <1>2, <1>3 DEF StreamGrowsBeside

LEMMA PublishedStays ==
  ASSUME TypeOK, published' = published
  PROVE  \A d \in Scopes : PublishedGrowsBeside(d)
<1>1. published \in Seq(Event)
  BY DEF TypeOK
<1>2. AgreeUpTo(Len(published), published, published')
  BY <1>1, AgreeIsReflexive
<1>3. Len(published) + 1 .. Len(published') = {}
  BY <1>1
<1> QED
  BY <1>2, <1>3 DEF PublishedGrowsBeside

(* What is said of scope d survives a longer stream and the publishing of  *)
(* events of others, the place of its own stored events apart.             *)
LEMMA ScopeSurvives ==
  ASSUME TypeOK, TypeOK', NEW d \in Scopes, ScopeInv(d),
         pc'[d] = pc[d], agg'[d] = agg[d], batch'[d] = batch[d], sent'[d] = sent[d],
         AgreeUpTo(Len(stream), stream, stream'), PublishedGrowsBeside(d)
  PROVE  /\ InstanceIsHistoryAndChanges(d)'
         /\ NoInstanceYet(d)'
         /\ SaveInProgress(d)'
         /\ PublishedIsSent(d)'
<1>1. /\ stream \in Seq(Event) /\ stream' \in Seq(Event)
      /\ agg[d].applied \in Seq(Event)
      /\ agg[d].lcv + 1 \in Nat /\ agg[d].cv + 1 \in Nat
  <2>1. /\ stream \in Seq(Event) /\ agg[d].applied \in Seq(Event)
        /\ agg[d].lcv \in Int /\ agg[d].lcv >= -1
        /\ agg[d].cv \in Int /\ agg[d].cv >= -1
    BY Types
  <2>2. stream' \in Seq(Event)
    BY DEF TypeOK
  <2> QED
    BY <2>1, <2>2
<1>2. InstanceIsHistoryAndChanges(d)'
  <2>1. AgreeUpTo(agg[d].lcv + 1, agg[d].applied, stream')
    BY <1>1, AgreeIsTransitive DEF ScopeInv, InstanceIsHistoryAndChanges
  <2> QED
    BY <2>1 DEF ScopeInv, InstanceIsHistoryAndChanges
<1>3. NoInstanceYet(d)'
  BY DEF ScopeInv, NoInstanceYet
<1>4. SaveInProgress(d)'
  <2>1. ASSUME Stored(d) PROVE Stored(d)'
    BY <1>1, <2>1, AgreeIsTransitive DEF Stored
  <2> QED
    BY <2>1 DEF ScopeInv, SaveInProgress
<1>5. PublishedIsSent(d)'
  <2> SUFFICES ASSUME pc[d] \in Saving
               PROVE  /\ \A i \in 1 .. Len(published') :
                           published'[i].by = d => published'[i].target < agg[d].lcv + sent[d]
                      /\ \A i \in 1 .. sent[d] : batch[d][i] \in ToSet(published')
    BY DEF PublishedIsSent
  <2>1. published \in Seq(Event) /\ published' \in Seq(Event)
    BY DEF TypeOK
  <2>2. /\ \A i \in 1 .. Len(published) :
             published[i].by = d => published[i].target < agg[d].lcv + sent[d]
        /\ \A i \in 1 .. sent[d] : batch[d][i] \in ToSet(published)
    BY DEF ScopeInv, PublishedIsSent
  <2>3. /\ Len(published) <= Len(published')
        /\ \A i \in 1 .. Len(published) : published'[i] = published[i]
        /\ \A i \in Len(published) + 1 .. Len(published') : published'[i].by # d
    BY DEF PublishedGrowsBeside, AgreeUpTo
  <2>4. ToSet(published) \subseteq ToSet(published')
    BY <2>1, <2>3 DEF ToSet
  <2>5. ASSUME NEW i \in 1 .. Len(published'), published'[i].by = d
        PROVE  published'[i].target < agg[d].lcv + sent[d]
    <3>1. i \in 1 .. Len(published)
      BY <2>1, <2>3, <2>5
    <3> QED
      BY <2>2, <2>3, <2>5, <3>1
  <2> QED
    BY <2>2, <2>4, <2>5
<1> QED
  BY <1>2, <1>3, <1>4, <1>5

(* Nobody stores events of scope d: those stored follow its history still. *)
LEMMA OwnEventsSurvive ==
  ASSUME TypeOK, TypeOK', NEW d \in Scopes, OwnEventsFollowHistory(d),
         agg'[d].applied = agg[d].applied, StreamGrowsBeside(d)
  PROVE  OwnEventsFollowHistory(d)'
<1> SUFFICES ASSUME NEW i \in 1 .. Len(stream'), stream'[i].by = d
             PROVE  AgreeUpTo(i, agg[d].applied, stream')
  BY DEF OwnEventsFollowHistory
<1>1. /\ stream \in Seq(Event) /\ stream' \in Seq(Event)
      /\ agg[d].applied \in Seq(Event)
  BY Types DEF TypeOK
<1>2. i \in 1 .. Len(stream) /\ stream'[i] = stream[i]
  BY <1>1 DEF StreamGrowsBeside, AgreeUpTo
<1>3. AgreeUpTo(i, agg[d].applied, stream)
  BY <1>2 DEF OwnEventsFollowHistory
<1> QED
  BY <1>1, <1>3, AgreeIsTransitive DEF StreamGrowsBeside

(* A step of others: nothing that is said of scope d changes. *)
LEMMA Bystander ==
  ASSUME TypeOK, TypeOK', NEW d \in Scopes, ScopeInv(d),
         pc'[d] = pc[d], agg'[d] = agg[d], batch'[d] = batch[d], sent'[d] = sent[d],
         StreamGrowsBeside(d), PublishedGrowsBeside(d)
  PROVE  ScopeInv(d)'
<1>1. OwnEventsFollowHistory(d)'
  BY OwnEventsSurvive DEF ScopeInv
<1> QED
  BY <1>1, ScopeSurvives DEF ScopeInv, StreamGrowsBeside

(* A scope that is not in the middle of a save owes nothing. *)
LEMMA AtRest ==
  ASSUME TypeOK, TypeOK', NEW c \in Scopes, ScopeInv(c),
         agg'[c] = agg[c], stream' = stream, sent'[c] = 0,
         \/ pc'[c] \in {"ready", "gone"}
         \/ pc'[c] = "loading" /\ pc[c] = "idle"
  PROVE  ScopeInv(c)'
<1>1. InstanceIsHistoryAndChanges(c)' /\ OwnEventsFollowHistory(c)'
  BY DEF ScopeInv, InstanceIsHistoryAndChanges, OwnEventsFollowHistory
<1>2. NoInstanceYet(c)'
  BY DEF ScopeInv, NoInstanceYet
<1>3. SaveInProgress(c)'
  BY DEF SaveInProgress, Saving, TypeOK
<1>4. PublishedIsSent(c)'
  BY DEF PublishedIsSent, Saving
<1> QED
  BY <1>1, <1>2, <1>3, <1>4 DEF ScopeInv

(* The snapshots stay prefixes when the stream grows and none is new. *)
LEMMA SnapshotsSurvive ==
  ASSUME TypeOK, TypeOK', SnapshotsArePrefixes,
         AgreeUpTo(Len(stream), stream, stream'),
         \A s \in {snapshot'} \cup {found'[c] : c \in Scopes} :
           s \in {NoSnapshot, snapshot} \cup {found[c] : c \in Scopes}
  PROVE  SnapshotsArePrefixes'
<1>1. stream \in Seq(Event) /\ stream' \in Seq(Event)
  BY DEF TypeOK
<1>2. \A s \in {NoSnapshot, snapshot} \cup {found[c] : c \in Scopes} :
        /\ s.applied \in Seq(Event) /\ s.version + 1 \in Nat
        /\ Len(s.applied) = s.version + 1
        /\ AgreeUpTo(s.version + 1, s.applied, stream)
  <2>1. NoSnapshot.applied = <<>> /\ NoSnapshot.version + 1 = 0
    BY DEF NoSnapshot, NoStream
  <2>2. AgreeUpTo(0, <<>>, stream)
    BY <1>1 DEF AgreeUpTo
  <2>3. \A s \in {snapshot} \cup {found[c] : c \in Scopes} : s \in Snapshot
    BY DEF TypeOK
  <2>4. \A s \in {snapshot} \cup {found[c] : c \in Scopes} :
          s.applied \in Seq(Event) /\ s.version + 1 \in Nat
    BY <2>3, SnapshotTypes
  <2>5. \A s \in {snapshot} \cup {found[c] : c \in Scopes} :
          Len(s.applied) = s.version + 1 /\ AgreeUpTo(s.version + 1, s.applied, stream)
    BY DEF SnapshotsArePrefixes
  <2>6. /\ NoSnapshot.applied \in Seq(Event) /\ NoSnapshot.version + 1 \in Nat
        /\ Len(NoSnapshot.applied) = NoSnapshot.version + 1
        /\ AgreeUpTo(NoSnapshot.version + 1, NoSnapshot.applied, stream)
    BY <2>1, <2>2
  <2> QED
    BY <2>4, <2>5, <2>6
<1>3. \A s \in {snapshot'} \cup {found'[c] : c \in Scopes} :
        /\ Len(s.applied) = s.version + 1
        /\ AgreeUpTo(s.version + 1, s.applied, stream')
  BY <1>1, <1>2, AgreeIsTransitive
<1> QED
  BY <1>3 DEF SnapshotsArePrefixes

LEMMA PublishedSurvives ==
  ASSUME TypeOK, TypeOK', PublishedAreStored, PublishedOnce,
         AgreeUpTo(Len(stream), stream, stream'), published' = published
  PROVE  PublishedAreStored' /\ PublishedOnce'
<1>1. stream \in Seq(Event) /\ stream' \in Seq(Event) /\ published \in Seq(Event)
  BY DEF TypeOK
<1>2. \A i \in 1 .. Len(published) : published[i].target \in Int /\ published[i].target >= -1
  <2>1. \A i \in 1 .. Len(published) : published[i] \in Event
    BY <1>1
  <2> QED
    BY <2>1, EventTypes
<1> QED
  BY <1>1, <1>2 DEF PublishedAreStored, PublishedOnce, AgreeUpTo

-----------------------------------------------------------------------------
(* The steps, one by one *)

(* Of the scopes, a step of c changes c alone. *)
OnlyScope(c) ==
  \A d \in Scopes \ {c} :
    pc'[d] = pc[d] /\ agg'[d] = agg[d] /\ batch'[d] = batch[d] /\ sent'[d] = sent[d]

LEMMA StepChangesOneScope ==
  ASSUME TypeOK, NEW c \in Scopes, Step(c)
  PROVE  OnlyScope(c)
<1> USE DEF OnlyScope, TypeOK, stores, locals
<1>1. Create(c) \/ Load(c) \/ Leave(c) => OnlyScope(c)
  BY DEF Create, Load, ReadSnapshot, ReadEvents, LoadFails, Leave
<1>2. ApplyEvent(c) => OnlyScope(c)
  BY DEF ApplyEvent
<1>3. Save(c) => OnlyScope(c)
  BY DEF Save, PassCheck, FailCheck, AppendEvents, RejectEvents, PublishNext,
         SaveSnapshot, MarkChangesAsCommitted, Throw
<1>4. Fault(c) => OnlyScope(c)
  BY DEF Fault, AppendTimesOut, PublishFails, SnapshotFails, Throw
<1> QED
  BY <1>1, <1>2, <1>3, <1>4 DEF Step

(* Steps that change neither stores nor instances, and leave no save in    *)
(* progress.                                                               *)
LEMMA HistoryQuietSteps ==
  ASSUME HistoryInv, ContiguityInv', NEW c \in Scopes, Step(c),
         \/ Create(c) \/ ReadSnapshot(c) \/ LoadFails(c) \/ FailCheck(c)
         \/ RejectEvents(c) \/ Leave(c)
  PROVE  HistoryInv'
<1> USE DEF HistoryInv, ContiguityInv
<1>1. UNCHANGED stores /\ agg' = agg
  BY DEF Create, ReadSnapshot, LoadFails, FailCheck, RejectEvents, Leave, Throw
<1>2. OnlyScope(c)
  BY StepChangesOneScope
<1>3. \A d \in Scopes : StreamGrowsBeside(d) /\ PublishedGrowsBeside(d)
  BY <1>1, StreamStays, PublishedStays DEF stores
<1>4. AgreeUpTo(Len(stream), stream, stream')
  BY <1>3 DEF StreamGrowsBeside
<1>5. SnapshotsArePrefixes'
  <2>1. \A d \in Scopes : found'[d] \in {NoSnapshot, snapshot, found[d]}
    BY DEF TypeOK, Create, ReadSnapshot, LoadFails, FailCheck, RejectEvents,
           Leave, Throw, locals
  <2> QED
    BY <1>1, <1>4, <2>1, SnapshotsSurvive DEF stores
<1>6. RequestsAreOwned'
  BY <1>1 DEF RequestsAreOwned, RequestOf, stores
<1>7. PublishedAreStored' /\ PublishedOnce'
  BY <1>1, <1>4, PublishedSurvives DEF stores
<1>8. ScopeInv(c)'
  <2>1. \/ pc'[c] \in {"ready", "gone"}
        \/ pc'[c] = "loading" /\ pc[c] = "idle"
    BY DEF TypeOK, Create, ReadSnapshot, LoadFails, FailCheck, RejectEvents, Leave, Throw
  <2>2. sent'[c] = 0
    <3>1. pc[c] \in {"idle", "loading"} => sent[c] = 0
      BY DEF ScopeInv, SaveInProgress
    <3> QED
      BY <3>1 DEF TypeOK, Create, ReadSnapshot, LoadFails, FailCheck, RejectEvents,
                  Leave, Throw, locals
  <2> QED
    BY <1>1, <2>1, <2>2, AtRest DEF stores
<1>9. \A d \in Scopes \ {c} : ScopeInv(d)'
  BY <1>2, <1>3, Bystander DEF OnlyScope
<1> QED
  BY <1>5, <1>6, <1>7, <1>8, <1>9

(* The whole stream, read behind a snapshot that is a prefix of it. *)
LEMMA LoadedIsStream ==
  ASSUME TypeOK, SnapshotsArePrefixes, NEW c \in Scopes, ReadEvents(c)
  PROVE  /\ agg'[c].applied = stream
         /\ agg'[c].cv = Len(stream) - 1
         /\ agg'[c].lcv = Len(stream) - 1
         /\ agg'[c].uncommitted = <<>>
<1> DEFINE s == found[c]
           events == EventsAfter(s)
<1>1. s \in Snapshot /\ stream \in Seq(Event)
  BY DEF TypeOK
<1>2. /\ s.applied \in Seq(Event) /\ s.version \in Int /\ s.version + 1 \in Nat
      /\ Len(s.applied) = s.version + 1
      /\ AgreeUpTo(s.version + 1, s.applied, stream)
  BY <1>1, SnapshotTypes DEF SnapshotsArePrefixes
<1>3. /\ events \in Seq(Event)
      /\ Len(events) = Len(stream) - s.version - 1
      /\ \A i \in 1 .. Len(events) : events[i] = stream[s.version + 1 + i]
  BY <1>1, <1>2, EventsAfterType DEF AgreeUpTo
<1>4. /\ agg'[c].applied = s.applied \o events
      /\ agg'[c].cv = s.version + Len(events)
      /\ agg'[c].lcv = s.version + Len(events)
      /\ agg'[c].uncommitted = <<>>
  BY DEF ReadEvents, TypeOK
<1> HIDE DEF s, events
<1>5. s.applied \o events = stream
  <2> DEFINE whole == s.applied \o events
  <2>1. /\ whole \in Seq(Event)
        /\ Len(whole) = Len(s.applied) + Len(events)
        /\ AgreeUpTo(Len(s.applied), s.applied, whole)
        /\ \A i \in Len(s.applied) + 1 .. Len(s.applied) + Len(events) :
             i - Len(s.applied) \in 1 .. Len(events)
             /\ whole[i] = events[i - Len(s.applied)]
    <3>1. s.applied \in Seq(Event) /\ events \in Seq(Event)
      BY <1>2, <1>3
    <3> QED
      BY <3>1, ConcatAgrees
  <2> HIDE DEF whole
  <2>2. Len(stream) \in Nat /\ Len(events) \in Nat /\ Len(whole) = Len(stream)
    BY <1>1, <1>2, <1>3, <2>1
  <2>3. \A i \in 1 .. Len(stream) : whole[i] = stream[i]
    <3> TAKE i \in 1 .. Len(stream)
    <3>1. CASE i <= s.version + 1
      <4>1. i \in 1 .. s.version + 1
        BY <1>2, <2>2, <3>1
      <4> QED
        BY <1>2, <2>1, <4>1 DEF AgreeUpTo
    <3>2. CASE ~ (i <= s.version + 1)
      <4>1. i \in Len(s.applied) + 1 .. Len(s.applied) + Len(events)
        BY <1>2, <1>3, <2>2, <3>2
      <4>2. s.version + 1 + (i - Len(s.applied)) = i
        BY <1>2
      <4> QED
        BY <1>3, <2>1, <4>1, <4>2
    <3> QED
      BY <3>1, <3>2
  <2>4. whole = stream
    BY <1>1, <2>1, <2>2, <2>3
  <2> QED
    BY <2>4 DEF whole
<1> QED
  BY <1>1, <1>2, <1>3, <1>4, <1>5

LEMMA HistoryReadEvents ==
  ASSUME HistoryInv, ContiguityInv', NEW c \in Scopes, Step(c), ReadEvents(c)
  PROVE  HistoryInv'
<1> USE DEF HistoryInv, ContiguityInv
<1>1. UNCHANGED stores
  BY DEF ReadEvents
<1>2. OnlyScope(c)
  BY StepChangesOneScope
<1>3. \A d \in Scopes : StreamGrowsBeside(d) /\ PublishedGrowsBeside(d)
  BY <1>1, StreamStays, PublishedStays DEF stores
<1>4. AgreeUpTo(Len(stream), stream, stream')
  BY <1>3 DEF StreamGrowsBeside
<1>5. stream \in Seq(Event) /\ Len(stream) \in Nat
  BY DEF TypeOK
<1>6. agg[c] = NewInstance /\ pc'[c] = "ready"
  BY DEF ReadEvents, ScopeInv, NoInstanceYet, TypeOK
<1>7. SnapshotsArePrefixes'
  <2>1. \A d \in Scopes : found'[d] \in {NoSnapshot, found[d]}
    BY DEF TypeOK, ReadEvents
  <2> QED
    BY <1>1, <1>4, <2>1, SnapshotsSurvive DEF stores
<1>8. RequestsAreOwned'
  <2> SUFFICES ASSUME NEW events \in inflight
               PROVE  \E d \in Scopes : RequestOf(d, events)'
    BY <1>1 DEF RequestsAreOwned, stores
  <2>1. PICK d \in Scopes : RequestOf(d, events)
    BY DEF RequestsAreOwned
  <2>2. d # c
    <3>1. events \in Seq(Event) /\ events # <<>>
      BY DEF TypeOK, RequestsAreRuns, IsRun
    <3>2. Head(events) \in Event /\ Len(events) >= 1 /\ Len(events) \in Nat
      BY <3>1
    <3>3. Head(events).target \in Int /\ Head(events).target >= -1
      BY <3>2, EventTypes
    <3>4. agg[c].cv = -1
      BY <1>6 DEF NewInstance, NoStream
    <3> QED
      BY <2>1, <3>2, <3>3, <3>4 DEF RequestOf
  <2>3. agg'[d] = agg[d]
    BY <1>2, <2>2 DEF OnlyScope
  <2> QED
    BY <2>1, <2>3 DEF RequestOf
<1>9. PublishedAreStored' /\ PublishedOnce'
  BY <1>1, <1>4, PublishedSurvives DEF stores
<1>10. ScopeInv(c)'
  <2>1. /\ agg'[c].applied = stream /\ agg'[c].uncommitted = <<>>
        /\ agg'[c].cv = Len(stream) - 1 /\ agg'[c].lcv = Len(stream) - 1
    BY LoadedIsStream
  <2>2. AgreeUpTo(Len(stream), stream, stream)
    BY <1>5, AgreeIsReflexive
  <2>3. InstanceIsHistoryAndChanges(c)'
    BY <1>1, <1>5, <2>1, <2>2 DEF InstanceIsHistoryAndChanges, stores
  <2>4. OwnEventsFollowHistory(c)'
    BY <1>1, <1>5, <2>1 DEF OwnEventsFollowHistory, AgreeUpTo, stores
  <2>5. SaveInProgress(c)'
    <3>1. pc[c] = "loading" /\ batch' = batch /\ sent' = sent
      BY DEF ReadEvents
    <3>2. sent[c] = 0
      BY <3>1 DEF ScopeInv, SaveInProgress
    <3>3. batch[c] \in Seq(Event)
      BY DEF TypeOK
    <3>4. Len(batch[c]) \in Nat
      BY <3>3
    <3> QED
      BY <1>6, <3>1, <3>2, <3>4 DEF SaveInProgress, Saving
  <2>6. NoInstanceYet(c)' /\ PublishedIsSent(c)'
    BY <1>6 DEF NoInstanceYet, PublishedIsSent, Saving
  <2> QED
    BY <2>3, <2>4, <2>5, <2>6 DEF ScopeInv
<1>11. \A d \in Scopes \ {c} : ScopeInv(d)'
  BY <1>2, <1>3, Bystander DEF OnlyScope
<1> QED
  BY <1>7, <1>8, <1>9, <1>10, <1>11

(* A run of events inside a sequence stays where it is when the sequence   *)
(* grows at its end.                                                       *)
LEMMA RunKeepsPlace ==
  ASSUME NEW S, NEW s \in Seq(S), NEW t \in Seq(S), NEW run \in Seq(S),
         NEW base \in Int, base >= -1, base + Len(run) + 1 <= Len(s),
         AgreeUpTo(Len(s), s, t),
         \A i \in 1 .. Len(run) : s[base + 1 + i] = run[i]
  PROVE  \A i \in 1 .. Len(run) : t[base + 1 + i] = run[i]
<1> TAKE i \in 1 .. Len(run)
<1>1. base + 1 + i \in 1 .. Len(s)
  OBVIOUS
<1> QED
  BY <1>1 DEF AgreeUpTo

(* A request keeps its place when its instance applies or commits more. *)
LEMMA RequestsKeepPlace ==
  ASSUME HistoryInv, TypeOK', NEW c \in Scopes, OnlyScope(c),
         inflight' \subseteq inflight,
         agg'[c].cv >= agg[c].cv, agg'[c].lcv >= agg[c].lcv,
         agg'[c].cv \in Int, agg'[c].lcv \in Int,
         AgreeUpTo(Len(agg[c].applied), agg[c].applied, agg'[c].applied)
  PROVE  RequestsAreOwned'
<1> USE DEF HistoryInv, ContiguityInv
<1> SUFFICES ASSUME NEW events \in inflight
             PROVE  \E d \in Scopes : RequestOf(d, events)'
  BY DEF RequestsAreOwned
<1>1. PICK d \in Scopes : RequestOf(d, events)
  BY DEF RequestsAreOwned
<1>2. CASE d # c
  BY <1>1, <1>2 DEF OnlyScope, RequestOf
<1>3. CASE d = c
  <2>1. /\ events \in Seq(Event) /\ events # <<>>
    BY DEF TypeOK, RequestsAreRuns, IsRun
  <2>2. Head(events) \in Event /\ Len(events) \in Nat
    BY <2>1
  <2>3. Head(events).target \in Int /\ Head(events).target >= -1
    BY <2>2, EventTypes
  <2>4. /\ agg[c].cv \in Int /\ agg[c].lcv \in Int
        /\ Len(agg[c].applied) = agg[c].cv + 1
    BY Types DEF ScopeInv, InstanceIsHistoryAndChanges
  <2> DEFINE base == Head(events).target
             s == agg[c].applied
             t == agg'[c].applied
  <2>5. /\ base <= agg[c].lcv /\ base + Len(events) <= agg[c].cv
        /\ \A i \in 1 .. Len(events) : events[i].by = c /\ s[base + 1 + i] = events[i]
    BY <1>1, <1>3 DEF RequestOf
  <2>6. s \in Seq(Event) /\ t \in Seq(Event) /\ AgreeUpTo(Len(s), s, t)
    BY DEF TypeOK, Aggregate
  <2>7. base \in Int /\ base >= -1 /\ base + Len(events) + 1 <= Len(s)
    BY <2>2, <2>3, <2>4, <2>5
  <2>8. base <= agg'[c].lcv /\ base + Len(events) <= agg'[c].cv
    BY <2>2, <2>3, <2>4, <2>5
  <2> HIDE DEF base, s, t
  <2>9. \A i \in 1 .. Len(events) : t[base + 1 + i] = events[i]
    BY <2>1, <2>5, <2>6, <2>7, RunKeepsPlace
  <2>10. RequestOf(c, events)'
    BY <2>5, <2>8, <2>9 DEF RequestOf, base, t
  <2> QED
    BY <2>10
<1> QED
  BY <1>2, <1>3

LEMMA HistoryApplyEvent ==
  ASSUME ~ AppliesDuringSave, HistoryInv, ContiguityInv', NEW c \in Scopes,
         Step(c), ApplyEvent(c)
  PROVE  HistoryInv'
<1> USE DEF HistoryInv, ContiguityInv
<1> DEFINE event == [by |-> c, target |-> agg[c].cv]
           s == agg[c].applied
           u == agg[c].uncommitted
           s2 == agg'[c].applied
           u2 == agg'[c].uncommitted
           cv == agg[c].cv
           lcv == agg[c].lcv
<1>1. UNCHANGED <<stores, pc, locals>> /\ pc[c] = "ready"
  BY DEF ApplyEvent
<1>2. OnlyScope(c)
  BY StepChangesOneScope
<1>3. \A d \in Scopes : StreamGrowsBeside(d) /\ PublishedGrowsBeside(d)
  BY <1>1, StreamStays, PublishedStays DEF stores
<1>4. AgreeUpTo(Len(stream), stream, stream')
  BY <1>3 DEF StreamGrowsBeside
<1>5. /\ agg'[c].cv = cv + 1 /\ agg'[c].lcv = lcv
      /\ s2 = Append(s, event) /\ u2 = Append(u, event)
  BY DEF ApplyEvent, TypeOK, Aggregate
<1>6. /\ cv \in Int /\ lcv \in Int /\ lcv >= -1 /\ lcv <= cv
      /\ s \in Seq(Event) /\ u \in Seq(Event)
      /\ Len(s) = cv + 1 /\ Len(u) = cv - lcv
      /\ stream \in Seq(Event) /\ Len(stream) \in Nat
  BY Types DEF ScopeInv, InstanceIsHistoryAndChanges
<1>7. event \in Event
  BY DEF Event, TypeOK, Aggregate
<1>8. /\ s2 \in Seq(Event) /\ u2 \in Seq(Event)
      /\ Len(s2) = cv + 2
      /\ Len(u2) = cv + 1 - lcv
      /\ AgreeUpTo(Len(s), s, s2)
      /\ \A n \in 0 .. cv + 1 : AgreeUpTo(n, s, stream) => AgreeUpTo(n, s2, stream)
      /\ \A i \in 1 .. cv + 1 - lcv :
           \/ i \in 1 .. Len(u) /\ u2[i] = u[i] /\ s2[lcv + 1 + i] = s[lcv + 1 + i]
           \/ lcv + i - 1 = cv /\ u2[i] = event /\ s2[lcv + 1 + i] = event
  <2> HIDE DEF event, s, u, s2, u2, cv, lcv
  <2>1. /\ s2 \in Seq(Event) /\ u2 \in Seq(Event)
        /\ Len(s2) = cv + 2 /\ Len(u2) = cv + 1 - lcv
        /\ \A i \in 1 .. cv + 1 : s2[i] = s[i]
        /\ \A i \in 1 .. cv - lcv : u2[i] = u[i]
        /\ s2[cv + 2] = event
        /\ u2[cv - lcv + 1] = event
    <3>1. s2 = Append(s, event) /\ u2 = Append(u, event)
      BY <1>5
    <3>2. s \in Seq(Event) /\ cv \in Int /\ Len(s) = cv + 1
      BY <1>6
    <3>3. u \in Seq(Event) /\ lcv \in Int /\ Len(u) = cv - lcv
      BY <1>6
    <3>4. s2 \in Seq(Event) /\ Len(s2) = cv + 2 /\ s2[cv + 2] = event
      BY <1>7, <3>1, <3>2
    <3>5. \A i \in 1 .. cv + 1 : s2[i] = s[i]
      BY <1>7, <3>1, <3>2
    <3>6. u2 \in Seq(Event) /\ Len(u2) = cv + 1 - lcv /\ u2[cv - lcv + 1] = event
      <4>1. u2 \in Seq(Event) /\ Len(u2) = Len(u) + 1 /\ u2[Len(u) + 1] = event
        BY <1>7, <3>1, <3>3
      <4> QED
        BY <3>2, <3>3, <4>1
    <3>7. \A i \in 1 .. cv - lcv : u2[i] = u[i]
      BY <1>7, <3>1, <3>2, <3>3
    <3> QED
      BY <3>4, <3>5, <3>6, <3>7
  <2>2. AgreeUpTo(Len(s), s, s2)
    BY <1>6, <2>1 DEF AgreeUpTo
  <2>3. \A n \in 0 .. cv + 1 : AgreeUpTo(n, s, stream) => AgreeUpTo(n, s2, stream)
    BY <1>6, <2>1 DEF AgreeUpTo
  <2>4. ASSUME NEW i \in 1 .. cv + 1 - lcv
        PROVE  \/ i \in 1 .. Len(u) /\ u2[i] = u[i] /\ s2[lcv + 1 + i] = s[lcv + 1 + i]
               \/ lcv + i - 1 = cv /\ u2[i] = event /\ s2[lcv + 1 + i] = event
    <3>1. CASE i = cv + 1 - lcv
      <4>1. lcv + i - 1 = cv /\ lcv + 1 + i = cv + 2 /\ i = cv - lcv + 1
        BY <1>6, <3>1
      <4> QED
        BY <2>1, <4>1
    <3>2. CASE i # cv + 1 - lcv
      <4>1. i \in 1 .. cv - lcv /\ lcv + 1 + i \in 1 .. cv + 1
        BY <1>6, <3>2
      <4> QED
        BY <1>6, <2>1, <4>1
    <3> QED
      BY <3>1, <3>2
  <2> QED
    BY <2>1, <2>2, <2>3, <2>4
<1>9. SnapshotsArePrefixes'
  BY <1>1, <1>4, SnapshotsSurvive DEF stores, locals
<1>10. RequestsAreOwned'
  <2>1. cv + 1 >= cv /\ cv + 1 \in Int /\ lcv >= lcv
    <3> HIDE DEF cv, lcv
    <3> QED
      BY <1>6
  <2>2. agg'[c].cv >= cv /\ agg'[c].cv \in Int /\ agg'[c].lcv >= lcv /\ agg'[c].lcv \in Int
    BY <1>5, <1>6, <2>1
  <2>3. inflight' \subseteq inflight
    BY <1>1 DEF stores
  <2> QED
    BY <1>2, <1>8, <2>2, <2>3, RequestsKeepPlace
<1>11. PublishedAreStored' /\ PublishedOnce'
  BY <1>1, <1>4, PublishedSurvives DEF stores
<1>12. ScopeInv(c)'
  <2>1. InstanceIsHistoryAndChanges(c)'
    <3>1. AgreeUpTo(lcv + 1, s2, stream)
      <4>1. AgreeUpTo(lcv + 1, s, stream)
        BY DEF ScopeInv, InstanceIsHistoryAndChanges
      <4> HIDE DEF cv, lcv, s, s2
      <4>2. lcv + 1 \in 0 .. cv + 1
        BY <1>6
      <4> QED
        BY <1>8, <4>1, <4>2
    <3>2. \A i \in 1 .. Len(u) : u[i] = [by |-> c, target |-> lcv + i - 1] /\ s[lcv + 1 + i] = u[i]
      BY DEF ScopeInv, InstanceIsHistoryAndChanges
    <3>3. \A i \in 1 .. Len(u2) :
            u2[i] = [by |-> c, target |-> lcv + i - 1] /\ s2[lcv + 1 + i] = u2[i]
      <4>1. event = [by |-> c, target |-> cv]
        OBVIOUS
      <4> HIDE DEF event, s, u, s2, u2, cv, lcv
      <4> QED
        BY <1>8, <3>2, <4>1
    <3>4. lcv <= cv + 1 /\ Len(s2) = (cv + 1) + 1 /\ Len(u2) = (cv + 1) - lcv
      <4>1. cv \in Int /\ lcv \in Int /\ lcv <= cv
        BY <1>6
      <4>2. Len(s2) = cv + 2 /\ Len(u2) = cv + 1 - lcv
        BY <1>8
      <4> HIDE DEF s2, u2, cv, lcv
      <4> QED
        BY <4>1, <4>2
    <3>5. stream' = stream
      BY <1>1 DEF stores
    <3> QED
      BY <1>5, <3>1, <3>3, <3>4, <3>5 DEF InstanceIsHistoryAndChanges
  <2>2. OwnEventsFollowHistory(c)'
    <3> SUFFICES ASSUME NEW i \in 1 .. Len(stream), stream[i].by = c
                 PROVE  AgreeUpTo(i, s2, stream)
      BY <1>1 DEF OwnEventsFollowHistory, stores
    <3>1. AgreeUpTo(i, s, stream)
      BY DEF ScopeInv, OwnEventsFollowHistory
    <3> HIDE DEF s, s2, cv
    <3>2. i \in 0 .. cv + 1
      BY <1>6, <3>1 DEF AgreeUpTo
    <3> QED
      BY <1>8, <3>1, <3>2
  <2>3. NoInstanceYet(c)' /\ PublishedIsSent(c)'
    BY <1>1 DEF NoInstanceYet, PublishedIsSent, Saving
  <2>4. SaveInProgress(c)'
    BY <1>1 DEF ScopeInv, SaveInProgress, Saving, locals
  <2> QED
    BY <2>1, <2>2, <2>3, <2>4 DEF ScopeInv
<1>13. \A d \in Scopes \ {c} : ScopeInv(d)'
  BY <1>2, <1>3, Bystander DEF OnlyScope
<1> QED
  BY <1>9, <1>10, <1>11, <1>12, <1>13

LEMMA HistoryPassCheck ==
  ASSUME HistoryInv, ContiguityInv', NEW c \in Scopes, Step(c), PassCheck(c)
  PROVE  HistoryInv'
<1> USE DEF HistoryInv, ContiguityInv
<1>1. /\ UNCHANGED stores /\ agg' = agg /\ found' = found /\ sent' = sent
      /\ pc[c] = "ready" /\ pc'[c] = "appending"
      /\ batch'[c] = agg[c].uncommitted /\ batch'[c] # <<>>
  BY DEF PassCheck, BeginsSave, TypeOK
<1>2. OnlyScope(c)
  BY StepChangesOneScope
<1>3. \A d \in Scopes : StreamGrowsBeside(d) /\ PublishedGrowsBeside(d)
  BY <1>1, StreamStays, PublishedStays DEF stores
<1>4. AgreeUpTo(Len(stream), stream, stream')
  BY <1>3 DEF StreamGrowsBeside
<1>5. SnapshotsArePrefixes'
  BY <1>1, <1>4, SnapshotsSurvive DEF stores
<1>6. RequestsAreOwned'
  BY <1>1 DEF RequestsAreOwned, RequestOf, stores
<1>7. PublishedAreStored' /\ PublishedOnce'
  BY <1>1, <1>4, PublishedSurvives DEF stores
<1>8. ScopeInv(c)'
  <2>1. InstanceIsHistoryAndChanges(c)' /\ OwnEventsFollowHistory(c)'
    BY <1>1 DEF ScopeInv, InstanceIsHistoryAndChanges, OwnEventsFollowHistory, stores
  <2>2. NoInstanceYet(c)'
    BY <1>1 DEF NoInstanceYet
  <2>3. sent[c] = 0
    BY <1>1 DEF ScopeInv, SaveInProgress
  <2>4. SaveInProgress(c)'
    <3>1. Len(batch'[c]) \in Nat
      BY <1>1, Types
    <3> QED
      BY <1>1, <2>3, <3>1 DEF SaveInProgress, Saving
  <2>5. PublishedIsSent(c)'
    <3>1. \A i \in 1 .. Len(published) : published[i].target < agg[c].lcv
      <4> TAKE i \in 1 .. Len(published)
      <4>1. stream \in Seq(Event) /\ Len(stream) \in Nat /\ published[i] \in Event
        BY Types
      <4>2. published[i].target \in Int /\ published[i].target >= -1
        BY <4>1, EventTypes
      <4>3. published[i].target + 2 <= Len(stream)
        BY DEF PublishedAreStored
      <4>4. Len(stream) >= 1
        BY <4>1, <4>2, <4>3
      <4>5. stream # <<>> /\ Last(stream) = stream[Len(stream)]
        BY <4>1, <4>4 DEF Last
      <4>6. Last(stream).target = Len(stream) - 2
        BY <4>1, <4>4, <4>5 DEF VersionsAreContiguous
      <4>7. Last(stream).target + 1 = agg[c].lcv
        BY <4>5 DEF PassCheck, AlreadyExists, ModifiedExternally
      <4> QED
        BY <4>1, <4>2, <4>3, <4>6, <4>7
    <3>2. agg[c].lcv \in Int
      BY Types
    <3> QED
      BY <1>1, <2>3, <3>1, <3>2 DEF PublishedIsSent, stores
  <2> QED
    BY <2>1, <2>2, <2>4, <2>5 DEF ScopeInv
<1>9. \A d \in Scopes \ {c} : ScopeInv(d)'
  BY <1>2, <1>3, Bystander DEF OnlyScope
<1> QED
  BY <1>5, <1>6, <1>7, <1>8, <1>9

(* A run of events follows the first n elements of a sequence. *)
HoldsAt(s, n, run) ==
  n + Len(run) <= Len(s) /\ \A i \in 1 .. Len(run) : s[n + i] = run[i]

(* Two sequences that agree, and then hold the same run, agree on it too. *)
LEMMA AgreeOnRun ==
  ASSUME NEW S, NEW s \in Seq(S), NEW t \in Seq(S), NEW run \in Seq(S),
         NEW n \in Nat, AgreeUpTo(n, s, t), HoldsAt(s, n, run), HoldsAt(t, n, run)
  PROVE  AgreeUpTo(n + Len(run), s, t)
<1> USE DEF HoldsAt
<1>1. ASSUME NEW k \in 1 .. n + Len(run) PROVE s[k] = t[k]
  <2>1. CASE k <= n
    BY <2>1 DEF AgreeUpTo
  <2>2. CASE ~ (k <= n)
    <3>1. k - n \in 1 .. Len(run) /\ n + (k - n) = k
      BY <2>2
    <3> QED
      BY <3>1
  <2> QED
    BY <2>1, <2>2
<1> QED
  BY <1>1 DEF AgreeUpTo

(* The changes that a save in progress has copied. *)
LEMMA BatchOfSave ==
  ASSUME HistoryInv, NEW c \in Scopes, pc[c] \in Saving
  PROVE  /\ batch[c] = agg[c].uncommitted /\ batch[c] \in Seq(Event)
         /\ Len(batch[c]) \in Nat /\ Len(batch[c]) >= 1
         /\ agg[c].lcv \in Int /\ agg[c].lcv + 1 \in Nat
         /\ agg[c].cv = agg[c].lcv + Len(batch[c])
         /\ agg[c].applied \in Seq(Event)
         /\ Len(agg[c].applied) = agg[c].lcv + 1 + Len(batch[c])
         /\ AgreeUpTo(agg[c].lcv + 1, agg[c].applied, stream)
         /\ Head(batch[c]) = batch[c][1]
         /\ \A i \in 1 .. Len(batch[c]) :
              /\ batch[c][i].by = c /\ batch[c][i].target = agg[c].lcv + i - 1
              /\ agg[c].applied[agg[c].lcv + 1 + i] = batch[c][i]
<1> USE DEF HistoryInv, ContiguityInv
<1>1. batch[c] = agg[c].uncommitted /\ batch[c] # <<>> /\ batch[c] \in Seq(Event)
  BY Types DEF ScopeInv, SaveInProgress
<1>2. /\ Len(batch[c]) \in Nat /\ Len(batch[c]) >= 1 /\ Head(batch[c]) = batch[c][1]
  BY <1>1
<1>3. /\ agg[c].cv \in Int /\ agg[c].lcv \in Int /\ agg[c].lcv >= -1
      /\ agg[c].applied \in Seq(Event)
      /\ Len(batch[c]) = agg[c].cv - agg[c].lcv
      /\ Len(agg[c].applied) = agg[c].cv + 1
  BY <1>1, Types DEF ScopeInv, InstanceIsHistoryAndChanges
<1>4. /\ agg[c].lcv + 1 \in Nat
      /\ agg[c].cv = agg[c].lcv + Len(batch[c])
      /\ Len(agg[c].applied) = agg[c].lcv + 1 + Len(batch[c])
  <2> DEFINE n == Len(batch[c])
             cv == agg[c].cv
             lcv == agg[c].lcv
             size == Len(agg[c].applied)
  <2>1. cv \in Int /\ lcv \in Int /\ lcv >= -1 /\ n = cv - lcv /\ size = cv + 1
    BY <1>3
  <2>2. lcv + 1 \in Nat /\ cv = lcv + n /\ size = lcv + 1 + n
    <3> HIDE DEF n, cv, lcv, size
    <3> QED
      BY <2>1
  <2> QED
    BY <2>2
<1>5. AgreeUpTo(agg[c].lcv + 1, agg[c].applied, stream)
  BY DEF ScopeInv, InstanceIsHistoryAndChanges
<1>6. \A i \in 1 .. Len(batch[c]) :
        /\ batch[c][i] = [by |-> c, target |-> agg[c].lcv + i - 1]
        /\ agg[c].applied[agg[c].lcv + 1 + i] = batch[c][i]
  BY <1>1 DEF ScopeInv, InstanceIsHistoryAndChanges
<1>7. \A i \in 1 .. Len(batch[c]) :
        batch[c][i].by = c /\ batch[c][i].target = agg[c].lcv + i - 1
  <2> TAKE i \in 1 .. Len(batch[c])
  <2> DEFINE v == agg[c].lcv + i - 1
  <2>1. batch[c][i] = [by |-> c, target |-> v]
    BY <1>6
  <2> HIDE DEF v
  <2>2. batch[c][i].by = c /\ batch[c][i].target = v
    BY <2>1
  <2> QED
    BY <2>2 DEF v
<1> HIDE DEF HistoryInv, ContiguityInv
<1> QED
  BY <1>1, <1>2, <1>3, <1>4, <1>5, <1>6, <1>7

(* Events of scope c alone join the stream. *)
LEMMA OthersSeeAppend ==
  ASSUME TypeOK, NEW c \in Scopes, NEW events \in Seq(Event),
         \A i \in 1 .. Len(events) : events[i].by = c,
         stream' = stream \o events
  PROVE  /\ AgreeUpTo(Len(stream), stream, stream')
         /\ \A d \in Scopes \ {c} : StreamGrowsBeside(d)
<1>1. stream \in Seq(Event) /\ Len(stream) \in Nat
  BY DEF TypeOK
<1>2. /\ Len(stream') = Len(stream) + Len(events)
      /\ AgreeUpTo(Len(stream), stream, stream')
      /\ \A i \in Len(stream) + 1 .. Len(stream) + Len(events) :
           i - Len(stream) \in 1 .. Len(events) /\ stream'[i] = events[i - Len(stream)]
  BY <1>1, ConcatAgrees
<1>3. \A i \in Len(stream) + 1 .. Len(stream') : stream'[i].by = c
  BY <1>2
<1> QED
  BY <1>2, <1>3 DEF StreamGrowsBeside

(* Whether the store appends the batch or holds it already, the stream     *)
(* then holds the whole instance.                                          *)
LEMMA AppendStoresInstance ==
  ASSUME AppendChecksVersion, HistoryInv, ContiguityInv', NEW c \in Scopes,
         AppendEvents(c)
  PROVE  /\ AgreeUpTo(Len(stream), stream, stream')
         /\ \A d \in Scopes \ {c} : StreamGrowsBeside(d)
         /\ AgreeUpTo(agg[c].cv + 1, agg[c].applied, stream')
         /\ OwnEventsFollowHistory(c)'
<1> USE DEF HistoryInv, ContiguityInv
<1> DEFINE n == agg[c].lcv + 1
           run == batch[c]
           s == agg[c].applied
<1>1. stream \in Seq(Event) /\ stream' \in Seq(Event) /\ Len(stream) \in Nat
  BY DEF TypeOK
<1>2. /\ run \in Seq(Event) /\ Len(run) \in Nat /\ Len(run) >= 1
      /\ agg[c].lcv \in Int /\ n \in Nat /\ agg[c].cv = agg[c].lcv + Len(run)
      /\ s \in Seq(Event) /\ Len(s) = n + Len(run)
      /\ AgreeUpTo(n, s, stream)
      /\ Head(run) = run[1]
      /\ \A i \in 1 .. Len(run) :
           run[i].by = c /\ run[i].target = agg[c].lcv + i - 1 /\ s[n + i] = run[i]
  BY BatchOfSave DEF AppendEvents, Saving
<1>3. agg'[c].applied = s
  BY DEF AppendEvents
<1>4. Head(run).target = n - 1 /\ agg[c].cv + 1 = n + Len(run)
  <2>1. run[1].target = agg[c].lcv + 1 - 1
    BY <1>2
  <2> QED
    BY <1>2, <2>1
<1>5. /\ n \in Nat /\ run \in Seq(Event) /\ s \in Seq(Event)
      /\ Len(s) = n + Len(run) /\ AgreeUpTo(n, s, stream)
      /\ HoldsAt(s, n, run) /\ Len(run) \in Nat /\ Len(run) >= 1
  BY <1>2 DEF HoldsAt
<1> HIDE DEF run, s, n
<1>6. CASE Accepts(run)
  <2>1. stream' = stream \o run /\ Len(stream) = n
    <3>1. stream' = stream \o run
      BY <1>6 DEF AppendEvents, run
    <3>2. Head(run).target = Len(stream) - 1
      BY <1>6 DEF Accepts
    <3> QED
      BY <1>1, <1>4, <1>5, <3>1, <3>2
  <2>2. /\ AgreeUpTo(Len(stream), stream, stream')
        /\ \A d \in Scopes \ {c} : StreamGrowsBeside(d)
    BY <1>2, <2>1, OthersSeeAppend
  <2>3. Len(stream') = n + Len(run) /\ HoldsAt(stream', n, run)
    <3>1. stream \in Seq(Event) /\ run \in Seq(Event)
      BY <1>1, <1>5
    <3>2. /\ Len(stream \o run) = Len(stream) + Len(run)
          /\ \A i \in 1 .. Len(run) : (stream \o run)[Len(stream) + i] = run[i]
      BY <3>1, ConcatAgrees
    <3>3. /\ Len(stream') = n + Len(run)
          /\ \A i \in 1 .. Len(run) : stream'[n + i] = run[i]
      BY <2>1, <3>2
    <3> QED
      BY <1>5, <3>3 DEF HoldsAt
  <2>4. AgreeUpTo(n, s, stream')
    BY <1>1, <1>5, <2>1, <2>2, AgreeIsTransitive
  <2>5. AgreeUpTo(n + Len(run), s, stream')
    BY <1>1, <1>5, <2>3, <2>4, AgreeOnRun
  <2>6. OwnEventsFollowHistory(c)'
    BY <1>3, <2>3, <2>5 DEF OwnEventsFollowHistory, AgreeUpTo
  <2>7. agg[c].cv + 1 = n + Len(run)
    BY <1>4
  <2> QED
    BY <2>2, <2>5, <2>6, <2>7 DEF s
<1>7. CASE ~ Accepts(run)
  <2>1. stream' = stream /\ Holds(run)
    BY <1>7 DEF AppendEvents, run
  <2>2. /\ AgreeUpTo(Len(stream), stream, stream')
        /\ \A d \in Scopes \ {c} : StreamGrowsBeside(d)
    BY <2>1, StreamStays DEF StreamGrowsBeside
  <2>3. OwnEventsFollowHistory(c)'
    BY <1>3, <2>1 DEF ScopeInv, OwnEventsFollowHistory, s
  <2>4. IsPrefix(run, SubSeq(stream, n + 1, Len(stream)))
    <3>1. Head(run).target + 2 = n + 1
      BY <1>4, <1>5
    <3> QED
      BY <2>1, <3>1 DEF Holds
  <2>5. HoldsAt(stream, n, run)
    <3> DEFINE rest == SubSeq(stream, n + 1, Len(stream))
    <3>1. /\ rest \in Seq(Event)
          /\ Len(rest) = IF n + 1 <= Len(stream) THEN Len(stream) - n ELSE 0
          /\ \A i \in 1 .. Len(rest) : rest[i] = stream[n + i]
      <4>1. n \in Nat
        BY <1>5
      <4>2. rest \in Seq(Event)
        BY <1>1, <4>1
      <4>3. Len(rest) = IF n + 1 <= Len(stream) THEN Len(stream) - n ELSE 0
        BY <1>1, <4>1
      <4>4. \A i \in 1 .. Len(rest) : rest[i] = stream[n + i]
        BY <1>1, <4>1
      <4> QED
        BY <4>2, <4>3, <4>4
    <3> HIDE DEF rest
    <3>2. Len(run) <= Len(rest) /\ \A i \in 1 .. Len(run) : run[i] = rest[i]
      BY <1>5, <2>4, <3>1 DEF IsPrefix, rest
    <3> QED
      BY <1>1, <1>5, <3>1, <3>2 DEF HoldsAt
  <2>6. AgreeUpTo(n + Len(run), s, stream)
    BY <1>1, <1>5, <2>5, AgreeOnRun
  <2>7. agg[c].cv + 1 = n + Len(run)
    BY <1>4
  <2> QED
    BY <2>1, <2>2, <2>3, <2>6, <2>7 DEF s
<1> QED
  BY <1>6, <1>7

LEMMA HistoryAppendEvents ==
  ASSUME AppendChecksVersion, HistoryInv, ContiguityInv', NEW c \in Scopes,
         Step(c), AppendEvents(c)
  PROVE  HistoryInv'
<1> USE DEF HistoryInv, ContiguityInv
<1>1. /\ UNCHANGED <<inflight, snapshot, published, agg, locals>>
      /\ pc[c] = "appending" /\ pc'[c] = "publishing"
  BY DEF AppendEvents, TypeOK
<1>2. OnlyScope(c)
  BY StepChangesOneScope
<1>3. /\ AgreeUpTo(Len(stream), stream, stream')
      /\ \A d \in Scopes \ {c} : StreamGrowsBeside(d)
      /\ AgreeUpTo(agg[c].cv + 1, agg[c].applied, stream')
      /\ OwnEventsFollowHistory(c)'
  BY AppendStoresInstance
<1>4. \A d \in Scopes : PublishedGrowsBeside(d)
  BY <1>1, PublishedStays
<1>5. SnapshotsArePrefixes'
  BY <1>1, <1>3, SnapshotsSurvive DEF locals
<1>6. RequestsAreOwned'
  BY <1>1 DEF RequestsAreOwned, RequestOf
<1>7. PublishedAreStored' /\ PublishedOnce'
  BY <1>1, <1>3, PublishedSurvives
<1>8. ScopeInv(c)'
  <2>1. InstanceIsHistoryAndChanges(c)'
    <3>1. AgreeUpTo(agg[c].lcv + 1, agg[c].applied, stream')
      <4>1. /\ agg[c].lcv + 1 \in Int /\ agg[c].cv + 1 \in Int
            /\ agg[c].lcv + 1 <= agg[c].cv + 1
            /\ agg[c].applied \in Seq(Event) /\ stream' \in Seq(Event)
        <5>1. agg[c].lcv <= agg[c].cv
          BY DEF ScopeInv, InstanceIsHistoryAndChanges
        <5>2. agg[c].lcv \in Int /\ agg[c].cv \in Int /\ agg[c].applied \in Seq(Event)
          BY Types
        <5>3. stream' \in Seq(Event)
          BY DEF TypeOK
        <5> QED
          BY <5>1, <5>2, <5>3
      <4> QED
        BY <1>3, <4>1, AgreeOnFewer
    <3> QED
      BY <1>1, <3>1 DEF ScopeInv, InstanceIsHistoryAndChanges
  <2>2. NoInstanceYet(c)'
    BY <1>1 DEF NoInstanceYet
  <2>3. SaveInProgress(c)'
    BY <1>1, <1>3 DEF ScopeInv, SaveInProgress, Stored, Saving, locals
  <2>4. PublishedIsSent(c)'
    BY <1>1 DEF ScopeInv, PublishedIsSent, Saving, locals
  <2> QED
    BY <1>3, <2>1, <2>2, <2>3, <2>4 DEF ScopeInv
<1>9. \A d \in Scopes \ {c} : ScopeInv(d)'
  BY <1>2, <1>3, <1>4, Bystander DEF OnlyScope
<1> QED
  BY <1>5, <1>6, <1>7, <1>8, <1>9

LEMMA HistoryAppendTimesOut ==
  ASSUME HistoryInv, ContiguityInv', NEW c \in Scopes, Step(c), AppendTimesOut(c)
  PROVE  HistoryInv'
<1> USE DEF HistoryInv, ContiguityInv
<1>1. /\ stream' = stream /\ snapshot' = snapshot /\ published' = published
      /\ agg' = agg /\ found' = found /\ inflight' = inflight \cup {batch[c]}
      /\ pc[c] = "appending" /\ pc'[c] = "ready" /\ sent'[c] = 0
  BY DEF AppendTimesOut, Throw, TypeOK
<1>2. OnlyScope(c)
  BY StepChangesOneScope
<1>3. \A d \in Scopes : StreamGrowsBeside(d) /\ PublishedGrowsBeside(d)
  BY <1>1, StreamStays, PublishedStays
<1>4. AgreeUpTo(Len(stream), stream, stream')
  BY <1>3 DEF StreamGrowsBeside
<1>5. SnapshotsArePrefixes'
  BY <1>1, <1>4, SnapshotsSurvive
<1>6. RequestsAreOwned'
  <2>1. RequestOf(c, batch[c])
    <3>1. /\ Head(batch[c]).target = agg[c].lcv
          /\ agg[c].lcv \in Int /\ Len(batch[c]) \in Nat
          /\ agg[c].cv = agg[c].lcv + Len(batch[c])
          /\ \A i \in 1 .. Len(batch[c]) :
               batch[c][i].by = c /\ agg[c].applied[agg[c].lcv + 1 + i] = batch[c][i]
      <4>1. pc[c] \in Saving
        BY <1>1 DEF Saving
      <4>2. /\ agg[c].lcv \in Int /\ Len(batch[c]) \in Nat /\ Len(batch[c]) >= 1
            /\ agg[c].cv = agg[c].lcv + Len(batch[c])
            /\ Head(batch[c]) = batch[c][1]
            /\ \A i \in 1 .. Len(batch[c]) :
                 /\ batch[c][i].by = c
                 /\ batch[c][i].target = agg[c].lcv + i - 1
                 /\ agg[c].applied[agg[c].lcv + 1 + i] = batch[c][i]
        BY <4>1, BatchOfSave
      <4>3. batch[c][1].target = agg[c].lcv + 1 - 1
        BY <4>2
      <4>4. Head(batch[c]).target = agg[c].lcv
        BY <4>2, <4>3
      <4> QED
        BY <4>2, <4>4
    <3> QED
      BY <3>1 DEF RequestOf
  <2> QED
    BY <1>1, <2>1 DEF RequestsAreOwned, RequestOf
<1>7. PublishedAreStored' /\ PublishedOnce'
  BY <1>1, <1>4, PublishedSurvives
<1>8. ScopeInv(c)'
  BY <1>1, AtRest
<1>9. \A d \in Scopes \ {c} : ScopeInv(d)'
  BY <1>2, <1>3, Bystander DEF OnlyScope
<1> QED
  BY <1>5, <1>6, <1>7, <1>8, <1>9

LEMMA HistoryLateAppend ==
  ASSUME AppendChecksVersion, HistoryInv, ContiguityInv', LateAppend
  PROVE  HistoryInv'
<1> USE DEF HistoryInv, ContiguityInv
<1>1. UNCHANGED <<snapshot, published, pc, agg, locals>>
  BY DEF LateAppend
<1>2. PICK run \in inflight : /\ Accepts(run)
                              /\ stream' = stream \o run
                              /\ inflight' = inflight \ {run}
  BY DEF LateAppend
<1>3. PICK c \in Scopes : RequestOf(c, run)
  BY DEF RequestsAreOwned
<1> DEFINE n == Len(stream)
           s == agg[c].applied
<1>4. /\ stream \in Seq(Event) /\ stream' \in Seq(Event) /\ n \in Nat
      /\ run \in Seq(Event) /\ Len(run) \in Nat /\ s \in Seq(Event)
  BY Types DEF TypeOK
<1>5. Head(run).target = n - 1
  BY <1>2 DEF Accepts
<1>6. agg[c].lcv \in Int /\ agg[c].cv \in Int /\ Len(s) = agg[c].cv + 1
  BY Types DEF ScopeInv, InstanceIsHistoryAndChanges
<1>7. AgreeUpTo(n, s, stream)
  <2>1. AgreeUpTo(agg[c].lcv + 1, s, stream)
    BY DEF ScopeInv, InstanceIsHistoryAndChanges
  <2>2. n - 1 <= agg[c].lcv
    BY <1>3, <1>5 DEF RequestOf
  <2>3. n <= agg[c].lcv + 1
    BY <1>4, <1>6, <2>2
  <2>4. n \in Int /\ agg[c].lcv + 1 \in Int
    BY <1>4, <1>6
  <2> QED
    BY <1>4, <2>1, <2>3, <2>4, AgreeOnFewer
<1>8. \A i \in 1 .. Len(run) : run[i].by = c
  BY <1>3 DEF RequestOf
<1>9. /\ AgreeUpTo(n, stream, stream')
      /\ \A d \in Scopes \ {c} : StreamGrowsBeside(d)
  BY <1>2, <1>4, <1>8, OthersSeeAppend
<1>10. HoldsAt(s, n, run)
  <2> DEFINE base == Head(run).target
  <2>1. /\ base + Len(run) <= agg[c].cv
        /\ \A i \in 1 .. Len(run) : s[base + 1 + i] = run[i]
    BY <1>3 DEF RequestOf
  <2>2. base + 1 = n
    BY <1>4, <1>5
  <2>3. n + Len(run) <= Len(s)
    BY <1>4, <1>5, <1>6, <2>1
  <2> HIDE DEF base
  <2> QED
    BY <2>1, <2>2, <2>3 DEF HoldsAt
<1> HIDE DEF n, s
<1>11. Len(stream') = n + Len(run) /\ HoldsAt(stream', n, run)
  BY <1>2, <1>4, ConcatAgrees DEF HoldsAt, n
<1>12. AgreeUpTo(n, s, stream')
  BY <1>4, <1>7, <1>9, AgreeIsTransitive DEF n
<1>13. AgreeUpTo(n + Len(run), s, stream')
  BY <1>4, <1>10, <1>11, <1>12, AgreeOnRun
<1>14. OwnEventsFollowHistory(c)'
  BY <1>1, <1>11, <1>13 DEF OwnEventsFollowHistory, AgreeUpTo, s
<1>15. AgreeUpTo(Len(stream), stream, stream') /\ \A d \in Scopes : PublishedGrowsBeside(d)
  BY <1>1, <1>9, PublishedStays DEF n
<1>16. SnapshotsArePrefixes'
  BY <1>1, <1>15, SnapshotsSurvive DEF locals
<1>17. RequestsAreOwned'
  BY <1>1, <1>2 DEF RequestsAreOwned, RequestOf
<1>18. PublishedAreStored' /\ PublishedOnce'
  BY <1>1, <1>15, PublishedSurvives
<1>19. ScopeInv(c)'
  BY <1>1, <1>14, <1>15, ScopeSurvives DEF ScopeInv, locals
<1>20. \A d \in Scopes \ {c} : ScopeInv(d)'
  BY <1>1, <1>9, <1>15, Bystander DEF locals
<1> QED
  BY <1>16, <1>17, <1>18, <1>19, <1>20

-----------------------------------------------------------------------------
(* Publishing *)

(* The next event to publish is stored, and has not been published yet.    *)
LEMMA NextIsNew ==
  ASSUME HistoryInv, NEW c \in Scopes, pc[c] = "publishing", sent[c] < Len(batch[c]),
         NEW e, e = batch[c][sent[c] + 1]
  PROVE  /\ e \in Event /\ e.by = c /\ e.target = agg[c].lcv + sent[c]
         /\ e.target + 2 <= Len(stream)
         /\ stream[e.target + 2] = e
         /\ \A i \in 1 .. Len(published) : published[i] # e
<1> USE DEF HistoryInv, ContiguityInv
<1> DEFINE lcv == agg[c].lcv
           k == sent[c]
           run == batch[c]
           s == agg[c].applied
<1>1. /\ run \in Seq(Event) /\ lcv \in Int /\ Len(run) \in Nat
      /\ agg[c].cv = lcv + Len(run)
      /\ \A i \in 1 .. Len(run) :
           run[i].by = c /\ run[i].target = lcv + i - 1 /\ s[lcv + 1 + i] = run[i]
  <2>1. pc[c] \in Saving
    BY DEF Saving
  <2> QED
    BY <2>1, BatchOfSave
<1>2. k \in Nat /\ k < Len(run) /\ lcv >= -1
  BY Types
<1>3. AgreeUpTo(agg[c].cv + 1, s, stream)
  BY DEF ScopeInv, SaveInProgress, Stored
<1>4. /\ \A i \in 1 .. Len(published) : published[i].by = c => published[i].target < lcv + k
  <2>1. pc[c] \in Saving
    BY DEF Saving
  <2> QED
    BY <2>1 DEF ScopeInv, PublishedIsSent
<1>5. e = run[k + 1]
  OBVIOUS
<1> HIDE DEF lcv, k, run, s
<1>6. k + 1 \in 1 .. Len(run)
  BY <1>1, <1>2
<1>7. e \in Event /\ e.by = c /\ e.target = lcv + k /\ s[lcv + 1 + (k + 1)] = e
  <2>1. e \in Event
    BY <1>1, <1>5, <1>6
  <2>2. e.by = c /\ e.target = lcv + (k + 1) - 1 /\ s[lcv + 1 + (k + 1)] = e
    BY <1>1, <1>5, <1>6
  <2>3. lcv + (k + 1) - 1 = lcv + k
    BY <1>1, <1>2
  <2> QED
    BY <2>1, <2>2, <2>3
<1>8. e.target + 2 = lcv + 1 + (k + 1) /\ e.target + 2 \in 1 .. agg[c].cv + 1
  <2> DEFINE t == e.target
  <2>1. t = lcv + k
    BY <1>7
  <2>2. lcv + Len(run) + 1 = agg[c].cv + 1
    BY <1>1
  <2> HIDE DEF t
  <2>3. t + 2 = lcv + 1 + (k + 1) /\ t + 2 \in 1 .. lcv + Len(run) + 1
    BY <1>1, <1>2, <2>1
  <2> QED
    BY <2>2, <2>3 DEF t
<1>9. e.target + 2 <= Len(stream) /\ stream[e.target + 2] = e
  <2>1. agg[c].cv + 1 \in Int /\ Len(stream) \in Nat
    BY <1>1, Types
  <2> QED
    BY <1>3, <1>7, <1>8, <2>1 DEF AgreeUpTo
<1>10. \A i \in 1 .. Len(published) : published[i] # e
  <2>1. ~ (lcv + k < lcv + k)
    BY <1>1, <1>2
  <2> QED
    BY <1>4, <1>7, <2>1
<1> QED
  BY <1>7, <1>9, <1>10 DEF lcv, k

(* It may be published: what is published stays stored and without         *)
(* repetition, and is nothing to the other scopes.                         *)
LEMMA PublishedGrows ==
  ASSUME HistoryInv, NEW c \in Scopes, pc[c] = "publishing", sent[c] < Len(batch[c]),
         stream' = stream, published' = Append(published, batch[c][sent[c] + 1])
  PROVE  /\ PublishedAreStored' /\ PublishedOnce'
         /\ \A d \in Scopes \ {c} : PublishedGrowsBeside(d)
<1> USE DEF HistoryInv, ContiguityInv
<1> DEFINE e == batch[c][sent[c] + 1]
<1>1. /\ e \in Event /\ e.by = c
      /\ e.target + 2 <= Len(stream) /\ stream[e.target + 2] = e
      /\ \A i \in 1 .. Len(published) : published[i] # e
  BY NextIsNew
<1>2. published \in Seq(Event) /\ Len(published) \in Nat
  BY Types
<1>3. published' = Append(published, e)
  OBVIOUS
<1> HIDE DEF e
<1>4. /\ Len(published') = Len(published) + 1
      /\ AgreeUpTo(Len(published), published, published')
      /\ published'[Len(published) + 1] = e
  BY <1>1, <1>2, <1>3, AppendAgrees
<1>5. \A i \in 1 .. Len(published') :
        \/ i \in 1 .. Len(published) /\ published'[i] = published[i]
        \/ i = Len(published) + 1 /\ published'[i] = e
  BY <1>2, <1>4 DEF AgreeUpTo
<1>6. PublishedAreStored'
  BY <1>1, <1>5 DEF PublishedAreStored
<1>7. PublishedOnce'
  <2> SUFFICES ASSUME NEW i \in 1 .. Len(published'), NEW j \in 1 .. Len(published'),
                      published'[i] = published'[j]
               PROVE  i = j
    BY DEF PublishedOnce
  <2> QED
    BY <1>1, <1>5 DEF PublishedOnce
<1>8. \A i \in Len(published) + 1 .. Len(published') : published'[i].by = c
  BY <1>1, <1>2, <1>4
<1>9. \A d \in Scopes \ {c} : PublishedGrowsBeside(d)
  BY <1>4, <1>8 DEF PublishedGrowsBeside
<1> QED
  BY <1>6, <1>7, <1>9

LEMMA HistoryPublishNext ==
  ASSUME HistoryInv, ContiguityInv', NEW c \in Scopes, Step(c), PublishNext(c)
  PROVE  HistoryInv'
<1> USE DEF HistoryInv, ContiguityInv
<1> DEFINE e == batch[c][sent[c] + 1]
<1>1. /\ stream' = stream /\ inflight' = inflight /\ snapshot' = snapshot
      /\ pc' = pc /\ agg' = agg /\ found' = found /\ batch' = batch
      /\ pc[c] = "publishing" /\ sent[c] < Len(batch[c])
      /\ sent'[c] = sent[c] + 1 /\ published' = Append(published, e)
  BY DEF PublishNext, TypeOK
<1>2. OnlyScope(c)
  BY StepChangesOneScope
<1>3. \A d \in Scopes : StreamGrowsBeside(d)
  BY <1>1, StreamStays
<1>4. AgreeUpTo(Len(stream), stream, stream')
  BY <1>3 DEF StreamGrowsBeside
<1>5. SnapshotsArePrefixes'
  BY <1>1, <1>4, SnapshotsSurvive
<1>6. RequestsAreOwned'
  BY <1>1 DEF RequestsAreOwned, RequestOf
<1>7. /\ PublishedAreStored' /\ PublishedOnce'
      /\ \A d \in Scopes \ {c} : PublishedGrowsBeside(d)
  BY <1>1, PublishedGrows
<1>8. ScopeInv(c)'
  <2>1. InstanceIsHistoryAndChanges(c)' /\ OwnEventsFollowHistory(c)' /\ NoInstanceYet(c)'
    BY <1>1 DEF ScopeInv, InstanceIsHistoryAndChanges, OwnEventsFollowHistory, NoInstanceYet
  <2>2. SaveInProgress(c)'
    <3>1. sent[c] \in Nat /\ Len(batch[c]) \in Nat
      BY Types
    <3>2. sent'[c] <= Len(batch[c])
      BY <1>1, <3>1
    <3> QED
      BY <1>1, <3>2 DEF ScopeInv, SaveInProgress, Stored
  <2>3. PublishedIsSent(c)'
    <3> DEFINE k == sent[c]
               lcv == agg[c].lcv
               run == batch[c]
    <3>1. e.by = c /\ e.target = lcv + k /\ e \in Event
      BY <1>1, NextIsNew
    <3>2. /\ \A i \in 1 .. Len(published) :
               published[i].by = c => published[i].target < lcv + k
          /\ \A i \in 1 .. k : run[i] \in ToSet(published)
      BY <1>1 DEF ScopeInv, PublishedIsSent, Saving
    <3>3. /\ published \in Seq(Event) /\ Len(published) \in Nat
          /\ k \in Nat /\ lcv \in Int
      BY Types
    <3>4. e = run[k + 1] /\ sent'[c] = k + 1 /\ published' = Append(published, e)
      BY <1>1
    <3> HIDE DEF e, k, lcv, run
    <3>5. \A i \in 1 .. Len(published') :
            \/ i \in 1 .. Len(published) /\ published'[i] = published[i]
            \/ published'[i] = e
      BY <3>1, <3>3, <3>4
    <3>6. ASSUME NEW i \in 1 .. Len(published'), published'[i].by = c
          PROVE  published'[i].target < lcv + (k + 1)
      <4>1. CASE published'[i] = e
        BY <3>1, <3>3, <4>1
      <4>2. CASE i \in 1 .. Len(published) /\ published'[i] = published[i]
        <5> DEFINE v == published'[i].target
        <5>1. v < lcv + k
          BY <3>2, <3>6, <4>2
        <5>2. v \in Int
          <6>1. published[i] \in Event
            BY <3>3, <4>2
          <6> QED
            BY <4>2, <6>1, EventTypes
        <5> HIDE DEF v
        <5>3. v < lcv + (k + 1)
          <6>1. lcv \in Int /\ k \in Nat
            BY <3>3
          <6> QED
            BY <5>1, <5>2, <6>1
        <5> QED
          BY <5>3 DEF v
      <4> QED
        BY <3>5, <4>1, <4>2
    <3>7. ASSUME NEW i \in 1 .. k + 1 PROVE run[i] \in ToSet(published')
      <4>1. ToSet(published) \subseteq ToSet(published') /\ e \in ToSet(published')
        BY <3>1, <3>3, <3>4 DEF ToSet
      <4>2. i \in 1 .. k \/ i = k + 1
        BY <3>3
      <4> QED
        BY <3>2, <3>4, <4>1, <4>2
    <3> QED
      BY <1>1, <3>4, <3>6, <3>7 DEF PublishedIsSent, lcv, run
  <2> QED
    BY <2>1, <2>2, <2>3 DEF ScopeInv
<1>9. \A d \in Scopes \ {c} : ScopeInv(d)'
  BY <1>2, <1>3, <1>7, Bystander DEF OnlyScope
<1> QED
  BY <1>5, <1>6, <1>7, <1>8, <1>9

LEMMA HistoryPublishFails ==
  ASSUME HistoryInv, ContiguityInv', NEW c \in Scopes, Step(c), PublishFails(c)
  PROVE  HistoryInv'
<1> USE DEF HistoryInv, ContiguityInv
<1>1. /\ stream' = stream /\ inflight' = inflight /\ snapshot' = snapshot
      /\ agg' = agg /\ found' = found
      /\ pc[c] = "publishing" /\ sent[c] < Len(batch[c])
      /\ pc'[c] = "ready" /\ sent'[c] = 0
      /\ published' \in {published, Append(published, batch[c][sent[c] + 1])}
  BY DEF PublishFails, Throw, TypeOK
<1>2. OnlyScope(c)
  BY StepChangesOneScope
<1>3. \A d \in Scopes : StreamGrowsBeside(d)
  BY <1>1, StreamStays
<1>4. AgreeUpTo(Len(stream), stream, stream')
  BY <1>3 DEF StreamGrowsBeside
<1>5. SnapshotsArePrefixes'
  BY <1>1, <1>4, SnapshotsSurvive
<1>6. RequestsAreOwned'
  BY <1>1 DEF RequestsAreOwned, RequestOf
<1>7. /\ PublishedAreStored' /\ PublishedOnce'
      /\ \A d \in Scopes \ {c} : PublishedGrowsBeside(d)
  <2>1. CASE published' = published
    BY <1>4, <2>1, PublishedSurvives, PublishedStays
  <2>2. CASE published' = Append(published, batch[c][sent[c] + 1])
    BY <1>1, <2>2, PublishedGrows
  <2> QED
    BY <1>1, <2>1, <2>2
<1>8. ScopeInv(c)'
  BY <1>1, AtRest
<1>9. \A d \in Scopes \ {c} : ScopeInv(d)'
  BY <1>2, <1>3, <1>7, Bystander DEF OnlyScope
<1> QED
  BY <1>5, <1>6, <1>7, <1>8, <1>9

-----------------------------------------------------------------------------
(* Snapshots, and the end of a save *)

(* A snapshot taken while the whole instance is stored is a prefix.        *)
LEMMA SnapshotIsTaken ==
  ASSUME HistoryInv, ContiguityInv', NEW c \in Scopes, pc[c] = "publishing",
         stream' = stream, found' = found, snapshot' \in {snapshot, TakeSnapshot(c)}
  PROVE  SnapshotsArePrefixes'
<1> USE DEF HistoryInv, ContiguityInv
<1> DEFINE taken == TakeSnapshot(c)
<1>1. taken.version = agg[c].cv /\ taken.applied = agg[c].applied
  BY DEF TakeSnapshot
<1>2. Len(agg[c].applied) = agg[c].cv + 1
  BY DEF ScopeInv, InstanceIsHistoryAndChanges
<1>3. AgreeUpTo(agg[c].cv + 1, agg[c].applied, stream)
  BY DEF ScopeInv, SaveInProgress, Stored
<1>4. /\ Len(taken.applied) = taken.version + 1
      /\ AgreeUpTo(taken.version + 1, taken.applied, stream)
  BY <1>1, <1>2, <1>3
<1> HIDE DEF taken
<1>5. \A x \in {snapshot'} \cup {found'[d] : d \in Scopes} :
        x = taken \/ x \in {snapshot} \cup {found[d] : d \in Scopes}
  BY DEF taken
<1> QED
  BY <1>4, <1>5 DEF SnapshotsArePrefixes

LEMMA HistorySaveSnapshot ==
  ASSUME HistoryInv, ContiguityInv', NEW c \in Scopes, Step(c), SaveSnapshot(c)
  PROVE  HistoryInv'
<1> USE DEF HistoryInv, ContiguityInv
<1>1. /\ UNCHANGED <<stream, inflight, published, agg, locals>>
      /\ pc[c] = "publishing" /\ sent[c] = Len(batch[c]) /\ pc'[c] = "marking"
      /\ snapshot' \in {snapshot, TakeSnapshot(c)}
  BY DEF SaveSnapshot, AllPublished, TypeOK
<1>2. OnlyScope(c)
  BY StepChangesOneScope
<1>3. \A d \in Scopes : StreamGrowsBeside(d) /\ PublishedGrowsBeside(d)
  BY <1>1, StreamStays, PublishedStays
<1>4. AgreeUpTo(Len(stream), stream, stream')
  BY <1>3 DEF StreamGrowsBeside
<1>5. SnapshotsArePrefixes'
  BY <1>1, SnapshotIsTaken DEF locals
<1>6. RequestsAreOwned'
  BY <1>1 DEF RequestsAreOwned, RequestOf
<1>7. PublishedAreStored' /\ PublishedOnce'
  BY <1>1, <1>4, PublishedSurvives
<1>8. ScopeInv(c)'
  <2>1. InstanceIsHistoryAndChanges(c)' /\ OwnEventsFollowHistory(c)' /\ NoInstanceYet(c)'
    BY <1>1 DEF ScopeInv, InstanceIsHistoryAndChanges, OwnEventsFollowHistory, NoInstanceYet
  <2>2. SaveInProgress(c)'
    BY <1>1 DEF ScopeInv, SaveInProgress, Stored, Saving, locals
  <2>3. PublishedIsSent(c)'
    BY <1>1 DEF ScopeInv, PublishedIsSent, Saving, locals
  <2> QED
    BY <2>1, <2>2, <2>3 DEF ScopeInv
<1>9. \A d \in Scopes \ {c} : ScopeInv(d)'
  BY <1>2, <1>3, Bystander DEF OnlyScope
<1> QED
  BY <1>5, <1>6, <1>7, <1>8, <1>9

LEMMA HistorySnapshotFails ==
  ASSUME HistoryInv, ContiguityInv', NEW c \in Scopes, Step(c), SnapshotFails(c)
  PROVE  HistoryInv'
<1> USE DEF HistoryInv, ContiguityInv
<1>1. /\ stream' = stream /\ inflight' = inflight /\ published' = published
      /\ agg' = agg /\ found' = found
      /\ pc[c] = "publishing" /\ pc'[c] = "ready" /\ sent'[c] = 0
      /\ snapshot' \in {snapshot, TakeSnapshot(c)}
  BY DEF SnapshotFails, AllPublished, Throw, TypeOK
<1>2. OnlyScope(c)
  BY StepChangesOneScope
<1>3. \A d \in Scopes : StreamGrowsBeside(d) /\ PublishedGrowsBeside(d)
  BY <1>1, StreamStays, PublishedStays
<1>4. AgreeUpTo(Len(stream), stream, stream')
  BY <1>3 DEF StreamGrowsBeside
<1>5. SnapshotsArePrefixes'
  BY <1>1, SnapshotIsTaken
<1>6. RequestsAreOwned'
  BY <1>1 DEF RequestsAreOwned, RequestOf
<1>7. PublishedAreStored' /\ PublishedOnce'
  BY <1>1, <1>4, PublishedSurvives
<1>8. ScopeInv(c)'
  BY <1>1, AtRest
<1>9. \A d \in Scopes \ {c} : ScopeInv(d)'
  BY <1>2, <1>3, Bystander DEF OnlyScope
<1> QED
  BY <1>5, <1>6, <1>7, <1>8, <1>9

LEMMA HistoryMarkChangesAsCommitted ==
  ASSUME HistoryInv, ContiguityInv', NEW c \in Scopes, Step(c), MarkChangesAsCommitted(c)
  PROVE  HistoryInv'
<1> USE DEF HistoryInv, ContiguityInv
<1>1. /\ UNCHANGED stores /\ found' = found
      /\ pc[c] = "marking" /\ pc'[c] = "ready" /\ sent'[c] = 0
  BY DEF MarkChangesAsCommitted, TypeOK
<1>2. /\ agg'[c].cv = agg[c].cv /\ agg'[c].lcv = agg[c].cv
      /\ agg'[c].applied = agg[c].applied /\ agg'[c].uncommitted = <<>>
  BY DEF MarkChangesAsCommitted, TypeOK, Aggregate
<1>3. OnlyScope(c)
  BY StepChangesOneScope
<1>4. \A d \in Scopes : StreamGrowsBeside(d) /\ PublishedGrowsBeside(d)
  BY <1>1, StreamStays, PublishedStays DEF stores
<1>5. AgreeUpTo(Len(stream), stream, stream')
  BY <1>4 DEF StreamGrowsBeside
<1>6. /\ agg[c].cv \in Int /\ agg[c].lcv \in Int /\ agg[c].lcv <= agg[c].cv
      /\ agg[c].applied \in Seq(Event) /\ Len(agg[c].applied) = agg[c].cv + 1
  BY Types DEF ScopeInv, InstanceIsHistoryAndChanges
<1>7. SnapshotsArePrefixes'
  BY <1>1, <1>5, SnapshotsSurvive DEF stores
<1>8. RequestsAreOwned'
  <2>1. /\ agg'[c].cv >= agg[c].cv /\ agg'[c].lcv >= agg[c].lcv
        /\ agg'[c].cv \in Int /\ agg'[c].lcv \in Int
    BY <1>2, <1>6
  <2>2. AgreeUpTo(Len(agg[c].applied), agg[c].applied, agg'[c].applied)
    BY <1>2, <1>6, AgreeIsReflexive
  <2> QED
    BY <1>1, <1>3, <2>1, <2>2, RequestsKeepPlace DEF stores
<1>9. PublishedAreStored' /\ PublishedOnce'
  BY <1>1, <1>5, PublishedSurvives DEF stores
<1>10. ScopeInv(c)'
  <2>1. InstanceIsHistoryAndChanges(c)'
    <3>1. AgreeUpTo(agg[c].cv + 1, agg[c].applied, stream)
      BY <1>1 DEF ScopeInv, SaveInProgress, Stored
    <3> QED
      BY <1>1, <1>2, <1>6, <3>1 DEF InstanceIsHistoryAndChanges, stores
  <2>2. OwnEventsFollowHistory(c)'
    BY <1>1, <1>2 DEF ScopeInv, OwnEventsFollowHistory, stores
  <2>3. NoInstanceYet(c)' /\ PublishedIsSent(c)'
    BY <1>1 DEF NoInstanceYet, PublishedIsSent, Saving
  <2>4. SaveInProgress(c)'
    <3>1. Len(batch'[c]) \in Nat
      BY Types DEF MarkChangesAsCommitted, TypeOK
    <3> QED
      BY <1>1, <3>1 DEF SaveInProgress, Saving
  <2> QED
    BY <2>1, <2>2, <2>3, <2>4 DEF ScopeInv
<1>11. \A d \in Scopes \ {c} : ScopeInv(d)'
  BY <1>3, <1>4, Bystander DEF OnlyScope
<1> QED
  BY <1>7, <1>8, <1>9, <1>10, <1>11

-----------------------------------------------------------------------------
(* The invariant *)

LEMMA HistoryInit == Init => HistoryInv
<1> SUFFICES ASSUME Init PROVE HistoryInv
  OBVIOUS
<1>1. ContiguityInv
  BY ContiguityInit
<1>2. SnapshotsArePrefixes
  BY DEF Init, SnapshotsArePrefixes, NoSnapshot, NoStream, AgreeUpTo
<1>3. RequestsAreOwned /\ PublishedAreStored /\ PublishedOnce
  BY DEF Init, RequestsAreOwned, PublishedAreStored, PublishedOnce
<1>4. \A c \in Scopes : ScopeInv(c)
  <2> TAKE c \in Scopes
  <2>1. InstanceIsHistoryAndChanges(c)
    BY DEF Init, NewInstance, NoStream, InstanceIsHistoryAndChanges, AgreeUpTo
  <2>2. NoInstanceYet(c) /\ OwnEventsFollowHistory(c)
    BY DEF Init, NoInstanceYet, OwnEventsFollowHistory
  <2>3. SaveInProgress(c) /\ PublishedIsSent(c)
    BY DEF Init, SaveInProgress, PublishedIsSent, Saving
  <2> QED
    BY <2>1, <2>2, <2>3 DEF ScopeInv
<1> QED
  BY <1>1, <1>2, <1>3, <1>4 DEF HistoryInv

LEMMA HistoryStep ==
  ASSUME AppendChecksVersion, ~ AppliesDuringSave
  PROVE  HistoryInv /\ [Next]_vars => HistoryInv'
<1> SUFFICES ASSUME HistoryInv, [Next]_vars PROVE HistoryInv'
  OBVIOUS
<1>1. ContiguityInv'
  BY ContiguityStep DEF HistoryInv
<1>2. CASE UNCHANGED vars
  BY <1>2 DEF HistoryInv, ContiguityInv, TypeOK, VersionsAreContiguous,
     ChangesLeadToVersion, RequestsAreRuns, IsRun, SnapshotsArePrefixes,
     RequestsAreOwned, RequestOf, PublishedAreStored, PublishedOnce, ScopeInv,
     InstanceIsHistoryAndChanges, NoInstanceYet, OwnEventsFollowHistory,
     SaveInProgress, Stored, PublishedIsSent, vars, stores, locals
<1>3. CASE LateAppend
  BY <1>1, <1>3, HistoryLateAppend
<1>4. ASSUME NEW c \in Scopes, Step(c) PROVE HistoryInv'
  <2>1. CASE Create(c) \/ Load(c) \/ Leave(c)
    BY <1>1, <1>4, <2>1, HistoryQuietSteps, HistoryReadEvents DEF Load
  <2>2. CASE ApplyEvent(c)
    BY <1>1, <1>4, <2>2, HistoryApplyEvent
  <2>3. CASE Save(c)
    BY <1>1, <1>4, <2>3, HistoryQuietSteps, HistoryPassCheck, HistoryAppendEvents,
       HistoryPublishNext, HistorySaveSnapshot, HistoryMarkChangesAsCommitted DEF Save
  <2>4. CASE Fault(c)
    BY <1>1, <1>4, <2>4, HistoryAppendTimesOut, HistoryPublishFails,
       HistorySnapshotFails DEF Fault
  <2> QED
    BY <1>4, <2>1, <2>2, <2>3, <2>4 DEF Step
<1> QED
  BY <1>2, <1>3, <1>4 DEF Next

(* Behind every property below stands this invariant, for stores that      *)
(* compare versions and scopes that await their saves, whatever fails.     *)
THEOREM HistoryHolds ==
  ASSUME AppendChecksVersion, ~ AppliesDuringSave
  PROVE  Spec => []HistoryInv
<1>1. HistoryInv /\ [Next]_vars => HistoryInv'
  BY HistoryStep
<1> QED
  BY HistoryInit, <1>1, PTL DEF Spec

-----------------------------------------------------------------------------
(* The properties *)

(* The latest snapshot is the state at one version of the stream, however  *)
(* saves overlap and whichever of them fail (SaveSnapshotAsync).           *)
THEOREM SnapshotIsPrefixHolds ==
  ASSUME AppendChecksVersion, ~ AppliesDuringSave
  PROVE  Spec => []SnapshotIsPrefix
<1>1. HistoryInv => SnapshotIsPrefix
  <2> SUFFICES ASSUME HistoryInv PROVE SnapshotIsPrefix
    OBVIOUS
  <2>1. snapshot.applied \in Seq(Event) /\ stream \in Seq(Event)
    BY SnapshotTypes DEF HistoryInv, ContiguityInv, TypeOK
  <2>2. /\ Len(snapshot.applied) = snapshot.version + 1
        /\ AgreeUpTo(snapshot.version + 1, snapshot.applied, stream)
    BY DEF HistoryInv, SnapshotsArePrefixes
  <2>3. AgreeUpTo(Len(snapshot.applied), snapshot.applied, stream)
    BY <2>2
  <2> QED
    BY <2>1, <2>2, <2>3, AgreeIsPrefix DEF SnapshotIsPrefix
<1> QED
  BY HistoryHolds, <1>1, PTL

LEMMA AgreeingPartIsPrefix ==
  ASSUME NEW S, NEW s \in Seq(S), NEW t \in Seq(S), NEW n \in Nat,
         AgreeUpTo(n, s, t)
  PROVE  IsPrefix(SubSeq(t, 1, n), s)
<1> DEFINE part == SubSeq(t, 1, n)
<1>1. part \in Seq(S) /\ Len(part) = n /\ \A i \in 1 .. n : part[i] = t[i]
  BY DEF AgreeUpTo
<1> HIDE DEF part
<1>2. AgreeUpTo(Len(part), part, s)
  BY <1>1 DEF AgreeUpTo
<1> QED
  BY <1>1, <1>2, AgreeIsPrefix DEF part

(* Optimistic concurrency works: nobody stores an event behind a history   *)
(* that it has not seen, late appends included (CommitChanges).            *)
THEOREM AuthorsSawHistoryHolds ==
  ASSUME AppendChecksVersion, ~ AppliesDuringSave
  PROVE  Spec => []AuthorsSawHistory
<1>1. HistoryInv => AuthorsSawHistory
  <2> SUFFICES ASSUME HistoryInv, NEW c \in Scopes, NEW i \in 1 .. Len(stream),
                      stream[i].by = c
               PROVE  IsPrefix(SubSeq(stream, 1, i), agg[c].applied)
    BY DEF AuthorsSawHistory, HistoryInv, ContiguityInv, TypeOK
  <2>1. stream \in Seq(Event) /\ agg[c].applied \in Seq(Event)
    BY Types DEF HistoryInv, ContiguityInv
  <2>2. AgreeUpTo(i, agg[c].applied, stream)
    BY DEF HistoryInv, ScopeInv, OwnEventsFollowHistory
  <2> QED
    BY <2>1, <2>2, AgreeingPartIsPrefix
<1> QED
  BY HistoryHolds, <1>1, PTL

(* A save that returns has stored and published all that it removes from   *)
(* the instance (MarkChangesAsCommitted at the end of CommitChanges).      *)
THEOREM NothingDroppedHolds ==
  ASSUME AppendChecksVersion, ~ AppliesDuringSave
  PROVE  Spec => NothingDropped
<1> DEFINE Kept(c) ==
      pc[c] = "marking" => ToSet(agg[c].uncommitted) \subseteq ToSet(stream) \cap ToSet(published)
<1>1. HistoryInv => \A c \in Scopes : Kept(c)
  <2> SUFFICES ASSUME HistoryInv, NEW c \in Scopes, pc[c] = "marking"
               PROVE  ToSet(batch[c]) \subseteq ToSet(stream) \cap ToSet(published)
    BY BatchOfSave DEF Saving
  <2> DEFINE run == batch[c]
             n == agg[c].lcv + 1
             s == agg[c].applied
  <2>1. /\ run \in Seq(Event) /\ Len(run) \in Nat /\ n \in Nat
        /\ agg[c].lcv \in Int /\ agg[c].cv = agg[c].lcv + Len(run)
        /\ \A i \in 1 .. Len(run) : s[n + i] = run[i]
    BY BatchOfSave DEF Saving
  <2>2. AgreeUpTo(agg[c].cv + 1, s, stream) /\ sent[c] = Len(run)
    BY DEF HistoryInv, ScopeInv, SaveInProgress, Stored
  <2>3. \A i \in 1 .. Len(run) : run[i] \in ToSet(published)
    BY <2>2 DEF HistoryInv, ScopeInv, PublishedIsSent, Saving
  <2>4. agg[c].cv + 1 = n + Len(run)
    BY <2>1
  <2>5. stream \in Seq(Event)
    BY DEF HistoryInv, ContiguityInv, TypeOK
  <2> HIDE DEF run, n, s
  <2>6. \A i \in 1 .. Len(run) : run[i] \in ToSet(stream)
    <3> TAKE i \in 1 .. Len(run)
    <3>1. n + i \in 1 .. n + Len(run)
      BY <2>1
    <3>2. n + i \in 1 .. Len(stream) /\ s[n + i] = stream[n + i]
      BY <2>1, <2>2, <2>4, <2>5, <3>1 DEF AgreeUpTo
    <3>3. stream[n + i] = run[i]
      BY <2>1, <3>2
    <3> QED
      BY <2>5, <3>2, <3>3 DEF ToSet
  <2> QED
    BY <2>1, <2>3, <2>6 DEF ToSet, run
<1>2. (\A c \in Scopes : Kept(c)) =>
        [\A c \in Scopes : pc[c] = "marking" /\ pc'[c] = "ready" =>
           ToSet(agg[c].uncommitted) \subseteq ToSet(stream) \cap ToSet(published)]_vars
  OBVIOUS
<1> QED
  BY HistoryHolds, <1>1, <1>2, PTL DEF NothingDropped

-----------------------------------------------------------------------------
(* Loads *)

LEMMA RaisedByOwnStep ==
  ASSUME TypeOK, NEW c \in Scopes, NEW d \in Scopes \ {c}, Step(c)
  PROVE  pc'[d] = pc[d] /\ raised'[d] = raised[d]
<1> USE DEF TypeOK, stores, locals
<1>1. CASE Create(c) \/ Load(c) \/ ApplyEvent(c) \/ Leave(c)
  BY <1>1 DEF Create, Load, ReadSnapshot, ReadEvents, LoadFails, ApplyEvent, Leave
<1>2. CASE Save(c)
  BY <1>2 DEF Save, PassCheck, FailCheck, AppendEvents, RejectEvents, PublishNext,
         SaveSnapshot, MarkChangesAsCommitted, Throw
<1>3. CASE Fault(c)
  BY <1>3 DEF Fault, AppendTimesOut, PublishFails, SnapshotFails, Throw
<1> QED
  BY <1>1, <1>2, <1>3 DEF Step

(* What a scope without an instance can do. *)
LEMMA StepsOfLoading ==
  ASSUME TypeOK, NEW c \in Scopes, Step(c), pc[c] \in {"idle", "loading"}
  PROVE  \/ Create(c) \/ ReadSnapshot(c) \/ ReadEvents(c) \/ LoadFails(c) \/ Leave(c)
<1>1. ~ ApplyEvent(c) /\ ~ Save(c)
  BY DEF ApplyEvent, Save, PassCheck, FailCheck, BeginsSave, AppendEvents, RejectEvents,
         PublishNext, SaveSnapshot, AllPublished, MarkChangesAsCommitted, Saving
<1>2. ~ Fault(c)
  BY DEF Fault, AppendTimesOut, PublishFails, SnapshotFails, AllPublished
<1> QED
  BY <1>1, <1>2 DEF Step, Load

LEMMA NothingRaisedStep ==
  ASSUME TypeOK, NothingRaisedYet, [Next]_vars
  PROVE  NothingRaisedYet'
<1>1. CASE UNCHANGED vars
  BY <1>1 DEF NothingRaisedYet, vars
<1>2. CASE LateAppend
  BY <1>2 DEF NothingRaisedYet, LateAppend
<1>3. ASSUME NEW c \in Scopes, Step(c) PROVE NothingRaisedYet'
  <2>1. \A d \in Scopes \ {c} : pc'[d] = pc[d] /\ raised'[d] = raised[d]
    BY <1>3, RaisedByOwnStep
  <2>2. pc'[c] \in {"idle", "loading"} => pc[c] \in {"idle", "loading"}
    <3> USE DEF TypeOK, stores, locals
    <3>1. CASE Create(c) \/ Load(c) \/ ApplyEvent(c) \/ Leave(c)
      BY <3>1 DEF Create, Load, ReadSnapshot, ReadEvents, LoadFails, ApplyEvent, Leave
    <3>2. CASE Save(c)
      BY <3>2 DEF Save, PassCheck, FailCheck, AppendEvents, RejectEvents, PublishNext,
             SaveSnapshot, MarkChangesAsCommitted, Throw
    <3>3. CASE Fault(c)
      BY <3>3 DEF Fault, AppendTimesOut, PublishFails, SnapshotFails, Throw
    <3> QED
      BY <1>3, <3>1, <3>2, <3>3 DEF Step
  <2>3. pc'[c] \in {"idle", "loading"} => raised'[c] = "none"
    <3> SUFFICES ASSUME pc'[c] \in {"idle", "loading"} PROVE raised'[c] = "none"
      OBVIOUS
    <3>1. raised[c] = "none"
      BY <2>2 DEF NothingRaisedYet
    <3>2. \/ Create(c) \/ ReadSnapshot(c) \/ ReadEvents(c) \/ LoadFails(c) \/ Leave(c)
      BY <1>3, <2>2, StepsOfLoading
    <3> QED
      BY <3>1, <3>2 DEF TypeOK, Create, ReadSnapshot, ReadEvents, LoadFails, Leave
  <2> QED
    BY <2>1, <2>3 DEF NothingRaisedYet
<1> QED
  BY <1>1, <1>2, <1>3 DEF Next

(* Stored history replays on top of every snapshot a load can have found. *)
LEMMA HistoryReplays ==
  ASSUME TypeOK, VersionsAreContiguous, SnapshotsArePrefixes, NEW c \in Scopes
  PROVE  CanReplay(found[c].version, EventsAfter(found[c]))
<1> DEFINE v == found[c].version
           events == EventsAfter(found[c])
<1>1. found[c] \in Snapshot /\ stream \in Seq(Event)
  BY DEF TypeOK
<1>2. v \in Int /\ v + 1 \in Nat
  BY <1>1, SnapshotTypes
<1>3. v + 1 <= Len(stream)
  BY DEF SnapshotsArePrefixes, AgreeUpTo
<1>4. /\ events \in Seq(Event) /\ Len(events) = Len(stream) - v - 1
      /\ \A i \in 1 .. Len(events) : events[i] = stream[v + 1 + i]
  BY <1>1, <1>3, EventsAfterType
<1>5. \A i \in 1 .. Len(stream) : stream[i].target = i - 2
  BY <1>1 DEF VersionsAreContiguous
<1> HIDE DEF v, events
<1>6. ASSUME NEW i \in 1 .. Len(events) PROVE events[i].target = v + i - 1
  <2>1. v + 1 + i \in 1 .. Len(stream) /\ (v + 1 + i) - 2 = v + i - 1
    BY <1>1, <1>2, <1>4
  <2>2. stream[v + 1 + i].target = (v + 1 + i) - 2
    BY <1>5, <2>1
  <2> QED
    BY <1>4, <2>1, <2>2
<1>7. DOMAIN events = 1 .. Len(events)
  BY <1>4
<1> QED
  BY <1>6, <1>7 DEF CanReplay, v, events

LEMMA LoadStep ==
  ASSUME HistoryInv, NothingRaisedYet, [Next]_vars, NEW c \in Scopes, pc[c] = "loading"
  PROVE  /\ pc'[c] = "ready" => agg'[c].applied = stream /\ agg'[c].lcv = Len(stream) - 1
         /\ raised'[c] = "AggregateNotFoundException" => stream = <<>>
         /\ raised'[c] # "AggregateStateMismatchException"
<1> USE DEF HistoryInv, ContiguityInv
<1>1. raised[c] = "none"
  BY DEF NothingRaisedYet
<1>2. CASE UNCHANGED vars \/ LateAppend
  BY <1>1, <1>2 DEF vars, LateAppend
<1>3. CASE \E d \in Scopes \ {c} : Step(d)
  BY <1>1, <1>3, RaisedByOwnStep
<1>4. CASE Step(c)
  <2>1. CASE ReadEvents(c)
    BY <1>1, <2>1, LoadedIsStream DEF ReadEvents
  <2>2. CASE LoadFails(c)
    <3>1. pc'[c] = "gone" /\ NothingStored(c)
          /\ raised'[c] = "AggregateNotFoundException"
      BY <2>2, HistoryReplays DEF LoadFails, TypeOK
    <3>2. stream \in Seq(Event) /\ SubSeq(stream, 1, Len(stream)) = <<>>
      BY <3>1 DEF NothingStored, EventsAfter, NoSnapshot, NoStream, TypeOK
    <3>3. stream = <<>>
      BY <3>2
    <3> QED
      BY <3>1, <3>3
  <2>3. CASE Leave(c)
    BY <1>1, <2>3 DEF Leave, TypeOK
  <2>4. ~ Create(c) /\ ~ ReadSnapshot(c)
    BY DEF Create, ReadSnapshot
  <2> QED
    BY <1>4, <2>1, <2>2, <2>3, <2>4, StepsOfLoading
<1> QED
  BY <1>2, <1>3, <1>4 DEF Next

(* A load that overlaps the saves of others returns the aggregate as the   *)
(* stream holds it, and fails only when there is none (GetByIdAsync).      *)
THEOREM LoadsReplayTheStreamHolds ==
  ASSUME AppendChecksVersion, ~ AppliesDuringSave
  PROVE  Spec => LoadsReplayTheStream
<1>1. Init => NothingRaisedYet
  BY DEF Init, NothingRaisedYet
<1>2. HistoryInv /\ NothingRaisedYet /\ [Next]_vars => NothingRaisedYet'
  BY NothingRaisedStep DEF HistoryInv, ContiguityInv
<1>3. HistoryInv /\ NothingRaisedYet /\ [Next]_vars =>
        [\A c \in Scopes : pc[c] = "loading" =>
           /\ pc'[c] = "ready" =>
                agg'[c].applied = stream /\ agg'[c].lcv = Len(stream) - 1
           /\ raised'[c] = "AggregateNotFoundException" => stream = <<>>
           /\ raised'[c] # "AggregateStateMismatchException"]_vars
  BY LoadStep
<1> QED
  BY HistoryHolds, <1>1, <1>2, <1>3, PTL DEF Spec, LoadsReplayTheStream

-----------------------------------------------------------------------------
(* Conflicts *)

(* Another scope has stored an event that c has not seen. *)
ForeignWrite(c) == \E i \in agg[c].lcv + 2 .. Len(stream) : stream[i].by # c

(* Without failures, a step of one scope adds to the stream what is not    *)
(* the work of the others, and leaves no request behind.                   *)
LEMMA OthersSeeGrowth ==
  ASSUME AppendChecksVersion, Faults \subseteq {"crash"}, HistoryInv, HistoryInv',
         inflight = {}, NEW c \in Scopes, Step(c)
  PROVE  /\ inflight' = {}
         /\ AgreeUpTo(Len(stream), stream, stream')
         /\ \A d \in Scopes \ {c} : StreamGrowsBeside(d)
         /\ ~ AppendEvents(c) => stream' = stream
<1>1. ~ Fault(c)
  BY DEF Fault, AppendTimesOut, PublishFails, SnapshotFails
<1>2. CASE AppendEvents(c)
  <2>1. inflight' = {}
    BY <1>2 DEF AppendEvents
  <2> QED
    BY <1>2, <2>1, AppendStoresInstance DEF HistoryInv
<1>3. CASE ~ AppendEvents(c)
  <2>1. UNCHANGED <<stream, inflight>>
    <3> USE DEF stores, locals
    <3>1. CASE Create(c) \/ Load(c) \/ ApplyEvent(c) \/ Leave(c)
      BY <3>1 DEF Create, Load, ReadSnapshot, ReadEvents, LoadFails, ApplyEvent, Leave
    <3>2. CASE Save(c)
      BY <1>3, <3>2 DEF Save, PassCheck, FailCheck, RejectEvents, PublishNext,
             SaveSnapshot, MarkChangesAsCommitted
    <3> QED
      BY <1>1, <3>1, <3>2 DEF Step
  <2>2. \A d \in Scopes : StreamGrowsBeside(d)
    BY <2>1, StreamStays DEF HistoryInv, ContiguityInv
  <2> QED
    BY <2>1, <2>2 DEF StreamGrowsBeside
<1> QED
  BY <1>2, <1>3

(* A scope that throws found the stream longer than its instance knows,    *)
(* and the end of it is not its own work.                                  *)
LEMMA LongerMeansForeign ==
  ASSUME HistoryInv, NEW c \in Scopes, NoOwnEventsAhead(c),
         pc[c] \in {"ready", "appending"}, Len(stream) # agg[c].lcv + 1
  PROVE  ForeignWrite(c)
<1>1. /\ stream \in Seq(Event) /\ Len(stream) \in Nat
      /\ agg[c].lcv \in Int /\ agg[c].lcv >= -1
  BY Types DEF HistoryInv, ContiguityInv
<1>2. agg[c].lcv + 1 <= Len(stream)
  BY DEF HistoryInv, ScopeInv, InstanceIsHistoryAndChanges, AgreeUpTo
<1>3. Len(stream) \in agg[c].lcv + 2 .. Len(stream)
  BY <1>1, <1>2
<1> QED
  BY <1>3 DEF NoOwnEventsAhead, ForeignWrite

LEMMA LastIsTop ==
  ASSUME HistoryInv, stream # <<>>
  PROVE  Len(stream) \in Nat /\ Last(stream).target = Len(stream) - 2
<1>1. stream \in Seq(Event) /\ VersionsAreContiguous
  BY DEF HistoryInv, ContiguityInv, TypeOK
<1>2. Len(stream) \in 1 .. Len(stream)
  BY <1>1
<1>3. stream[Len(stream)].target = Len(stream) - 2
  BY <1>1, <1>2 DEF VersionsAreContiguous
<1> QED
  BY <1>1, <1>3 DEF Last

LEMMA FailedCheckMeansForeign ==
  ASSUME HistoryInv, NEW c \in Scopes, NoOwnEventsAhead(c), FailCheck(c)
  PROVE  ForeignWrite(c)
<1>1. pc[c] = "ready" /\ (AlreadyExists(c) \/ ModifiedExternally(c))
  BY DEF FailCheck, BeginsSave
<1>2. agg[c].lcv \in Int /\ Len(stream) \in Nat /\ stream \in Seq(Event)
  BY Types DEF HistoryInv, ContiguityInv
<1>3. stream # <<>>
  BY <1>1 DEF AlreadyExists, ModifiedExternally
<1>4. CASE AlreadyExists(c)
  <2>1. agg[c].lcv = -1 /\ Len(stream) # 0
    BY <1>2, <1>3, <1>4 DEF AlreadyExists, NoStream
  <2>2. Len(stream) # agg[c].lcv + 1
    BY <2>1
  <2> QED
    BY <1>1, <2>2, LongerMeansForeign
<1>5. CASE ModifiedExternally(c)
  <2>1. Len(stream) - 2 + 1 # agg[c].lcv
    BY <1>3, <1>5, LastIsTop DEF ModifiedExternally
  <2>2. Len(stream) # agg[c].lcv + 1
    BY <1>2, <2>1
  <2> QED
    BY <1>1, <2>2, LongerMeansForeign
<1> QED
  BY <1>1, <1>4, <1>5

LEMMA RejectedMeansForeign ==
  ASSUME AppendChecksVersion, HistoryInv, NEW c \in Scopes, NoOwnEventsAhead(c),
         RejectEvents(c)
  PROVE  ForeignWrite(c)
<1>1. pc[c] = "appending" /\ Head(batch[c]).target # Len(stream) - 1
  BY DEF RejectEvents, Accepts
<1>2. /\ agg[c].lcv \in Int /\ Len(batch[c]) \in Nat /\ Len(batch[c]) >= 1
      /\ Head(batch[c]) = batch[c][1]
      /\ \A i \in 1 .. Len(batch[c]) : batch[c][i].target = agg[c].lcv + i - 1
  BY <1>1, BatchOfSave DEF Saving
<1>3. Head(batch[c]).target = agg[c].lcv
  <2>1. batch[c][1].target = agg[c].lcv + 1 - 1
    BY <1>2
  <2> QED
    BY <1>2, <2>1
<1>4. Len(stream) \in Nat
  BY Types DEF HistoryInv, ContiguityInv
<1>5. Len(stream) # agg[c].lcv + 1
  BY <1>1, <1>2, <1>3, <1>4
<1> QED
  BY <1>1, <1>5, LongerMeansForeign

(* A scope that did not move: what it was told stays true. *)
LEMMA ConflictStays ==
  ASSUME HistoryInv, HistoryInv', NEW c \in Scopes,
         AgreeUpTo(Len(stream), stream, stream'), agg'[c].lcv = agg[c].lcv,
         ForeignWrite(c)
  PROVE  ForeignWrite(c)'
<1>1. PICK i \in agg[c].lcv + 2 .. Len(stream) : stream[i].by # c
  BY DEF ForeignWrite
<1>2. /\ agg[c].lcv \in Int /\ agg[c].lcv >= -1
      /\ Len(stream) \in Nat /\ Len(stream') \in Nat
  BY Types DEF HistoryInv, ContiguityInv, TypeOK
<1>3. /\ i \in 1 .. Len(stream)
      /\ i \in agg'[c].lcv + 2 .. Len(stream')
  BY <1>1, <1>2 DEF AgreeUpTo
<1>4. stream'[i].by # c
  BY <1>1, <1>3 DEF AgreeUpTo
<1> QED
  BY <1>3, <1>4 DEF ForeignWrite

LEMMA NoneAheadBeside ==
  ASSUME HistoryInv, HistoryInv', NEW d \in Scopes, NoOwnEventsAhead(d),
         StreamGrowsBeside(d), agg'[d] = agg[d],
         pc'[d] \in {"idle", "loading", "ready", "appending"} =>
           pc[d] \in {"idle", "loading", "ready", "appending"}
  PROVE  NoOwnEventsAhead(d)'
<1> SUFFICES ASSUME pc'[d] \in {"idle", "loading", "ready", "appending"},
                    NEW i \in agg'[d].lcv + 2 .. Len(stream')
             PROVE  stream'[i].by # d
  BY DEF NoOwnEventsAhead
<1>1. /\ agg[d].lcv \in Int /\ agg[d].lcv >= -1
      /\ Len(stream) \in Nat /\ Len(stream') \in Nat
  BY Types DEF HistoryInv, ContiguityInv, TypeOK
<1>2. i \in Int /\ i >= 1 /\ i >= agg[d].lcv + 2 /\ i <= Len(stream')
  BY <1>1
<1>3. CASE i <= Len(stream)
  <2>1. i \in agg[d].lcv + 2 .. Len(stream) /\ i \in 1 .. Len(stream)
    BY <1>1, <1>2, <1>3
  <2>2. stream[i].by # d
    BY <2>1 DEF NoOwnEventsAhead
  <2> QED
    BY <2>1, <2>2 DEF StreamGrowsBeside, AgreeUpTo
<1>4. CASE ~ (i <= Len(stream))
  <2>1. i \in Len(stream) + 1 .. Len(stream')
    BY <1>1, <1>2, <1>4
  <2> QED
    BY <2>1 DEF StreamGrowsBeside
<1> QED
  BY <1>3, <1>4

(* A load and a save that returns leave nothing ahead of the instance that *)
(* would be the work of its own scope.                                     *)
LEMMA NoneAheadOfLoaded ==
  ASSUME HistoryInv, NEW c \in Scopes, ReadEvents(c)
  PROVE  NoOwnEventsAhead(c)'
<1>1. agg'[c].lcv = Len(stream) - 1 /\ stream' = stream
  BY LoadedIsStream DEF HistoryInv, ContiguityInv, ReadEvents, stores
<1>2. Len(stream) \in Nat
  BY Types DEF HistoryInv, ContiguityInv
<1>3. agg'[c].lcv + 2 .. Len(stream') = {}
  BY <1>1, <1>2
<1> QED
  BY <1>3 DEF NoOwnEventsAhead

LEMMA NoneAheadOfCommitted ==
  ASSUME HistoryInv, NEW c \in Scopes, MarkChangesAsCommitted(c)
  PROVE  NoOwnEventsAhead(c)'
<1>1. agg'[c].lcv = agg[c].cv /\ stream' = stream
  BY DEF HistoryInv, ContiguityInv, TypeOK, Aggregate, MarkChangesAsCommitted, stores
<1>2. /\ agg[c].cv \in Int /\ agg[c].cv >= -1 /\ Len(stream) \in Nat
      /\ Len(agg[c].applied) = agg[c].cv + 1
  BY Types DEF HistoryInv, ContiguityInv, ScopeInv, InstanceIsHistoryAndChanges
<1>3. ASSUME NEW i \in agg[c].cv + 2 .. Len(stream) PROVE stream[i].by # c
  <2>1. i \in 1 .. Len(stream) /\ ~ (i <= agg[c].cv + 1)
    BY <1>2, <1>3
  <2>2. ~ AgreeUpTo(i, agg[c].applied, stream)
    BY <1>2, <2>1 DEF AgreeUpTo
  <2>3. OwnEventsFollowHistory(c)
    BY DEF HistoryInv, ScopeInv
  <2> QED
    BY <2>1, <2>2, <2>3 DEF OwnEventsFollowHistory
<1> QED
  BY <1>1, <1>3 DEF NoOwnEventsAhead

LEMMA ConflictOwnStep ==
  ASSUME AppendChecksVersion, Faults \subseteq {"crash"}, HistoryInv, HistoryInv',
         NothingRaisedYet, inflight = {}, NEW c \in Scopes, Step(c),
         NoOwnEventsAhead(c), raised[c] \in Conflicts => ForeignWrite(c)
  PROVE  /\ NoOwnEventsAhead(c)'
         /\ raised'[c] \in Conflicts => ForeignWrite(c)'
<1> DEFINE Before(p) == p \in {"idle", "loading", "ready", "appending"}
<1>1. TypeOK
  BY DEF HistoryInv, ContiguityInv
<1>2. AgreeUpTo(Len(stream), stream, stream') /\ (~ AppendEvents(c) => stream' = stream)
  BY OthersSeeGrowth
<1>3. stream' = stream => StreamGrowsBeside(c)
  BY <1>1, StreamStays
<1>4. CASE ReadEvents(c)
  <2>1. raised'[c] = "none"
    BY <1>1, <1>4 DEF ReadEvents, NothingRaisedYet
  <2> QED
    BY <1>4, <2>1, NoneAheadOfLoaded DEF Conflicts
<1>5. CASE MarkChangesAsCommitted(c)
  <2>1. raised'[c] = "none"
    BY <1>1, <1>5 DEF MarkChangesAsCommitted, TypeOK
  <2> QED
    BY <1>5, <2>1, NoneAheadOfCommitted DEF Conflicts
<1>6. CASE FailCheck(c)
  <2>1. ForeignWrite(c) /\ agg' = agg /\ pc[c] = "ready" /\ stream' = stream
    BY <1>6, FailedCheckMeansForeign DEF FailCheck, BeginsSave, Throw, stores
  <2> QED
    BY <1>2, <1>3, <2>1, ConflictStays, NoneAheadBeside
<1>7. CASE RejectEvents(c)
  <2>1. ForeignWrite(c) /\ agg' = agg /\ pc[c] = "appending" /\ stream' = stream
    BY <1>7, RejectedMeansForeign DEF RejectEvents, Throw, stores
  <2> QED
    BY <1>2, <1>3, <2>1, ConflictStays, NoneAheadBeside
<1>8. CASE LoadFails(c)
  <2>1. raised'[c] \notin Conflicts /\ pc'[c] = "gone"
    BY <1>1, <1>8 DEF LoadFails, TypeOK, Conflicts
  <2> QED
    BY <2>1 DEF NoOwnEventsAhead
<1>9. CASE ApplyEvent(c)
  <2>1. agg'[c].lcv = agg[c].lcv /\ stream' = stream /\ pc' = pc /\ raised' = raised
    BY <1>1, <1>9 DEF ApplyEvent, TypeOK, Aggregate, stores
  <2>2. NoOwnEventsAhead(c)'
    BY <2>1 DEF NoOwnEventsAhead
  <2> QED
    BY <1>2, <2>1, <2>2, ConflictStays
<1>10. CASE AppendEvents(c)
  <2>1. agg' = agg /\ raised' = raised /\ pc'[c] = "publishing"
    BY <1>1, <1>10 DEF AppendEvents, TypeOK
  <2>2. NoOwnEventsAhead(c)'
    BY <2>1 DEF NoOwnEventsAhead
  <2> QED
    BY <1>2, <2>1, <2>2, ConflictStays
<1>11. CASE \/ Create(c) \/ ReadSnapshot(c) \/ PassCheck(c)
            \/ PublishNext(c) \/ SaveSnapshot(c) \/ Leave(c)
  <2>1. agg' = agg /\ raised' = raised /\ stream' = stream
    BY <1>11 DEF Create, ReadSnapshot, PassCheck, PublishNext, SaveSnapshot, Leave,
                 stores, locals
  <2>2. pc'[c] \in {"idle", "loading", "ready", "appending"} =>
          pc[c] \in {"idle", "loading", "ready", "appending"}
    BY <1>1, <1>11 DEF TypeOK, Create, ReadSnapshot, PassCheck, BeginsSave, PublishNext,
                 SaveSnapshot, AllPublished, Leave
  <2>3. NoOwnEventsAhead(c)'
    BY <1>3, <2>1, <2>2, NoneAheadBeside
  <2> QED
    BY <1>2, <2>1, <2>3, ConflictStays
<1>12. ~ Fault(c)
  BY DEF Fault, AppendTimesOut, PublishFails, SnapshotFails
<1> QED
  BY <1>4, <1>5, <1>6, <1>7, <1>8, <1>9, <1>10, <1>11, <1>12 DEF Step, Load, Save

LEMMA ConflictStep ==
  ASSUME AppendChecksVersion, ~ AppliesDuringSave, Faults \subseteq {"crash"}
  PROVE  ConflictInv /\ [Next]_vars => ConflictInv'
<1> SUFFICES ASSUME ConflictInv, [Next]_vars PROVE ConflictInv'
  OBVIOUS
<1>1. HistoryInv /\ NothingRaisedYet /\ inflight = {} /\ TypeOK
  BY DEF ConflictInv, HistoryInv, ContiguityInv
<1>2. HistoryInv' /\ NothingRaisedYet'
  BY <1>1, HistoryStep, NothingRaisedStep
<1>3. CASE UNCHANGED vars
  BY <1>1, <1>2, <1>3 DEF ConflictInv, NoOwnEventsAhead, ConflictMeansForeignWrite,
                          vars, stores
<1>4. ~ LateAppend
  BY <1>1 DEF LateAppend
<1>5. ASSUME NEW c \in Scopes, Step(c) PROVE ConflictInv'
  <2>1. /\ inflight' = {}
        /\ AgreeUpTo(Len(stream), stream, stream')
        /\ \A d \in Scopes \ {c} : StreamGrowsBeside(d)
    BY <1>1, <1>2, <1>5, OthersSeeGrowth
  <2>2. \A d \in Scopes : NoOwnEventsAhead(d) /\ (raised[d] \in Conflicts => ForeignWrite(d))
    BY DEF ConflictInv, ConflictMeansForeignWrite, ForeignWrite
  <2>3. NoOwnEventsAhead(c)' /\ (raised'[c] \in Conflicts => ForeignWrite(c)')
    BY <1>1, <1>2, <1>5, <2>2, ConflictOwnStep
  <2>4. ASSUME NEW d \in Scopes \ {c}
        PROVE  NoOwnEventsAhead(d)' /\ (raised'[d] \in Conflicts => ForeignWrite(d)')
    <3>1. pc'[d] = pc[d] /\ agg'[d] = agg[d] /\ raised'[d] = raised[d]
      BY <1>1, <1>5, StepChangesOneScope, RaisedByOwnStep DEF OnlyScope
    <3>2. NoOwnEventsAhead(d)'
      BY <1>1, <1>2, <2>1, <2>2, <3>1, NoneAheadBeside
    <3> QED
      BY <1>1, <1>2, <2>1, <2>2, <3>1, <3>2, ConflictStays
  <2>5. ConflictMeansForeignWrite'
    BY <2>3, <2>4 DEF ConflictMeansForeignWrite, ForeignWrite
  <2> QED
    BY <1>2, <2>1, <2>3, <2>4, <2>5 DEF ConflictInv
<1> QED
  BY <1>3, <1>4, <1>5 DEF Next

(* While providers answer, an exception that says the aggregate exists     *)
(* already or was modified externally is true, for any number of scopes    *)
(* and whichever of them crash (CommitChanges).                            *)
THEOREM ConflictMeansForeignWriteHolds ==
  ASSUME AppendChecksVersion, ~ AppliesDuringSave, Faults \subseteq {"crash"}
  PROVE  Spec => []ConflictMeansForeignWrite
<1>1. Init => ConflictInv
  <2>1. Init => HistoryInv
    BY HistoryInit
  <2>2. Init => NothingRaisedYet /\ inflight = {} /\ ConflictMeansForeignWrite
    BY DEF Init, NothingRaisedYet, ConflictMeansForeignWrite, Conflicts
  <2>3. Init => \A c \in Scopes : NoOwnEventsAhead(c)
    BY DEF Init, NoOwnEventsAhead, NewInstance, NoStream
  <2> QED
    BY <2>1, <2>2, <2>3 DEF ConflictInv
<1>2. ConflictInv /\ [Next]_vars => ConflictInv'
  BY ConflictStep
<1>3. ConflictInv => ConflictMeansForeignWrite
  BY DEF ConflictInv
<1> QED
  BY <1>1, <1>2, <1>3, PTL DEF Spec

-----------------------------------------------------------------------------
(* The refinement: the stream is the log of EventLog, and the events given *)
(* to the publisher are those it has delivered.                            *)

(* The stream grows by whole batches that keep the versions contiguous. *)
LEMMA AppendCommits ==
  ASSUME HistoryInv, VersionsAreContiguous', NEW events \in Seq(Event), IsRun(events),
         stream' = stream \o events, published' = published
  PROVE  Log!Commit
<1>1. stream \in Seq(Event) /\ Len(stream) \in Nat
  BY DEF HistoryInv, ContiguityInv, TypeOK
<1>2. /\ stream' \in Seq(Event)
      /\ Len(stream') = Len(stream) + Len(events)
      /\ AgreeUpTo(Len(stream), stream, stream')
  BY <1>1, ConcatAgrees
<1>3. Len(events) >= 1 /\ Len(events) \in Nat
  BY DEF IsRun
<1>4. IsStrictPrefix(stream, stream')
  <2>1. IsPrefix(stream, stream')
    BY <1>1, <1>2, AgreeIsPrefix
  <2>2. stream # stream'
    BY <1>1, <1>2, <1>3
  <2> QED
    BY <2>1, <2>2 DEF IsStrictPrefix
<1>5. \A i \in Len(stream) + 1 .. Len(stream') : stream'[i].target = i - 2
  <2>1. \A i \in 1 .. Len(stream') : stream'[i].target = i - 2
    BY <1>2 DEF VersionsAreContiguous
  <2> QED
    BY <1>1, <1>2, <1>3, <2>1
<1> QED
  BY <1>4, <1>5 DEF Log!Commit, Log!TargetsItsPosition, Log!IsStrictPrefix, Log!IsPrefix,
     IsStrictPrefix, IsPrefix

(* What is published is stored, and was not published before. *)
LEMMA PublishDelivers ==
  ASSUME HistoryInv, NEW c \in Scopes, pc[c] = "publishing", sent[c] < Len(batch[c]),
         stream' = stream, published' = Append(published, batch[c][sent[c] + 1])
  PROVE  Log!Deliver
<1> DEFINE e == batch[c][sent[c] + 1]
<1>1. /\ e \in Event /\ e.target + 2 <= Len(stream) /\ stream[e.target + 2] = e
      /\ \A i \in 1 .. Len(published) : published[i] # e
  BY NextIsNew
<1> HIDE DEF e
<1>2. /\ stream \in Seq(Event) /\ published \in Seq(Event)
  BY DEF HistoryInv, ContiguityInv, TypeOK
<1>3. e.target \in Int /\ e.target >= -1
  BY <1>1, EventTypes
<1>4. e.target + 2 \in 1 .. Len(stream)
  BY <1>1, <1>2, <1>3
<1>5. e \in ToSet(stream) /\ e \notin ToSet(published)
  BY <1>1, <1>2, <1>4 DEF ToSet
<1> QED
  BY <1>5 DEF Log!Deliver, Log!ToSet, ToSet, e

LEMMA StepRefines ==
  ASSUME AppendChecksVersion, HistoryInv, HistoryInv', [Next]_vars
  PROVE  [Log!Next]_Log!vars
<1> USE DEF Log!Next, Log!vars
<1>1. VersionsAreContiguous'
  BY DEF HistoryInv, ContiguityInv
<1>2. CASE UNCHANGED vars
  BY <1>2 DEF vars, stores
<1>3. CASE LateAppend
  <2>1. PICK events \in inflight : stream' = stream \o events
    BY <1>3 DEF LateAppend
  <2>2. events \in Seq(Event) /\ IsRun(events)
    BY DEF HistoryInv, ContiguityInv, TypeOK, RequestsAreRuns
  <2> QED
    BY <1>1, <1>3, <2>1, <2>2, AppendCommits DEF LateAppend
<1>4. ASSUME NEW c \in Scopes, Step(c) PROVE [Log!Next]_Log!vars
  <2>1. CASE AppendEvents(c)
    <3>1. batch[c] \in Seq(Event) /\ IsRun(batch[c])
      BY <2>1 DEF AppendEvents, HistoryInv, ContiguityInv, TypeOK, RequestsAreRuns
    <3>2. CASE Accepts(batch[c])
      BY <1>1, <2>1, <3>1, <3>2, AppendCommits DEF AppendEvents
    <3>3. CASE ~ Accepts(batch[c])
      BY <2>1, <3>3 DEF AppendEvents
    <3> QED
      BY <3>2, <3>3
  <2>2. CASE PublishNext(c)
    BY <2>2, PublishDelivers DEF PublishNext
  <2>3. CASE PublishFails(c)
    BY <2>3, PublishDelivers DEF PublishFails
  <2>4. CASE \/ Create(c) \/ Load(c) \/ ApplyEvent(c) \/ Leave(c)
    BY <2>4 DEF Create, Load, ReadSnapshot, ReadEvents, LoadFails, ApplyEvent, Leave, stores
  <2>5. CASE \/ PassCheck(c) \/ FailCheck(c) \/ RejectEvents(c) \/ SaveSnapshot(c)
             \/ MarkChangesAsCommitted(c) \/ AppendTimesOut(c) \/ SnapshotFails(c)
    BY <2>5 DEF PassCheck, FailCheck, RejectEvents, SaveSnapshot, MarkChangesAsCommitted,
                AppendTimesOut, SnapshotFails, stores
  <2> QED
    BY <1>4, <2>1, <2>2, <2>3, <2>4, <2>5 DEF Step, Save, Fault
<1> QED
  BY <1>2, <1>3, <1>4 DEF Next

(* Whatever fails, and whenever a late append lands, the repository keeps  *)
(* the promises of EventLog: the stream grows by whole batches in version  *)
(* order, and subscribers hear of stored events only, of none twice, in    *)
(* whatever order.                                                         *)
THEOREM RepositoryImplementsEventLog ==
  ASSUME AppendChecksVersion, ~ AppliesDuringSave
  PROVE  Spec => ImplementsEventLog
<1>1. Init => Log!Init
  BY DEF Init, Log!Init
<1>2. HistoryInv /\ HistoryInv' /\ [Next]_vars => [Log!Next]_Log!vars
  BY StepRefines
<1> QED
  BY HistoryHolds, <1>1, <1>2, PTL DEF Spec, ImplementsEventLog, Log!Spec
=============================================================================
