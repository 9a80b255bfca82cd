------------------------- MODULE EventStoreProvider -------------------------
(***************************************************************************)
(* The reads of a scope's Event Store provider, over the connection it     *)
(* opens when it is first needed                                           *)
(* (EventStoreEventStorageProvider.cs, EventStoreStorageConnectionProvider *)
(* .cs).                                                                   *)
(*                                                                         *)
(* Several tasks of the scope read one stream, page by page, while others  *)
(* append to it and the scope is disposed of, on a thread of its own.  An  *)
(* event is its number in the stream, so that the stream is the number of  *)
(* events stored.                                                          *)
(***************************************************************************)
EXTENDS Integers, Sequences

CONSTANTS
  Tasks,
  PageSize,
  Starts, Counts,   \* what callers may ask for
  MaxEvents         \* bound: the stream grows no longer

ASSUME EventStoreProviderAssumption ==
  /\ PageSize \in Nat \ {0}
  /\ Starts \subseteq Int /\ Counts \subseteq Int
  /\ MaxEvents \in Nat

VARIABLES
  stored,       \* the number of events in the stream
  lazy,         \* has the factory of _lazyConnection been run, or is it running?
  connection,   \* the connection that it has made, and its task
  opened,       \* how many connections have been made
  disposal,     \* how far Dispose has come
  late,         \* was a connection made that Dispose could not know of?
  pc,           \* where each task is in its call
  call          \* its arguments and local variables

connecting == <<lazy, connection, opened, disposal, late>>

vars == <<stored, connecting, pc, call>>

(* The arguments; nextSliceStart; the numbers of streamEvents; and, which  *)
(* no program knows, how many events there were when the call began.       *)
Call == [start : Int, count : Int, next : Nat, events : Seq(Nat), seen : Nat]

Busy == {"asking", "making", "connecting", "reading"}
Idle == {"idle", "returned", "refused", "failed"}

Init ==
  /\ stored = 0
  /\ lazy = "unset"
  /\ connection = "none"
  /\ opened = 0
  /\ disposal = "no"
  /\ late = FALSE
  /\ pc = [t \in Tasks |-> "idle"]
  /\ call = [t \in Tasks |-> [start |-> 0, count |-> 0, next |-> 0,
                              events |-> <<>>, seen |-> 0]]

Goto(t, place) == pc' = [pc EXCEPT ![t] = place]

-----------------------------------------------------------------------------
(* The connection *)

(* _lazyConnection.Value: the first to ask for it runs the factory, which  *)
(* makes the connection and starts to connect.                             *)
StartFactory(t) ==
  /\ pc[t] = "asking" /\ lazy = "unset"
  /\ lazy' = "running"
  /\ connection' = "connecting"
  /\ opened' = opened + 1
  /\ late' = (late \/ disposal # "no")
  /\ Goto(t, "making")
  /\ UNCHANGED <<stored, disposal, call>>

(* The factory returns its task, and Lazy lets others see it. *)
PublishValue(t) ==
  /\ pc[t] = "making"
  /\ lazy' = "set"
  /\ Goto(t, "connecting")
  /\ UNCHANGED <<stored, connection, opened, disposal, late, call>>

(* Everybody else waits for that. *)
GetValue(t) ==
  /\ pc[t] = "asking" /\ lazy = "set"
  /\ Goto(t, "connecting")
  /\ UNCHANGED <<stored, connecting, call>>

ConnectEnds ==
  /\ connection = "connecting"
  /\ connection' \in {"open", "faulted"}
  /\ UNCHANGED <<stored, lazy, opened, disposal, late, pc, call>>

(* Mutant: a connection on its way is not waited for. *)
ConnectionIsOpen == connection = "open"

IsValueCreated == lazy = "set"

(* Dispose blocks its thread until the task has ended, *)
BeginDispose ==
  /\ disposal = "no"
  /\ disposal' = IF IsValueCreated THEN "waiting" ELSE "done"
  /\ late' = (late \/ lazy = "running")
  /\ UNCHANGED <<stored, lazy, connection, opened, pc, call>>

(* and closes the connection, or throws the exception of the task. *)
EndDispose ==
  /\ disposal = "waiting"
  /\ connection \in {"open", "faulted"}
  /\ connection' = IF connection = "open" THEN "closed" ELSE connection
  /\ disposal' = "done"
  /\ UNCHANGED <<stored, lazy, opened, late, pc, call>>

-----------------------------------------------------------------------------
(* A read *)

(* Mutant: a start below 0 is passed on. *)
Unchecked(start) == start

First(start) == IF start < 0 THEN 0 ELSE start

(* GetEventsAsync up to ConnectAsync.  Nothing keeps it from being called  *)
(* when the scope has been disposed of.                                    *)
GetEvents(t, start, count) ==
  /\ pc[t] \in Idle
  /\ call' = [call EXCEPT ![t] = [start |-> start, count |-> count,
                                  next |-> First(start), events |-> <<>>,
                                  seen |-> stored]]
  /\ Goto(t, "asking")
  /\ UNCHANGED <<stored, connecting>>

(* The await of the connection ends. *)
Resume(t) ==
  /\ pc[t] = "connecting"
  /\ connection \in {"open", "closed", "faulted"}
  /\ Goto(t, IF connection = "faulted" THEN "failed" ELSE "reading")
  /\ UNCHANGED <<stored, connecting, call>>

(* Mutant: a page is always read whole. *)
WholePage(c) == PageSize

NextReadCount(c) ==
  LET totalNextReadCount == c.count - Len(c.events)
  IN IF totalNextReadCount > PageSize THEN PageSize ELSE totalNextReadCount

(* What the store answers: the events from a number on, at most n.         *)
Slice(from, n) ==
  LET end == IF from + n < stored THEN from + n ELSE stored
  IN [i \in 1 .. (end - from) |-> from + i - 1]

(* Mutant: the loop ends when it has as many events as were asked for. *)
HasEnough(c, n) == Len(c.events) + Len(Slice(c.next, n)) >= c.count

(* Mutant: a slice that ends with the last event does not say so. *)
EndsBeyond(c, n) == c.next + n > stored

(* IsEndOfStream of the slice. *)
EndsStream(c, n) == c.next + n >= stored

(* One iteration of the loop of ReadEvents.                                *)
ReadPage(t) ==
  LET c     == call[t]
      n     == NextReadCount(c)
      slice == Slice(c.next, n)
  IN /\ pc[t] = "reading" /\ connection = "open" /\ n > 0
     /\ call' = [call EXCEPT ![t].events = @ \o slice,
                             ![t].next = @ + Len(slice)]
     /\ Goto(t, IF EndsStream(c, n) THEN "returned" ELSE "reading")
     /\ UNCHANGED <<stored, connecting>>

(* The client refuses to read a page of no events.                         *)
ReadRefused(t) ==
  /\ pc[t] = "reading" /\ NextReadCount(call[t]) <= 0
  /\ Goto(t, "refused")
  /\ UNCHANGED <<stored, connecting, call>>

(* The connection has been closed, or the store does not answer.           *)
ReadFails(t) ==
  /\ pc[t] = "reading"
  /\ Goto(t, "failed")
  /\ UNCHANGED <<stored, connecting, call>>

(* Another scope saves. *)
AppendByOthers ==
  /\ stored < MaxEvents
  /\ stored' = stored + 1
  /\ UNCHANGED <<connecting, pc, call>>

-----------------------------------------------------------------------------

Connect(t) == StartFactory(t) \/ PublishValue(t) \/ GetValue(t)

Continue(t) ==
  \/ Connect(t) \/ Resume(t) \/ ReadPage(t) \/ ReadRefused(t)
  \/ connection = "closed" /\ ReadFails(t)

Next ==
  \/ ConnectEnds \/ BeginDispose \/ EndDispose \/ AppendByOthers
  \/ \E t \in Tasks :
       \/ \E start \in Starts, count \in Counts : GetEvents(t, start, count)
       \/ Connect(t) \/ Resume(t) \/ ReadPage(t) \/ ReadRefused(t) \/ ReadFails(t)

Spec == Init /\ [][Next]_vars

(* Connecting ends, one way or the other, continuations are run, and a     *)
(* page is answered as long as the connection is open.                     *)
Fairness ==
  /\ WF_vars(ConnectEnds) /\ WF_vars(EndDispose)
  /\ \A t \in Tasks : WF_vars(Continue(t))

FairSpec == Spec /\ Fairness

-----------------------------------------------------------------------------
(* Properties *)

(* The types, and the places a call can be at.                             *)
TypeOK ==
  /\ stored \in Nat
  /\ lazy \in {"unset", "running", "set"}
  /\ connection \in {"none", "connecting", "open", "faulted", "closed"}
  /\ opened \in Nat
  /\ disposal \in {"no", "waiting", "done"}
  /\ late \in BOOLEAN
  /\ pc \in [Tasks -> Busy \cup Idle]
  /\ call \in [Tasks -> Call]

(* A read gives consecutive events from its start on, no more than were    *)
(* asked for, all of them stored; and when it returns, it has left out     *)
(* none that was stored before it began and that it was asked for, with    *)
(* whatever pages and appends in between.                                  *)
ReadIsRange ==
  \A t \in Tasks :
    LET c == call[t]
    IN /\ c.events = [i \in 1 .. Len(c.events) |-> First(c.start) + i - 1]
       /\ \A i \in 1 .. Len(c.events) : i <= c.count /\ c.events[i] < stored
       /\ pc[t] = "returned" =>
            \A e \in First(c.start) .. c.seen - 1 :
              e < First(c.start) + c.count => e < First(c.start) + Len(c.events)

(* The loop goes on at the end of what was asked for if the stream does,   *)
(* and then asks for a page of no events.  That is the only way for a read *)
(* to be refused: one that reaches the end of the stream is not.           *)
RefusedOnlyInside ==
  \A t \in Tasks :
    pc[t] = "refused" =>
      call[t].count <= 0 \/ First(call[t].start) + call[t].count < stored

(* However many tasks need it first, a scope makes one connection.  Once   *)
(* it has been disposed of it leaves none behind, although that may still  *)
(* have been connecting: unless Dispose came while the factory ran, when   *)
(* Lazy has no value yet, or a call came after Dispose.                    *)
ConnectionIsClosed ==
  /\ opened <= 1
  /\ disposal = "done" /\ ~ late => connection \notin {"connecting", "open"}

(* As long as the stream does not grow for ever, reads end; so does        *)
(* Dispose, which blocks its thread.                                       *)
CallsEnd ==
  /\ \A t \in Tasks : pc[t] \in Busy ~> pc[t] \in Idle
  /\ disposal = "waiting" ~> disposal = "done"
=============================================================================
