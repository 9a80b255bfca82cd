------------------------------ MODULE EventLog ------------------------------
(***************************************************************************)
(* What the repository and its stores promise about one aggregate.         *)
(*                                                                         *)
(* The events of an aggregate form one log.  It only grows, a whole batch  *)
(* at a time, and the event at position i is the one that was applied to   *)
(* version i - 2 of the aggregate (positions count from 1, versions from   *)
(* 0, and the aggregate without events has version -1).  Subscribers are   *)
(* told of an event at most once, and never of an event the log does not   *)
(* hold; nothing is said of the order they are told in.  Who writes, how conflicts are found and what may fail on the way *)
(* is the business of the specifications that implement this one.          *)
(***************************************************************************)
EXTENDS Integers, SequencesExt

VARIABLES
  log,        \* the stored events, oldest first
  delivered   \* the events handed to the publisher, in that order

vars == <<log, delivered>>

TargetsItsPosition(events, i) == events[i].target = i - 2

Init ==
  /\ log = <<>>
  /\ delivered = <<>>

(* A batch of events becomes durable, all of it and at the end. *)
Commit ==
  /\ IsStrictPrefix(log, log')
  /\ \A i \in Len(log) + 1 .. Len(log') : TargetsItsPosition(log', i)
  /\ UNCHANGED delivered

(* One stored event reaches the subscribers, for the first time. *)
Deliver ==
  /\ \E event \in ToSet(log) \ ToSet(delivered) :
       delivered' = Append(delivered, event)
  /\ UNCHANGED log

Next == Commit \/ Deliver

Spec == Init /\ [][Next]_vars
=============================================================================
