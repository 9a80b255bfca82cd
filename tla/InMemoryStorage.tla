--------------------------- MODULE InMemoryStorage ---------------------------
(***************************************************************************)
(* The in-memory providers with their dump files, under a repository       *)
(* (InMemoryEventStorageProvider.cs, InMemorySnapshotStorageProvider.cs,   *)
(* SerializerHelper.cs, Repository.cs).                                    *)
(*                                                                         *)
(* Each scope makes providers of its own on the same two files, as the     *)
(* samples register them: it reads a file once, when the provider is       *)
(* constructed, and rewrites the whole file at each save.  Scopes follow   *)
(* one another; a write may fail, and the process may die, between any two *)
(* steps and while File.WriteAllText is at work.                           *)
(*                                                                         *)
(* One aggregate is modelled.  What a file or a dictionary holds for it is *)
(* a history: its events, or the events a snapshot stands for.             *)
(***************************************************************************)
EXTENDS SnapshotPolicy, SequencesExt

CONSTANTS
  Scopes,             \* the scopes that may ever begin
  SnapshotFrequency,
  MaxVersion,         \* bound: no event is applied at this version
  MaxLong             \* stands for long.MaxValue

ASSUME InMemoryStorageAssumption ==
  /\ SnapshotFrequency \in Int
  /\ MaxVersion \in Nat
  /\ MaxLong \in Nat /\ MaxVersion < MaxLong

Files == {"events", "snapshots"}

VARIABLES
  disk,       \* the dump files
  items,      \* the dictionaries of the two providers of each scope
  pc,
  applied,    \* the state of the instance: the events that have been applied
  lcv,        \* its LastCommittedVersion
  stored,     \* the events that have been written to the file, in order
  unwritten,  \* those added to a dictionary since the scope last wrote it
  torn        \* a write of the events has ended in the middle

vars == <<disk, items, pc, applied, lcv, stored, unwritten, torn>>

Event == [by : Scopes, target : {-1} \cup Nat]
File  == [text : {"absent", "empty", "cut", "whole"}, history : Seq(Event)]

NoFile  == [text |-> "absent", history |-> <<>>]
Nothing == [f \in Files |-> <<>>]

(* Where a save is before and during the write of each file. *)
Added   == [events |-> "events added", snapshots |-> "snapshot added"]
Writing == [events |-> "writing events", snapshots |-> "writing snapshot"]
Places  == {"idle", "constructing", "ready", "publishing", "marking", "gone"}
             \cup {Added[f] : f \in Files} \cup {Writing[f] : f \in Files}

(* Mutant: the stream that does not exist has version -2. *)
VersionBelow(history) == Len(history) - 2

(* CurrentVersion: versions count from 0. *)
Version(history) == Len(history) - 1

Uncommitted(c) == SubSeq(applied[c], lcv[c] + 2, Len(applied[c]))
Goto(c, place) == pc' = [pc EXCEPT ![c] = place]

Init ==
  /\ disk = [f \in Files |-> NoFile]
  /\ items = [c \in Scopes |-> Nothing]
  /\ pc = [c \in Scopes |-> "idle"]
  /\ applied = [c \in Scopes |-> <<>>]
  /\ lcv = [c \in Scopes |-> -1]
  /\ stored = <<>>
  /\ unwritten = [c \in Scopes |-> <<>>]
  /\ torn = FALSE

-----------------------------------------------------------------------------
(* The providers of a scope are constructed *)

(* Mutant: the constructor does not look for a file. *)
ReadsNothing(f) == <<>>

(* A file that is not there, or has no text (which deserializes to null),  *)
(* makes an empty dictionary.                                              *)
LoadFromFile(f) == IF disk[f].text = "whole" THEN disk[f].history ELSE <<>>

Readable(f) == disk[f].text # "cut"

(* The constructor of the provider of f, which c is about to run: the      *)
(* repository asks for its event provider first.                           *)
IsAt(c, f) ==
  \/ /\ f = "events" /\ pc[c] = "idle"
     /\ \A d \in Scopes : pc[d] \in {"idle", "gone"}
  \/ f = "snapshots" /\ pc[c] = "constructing"

Construct(c, f) ==
  /\ IsAt(c, f) /\ Readable(f)
  /\ items' = [items EXCEPT ![c][f] = LoadFromFile(f)]
  /\ Goto(c, IF f = "events" THEN "constructing" ELSE "ready")
  /\ UNCHANGED <<disk, applied, lcv, stored, unwritten, torn>>

(* What a scope had in memory is gone with it.                             *)
End(c) ==
  /\ Goto(c, "gone")
  /\ items' = [items EXCEPT ![c] = Nothing]
  /\ applied' = [applied EXCEPT ![c] = <<>>]
  /\ lcv' = [lcv EXCEPT ![c] = -1]
  /\ unwritten' = [unwritten EXCEPT ![c] = <<>>]
  /\ UNCHANGED stored

(* The text of a file ends in the middle: the constructor throws.          *)
ConstructFails(c, f) ==
  /\ IsAt(c, f) /\ ~ Readable(f)
  /\ End(c)
  /\ UNCHANGED <<disk, torn>>

-----------------------------------------------------------------------------
(* The repository on these providers *)

(* Mutant: the count is taken as it is. *)
Unclamped(start, count) == count

Clamp(start, count) ==
  IF count > MaxLong - start THEN MaxLong - start ELSE count

(* Addition of longs. *)
Plus(a, b) == IF a + b > MaxLong THEN a + b - 2 * (MaxLong + 1) ELSE a + b

(* The events of the dictionary from the index start on, at most count.    *)
GetEvents(c, start, count) ==
  LET events == items[c]["events"]
      end    == Plus(start, Clamp(start, count))
  IN SubSeq(events, start + 1, IF end < Len(events) THEN end ELSE Len(events))

(* CanApply for each event that is replayed after a snapshot, in turn.     *)
CanReplay(snapshot, events) ==
  \A i \in DOMAIN events : events[i].target = Version(snapshot) + i - 1

(* GetByIdAsync, which awaits nothing on these providers.  It makes a new  *)
(* instance, or throws and changes nothing.                                *)
GetById(c) ==
  LET snapshot == items[c]["snapshots"]
      events   == GetEvents(c, Len(snapshot), MaxLong)
      history  == snapshot \o events
  IN /\ pc[c] = "ready"
     /\ history # <<>> /\ CanReplay(snapshot, events)
     /\ applied' = [applied EXCEPT ![c] = history]
     /\ lcv' = [lcv EXCEPT ![c] = Version(history)]
     /\ UNCHANGED <<disk, items, pc, stored, unwritten, torn>>

(* On the instance loaded, or on a new one.                                *)
ApplyEvent(c) ==
  /\ pc[c] = "ready" /\ Version(applied[c]) < MaxVersion
  /\ applied' = [applied EXCEPT ![c] =
                   Append(@, [by |-> c, target |-> Version(applied[c])])]
  /\ UNCHANGED <<disk, items, pc, lcv, stored, unwritten, torn>>

(* CommitChanges: the last event of the dictionary, if any, against        *)
(* LastCommittedVersion.  A save that it refuses throws, and changes       *)
(* nothing.                                                                *)
PassesCheck(c) ==
  LET events == items[c]["events"]
  IN events # <<>> => lcv[c] # -1 /\ Last(events).target + 1 = lcv[c]

(* Mutant: a list that is there already is replaced. *)
Replace(list, changes) == changes

AddRange(list, changes) == list \o changes

(* CommitChanges up to the file: the event provider has the changes in its *)
(* dictionary.                                                             *)
AddEvents(c) ==
  /\ pc[c] = "ready" /\ Uncommitted(c) # <<>> /\ PassesCheck(c)
  /\ items' = [items EXCEPT ![c]["events"] = AddRange(@, Uncommitted(c))]
  /\ unwritten' = [unwritten EXCEPT ![c] = @ \o Uncommitted(c)]
  /\ Goto(c, Added["events"])
  /\ UNCHANGED <<disk, applied, lcv, stored, torn>>

(* File.WriteAllText makes the file anew, and then has written all of it.  *)
BeginWrite(c, f) ==
  /\ pc[c] = Added[f]
  /\ disk' = [disk EXCEPT ![f] = [text |-> "empty", history |-> <<>>]]
  /\ Goto(c, Writing[f])
  /\ UNCHANGED <<items, applied, lcv, stored, unwritten, torn>>

EndWrite(c, f) ==
  /\ pc[c] = Writing[f]
  /\ disk' = [disk EXCEPT ![f] = [text |-> "whole", history |-> items[c][f]]]
  /\ Goto(c, IF f = "events" THEN "publishing" ELSE "marking")
  /\ IF f = "events"
     THEN /\ stored' = stored \o unwritten[c]
          /\ unwritten' = [unwritten EXCEPT ![c] = <<>>]
     ELSE UNCHANGED <<stored, unwritten>>
  /\ UNCHANGED <<items, applied, lcv, torn>>

(* What is left of a file whose write ends in the middle: some of its      *)
(* text, or none.                                                          *)
Tear(c) ==
  \/ /\ \A f \in Files : pc[c] # Writing[f]
     /\ UNCHANGED <<disk, torn>>
  \/ \E f \in Files, text \in {"empty", "cut"} :
       /\ pc[c] = Writing[f]
       /\ disk' = [disk EXCEPT ![f].text = text]
       /\ torn' = (torn \/ f = "events")

(* An exception of the file system, before or in the middle of a write, or *)
(* of the publisher: the dictionaries stay as they are.                    *)
SaveFails(c) ==
  /\ \/ \E f \in Files : pc[c] \in {Added[f], Writing[f]}
     \/ pc[c] = "publishing"
  /\ Tear(c)
  /\ Goto(c, "ready")
  /\ UNCHANGED <<items, applied, lcv, stored, unwritten>>

(* The events have been published, and a snapshot may be due.              *)
SnapshotIsDue(c) ==
  ShouldSnapshot(Version(applied[c]), Len(Uncommitted(c)), SnapshotFrequency)

AddSnapshot(c) ==
  /\ pc[c] = "publishing" /\ SnapshotIsDue(c)
  /\ items' = [items EXCEPT ![c]["snapshots"] = applied[c]]
  /\ Goto(c, Added["snapshots"])
  /\ UNCHANGED <<disk, applied, lcv, stored, unwritten, torn>>

(* The end of CommitChanges, with or without a snapshot.                   *)
MarkChangesAsCommitted(c) ==
  /\ pc[c] = "marking" \/ (pc[c] = "publishing" /\ ~ SnapshotIsDue(c))
  /\ lcv' = [lcv EXCEPT ![c] = Version(applied[c])]
  /\ Goto(c, "ready")
  /\ UNCHANGED <<disk, items, applied, stored, unwritten, torn>>

-----------------------------------------------------------------------------
(* A scope ends between two calls, or the process dies in the middle of    *)
(* one: the providers have nothing to dispose of.                          *)
Leave(c) ==
  /\ pc[c] \notin {"idle", "gone"}
  /\ Tear(c)
  /\ End(c)

Next ==
  \E c \in Scopes :
    \/ \E f \in Files : Construct(c, f) \/ ConstructFails(c, f)
    \/ GetById(c) \/ ApplyEvent(c)
    \/ AddEvents(c) \/ AddSnapshot(c) \/ MarkChangesAsCommitted(c)
    \/ \E f \in Files : BeginWrite(c, f) \/ EndWrite(c, f)
    \/ SaveFails(c) \/ Leave(c)

Spec == Init /\ [][Next]_vars

-----------------------------------------------------------------------------
(* Properties *)

(* Histories of events made by known scopes, files in a known condition,   *)
(* places in the code.                                                     *)
TypeOK ==
  /\ disk \in [Files -> File]
  /\ items \in [Scopes -> [Files -> Seq(Event)]]
  /\ pc \in [Scopes -> Places]
  /\ applied \in [Scopes -> Seq(Event)]
  /\ lcv \in [Scopes -> {-1} \cup Nat]
  /\ stored \in Seq(Event)
  /\ unwritten \in [Scopes -> Seq(Event)]
  /\ torn \in BOOLEAN

BeingWritten(f) == \E c \in Scopes : pc[c] = Writing[f]

(* As long as no write of the events has ended in the middle, the file     *)
(* holds every event that any scope has ever written, once, as one history *)
(* without a gap, whatever scopes rewrite it after which failures; and a   *)
(* snapshot on disk never runs ahead of it, whatever became of that file.  *)
SavesSurvive ==
  ~ torn =>
    /\ ~ BeingWritten("events") => disk["events"].history = stored
    /\ CanReplay(<<>>, stored)
    /\ IsPrefix(disk["snapshots"].history, stored)

(* A load gives all events that are on disk, followed by those that the    *)
(* scope itself has failed to write: the snapshots are a cache, whose      *)
(* loss or age cannot be seen in the result of GetByIdAsync.               *)
LoadsGiveAllEvents ==
  [][\A c \in Scopes :
       GetById(c) /\ ~ torn => applied'[c] = stored \o unwritten[c]]_vars
=============================================================================
