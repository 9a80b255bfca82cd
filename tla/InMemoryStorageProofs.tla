------------------------ MODULE InMemoryStorageProofs ------------------------
(***************************************************************************)
(* What the run of InMemoryStorage checks, proved for any number of scopes *)
(* and events, and for any frequency of snapshots.                         *)
(*                                                                         *)
(* At most one scope is at work.  Until a write of the events is torn, its *)
(* dictionary of events holds what is stored and what it has not yet       *)
(* written, its instance agrees with that as far as it is committed, and   *)
(* so it is the whole of it that a save adds to and a snapshot is made of. *)
(***************************************************************************)
EXTENDS InMemoryStorage, SequenceTheorems, TLAPS

(* Every element of s is at its place in t too. *)
Starts(s, t) == Len(s) <= Len(t) /\ \A i \in 1 .. Len(s) : s[i] = t[i]

(* CanReplay from nothing. *)
Numbered(history) == \A i \in 1 .. Len(history) : history[i].target = i - 2

Active(c) == pc[c] \notin {"idle", "gone"}
Events(c) == items[c]["events"]
Snapshots(c) == items[c]["snapshots"]

(* Scopes follow one another. *)
OneScope == \A c, d \in Scopes : Active(c) /\ Active(d) => c = d

(* The instance of a scope has no more committed events than events, and a *)
(* scope has nothing unwritten outside and at the end of a save.           *)
LocalInv ==
  \A c \in Scopes :
    /\ lcv[c] + 1 <= Len(applied[c])
    /\ ~ Active(c) => applied[c] = <<>>
    /\ pc[c] \notin {"ready", "events added", "writing events"} => unwritten[c] = <<>>
    /\ pc[c] \in {"idle", "constructing"} => Snapshots(c) = <<>>

(* The files between two writes. *)
FileInv ==
  /\ ~ BeingWritten("events") =>
       /\ disk["events"].history = stored
       /\ disk["events"].text # "whole" => stored = <<>>
  /\ Numbered(stored) /\ Len(stored) <= MaxVersion + 1
  /\ Starts(disk["snapshots"].history, stored)

(* The scope at work. *)
ScopeInv ==
  \A c \in Scopes : Active(c) =>
    /\ Events(c) = stored \o unwritten[c]
    /\ Numbered(Events(c)) /\ Len(Events(c)) <= MaxVersion + 1
    /\ Numbered(applied[c]) /\ Len(applied[c]) <= MaxVersion + 1
    /\ lcv[c] + 1 <= Len(Events(c))
    /\ \A i \in 1 .. lcv[c] + 1 : applied[c][i] = Events(c)[i]
    /\ Starts(Snapshots(c), Events(c))
    /\ pc[c] \notin {"constructing", "ready"} => applied[c] = Events(c)

StorageInv ==
  TypeOK /\ OneScope /\ LocalInv /\ (~ torn => FileInv /\ ScopeInv)

-----------------------------------------------------------------------------
(* Histories *)

LEMMA VersionType ==
  ASSUME NEW h \in Seq(Event)
  PROVE  Version(h) \in {-1} \cup Nat /\ Version(h) + 1 = Len(h) /\ Len(h) \in Nat
<1>1. Len(h) \in Nat
  BY LenProperties
<1> QED
  BY <1>1 DEF Version

LEMMA UncommittedProperties ==
  ASSUME TypeOK, LocalInv, NEW c \in Scopes
  PROVE  LET u == Uncommitted(c)
         IN /\ u \in Seq(Event) /\ Len(u) = Len(applied[c]) - (lcv[c] + 1)
            /\ lcv[c] + 1 \in Nat /\ lcv[c] + 1 <= Len(applied[c])
            /\ Len(applied[c]) \in Nat
            /\ \A i \in 1 .. Len(u) : u[i] = applied[c][lcv[c] + 1 + i]
<1> DEFINE s == applied[c]
           m == lcv[c] + 2
           n == Len(s)
<1>1. s \in Seq(Event) /\ n \in Nat /\ m \in Nat /\ m >= 1 /\ m <= n + 1
      /\ lcv[c] \in Int
  <2>1. s \in Seq(Event) /\ lcv[c] \in {-1} \cup Nat
    BY DEF TypeOK
  <2>2. lcv[c] + 1 <= Len(s)
    BY DEF LocalInv
  <2> QED
    BY <2>1, <2>2, LenProperties
<1>2. \A i \in m .. n : s[i] \in Event
  BY <1>1, ElementOfSeq
<1>3. /\ SubSeq(s, m, n) \in Seq(Event)
      /\ Len(SubSeq(s, m, n)) = IF m <= n THEN n - m + 1 ELSE 0
      /\ \A i \in 1 .. n - m + 1 : SubSeq(s, m, n)[i] = s[m + i - 1]
  BY <1>1, <1>2, SubSeqProperties
<1>4. Uncommitted(c) = SubSeq(s, m, n)
  BY DEF Uncommitted
<1> HIDE DEF s, n
<1>5. Len(SubSeq(s, m, n)) = n - (lcv[c] + 1)
  BY <1>1, <1>3
<1>6. \A i \in 1 .. n - m + 1 : SubSeq(s, m, n)[i] = s[lcv[c] + 1 + i]
  BY <1>1, <1>3
<1>7. lcv[c] + 1 \in Nat /\ lcv[c] + 1 <= n
  BY <1>1
<1> QED
  BY <1>1, <1>3, <1>4, <1>5, <1>6, <1>7 DEF s, n

(* However the addition of longs goes, a read from a start on ends at the  *)
(* end of the dictionary.                                                  *)
LEMMA GetEventsProperties ==
  ASSUME TypeOK, NEW c \in Scopes, NEW start \in Nat
  PROVE  LET e == GetEvents(c, start, MaxLong)
             n == Len(Events(c))
         IN /\ e \in Seq(Event)
            /\ n <= MaxLong /\ start <= n =>
                 Len(e) = n - start /\ \A i \in 1 .. Len(e) : e[i] = Events(c)[start + i]
<1> DEFINE s == Events(c)
           n == Len(s)
           k == IF MaxLong < n THEN MaxLong ELSE n
<1>1. s \in Seq(Event) /\ n \in Nat /\ MaxLong \in Nat
  <2>1. s \in Seq(Event)
    BY DEF TypeOK, Events, Files
  <2> QED
    BY <2>1, LenProperties, InMemoryStorageAssumption
<1>2. Plus(start, Clamp(start, MaxLong)) = MaxLong
  BY <1>1 DEF Plus, Clamp
<1>3. GetEvents(c, start, MaxLong) = SubSeq(s, start + 1, k)
  BY <1>2 DEF GetEvents, Events
<1>4. \A i \in start + 1 .. k : s[i] \in Event
  BY <1>1, ElementOfSeq
<1>5. k \in Int /\ start + 1 \in Int
  BY <1>1
<1> HIDE DEF k
<1>6. /\ SubSeq(s, start + 1, k) \in Seq(Event)
      /\ Len(SubSeq(s, start + 1, k)) = IF start + 1 <= k THEN k - (start + 1) + 1 ELSE 0
      /\ \A i \in 1 .. k - (start + 1) + 1 : SubSeq(s, start + 1, k)[i] = s[start + 1 + i - 1]
  BY <1>4, <1>5, SubSeqProperties
<1> DEFINE e == SubSeq(s, start + 1, k)
<1> HIDE DEF e, s, n
<1>7. ASSUME n <= MaxLong, start <= n
      PROVE  Len(e) = n - start /\ \A i \in 1 .. Len(e) : e[i] = s[start + i]
  <2>1. k = n
    BY <1>1, <1>7 DEF k, n
  <2>2. Len(e) = n - start
    BY <1>1, <1>6, <1>7, <2>1 DEF e
  <2>3. ASSUME NEW i \in 1 .. n - start
        PROVE  e[i] = s[start + i]
    <3>1. i \in 1 .. k - (start + 1) + 1 /\ start + 1 + i - 1 = start + i
      BY <1>1, <2>1
    <3> QED
      BY <1>6, <3>1 DEF e
  <2> QED
    BY <2>2, <2>3
<1> QED
  BY <1>3, <1>6, <1>7 DEF e, s, n

LEMMA PlaceNames ==
  /\ Files = {"events", "snapshots"}
  /\ Added["events"] = "events added" /\ Added["snapshots"] = "snapshot added"
  /\ Writing["events"] = "writing events" /\ Writing["snapshots"] = "writing snapshot"
  /\ \A f \in Files : Added[f] \in Places /\ Writing[f] \in Places
  BY DEF Files, Added, Writing, Places

-----------------------------------------------------------------------------
(* Types *)

LEMMA EmptyTypes ==
  /\ <<>> \in Seq(Event) /\ NoFile \in File
  /\ Nothing \in [Files -> Seq(Event)]
  BY EmptySeq DEF NoFile, File, Nothing

LEMMA InitTypes == Init => TypeOK
  BY EmptyTypes DEF Init, TypeOK, Places

LEMMA EndTypes ==
  ASSUME TypeOK, NEW c \in Scopes, End(c)
  PROVE  /\ items' \in [Scopes -> [Files -> Seq(Event)]]
         /\ pc' \in [Scopes -> Places]
         /\ applied' \in [Scopes -> Seq(Event)]
         /\ lcv' \in [Scopes -> {-1} \cup Nat]
         /\ stored' \in Seq(Event)
         /\ unwritten' \in [Scopes -> Seq(Event)]
  BY EmptyTypes DEF End, Goto, TypeOK, Places

LEMMA TearTypes ==
  ASSUME TypeOK, NEW c \in Scopes, Tear(c)
  PROVE  disk' \in [Files -> File] /\ torn' \in BOOLEAN
<1>1. CASE UNCHANGED <<disk, torn>>
  BY <1>1 DEF TypeOK
<1>2. ASSUME NEW f \in Files, NEW text \in {"empty", "cut"},
             disk' = [disk EXCEPT ![f].text = text], torn' = (torn \/ f = "events")
      PROVE  disk' \in [Files -> File] /\ torn' \in BOOLEAN
  <2>1. disk[f] \in File
    BY DEF TypeOK
  <2>2. [disk[f] EXCEPT !.text = text] \in File
    BY <2>1 DEF File
  <2>3. disk' = [disk EXCEPT ![f] = [disk[f] EXCEPT !.text = text]]
    BY <1>2 DEF TypeOK
  <2> QED
    BY <1>2, <2>2, <2>3 DEF TypeOK
<1> QED
  BY <1>1, <1>2 DEF Tear

LEMMA TypeStep ==
  ASSUME TypeOK, LocalInv, ~ torn => FileInv /\ ScopeInv, Next
  PROVE  TypeOK'
<1>1. PICK c \in Scopes :
        \/ \E f \in Files : Construct(c, f) \/ ConstructFails(c, f)
        \/ GetById(c) \/ ApplyEvent(c)
        \/ AddEvents(c) \/ AddSnapshot(c) \/ MarkChangesAsCommitted(c)
        \/ \E f \in Files : BeginWrite(c, f) \/ EndWrite(c, f)
        \/ SaveFails(c) \/ Leave(c)
  BY DEF Next
<1>2. ASSUME NEW f \in Files, Construct(c, f)
      PROVE  TypeOK'
  <2>1. LoadFromFile(f) \in Seq(Event)
    BY EmptyTypes DEF LoadFromFile, TypeOK, File
  <2>2. items' \in [Scopes -> [Files -> Seq(Event)]]
    BY <1>2, <2>1 DEF Construct, TypeOK
  <2> QED
    BY <1>2, <2>2 DEF Construct, TypeOK, Goto, Places
<1>3. ASSUME NEW f \in Files, ConstructFails(c, f)
      PROVE  TypeOK'
  BY <1>3, EndTypes DEF ConstructFails, TypeOK
<1>4. CASE GetById(c)
  <2> DEFINE h == Snapshots(c) \o GetEvents(c, Len(Snapshots(c)), MaxLong)
  <2>1. Snapshots(c) \in Seq(Event)
    BY DEF TypeOK, Snapshots, Files
  <2>2. GetEvents(c, Len(Snapshots(c)), MaxLong) \in Seq(Event)
    <3>1. Len(Snapshots(c)) \in Nat
      BY <2>1, LenProperties
    <3> QED
      BY <3>1, GetEventsProperties
  <2>3. h \in Seq(Event) /\ Version(h) \in {-1} \cup Nat
    BY <2>1, <2>2, ConcatProperties, VersionType
  <2>4. applied' = [applied EXCEPT ![c] = h] /\ lcv' = [lcv EXCEPT ![c] = Version(h)]
    BY <1>4 DEF GetById, Snapshots
  <2> HIDE DEF h
  <2> QED
    BY <1>4, <2>3, <2>4 DEF GetById, TypeOK
<1>5. CASE ApplyEvent(c)
  <2> DEFINE e == [by |-> c, target |-> Version(applied[c])]
  <2>1. applied[c] \in Seq(Event)
    BY DEF TypeOK
  <2>2. e \in Event
    BY <2>1, VersionType DEF Event
  <2>3. Append(applied[c], e) \in Seq(Event)
    BY <2>1, <2>2, AppendProperties
  <2>4. applied' = [applied EXCEPT ![c] = Append(applied[c], e)]
    BY <1>5 DEF ApplyEvent
  <2> HIDE DEF e
  <2> QED
    BY <1>5, <2>3, <2>4 DEF ApplyEvent, TypeOK
<1>6. CASE AddEvents(c)
  <2>1. Events(c) \o Uncommitted(c) \in Seq(Event)
        /\ unwritten[c] \o Uncommitted(c) \in Seq(Event)
    BY UncommittedProperties, ConcatProperties DEF TypeOK, Events, Files
  <2>2. /\ items' = [items EXCEPT ![c]["events"] = Events(c) \o Uncommitted(c)]
        /\ unwritten' = [unwritten EXCEPT ![c] = unwritten[c] \o Uncommitted(c)]
    BY <1>6 DEF AddEvents, AddRange, Events
  <2>3. items' \in [Scopes -> [Files -> Seq(Event)]]
        /\ unwritten' \in [Scopes -> Seq(Event)]
    BY <2>1, <2>2 DEF TypeOK, Files
  <2> QED
    BY <1>6, <2>3 DEF AddEvents, TypeOK, Goto, Places, Files
<1>7. CASE AddSnapshot(c)
  <2>1. items' \in [Scopes -> [Files -> Seq(Event)]]
    BY <1>7 DEF AddSnapshot, TypeOK, Files
  <2> QED
    BY <1>7, <2>1 DEF AddSnapshot, TypeOK, Goto, Places, Files
<1>8. CASE MarkChangesAsCommitted(c)
  <2>1. Version(applied[c]) \in {-1} \cup Nat
    BY VersionType DEF TypeOK
  <2> QED
    BY <1>8, <2>1 DEF MarkChangesAsCommitted, TypeOK, Goto, Places
<1>9. ASSUME NEW f \in Files, BeginWrite(c, f)
      PROVE  TypeOK'
  <2>1. disk' \in [Files -> File]
    BY <1>9, EmptyTypes DEF BeginWrite, TypeOK, File
  <2> QED
    BY <1>9, <2>1 DEF BeginWrite, TypeOK, Goto, Places
<1>10. ASSUME NEW f \in Files, EndWrite(c, f)
       PROVE  TypeOK'
  <2>1. disk' \in [Files -> File]
    BY <1>10 DEF EndWrite, TypeOK, File
  <2>2. stored' \in Seq(Event) /\ unwritten' \in [Scopes -> Seq(Event)]
    <3>1. stored \in Seq(Event) /\ unwritten[c] \in Seq(Event)
      BY DEF TypeOK
    <3>2. stored \o unwritten[c] \in Seq(Event)
      BY <3>1, ConcatProperties
    <3> QED
      BY <1>10, <3>2, EmptyTypes DEF EndWrite, TypeOK
  <2> QED
    BY <1>10, <2>1, <2>2 DEF EndWrite, TypeOK, Goto, Places
<1>11. CASE SaveFails(c)
  BY <1>11, TearTypes DEF SaveFails, TypeOK, Goto, Places
<1>12. CASE Leave(c)
  BY <1>12, TearTypes, EndTypes DEF Leave, TypeOK
<1> QED
  BY <1>1, <1>2, <1>3, <1>4, <1>5, <1>6, <1>7, <1>8, <1>9, <1>10, <1>11, <1>12

-----------------------------------------------------------------------------
(* One scope at a time *)

StepOf(c) ==
  \/ \E f \in Files : Construct(c, f) \/ ConstructFails(c, f)
  \/ GetById(c) \/ ApplyEvent(c)
  \/ AddEvents(c) \/ AddSnapshot(c) \/ MarkChangesAsCommitted(c)
  \/ \E f \in Files : BeginWrite(c, f) \/ EndWrite(c, f)
  \/ SaveFails(c) \/ Leave(c)

(* A scope leaves what belongs to the others alone. *)
LEMMA OthersFrame ==
  ASSUME TypeOK, NEW c \in Scopes, StepOf(c), NEW d \in Scopes \ {c}
  PROVE  UNCHANGED <<items[d], pc[d], applied[d], lcv[d], unwritten[d]>>
<1>1. ASSUME NEW f \in Files, Construct(c, f)
      PROVE  UNCHANGED <<items[d], pc[d], applied[d], lcv[d], unwritten[d]>>
  BY <1>1 DEF TypeOK, Construct, Goto
<1>2. CASE End(c)
  BY <1>2 DEF TypeOK, End, Goto
<1>3. ASSUME NEW f \in Files, BeginWrite(c, f) \/ EndWrite(c, f)
      PROVE  UNCHANGED <<items[d], pc[d], applied[d], lcv[d], unwritten[d]>>
  BY <1>3 DEF TypeOK, BeginWrite, EndWrite, Goto
<1>4. CASE GetById(c) \/ ApplyEvent(c)
  BY <1>4 DEF TypeOK, GetById, ApplyEvent
<1>5. CASE AddEvents(c) \/ AddSnapshot(c) \/ MarkChangesAsCommitted(c) \/ SaveFails(c)
  BY <1>5 DEF TypeOK, AddEvents, AddSnapshot, MarkChangesAsCommitted, SaveFails, Goto
<1> QED
  BY <1>1, <1>2, <1>3, <1>4, <1>5 DEF StepOf, ConstructFails, Leave

(* Nor are the others at work. *)
LEMMA OthersRest ==
  ASSUME TypeOK, OneScope, NEW c \in Scopes, StepOf(c), NEW d \in Scopes \ {c}
  PROVE  ~ Active(d)
<1>1. ASSUME NEW f \in Files, Construct(c, f) \/ ConstructFails(c, f)
      PROVE  ~ Active(d)
  BY <1>1 DEF Construct, ConstructFails, IsAt, Active, OneScope
<1>2. CASE \/ GetById(c) \/ ApplyEvent(c) \/ AddEvents(c) \/ AddSnapshot(c)
           \/ MarkChangesAsCommitted(c) \/ Leave(c)
  BY <1>2 DEF Active, GetById, ApplyEvent, AddEvents, AddSnapshot,
     MarkChangesAsCommitted, Leave, OneScope
<1>3. CASE SaveFails(c)
  BY <1>3, PlaceNames DEF Active, SaveFails, OneScope
<1>4. ASSUME NEW f \in Files, BeginWrite(c, f) \/ EndWrite(c, f)
      PROVE  ~ Active(d)
  <2>1. pc[c] = Added[f] \/ pc[c] = Writing[f]
    BY <1>4 DEF BeginWrite, EndWrite
  <2> QED
    BY <2>1, PlaceNames DEF Active, OneScope
<1> QED
  BY <1>1, <1>2, <1>3, <1>4 DEF StepOf

LEMMA ScopeTypes ==
  ASSUME TypeOK, NEW c \in Scopes
  PROVE  /\ Events(c) \in Seq(Event) /\ Len(Events(c)) \in Nat
         /\ Snapshots(c) \in Seq(Event) /\ Len(Snapshots(c)) \in Nat
         /\ applied[c] \in Seq(Event) /\ Len(applied[c]) \in Nat
         /\ stored \in Seq(Event) /\ Len(stored) \in Nat
         /\ unwritten[c] \in Seq(Event) /\ Len(unwritten[c]) \in Nat
         /\ lcv[c] \in {-1} \cup Nat /\ lcv[c] \in Int
         /\ MaxVersion \in Nat /\ MaxLong \in Nat /\ MaxVersion < MaxLong
<1>1. /\ Events(c) \in Seq(Event) /\ Snapshots(c) \in Seq(Event)
      /\ applied[c] \in Seq(Event) /\ stored \in Seq(Event)
      /\ unwritten[c] \in Seq(Event) /\ lcv[c] \in {-1} \cup Nat
  BY PlaceNames DEF TypeOK, Events, Snapshots
<1> QED
  BY <1>1, LenProperties, InMemoryStorageAssumption

LEMMA OneScopeStep ==
  ASSUME TypeOK, OneScope, NEW c \in Scopes, StepOf(c)
  PROVE  OneScope'
  BY OthersFrame, OthersRest DEF OneScope, Active

LEMMA LocalStep ==
  ASSUME TypeOK, TypeOK', OneScope, LocalInv, NEW c \in Scopes, StepOf(c)
  PROVE  LocalInv'
<1> DEFINE Committed(d) == lcv'[d] + 1 <= Len(applied'[d])
           Fresh(d) == /\ pc'[d] \in {"idle", "gone"} => applied'[d] = <<>>
                       /\ pc'[d] \in {"idle", "constructing"} => items'[d]["snapshots"] = <<>>
           Written(d) == pc'[d] \notin {"ready", "events added", "writing events"} =>
                           unwritten'[d] = <<>>
           Good(d) == Committed(d) /\ Fresh(d) /\ Written(d)
<1>1. ASSUME NEW d \in Scopes \ {c}
      PROVE  Good(d)
  BY OthersFrame DEF LocalInv, Active, Snapshots
<1>2. lcv[c] + 1 <= Len(applied[c]) /\ lcv[c] \in Int
      /\ Len(applied[c]) \in Nat
  BY ScopeTypes DEF LocalInv
<1>3. /\ applied[c] \in Seq(Event) /\ applied'[c] \in Seq(Event)
      /\ pc \in [Scopes -> Places] /\ lcv \in [Scopes -> {-1} \cup Nat]
      /\ applied \in [Scopes -> Seq(Event)] /\ unwritten \in [Scopes -> Seq(Event)]
      /\ items \in [Scopes -> [Files -> Seq(Event)]]
  BY DEF TypeOK
<1>4. /\ pc[c] \in {"idle", "gone"} => applied[c] = <<>>
      /\ pc[c] \notin {"ready", "events added", "writing events"} => unwritten[c] = <<>>
      /\ pc[c] \in {"idle", "constructing"} => items[c]["snapshots"] = <<>>
  BY DEF LocalInv, Active, Snapshots
<1>5. ASSUME NEW f \in Files, Construct(c, f)
      PROVE  Good(c)
  <2>1. f \in {"events", "snapshots"} /\ UNCHANGED <<applied, lcv, unwritten>>
    BY <1>5, PlaceNames DEF Construct
  <2>2. pc'[c] = IF f = "events" THEN "constructing" ELSE "ready"
    BY <1>3, <1>5 DEF Construct, Goto
  <2>3. unwritten[c] = <<>>
    BY <1>4, <1>5 DEF Construct, IsAt
  <2>4. f = "events" => items'[c]["snapshots"] = <<>>
    BY <1>3, <1>4, <1>5, PlaceNames DEF Construct, IsAt
  <2>5. Committed(c)
    BY <1>2, <2>1
  <2>6. Fresh(c) /\ Written(c)
    BY <2>1, <2>2, <2>3, <2>4
  <2> QED
    BY <2>5, <2>6
<1>6. ASSUME End(c)
      PROVE  Good(c)
  <2>1. /\ pc'[c] = "gone" /\ applied'[c] = <<>> /\ lcv'[c] = -1
        /\ unwritten'[c] = <<>>
    BY <1>3, <1>6 DEF End, Goto
  <2>2. Len(applied'[c]) = 0
    BY <2>1, EmptySeq
  <2> QED
    BY <2>1, <2>2
<1>7. ASSUME GetById(c)
      PROVE  Good(c)
  <2>1. lcv'[c] = Version(applied'[c]) /\ pc'[c] = "ready"
    BY <1>3, <1>7 DEF GetById
  <2>2. lcv'[c] + 1 = Len(applied'[c]) /\ Len(applied'[c]) \in Nat
    BY <1>3, <2>1, VersionType
  <2>3. Committed(c)
    BY <2>2
  <2> QED
    BY <2>1, <2>3
<1>8. ASSUME ApplyEvent(c)
      PROVE  Good(c)
  <2>1. pc'[c] = "ready" /\ lcv'[c] = lcv[c]
    BY <1>8 DEF ApplyEvent
  <2>2. [by |-> c, target |-> Version(applied[c])] \in Event
    BY <1>3, VersionType DEF Event
  <2>3. applied'[c] = Append(applied[c], [by |-> c, target |-> Version(applied[c])])
    BY <1>3, <1>8 DEF ApplyEvent
  <2>4. Len(applied'[c]) = Len(applied[c]) + 1
    BY <1>3, <2>2, <2>3, AppendProperties
  <2>5. Committed(c)
    BY <1>2, <2>1, <2>4
  <2> QED
    BY <2>1, <2>5
<1>9. ASSUME AddEvents(c) \/ AddSnapshot(c) \/ \E f \in Files : BeginWrite(c, f)
      PROVE  Good(c)
  <2>1. UNCHANGED <<applied, lcv>>
    BY <1>9 DEF AddEvents, AddSnapshot, BeginWrite
  <2>2. /\ pc'[c] \in {"events added", "snapshot added", "writing events", "writing snapshot"}
        /\ pc'[c] \in {"snapshot added", "writing snapshot"} =>
              unwritten'[c] = unwritten[c] /\ pc[c] \in {"publishing", "snapshot added"}
    BY <1>3, <1>9, PlaceNames DEF AddEvents, AddSnapshot, BeginWrite, Goto
  <2>3. Committed(c)
    BY <1>2, <2>1
  <2>4. Fresh(c) /\ Written(c)
    BY <1>4, <2>2
  <2> QED
    BY <2>3, <2>4
<1>10. ASSUME MarkChangesAsCommitted(c)
      PROVE  Good(c)
  <2>1. lcv'[c] = Version(applied[c]) /\ pc'[c] = "ready" /\ UNCHANGED applied
    BY <1>3, <1>10 DEF MarkChangesAsCommitted, Goto
  <2>2. lcv'[c] + 1 = Len(applied'[c]) /\ Len(applied'[c]) \in Nat
    BY <1>3, <2>1, VersionType
  <2>3. Committed(c)
    BY <2>2
  <2> QED
    BY <2>1, <2>3
<1>11. ASSUME NEW f \in Files, EndWrite(c, f)
       PROVE  Good(c)
  <2>1. UNCHANGED <<applied, lcv>> /\ pc'[c] \in {"publishing", "marking"}
    BY <1>3, <1>11 DEF EndWrite, Goto
  <2>2. unwritten'[c] = <<>>
    BY <1>3, <1>4, <1>11, PlaceNames DEF EndWrite
  <2>3. Committed(c)
    BY <1>2, <2>1
  <2> QED
    BY <2>1, <2>2, <2>3
<1>12. ASSUME SaveFails(c)
      PROVE  Good(c)
  <2>1. UNCHANGED <<applied, lcv>> /\ pc'[c] = "ready"
    BY <1>3, <1>12 DEF SaveFails, Goto
  <2>2. Committed(c)
    BY <1>2, <2>1
  <2> QED
    BY <2>1, <2>2
<1> HIDE DEF Good
<1>13. Good(c)
  BY <1>5, <1>6, <1>7, <1>8, <1>9, <1>10, <1>11, <1>12
     DEF StepOf, ConstructFails, Leave
<1>14. \A d \in Scopes : Good(d)
  BY <1>1, <1>13
<1> QED
  BY <1>14 DEF Good, LocalInv, Active, Snapshots

-----------------------------------------------------------------------------
(* The files, and the scope at work *)

(* GetByIdAsync gives the whole dictionary of events, wherever a snapshot  *)
(* makes it start to read.                                                 *)
LEMMA LoadGivesAll ==
  ASSUME TypeOK, ScopeInv, NEW c \in Scopes, GetById(c)
  PROVE  applied'[c] = Events(c)
<1> DEFINE s == Snapshots(c)
           e == GetEvents(c, Len(s), MaxLong)
           n == Len(Events(c))
<1>1. applied'[c] = s \o e /\ Active(c)
  BY DEF GetById, Snapshots, TypeOK, Active
<1>2. /\ Starts(s, Events(c)) /\ n <= MaxVersion + 1
  BY <1>1 DEF ScopeInv
<1>3. /\ s \in Seq(Event) /\ Len(s) \in Nat /\ Events(c) \in Seq(Event) /\ n \in Nat
      /\ n <= MaxLong /\ Len(s) <= n
  BY <1>2, ScopeTypes DEF Starts
<1>4. /\ e \in Seq(Event) /\ Len(e) = n - Len(s)
      /\ \A i \in 1 .. Len(e) : e[i] = Events(c)[Len(s) + i]
  BY <1>3, GetEventsProperties
<1> HIDE DEF e, s
<1>5. /\ s \o e \in Seq(Event) /\ Len(s \o e) = n
      /\ \A i \in 1 .. n : (s \o e)[i] = IF i <= Len(s) THEN s[i] ELSE e[i - Len(s)]
  BY <1>3, <1>4, ConcatProperties
<1>6. ASSUME NEW i \in 1 .. n
      PROVE  (s \o e)[i] = Events(c)[i]
  <2>1. CASE i <= Len(s)
    BY <1>2, <1>3, <1>5, <2>1 DEF Starts
  <2>2. CASE i > Len(s)
    <3>1. i - Len(s) \in 1 .. Len(e) /\ Len(s) + (i - Len(s)) = i
      BY <1>3, <1>4, <2>2
    <3> QED
      BY <1>3, <1>4, <1>5, <2>2, <3>1
  <2>3. i <= Len(s) \/ i > Len(s)
    BY <1>3
  <2> QED
    BY <2>1, <2>2, <2>3
<1>7. s \o e = Events(c)
  BY <1>3, <1>5, <1>6, SeqEqual
<1> QED
  BY <1>1, <1>7

(* A save that passes the check has an instance that ends where the        *)
(* dictionary does, and makes the dictionary equal to it.                  *)
LEMMA AddEventsGivesAll ==
  ASSUME TypeOK, LocalInv, ScopeInv, NEW c \in Scopes, AddEvents(c)
  PROVE  /\ Events(c) \o Uncommitted(c) = applied[c]
         /\ Len(Events(c)) <= Len(applied[c])
         /\ \A i \in 1 .. Len(Events(c)) : Events(c)[i] = applied[c][i]
<1> DEFINE E == Events(c)
           u == Uncommitted(c)
           n == lcv[c] + 1
           a == applied[c]
<1>1. /\ n \in Nat /\ n <= Len(E) /\ \A i \in 1 .. n : a[i] = E[i]
      /\ Numbered(E) /\ E \in Seq(Event) /\ Len(E) \in Nat /\ lcv[c] \in Int
  <2>1. Active(c)
    BY DEF AddEvents, Active
  <2>2. /\ n <= Len(E) /\ \A i \in 1 .. n : a[i] = E[i]
        /\ Numbered(E)
    BY <2>1 DEF ScopeInv
  <2>3. E \in Seq(Event) /\ Len(E) \in Nat /\ lcv[c] \in {-1} \cup Nat
    BY ScopeTypes
  <2>4. n \in Nat /\ lcv[c] \in Int
    BY <2>3
  <2> QED
    BY <2>2, <2>3, <2>4
<1>2. Len(E) = n
  <2>1. CASE E = <<>>
    BY <1>1, <2>1, EmptySeq
  <2>2. CASE E # <<>>
    <3>1. Len(E) \in 1 .. Len(E)
      BY <1>1, <2>2, EmptySeq
    <3>2. E[Len(E)].target + 1 = lcv[c]
      BY <2>2 DEF AddEvents, PassesCheck, Last, Events
    <3>3. E[Len(E)].target = Len(E) - 2
      BY <1>1, <3>1 DEF Numbered
    <3> QED
      BY <1>1, <3>2, <3>3
  <2> QED
    BY <2>1, <2>2
<1>3. /\ u \in Seq(Event) /\ Len(u) = Len(a) - n /\ n <= Len(a)
      /\ a \in Seq(Event) /\ Len(a) \in Nat
      /\ \A i \in 1 .. Len(u) : u[i] = a[n + i]
  BY UncommittedProperties, ScopeTypes
<1> HIDE DEF E, u, n, a
<1>4. /\ E \o u \in Seq(Event) /\ Len(E \o u) = Len(a)
      /\ \A i \in 1 .. Len(a) : (E \o u)[i] = IF i <= Len(E) THEN E[i] ELSE u[i - Len(E)]
  <2>1. /\ E \o u \in Seq(Event) /\ Len(E \o u) = Len(E) + Len(u)
        /\ \A i \in 1 .. Len(E) + Len(u) :
             (E \o u)[i] = IF i <= Len(E) THEN E[i] ELSE u[i - Len(E)]
    BY <1>1, <1>3, ConcatProperties
  <2>2. Len(E) + Len(u) = Len(a)
    BY <1>1, <1>2, <1>3
  <2> QED
    BY <2>1, <2>2
<1>5. ASSUME NEW i \in 1 .. Len(a)
      PROVE  (E \o u)[i] = a[i]
  <2>1. CASE i <= n
    BY <1>1, <1>2, <1>4, <2>1
  <2>2. CASE i > n
    <3>1. i - n \in 1 .. Len(u) /\ n + (i - n) = i
      BY <1>1, <1>3, <2>2
    <3> QED
      BY <1>1, <1>2, <1>3, <1>4, <2>2, <3>1
  <2>3. i <= n \/ i > n
    BY <1>1, <1>3
  <2> QED
    BY <2>1, <2>2, <2>3
<1>6. E \o u = a
  BY <1>3, <1>4, <1>5, SeqEqual
<1> QED
  BY <1>1, <1>2, <1>3, <1>6 DEF E, u, n, a

LEMMA StartsProperties ==
  ASSUME NEW s \in Seq(Event), NEW t \in Seq(Event), NEW u \in Seq(Event)
  PROVE  /\ Starts(<<>>, t) /\ Starts(s, s) /\ Starts(s, s \o u)
         /\ Starts(s, t) => Starts(s, t \o u)
         /\ s \o <<>> = s
<1>1. Len(s) \in Nat /\ Len(t) \in Nat /\ Len(u) \in Nat /\ Len(<<>>) = 0
  BY LenProperties, EmptySeq
<1>2. Starts(<<>>, t) /\ Starts(s, s)
  BY <1>1 DEF Starts
<1>3. /\ Len(s \o u) = Len(s) + Len(u) /\ Len(t \o u) = Len(t) + Len(u)
      /\ \A i \in 1 .. Len(s) : (s \o u)[i] = s[i]
      /\ \A i \in 1 .. Len(t) : (t \o u)[i] = t[i]
  <2>1. /\ Len(s \o u) = Len(s) + Len(u) /\ Len(t \o u) = Len(t) + Len(u)
        /\ \A i \in 1 .. Len(s) + Len(u) :
              (s \o u)[i] = IF i <= Len(s) THEN s[i] ELSE u[i - Len(s)]
        /\ \A i \in 1 .. Len(t) + Len(u) :
              (t \o u)[i] = IF i <= Len(t) THEN t[i] ELSE u[i - Len(t)]
    BY ConcatProperties
  <2> QED
    BY <1>1, <2>1
<1>4. Starts(s, s \o u)
  BY <1>1, <1>3 DEF Starts
<1>5. Starts(s, t) => Starts(s, t \o u)
  BY <1>1, <1>3 DEF Starts
<1> QED
  BY <1>2, <1>4, <1>5, ConcatEmptySeq

(* Only the scope at work can be writing. *)
LEMMA WhoWrites ==
  ASSUME TypeOK, OneScope, NEW c \in Scopes, StepOf(c)
  PROVE  /\ BeingWritten("events") <=> pc[c] = "writing events"
         /\ BeingWritten("events")' <=> pc'[c] = "writing events"
<1>1. \A d \in Scopes \ {c} : pc[d] # "writing events" /\ pc'[d] # "writing events"
  BY OthersFrame, OthersRest DEF Active
<1> QED
  BY <1>1, PlaceNames DEF BeingWritten

(* The conjuncts of ScopeInv, for one scope. *)
Whole(c) ==
  /\ Events(c) = stored \o unwritten[c]
  /\ Numbered(Events(c)) /\ Len(Events(c)) <= MaxVersion + 1
Agrees(c) ==
  /\ Numbered(applied[c]) /\ Len(applied[c]) <= MaxVersion + 1
  /\ lcv[c] + 1 <= Len(Events(c))
  /\ \A i \in 1 .. lcv[c] + 1 : applied[c][i] = Events(c)[i]
  /\ pc[c] \notin {"constructing", "ready"} => applied[c] = Events(c)
Cached(c) == Starts(Snapshots(c), Events(c))

LEMMA ScopeInvParts ==
  ASSUME TypeOK, NEW c \in Scopes, ScopeInv, Active(c)
  PROVE  Whole(c) /\ Agrees(c) /\ Cached(c)
  BY DEF ScopeInv, Whole, Agrees, Cached

LEMMA FileStep ==
  ASSUME TypeOK, OneScope, LocalInv, FileInv, ScopeInv, ~ torn',
         NEW c \in Scopes, StepOf(c)
  PROVE  FileInv'
<1>1. /\ disk \in [Files -> File] /\ pc \in [Scopes -> Places]
      /\ "events" \in Files /\ "snapshots" \in Files
      /\ stored \in Seq(Event) /\ unwritten[c] \in Seq(Event)
  BY PlaceNames DEF TypeOK
<1>2. disk["snapshots"].history \in Seq(Event)
  BY <1>1 DEF File
<1>3. CASE UNCHANGED <<disk, stored>> /\ pc'[c] # "writing events"
                                     /\ pc[c] # "writing events"
  BY <1>3, WhoWrites DEF FileInv
<1>4. ASSUME NEW f \in Files, Construct(c, f) \/ ConstructFails(c, f)
      PROVE  FileInv'
  <2>1. UNCHANGED <<disk, stored>>
    BY <1>4 DEF Construct, ConstructFails, End
  <2>2. pc'[c] # "writing events" /\ pc[c] # "writing events"
    BY <1>1, <1>4 DEF Construct, ConstructFails, IsAt, End, Goto
  <2> QED
    BY <1>3, <2>1, <2>2
<1>5. CASE \/ GetById(c) \/ ApplyEvent(c) \/ AddEvents(c) \/ AddSnapshot(c)
           \/ MarkChangesAsCommitted(c)
  <2>1. UNCHANGED <<disk, stored>>
    BY <1>5 DEF GetById, ApplyEvent, AddEvents, AddSnapshot, MarkChangesAsCommitted
  <2>2. pc'[c] # "writing events" /\ pc[c] # "writing events"
    BY <1>1, <1>5, PlaceNames DEF GetById, ApplyEvent, AddEvents, AddSnapshot,
       MarkChangesAsCommitted, Goto
  <2> QED
    BY <1>3, <2>1, <2>2
<1>6. ASSUME NEW f \in Files, BeginWrite(c, f)
      PROVE  FileInv'
  <2>1. /\ UNCHANGED stored /\ pc[c] = Added[f] /\ pc'[c] = Writing[f]
        /\ disk' = [disk EXCEPT ![f] = [text |-> "empty", history |-> <<>>]]
    BY <1>1, <1>6 DEF BeginWrite, Goto
  <2>2. CASE f = "events"
    <3>1. BeingWritten("events")' /\ disk'["snapshots"] = disk["snapshots"]
      BY <1>1, <2>1, <2>2, PlaceNames, WhoWrites
    <3> QED
      BY <2>1, <3>1 DEF FileInv
  <2>3. CASE f = "snapshots"
    <3>1. ~ BeingWritten("events") /\ disk'["events"] = disk["events"]
          /\ disk'["snapshots"].history = <<>>
      BY <1>1, <2>1, <2>3, PlaceNames, WhoWrites
    <3>2. Starts(disk'["snapshots"].history, stored)
      BY <1>1, <3>1, StartsProperties
    <3> QED
      BY <2>1, <3>1, <3>2 DEF FileInv
  <2> QED
    BY <2>2, <2>3, PlaceNames
<1>7. ASSUME NEW f \in Files, EndWrite(c, f)
      PROVE  FileInv'
  <2>1. /\ pc[c] = Writing[f]
        /\ disk' = [disk EXCEPT ![f] = [text |-> "whole", history |-> items[c][f]]]
    BY <1>7 DEF EndWrite
  <2>2. Active(c)
    BY <2>1, PlaceNames DEF Active
  <2>3. Whole(c) /\ Cached(c)
    BY <2>2, ScopeInvParts
  <2>4. CASE f = "events"
    <3>1. /\ stored' = Events(c) /\ stored' = stored \o unwritten[c]
          /\ disk'["events"] = [text |-> "whole", history |-> Events(c)]
          /\ disk'["snapshots"] = disk["snapshots"]
      BY <1>1, <1>7, <2>1, <2>3, <2>4 DEF EndWrite, Whole, Events
    <3>2. Starts(disk["snapshots"].history, stored')
      BY <1>1, <1>2, <3>1, StartsProperties DEF FileInv
    <3> QED
      BY <2>3, <3>1, <3>2 DEF FileInv, Whole
  <2>5. CASE f = "snapshots"
    <3>1. /\ UNCHANGED stored /\ unwritten[c] = <<>>
          /\ disk'["snapshots"].history = Snapshots(c)
          /\ disk'["events"] = disk["events"] /\ ~ BeingWritten("events")
      <4>1. UNCHANGED stored /\ pc[c] = "writing snapshot"
        BY <1>7, <2>1, <2>5, PlaceNames DEF EndWrite
      <4>2. unwritten[c] = <<>> /\ ~ BeingWritten("events")
        BY <4>1, WhoWrites DEF LocalInv
      <4>3. /\ disk'["snapshots"] = [text |-> "whole", history |-> Snapshots(c)]
            /\ disk'["events"] = disk["events"]
        BY <1>1, <2>1, <2>5 DEF Snapshots
      <4>4. disk'["snapshots"].history = Snapshots(c)
        BY <4>3
      <4> QED
        BY <4>1, <4>2, <4>3, <4>4
    <3>2. Starts(Snapshots(c), stored)
      BY <1>1, <2>3, <3>1, StartsProperties DEF Whole, Cached
    <3> QED
      BY <3>1, <3>2 DEF FileInv
  <2> QED
    BY <2>4, <2>5, PlaceNames
<1>8. CASE SaveFails(c) \/ Leave(c)
  <2>1. Tear(c) /\ UNCHANGED stored /\ pc'[c] \in {"ready", "gone"}
    BY <1>1, <1>8 DEF SaveFails, Leave, End, Goto
  <2>2. CASE UNCHANGED disk /\ pc[c] # "writing events"
    BY <1>3, <2>1, <2>2
  <2>3. ASSUME NEW f \in Files, NEW text \in {"empty", "cut"}, pc[c] = Writing[f],
               disk' = [disk EXCEPT ![f].text = text], torn' = (torn \/ f = "events")
        PROVE  FileInv'
    <3>1. f = "snapshots"
      BY <2>3, PlaceNames
    <3>2. /\ ~ BeingWritten("events") /\ disk'["events"] = disk["events"]
          /\ disk'["snapshots"].history = disk["snapshots"].history
      <4>1. disk["snapshots"] \in File
        BY <1>1
      <4>2. disk'["snapshots"] = [disk["snapshots"] EXCEPT !.text = text]
        BY <1>1, <2>3, <3>1
      <4>3. disk'["events"] = disk["events"]
        BY <1>1, <2>3, <3>1
      <4>4. ~ BeingWritten("events")
        BY <2>3, <3>1, PlaceNames, WhoWrites
      <4> QED
        BY <4>1, <4>2, <4>3, <4>4 DEF File
    <3> QED
      BY <2>1, <3>2 DEF FileInv
  <2> QED
    BY <2>1, <2>2, <2>3, PlaceNames DEF Tear
<1> QED
  BY <1>4, <1>5, <1>6, <1>7, <1>8 DEF StepOf

LEMMA ScopeStep ==
  ASSUME TypeOK, TypeOK', OneScope, LocalInv, FileInv, ScopeInv, ~ torn',
         NEW c \in Scopes, StepOf(c), Active(c)'
  PROVE  Whole(c)' /\ Agrees(c)' /\ Cached(c)'
<1>1. /\ pc \in [Scopes -> Places] /\ lcv \in [Scopes -> {-1} \cup Nat]
      /\ applied \in [Scopes -> Seq(Event)] /\ unwritten \in [Scopes -> Seq(Event)]
      /\ items \in [Scopes -> [Files -> Seq(Event)]] /\ disk \in [Files -> File]
      /\ "events" \in Files /\ "snapshots" \in Files
  BY PlaceNames DEF TypeOK
<1>2. /\ Events(c) \in Seq(Event) /\ Len(Events(c)) \in Nat
      /\ Snapshots(c) \in Seq(Event)
      /\ applied[c] \in Seq(Event) /\ Len(applied[c]) \in Nat
      /\ stored \in Seq(Event) /\ unwritten[c] \in Seq(Event)
      /\ lcv[c] \in {-1} \cup Nat /\ MaxVersion \in Nat
      /\ <<>> \in Seq(Event) /\ Len(<<>>) = 0
  BY ScopeTypes, EmptySeq
<1>3. ASSUME Active(c), UNCHANGED <<items[c], applied[c], lcv[c], stored, unwritten[c]>>,
             pc'[c] \in {"constructing", "ready"} \/ pc[c] \notin {"constructing", "ready"}
      PROVE  Whole(c)' /\ Agrees(c)' /\ Cached(c)'
  BY <1>3, ScopeInvParts DEF Whole, Agrees, Cached, Events, Snapshots
<1>4. ASSUME Construct(c, "events")
      PROVE  Whole(c)' /\ Agrees(c)' /\ Cached(c)'
  <2>1. /\ pc[c] = "idle" /\ UNCHANGED <<stored, unwritten, applied, lcv>>
        /\ items'[c]["events"] = LoadFromFile("events")
        /\ items'[c]["snapshots"] = items[c]["snapshots"]
        /\ pc'[c] = "constructing"
    BY <1>1, <1>4 DEF Construct, IsAt, Goto
  <2>2. /\ unwritten[c] = <<>> /\ applied[c] = <<>> /\ lcv[c] + 1 <= Len(applied[c])
        /\ Snapshots(c) = <<>> /\ ~ BeingWritten("events")
    BY <2>1, WhoWrites DEF LocalInv, Active
  <2>3. Events(c)' = stored /\ Snapshots(c)' = <<>>
    BY <2>1, <2>2 DEF FileInv, LoadFromFile, Events, Snapshots
  <2>4. Whole(c)'
    BY <1>2, <2>1, <2>2, <2>3, StartsProperties DEF Whole, FileInv
  <2>5. Cached(c)'
    BY <1>2, <2>1, <2>3, StartsProperties DEF Cached
  <2>6. lcv[c] + 1 = 0 /\ Len(Events(c)') \in Nat
    BY <1>2, <2>2, <2>3, LenProperties
  <2>7. Agrees(c)'
    BY <1>2, <2>1, <2>2, <2>3, <2>6 DEF Agrees, Numbered
  <2> QED
    BY <2>4, <2>5, <2>7
<1>5. ASSUME Construct(c, "snapshots")
      PROVE  Whole(c)' /\ Agrees(c)' /\ Cached(c)'
  <2>1. /\ pc[c] = "constructing" /\ UNCHANGED <<stored, unwritten, applied, lcv>>
        /\ items'[c]["snapshots"] = LoadFromFile("snapshots")
        /\ items'[c]["events"] = items[c]["events"]
        /\ pc'[c] = "ready" /\ UNCHANGED disk
    BY <1>1, <1>5 DEF Construct, IsAt, Goto
  <2>2. /\ unwritten[c] = <<>> /\ Whole(c) /\ Agrees(c)
    BY <2>1, ScopeInvParts DEF LocalInv, Active
  <2>3. Whole(c)' /\ Agrees(c)'
    BY <2>1, <2>2 DEF Whole, Agrees, Events
  <2>4. Starts(LoadFromFile("snapshots"), stored)
    BY <1>2, StartsProperties DEF LoadFromFile, FileInv
  <2>5. Events(c)' = stored
    BY <1>2, <2>1, <2>2, StartsProperties DEF Whole, Events
  <2>6. Cached(c)'
    BY <2>1, <2>4, <2>5 DEF Cached, Snapshots
  <2> QED
    BY <2>3, <2>6
<1>6. ASSUME GetById(c)
      PROVE  Whole(c)' /\ Agrees(c)' /\ Cached(c)'
  <2>1. /\ UNCHANGED <<items, pc, stored, unwritten>> /\ pc[c] = "ready" /\ Active(c)
        /\ lcv'[c] = Version(applied'[c])
    BY <1>1, <1>6 DEF GetById, Active
  <2>2. applied'[c] = Events(c)
    BY <1>6, LoadGivesAll
  <2>3. Whole(c) /\ Cached(c)
    BY <2>1, ScopeInvParts
  <2>4. Whole(c)' /\ Cached(c)'
    BY <2>1, <2>3 DEF Whole, Cached, Events, Snapshots
  <2>5. lcv'[c] + 1 = Len(Events(c)) /\ Events(c)' = Events(c)
    BY <1>2, <2>1, <2>2, VersionType DEF Events
  <2>6. Agrees(c)'
    BY <1>2, <2>1, <2>2, <2>3, <2>5 DEF Agrees, Whole
  <2> QED
    BY <2>4, <2>6
<1>7. ASSUME ApplyEvent(c)
      PROVE  Whole(c)' /\ Agrees(c)' /\ Cached(c)'
  <2> DEFINE e == [by |-> c, target |-> Version(applied[c])]
             n == Len(applied[c])
  <2>1. /\ UNCHANGED <<items, pc, stored, unwritten, lcv>> /\ pc[c] = "ready" /\ Active(c)
        /\ applied'[c] = Append(applied[c], e) /\ Version(applied[c]) < MaxVersion
    BY <1>1, <1>7 DEF ApplyEvent, Active
  <2>2. Whole(c) /\ Cached(c) /\ Agrees(c)
    BY <2>1, ScopeInvParts
  <2>3. e \in Event /\ e.target = n - 1 /\ n \in Nat /\ n <= MaxVersion
    <3>1. Version(applied[c]) = n - 1 /\ Version(applied[c]) \in {-1} \cup Nat
      BY <1>2, VersionType DEF Version
    <3> QED
      BY <1>2, <2>1, <3>1 DEF Event
  <2> HIDE DEF e
  <2>4. /\ Len(applied'[c]) = n + 1 /\ applied'[c][n + 1] = e
        /\ \A i \in 1 .. n : applied'[c][i] = applied[c][i]
    BY <1>2, <2>1, <2>3, AppendProperties
  <2> HIDE DEF n
  <2>5. \A i \in 1 .. n + 1 : applied'[c][i].target = i - 2
    <3>1. ASSUME NEW i \in 1 .. n + 1
          PROVE  applied'[c][i].target = i - 2
      <4>1. CASE i = n + 1
        BY <2>3, <2>4, <4>1
      <4>2. CASE i # n + 1
        <5>1. i \in 1 .. n
          BY <2>3, <4>2
        <5> QED
          BY <2>2, <2>4, <5>1 DEF Agrees, Numbered, n
      <4> QED
        BY <4>1, <4>2
    <3> QED
      BY <3>1
  <2>6. lcv[c] + 1 <= n /\ lcv[c] \in Int
    <3>1. lcv[c] \in {-1} \cup Nat
      BY <1>2
    <3>2. lcv[c] \in Int
      BY <3>1
    <3> QED
      BY <3>2 DEF LocalInv, n
  <2>7. \A i \in 1 .. lcv[c] + 1 : applied'[c][i] = Events(c)[i]
    BY <2>2, <2>3, <2>4, <2>6 DEF Agrees
  <2>8. Whole(c)' /\ Cached(c)'
    BY <2>1, <2>2 DEF Whole, Cached, Events, Snapshots
  <2>9. Agrees(c)'
    <3>1. Events(c)' = Events(c) /\ lcv'[c] = lcv[c] /\ pc'[c] = "ready"
      BY <2>1 DEF Events
    <3>2. Numbered(applied[c])'
      BY <2>4, <2>5 DEF Numbered
    <3>3. Len(applied'[c]) <= MaxVersion + 1
      BY <1>2, <2>3, <2>4
    <3>4. lcv[c] + 1 <= Len(Events(c))
      BY <2>2 DEF Agrees
    <3> QED
      BY <2>7, <3>1, <3>2, <3>3, <3>4 DEF Agrees
  <2> QED
    BY <2>8, <2>9
<1>8. ASSUME AddEvents(c)
      PROVE  Whole(c)' /\ Agrees(c)' /\ Cached(c)'
  <2> DEFINE u == Uncommitted(c)
  <2>1. /\ UNCHANGED <<stored, lcv, applied>> /\ pc[c] = "ready" /\ Active(c)
        /\ items'[c]["events"] = Events(c) \o u
        /\ items'[c]["snapshots"] = items[c]["snapshots"]
        /\ unwritten'[c] = unwritten[c] \o u
    BY <1>1, <1>8 DEF AddEvents, AddRange, Active, Events
  <2>2. Whole(c) /\ Cached(c) /\ Agrees(c)
    BY <2>1, ScopeInvParts
  <2>3. /\ Events(c) \o u = applied[c] /\ Len(Events(c)) <= Len(applied[c])
        /\ \A i \in 1 .. Len(Events(c)) : Events(c)[i] = applied[c][i]
    BY <1>8, AddEventsGivesAll
  <2>4. u \in Seq(Event)
    BY UncommittedProperties
  <2> HIDE DEF u
  <2>5. Events(c)' = applied[c] /\ Snapshots(c)' = Snapshots(c)
    BY <2>1, <2>3 DEF Events, Snapshots
  <2>6. (stored \o unwritten[c]) \o u = stored \o (unwritten[c] \o u)
    <3>1. stored \in Seq(Event) /\ unwritten[c] \in Seq(Event)
      BY <1>2
    <3>2. \A r, s, v \in Seq(Event) : (r \o s) \o v = r \o (s \o v)
      BY ConcatAssociative
    <3> QED
      BY <2>4, <3>1, <3>2, Zenon
  <2>7. Whole(c)'
    BY <2>1, <2>2, <2>3, <2>5, <2>6 DEF Whole, Agrees
  <2>8. Cached(c)'
    BY <1>2, <2>2, <2>3, <2>4, <2>5, StartsProperties DEF Cached
  <2>9. Agrees(c)'
    BY <1>2, <2>1, <2>2, <2>3, <2>5 DEF Agrees
  <2> QED
    BY <2>7, <2>8, <2>9
<1>9. ASSUME AddSnapshot(c)
      PROVE  Whole(c)' /\ Agrees(c)' /\ Cached(c)'
  <2>1. /\ UNCHANGED <<stored, lcv, applied, unwritten>> /\ pc[c] = "publishing" /\ Active(c)
        /\ items'[c]["events"] = items[c]["events"]
        /\ items'[c]["snapshots"] = applied[c]
    BY <1>1, <1>9 DEF AddSnapshot, Active
  <2>2. Whole(c) /\ Agrees(c)
    BY <2>1, ScopeInvParts
  <2>3. Events(c)' = Events(c) /\ Snapshots(c)' = applied[c] /\ applied[c] = Events(c)
    BY <2>1, <2>2 DEF Events, Snapshots, Agrees
  <2>4. Whole(c)' /\ Agrees(c)'
    BY <2>1, <2>2, <2>3 DEF Whole, Agrees
  <2>5. Cached(c)'
    BY <1>2, <2>3, StartsProperties DEF Cached
  <2> QED
    BY <2>4, <2>5
<1>10. ASSUME MarkChangesAsCommitted(c)
       PROVE  Whole(c)' /\ Agrees(c)' /\ Cached(c)'
  <2>1. /\ UNCHANGED <<items, stored, applied, unwritten>> /\ Active(c)
        /\ pc[c] \in {"publishing", "marking"} /\ pc'[c] = "ready"
        /\ lcv'[c] = Version(applied[c])
    BY <1>1, <1>10 DEF MarkChangesAsCommitted, Active, Goto
  <2>2. Whole(c) /\ Agrees(c) /\ Cached(c)
    BY <2>1, ScopeInvParts
  <2>3. lcv'[c] + 1 = Len(applied[c]) /\ applied[c] = Events(c)
    BY <1>2, <2>1, <2>2, VersionType DEF Agrees
  <2>4. Whole(c)' /\ Cached(c)'
    BY <2>1, <2>2 DEF Whole, Cached, Events, Snapshots
  <2>5. Agrees(c)'
    BY <1>2, <2>1, <2>2, <2>3 DEF Agrees, Events
  <2> QED
    BY <2>4, <2>5
<1>11. ASSUME NEW f \in Files, BeginWrite(c, f)
       PROVE  Whole(c)' /\ Agrees(c)' /\ Cached(c)'
  <2>1. pc[c] \in {"events added", "snapshot added"}
        /\ UNCHANGED <<items, applied, lcv, stored, unwritten>>
    BY <1>11, PlaceNames DEF BeginWrite
  <2> QED
    BY <1>3, <2>1 DEF Active
<1>12. ASSUME EndWrite(c, "events")
       PROVE  Whole(c)' /\ Agrees(c)' /\ Cached(c)'
  <2>1. /\ UNCHANGED <<items, lcv, applied>> /\ pc[c] = "writing events" /\ Active(c)
        /\ stored' = stored \o unwritten[c] /\ unwritten'[c] = <<>>
        /\ pc'[c] = "publishing"
    BY <1>1, <1>12, PlaceNames DEF EndWrite, Active, Goto
  <2>2. Whole(c) /\ Agrees(c) /\ Cached(c)
    BY <2>1, ScopeInvParts
  <2>3. Events(c)' = Events(c) /\ stored' = Events(c) /\ Snapshots(c)' = Snapshots(c)
    BY <2>1, <2>2 DEF Events, Snapshots, Whole
  <2>4. Events(c) \o <<>> = Events(c)
    BY <1>2, StartsProperties
  <2> QED
    BY <2>1, <2>2, <2>3, <2>4 DEF Whole, Agrees, Cached
<1>13. ASSUME EndWrite(c, "snapshots")
       PROVE  Whole(c)' /\ Agrees(c)' /\ Cached(c)'
  <2>1. UNCHANGED <<items, lcv, applied, stored, unwritten>> /\ pc[c] = "writing snapshot"
    BY <1>13, PlaceNames DEF EndWrite
  <2> QED
    BY <1>3, <2>1 DEF Active
<1>14. ASSUME SaveFails(c)
       PROVE  Whole(c)' /\ Agrees(c)' /\ Cached(c)'
  <2>1. UNCHANGED <<items, lcv, applied, stored, unwritten>> /\ Active(c) /\ pc'[c] = "ready"
    BY <1>1, <1>14, PlaceNames DEF SaveFails, Active, Goto
  <2> QED
    BY <1>3, <2>1
<1>15. ~ Leave(c) /\ \A f \in Files : ~ ConstructFails(c, f)
  BY <1>1 DEF Leave, ConstructFails, End, Goto, Active
<1> QED
  BY <1>4, <1>5, <1>6, <1>7, <1>8, <1>9, <1>10, <1>11, <1>12, <1>13, <1>14, <1>15,
     PlaceNames DEF StepOf

-----------------------------------------------------------------------------
(* The theorems *)

LEMMA InitInv == Init => StorageInv
<1> SUFFICES ASSUME Init PROVE StorageInv
  OBVIOUS
<1>1. TypeOK
  BY InitTypes
<1>2. /\ \A c \in Scopes : /\ pc[c] = "idle" /\ applied[c] = <<>> /\ lcv[c] = -1
                           /\ unwritten[c] = <<>> /\ Snapshots(c) = <<>>
      /\ stored = <<>> /\ Len(<<>>) = 0
      /\ disk["events"] = NoFile /\ disk["snapshots"] = NoFile
  BY EmptySeq, PlaceNames DEF Init, Snapshots, Nothing
<1>3. OneScope /\ ScopeInv
  BY <1>2 DEF OneScope, ScopeInv, Active
<1>4. LocalInv
  <2>1. \A c \in Scopes : lcv[c] + 1 = 0 /\ Len(applied[c]) = 0
    BY <1>2
  <2>2. \A c \in Scopes : lcv[c] + 1 <= Len(applied[c])
    BY <2>1
  <2> QED
    BY <1>2, <2>2 DEF LocalInv
<1>5. FileInv
  <2>1. NoFile.history = <<>>
    BY DEF NoFile
  <2>2. Starts(<<>>, <<>>) /\ Numbered(<<>>) /\ Len(<<>>) <= MaxVersion + 1
    BY <1>2, InMemoryStorageAssumption DEF Starts, Numbered
  <2> QED
    BY <1>2, <2>1, <2>2 DEF FileInv
<1> QED
  BY <1>1, <1>3, <1>4, <1>5 DEF StorageInv

LEMMA TornStays == Next => (torn => torn')
  BY DEF Next, Construct, ConstructFails, GetById, ApplyEvent, AddEvents, AddSnapshot,
     MarkChangesAsCommitted, BeginWrite, EndWrite, SaveFails, Leave, Tear

LEMMA StepInv == StorageInv /\ [Next]_vars => StorageInv'
<1> SUFFICES ASSUME StorageInv, [Next]_vars PROVE StorageInv'
  OBVIOUS
<1>1. TypeOK /\ OneScope /\ LocalInv /\ (~ torn => FileInv /\ ScopeInv)
  BY DEF StorageInv
<1>2. CASE Next
  <2>1. PICK c \in Scopes : StepOf(c)
    BY <1>2 DEF Next, StepOf
  <2>2. TypeOK'
    BY <1>1, <1>2, TypeStep
  <2>3. OneScope' /\ LocalInv'
    BY <1>1, <2>1, <2>2, OneScopeStep, LocalStep
  <2>4. ASSUME ~ torn'
        PROVE  FileInv' /\ ScopeInv'
    <3>1. FileInv /\ ScopeInv
      BY <1>1, <1>2, <2>4, TornStays
    <3>2. FileInv'
      BY <1>1, <2>1, <2>4, <3>1, FileStep
    <3>3. ASSUME NEW d \in Scopes, Active(d)'
          PROVE  d = c
      BY <1>1, <2>1, <3>3, OthersFrame, OthersRest DEF Active
    <3>4. ASSUME Active(c)'
          PROVE  Whole(c)' /\ Agrees(c)' /\ Cached(c)'
      BY <1>1, <2>1, <2>2, <2>4, <3>1, <3>4, ScopeStep
    <3>5. ScopeInv'
      BY <3>3, <3>4 DEF ScopeInv, Whole, Agrees, Cached
    <3> QED
      BY <3>2, <3>5
  <2> QED
    BY <2>2, <2>3, <2>4 DEF StorageInv
<1>3. CASE UNCHANGED vars
  <2>1. TypeOK' /\ OneScope' /\ LocalInv'
    BY <1>1, <1>3 DEF vars, TypeOK, OneScope, LocalInv, Active, Snapshots
  <2>2. ~ torn' => FileInv' /\ ScopeInv'
    BY <1>1, <1>3 DEF vars, FileInv, ScopeInv, BeingWritten, Active, Events, Snapshots
  <2> QED
    BY <2>1, <2>2 DEF StorageInv
<1> QED
  BY <1>2, <1>3

THEOREM Inductive == Spec => []StorageInv
<1> QED
  BY InitInv, StepInv, PTL DEF Spec

(* Files, dictionaries and instances keep their shape. *)
THEOREM TypeCorrect == Spec => []TypeOK
<1>1. StorageInv => TypeOK
  BY DEF StorageInv
<1> QED
  BY <1>1, Inductive, PTL

(* The file of events keeps every event that was ever written, once and in *)
(* one history without a gap, until a write of it ends in the middle, and  *)
(* the snapshots never run ahead of it.                                    *)
THEOREM SavesSurviveHolds == Spec => []SavesSurvive
<1>1. StorageInv => SavesSurvive
  <2> SUFFICES ASSUME StorageInv, ~ torn
               PROVE  /\ ~ BeingWritten("events") => disk["events"].history = stored
                      /\ CanReplay(<<>>, stored)
                      /\ IsPrefix(disk["snapshots"].history, stored)
    BY DEF SavesSurvive
  <2>1. TypeOK /\ FileInv
    BY DEF StorageInv
  <2> DEFINE s == disk["snapshots"].history
  <2>2. /\ s \in Seq(Event) /\ Len(s) \in Nat
        /\ stored \in Seq(Event) /\ Len(stored) \in Nat /\ DOMAIN stored = 1 .. Len(stored)
    <3>1. s \in Seq(Event) /\ stored \in Seq(Event)
      BY <2>1, PlaceNames DEF TypeOK, File
    <3> HIDE DEF s
    <3> QED
      BY <3>1, LenProperties
  <2>3. CanReplay(<<>>, stored)
    <3>1. Version(<<>>) = -1
      BY EmptySeq DEF Version
    <3>2. ASSUME NEW i \in 1 .. Len(stored)
          PROVE  stored[i].target = Version(<<>>) + i - 1
      BY <2>1, <2>2, <3>1 DEF FileInv, Numbered
    <3> QED
      BY <2>2, <3>2 DEF CanReplay
  <2>4. IsPrefix(s, stored)
    <3>1. Len(s) <= Len(stored) /\ \A i \in 1 .. Len(s) : s[i] = stored[i]
      BY <2>1 DEF FileInv, Starts
    <3>2. \A i \in 1 .. Len(s) : s[i] \in Event /\ stored[i] \in Event
      BY <2>2, <3>1, ElementOfSeq
    <3> HIDE DEF s
    <3> DEFINE a == SubSeq(s, 1, Len(s))
               b == SubSeq(stored, 1, Len(s))
    <3>3. /\ a \in Seq(Event) /\ Len(a) = Len(s)
          /\ \A i \in 1 .. Len(s) : a[i] = s[i]
      BY <2>2, <3>2, SubSeqProperties
    <3>4. /\ b \in Seq(Event) /\ Len(b) = Len(s)
          /\ \A i \in 1 .. Len(s) : b[i] = stored[i]
      BY <2>2, <3>2, SubSeqProperties
    <3> HIDE DEF a, b
    <3>5. a = b
      BY <3>1, <3>3, <3>4, SeqEqual
    <3> QED
      BY <3>1, <3>5 DEF IsPrefix, a, b
  <2> QED
    BY <2>1, <2>3, <2>4 DEF FileInv
<1> QED
  BY <1>1, Inductive, PTL

(* A load gives every event on disk and those its own scope has failed to  *)
(* write, whatever became of the snapshots.                                *)
THEOREM LoadsGiveAllEventsHolds == Spec => LoadsGiveAllEvents
<1> DEFINE Complete ==
      \A c \in Scopes : GetById(c) /\ ~ torn => applied'[c] = stored \o unwritten[c]
<1>1. StorageInv /\ [Next]_vars => [Complete]_vars
  <2> SUFFICES ASSUME StorageInv, NEW c \in Scopes, GetById(c), ~ torn
               PROVE  applied'[c] = stored \o unwritten[c]
    OBVIOUS
  <2>1. TypeOK /\ ScopeInv
    BY DEF StorageInv
  <2>2. Active(c)
    BY DEF GetById, Active
  <2>3. applied'[c] = Events(c)
    BY <2>1, LoadGivesAll
  <2> QED
    BY <2>1, <2>2, <2>3 DEF ScopeInv
<1> QED
  BY <1>1, Inductive, PTL DEF Spec, LoadsGiveAllEvents
=============================================================================
