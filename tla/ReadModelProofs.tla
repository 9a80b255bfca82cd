-------------------------- MODULE ReadModelProofs --------------------------
(***************************************************************************)
(* What ReadModel says of versions, proved for any number of users, fields *)
(* and values.                                                             *)
(*                                                                         *)
(* As long as no two tasks are between their check and their append at     *)
(* once, what is typed on a page is stored right behind the version that   *)
(* the page has shown or not at all.  A page shows a new version only once *)
(* the subscriber has been given the last event of the command before, so  *)
(* that the commands that are stored publish one after the other, although *)
(* nothing makes them; and once an append has thrown after it had stored,  *)
(* no page shows the newest version any more (RaceFreeInv).  As long as    *)
(* their handlers do not overlap, they find what they look for (ListsInv), *)
(* and the page ends up with the note as the events that were published    *)
(* make it (ShownInv).                                                     *)
(***************************************************************************)
EXTENDS ReadModel, FiniteSetTheorems, FoldLemmas

(* Where a task is that has stored its changes and not ended, and where it *)
(* is once it has made them.                                               *)
Publishing == Handling \cup {"publish"}
Active     == {"commit", "append"} \cup Publishing

(* What the place of a task tells of its locals: it commits what it made   *)
(* of the version on its page, and that is what it publishes.              *)
PlaceOf(u) ==
  /\ pc[u] = "idle" => form[u] = -1
  /\ pc[u] = "form" => form[u] # -1
  /\ pc[u] \in {"idle", "form", "sent"} => loaded[u] = -1 /\ changes[u] = <<>>
  /\ pc[u] \in Active =>
       /\ loaded[u] = form[u] /\ Len(changes[u]) >= 1
       /\ form[u] = -1 => Len(changes[u]) = 1 /\ changes[u][1].sets = Fields
  /\ pc[u] \in {"idle", "form", "sent", "commit", "append"} => published[u] = 0
  /\ pc[u] \in Handling => published[u] >= 1
  /\ form[u] # -1 \/ pc[u] \in Handling \ {"get"} => shown \in Note

PlaceInv == \A u \in Users : PlaceOf(u)

AuthorOf(u) ==
  \A i \in 1 .. Len(changes[u]) :
    changes[u][i].by = u /\ changes[u][i].target = form[u] + i - 1

AuthorInv == \A u \in Users : AuthorOf(u)

(* One user creates the note, and nothing is shown before its first event  *)
(* is handled.                                                             *)
Creating(u) == pc[u] # "idle" /\ form[u] = -1

NotMade(u) ==
  \/ pc[u] \in {"sent", "commit", "append", "get"}
  \/ pc[u] = "publish" /\ published[u] = 0

CreatorInv ==
  /\ \A u, w \in Users : Creating(u) /\ Creating(w) => u = w
  /\ \A u \in Users : Creating(u) /\ NotMade(u) => shown = NoNote
  /\ (\A u \in Users : pc[u] = "idle") => shown = NoNote

ListedInv == listed > 0 => shown \in Note

(* What holds whatever has happened to the stream. *)
BaseInv == TypeOK /\ PlaceInv /\ AuthorInv /\ CreatorInv /\ ListedInv

-----------------------------------------------------------------------------
(* Without a race to the stream *)

(* The events of one user are the changes of that user, stored right       *)
(* behind the version on the page.                                         *)
StoredBehindPage(u) ==
  /\ form[u] + 1 + Len(changes[u]) <= Len(stream)
  /\ \A i \in 1 .. Len(stream) :
       stream[i].by = u <=> form[u] + 2 <= i /\ i <= form[u] + 1 + Len(changes[u])

NothingStored(u) == \A i \in 1 .. Len(stream) : stream[i].by # u

StreamOf(u) ==
  /\ pc[u] \in {"idle", "form", "sent", "commit", "append"} => NothingStored(u)
  /\ pc[u] \in Publishing => StoredBehindPage(u)
  /\ pc[u] = "done" => StoredBehindPage(u) \/ NothingStored(u)

StreamInv == \A u \in Users : StreamOf(u)

ReplayInv == stream \in Seq(Event) /\ \A i \in 1 .. Len(stream) : stream[i].target = i - 2

(* Who has passed the check is alone with the version it has checked.      *)
AppendInv ==
  /\ \A u \in Users : pc[u] = "append" => form[u] = Len(stream) - 1
  /\ \A u, w \in Users : pc[u] = "append" /\ pc[w] = "append" => u = w

(* The subscriber has yet to be given the last version of a task.          *)
Pending(u) ==
  \/ pc[u] \in {"get", "version"}
  \/ pc[u] \in Publishing /\ published[u] < Len(changes[u])

(* A pending task has stored the newest event, and the note that is shown  *)
(* is older.                                                               *)
PendingOf(u) ==
  Pending(u) =>
    /\ unanswered = 0
    /\ form[u] + 1 + Len(changes[u]) = Len(stream)
    /\ shown.version <= form[u] + published[u]
    /\ pc[u] \in {"get", "version"} => shown.version < form[u] + published[u]

(* At most one task is pending; meanwhile no page has the newest version,  *)
(* so that nothing can be stored.  Nor has one, ever, once events have     *)
(* been stored without an answer.                                          *)
VersionInv ==
  /\ shown.version <= Len(stream) - 1 - unanswered
  /\ \A u \in Users : form[u] <= shown.version
  /\ \A u, w \in Users : Pending(u) /\ Pending(w) => u = w
  /\ \A u \in Users : PendingOf(u)

(* What a task publishes is what it has stored.                            *)
ContentOf(u) ==
  pc[u] \in Publishing =>
    \A i \in 1 .. Len(changes[u]) : stream[form[u] + 1 + i] = changes[u][i]

ContentInv == \A u \in Users : ContentOf(u)

RaceFreeInv == StreamInv /\ ReplayInv /\ AppendInv /\ VersionInv /\ ContentInv

ReadModelInv == BaseInv /\ (~ raced => RaceFreeInv)

-----------------------------------------------------------------------------
(* Types *)

LEMMA EventTypes ==
  ASSUME NEW e \in Event
  PROVE  e.by \in Users /\ e.sets \subseteq Fields /\ e.to \in [Fields -> Values]
  BY DEF Event

LEMMA BlankType == Blank \in [Fields -> Values]
  BY ReadModelAssumption DEF Blank

LEMMA StoredType ==
  ASSUME NEW f \in [Fields -> Values], NEW e \in Event
  PROVE  Stored(f, e) \in [Fields -> Values]
  BY DEF Stored, Event

(* SetToSeq lists the elements of a finite set. *)
LEMMA ListOfSet ==
  ASSUME NEW S, IsFiniteSet(S)
  PROVE  /\ Cardinality(S) \in Nat
         /\ \A i \in 1 .. Cardinality(S) : SetToSeq(S)[i] \in S
<1>1. Cardinality(S) \in Nat /\ ExistsBijection(1 .. Cardinality(S), S)
  BY FS_CardinalityType
<1>2. \E f \in [1 .. Cardinality(S) -> S] : IsInjective(f)
  <2>1. PICK f \in [1 .. Cardinality(S) -> S] :
          \A a, b \in 1 .. Cardinality(S) : f[a] = f[b] => a = b
    BY <1>1 DEF ExistsBijection, Bijection, Injection, IsInjective
  <2> QED
    BY <2>1 DEF IsInjective
<1>3. SetToSeq(S) \in [1 .. Cardinality(S) -> S]
  BY <1>2 DEF SetToSeq
<1> QED
  BY <1>1, <1>3

LEMMA ChangesType ==
  ASSUME TypeOK, NEW u \in Users, NEW typed \in [Fields -> Values]
  PROVE  /\ ChangesOf(u, typed) \in Seq(Event)
         /\ \A i \in 1 .. Len(ChangesOf(u, typed)) :
              /\ ChangesOf(u, typed)[i].by = u
              /\ ChangesOf(u, typed)[i].target = Len(stream) + i - 2
<1> DEFINE differing == {f \in Fields : Aggregate[f] # typed[f]}
           n == Cardinality(differing)
           e(i) == [by |-> u, sets |-> {SetToSeq(differing)[i]}, to |-> typed,
                    target |-> Len(stream) + i - 2]
<1>1. IsFiniteSet(differing)
  BY ReadModelAssumption, FS_Subset
<1>2. n \in Nat /\ \A i \in 1 .. n : SetToSeq(differing)[i] \in differing
  BY <1>1, ListOfSet
<1>3. \A i \in 1 .. n : e(i) \in Event
  <2>1. Len(stream) \in Nat
    BY DEF TypeOK
  <2>2. \A i \in 1 .. n : Len(stream) + i - 2 \in Nat \cup {-1}
    BY <1>2, <2>1
  <2> QED
    BY <1>2, <2>2 DEF Event
<1>4. ChangesOf(u, typed) = [i \in 1 .. n |-> e(i)]
  BY DEF ChangesOf
<1>5. \A i \in 1 .. n : e(i).by = u /\ e(i).target = Len(stream) + i - 2
  OBVIOUS
<1> HIDE DEF n, e
<1>6. [i \in 1 .. n |-> e(i)] \in Seq(Event) /\ Len([i \in 1 .. n |-> e(i)]) = n
  BY <1>2, <1>3
<1> QED
  BY <1>4, <1>5, <1>6

(* What two appends at once make of the list is a list. *)
LEMMA AppendedType ==
  ASSUME TypeOK, NEW u \in Users, NEW s \in Appended(u)
  PROVE  s \in Seq(Event \cup {NullEvent})
<1> DEFINE T     == Event \cup {NullEvent}
           first == loaded[u] + 2
           n     == Len(changes[u])
<1>1. /\ stream \in Seq(T) /\ Len(stream) \in Nat
      /\ changes[u] \in Seq(Event) /\ n \in Nat
      /\ loaded[u] \in Nat \cup {-1} /\ first \in Nat
      /\ \A i \in 1 .. Len(stream) : stream[i] \in T
      /\ \A i \in 1 .. n : changes[u][i] \in T
  BY DEF TypeOK
<1>2. CASE s = stream \o changes[u]
  <2>1. changes[u] \in Seq(T)
    BY <1>1
  <2> QED
    BY <1>1, <1>2, <2>1
<1>3. CASE s \in Torn(u)
  <2>1. PICK own \in SUBSET (first .. loaded[u] + 1 + n),
             k \in {Len(stream), loaded[u] + 1 + n, Len(stream) + n} : s = Mixed(u, own, k)
    BY <1>3 DEF Torn
  <2>2. k \in Nat
    BY <1>1
  <2>3. ASSUME NEW i \in 1 .. k PROVE s[i] \in T
    <3>1. CASE i \in own
      <4>1. i - (loaded[u] + 1) \in 1 .. n
        BY <1>1, <3>1
      <4>2. s[i] = changes[u][i - (loaded[u] + 1)]
        BY <2>1, <3>1 DEF Mixed
      <4> QED
        BY <1>1, <4>1, <4>2
    <3>2. CASE i \notin own /\ i <= Len(stream)
      <4>1. s[i] = stream[i] /\ i \in 1 .. Len(stream)
        BY <1>1, <2>1, <2>2, <3>2 DEF Mixed
      <4> QED
        BY <1>1, <4>1
    <3>3. CASE i \notin own /\ ~ (i <= Len(stream))
      BY <2>1, <3>3 DEF Mixed
    <3> QED
      BY <3>1, <3>2, <3>3
  <2>4. s = [i \in 1 .. k |-> s[i]]
    BY <2>1 DEF Mixed
  <2> HIDE DEF T
  <2>5. s \in Seq(T)
    BY <2>2, <2>3, <2>4
  <2> QED
    BY <2>5 DEF T
<1> QED
  BY <1>2, <1>3 DEF Appended

-----------------------------------------------------------------------------
(* Steps *)

Page(u)    == OpenForm(u) \/ SendEdit(u) \/ SendCreate(u)
Prepare(u) ==
  (\E typed \in [Fields -> Values] : NewNote(u, typed) \/ LoadAndChange(u, typed)) \/ LoadFails(u)
Check(u)   == CheckLast(u) \/ CheckFails(u)

Step(u) ==
  Page(u) \/ Prepare(u) \/ Check(u) \/ AppendChanges(u) \/ PublishNext(u) \/ Handle(u)

LEMMA NextIsStep ==
  ASSUME Next
  PROVE  \E u \in Users : Step(u)
  BY DEF Next, Step, Page, Prepare, Check

OthersStay(u) ==
  \A w \in Users \ {u} :
    /\ pc'[w] = pc[w] /\ form'[w] = form[w] /\ loaded'[w] = loaded[w]
    /\ changes'[w] = changes[w] /\ published'[w] = published[w]

LEMMA PageFrame ==
  ASSUME TypeOK, NEW u \in Users, Page(u)
  PROVE  /\ OthersStay(u)
         /\ UNCHANGED <<stream, raced, unanswered, loaded, changes, published>>
         /\ UNCHANGED <<shown, listed, overlapped>>
         /\ \/ /\ pc[u] = "idle" /\ pc'[u] = "form"
               /\ form'[u] = shown.version /\ listed > 0
            \/ pc[u] = "form" /\ pc'[u] = "sent" /\ form'[u] = form[u]
            \/ /\ pc[u] = "idle" /\ pc'[u] = "sent" /\ form'[u] = form[u]
               /\ \A w \in Users : pc[w] = "idle"
<1>1. CASE OpenForm(u)
  BY <1>1 DEF OpenForm, TypeOK, OthersStay, store, readModel
<1>2. CASE SendEdit(u)
  BY <1>2 DEF SendEdit, TypeOK, OthersStay, store, readModel
<1>3. CASE SendCreate(u)
  BY <1>3 DEF SendCreate, TypeOK, OthersStay, store, readModel
<1> QED
  BY <1>1, <1>2, <1>3 DEF Page

LEMMA PrepareFrame ==
  ASSUME TypeOK, PlaceInv, NEW u \in Users, Prepare(u)
  PROVE  /\ OthersStay(u)
         /\ UNCHANGED <<stream, raced, unanswered, form, published>>
         /\ UNCHANGED <<shown, listed, overlapped>>
         /\ pc[u] = "sent" /\ pc'[u] \in {"commit", "done"}
         /\ pc'[u] = "commit" =>
              /\ loaded'[u] = form[u] /\ Len(changes'[u]) >= 1
              /\ form[u] = -1 => Len(changes'[u]) = 1 /\ changes'[u][1].sets = Fields
         /\ changes'[u] \in Seq(Event) /\ loaded'[u] \in Nat \cup {-1}
         /\ AuthorOf(u)'
<1> USE DEF TypeOK
<1>1. ASSUME NEW typed \in [Fields -> Values], NewNote(u, typed)
      PROVE  /\ OthersStay(u) /\ pc[u] = "sent" /\ pc'[u] = "commit"
             /\ UNCHANGED <<stream, raced, unanswered, form, published>>
             /\ UNCHANGED <<shown, listed, overlapped>>
             /\ loaded'[u] = form[u] /\ form[u] = -1
             /\ Len(changes'[u]) = 1 /\ changes'[u][1].sets = Fields
             /\ changes'[u] \in Seq(Event) /\ AuthorOf(u)'
  <2> DEFINE e == [by |-> u, sets |-> Fields, to |-> typed, target |-> -1]
  <2>1. e \in Event /\ e.by = u /\ e.sets = Fields /\ e.target = -1
    BY DEF Event
  <2>2. /\ pc[u] = "sent" /\ pc' = [pc EXCEPT ![u] = "commit"] /\ form[u] = -1
        /\ changes' = [changes EXCEPT ![u] = <<e>>]
        /\ UNCHANGED <<stream, raced, unanswered, form, published, shown, listed, overlapped, loaded>>
    BY <1>1 DEF NewNote, store, readModel
  <2> HIDE DEF e
  <2>3. changes'[u] = <<e>> /\ OthersStay(u) /\ pc'[u] = "commit"
    BY <2>2 DEF OthersStay
  <2>4. <<e>> \in Seq(Event) /\ Len(<<e>>) = 1 /\ <<e>>[1] = e
    BY <2>1
  <2>5. loaded'[u] = form[u]
    BY <2>2 DEF PlaceInv, PlaceOf
  <2>6. AuthorOf(u)'
    BY <2>1, <2>2, <2>3, <2>4 DEF AuthorOf
  <2> QED
    BY <2>1, <2>2, <2>3, <2>4, <2>5, <2>6
<1>2. ASSUME NEW typed \in [Fields -> Values], LoadAndChange(u, typed)
      PROVE  /\ OthersStay(u) /\ pc[u] = "sent" /\ pc'[u] \in {"commit", "done"}
             /\ UNCHANGED <<stream, raced, unanswered, form, published>>
             /\ UNCHANGED <<shown, listed, overlapped>>
             /\ loaded'[u] = form[u] /\ form[u] # -1
             /\ pc'[u] = "commit" => Len(changes'[u]) >= 1
             /\ changes'[u] \in Seq(Event) /\ AuthorOf(u)'
  <2>1. /\ OthersStay(u) /\ pc[u] = "sent" /\ pc'[u] \in {"commit", "done"}
        /\ changes'[u] = ChangesOf(u, typed) /\ loaded'[u] = Len(stream) - 1
        /\ pc'[u] = "commit" => ChangesOf(u, typed) # <<>>
        /\ form[u] # -1 /\ form[u] = Len(stream) - 1
        /\ UNCHANGED <<stream, raced, unanswered, form, published, shown, listed, overlapped>>
    BY <1>2 DEF LoadAndChange, OthersStay, ExpectedIsLoaded, store, readModel
  <2>2. /\ ChangesOf(u, typed) \in Seq(Event)
        /\ \A i \in 1 .. Len(ChangesOf(u, typed)) :
             /\ ChangesOf(u, typed)[i].by = u
             /\ ChangesOf(u, typed)[i].target = Len(stream) + i - 2
    BY ChangesType
  <2>3. ChangesOf(u, typed) # <<>> => Len(ChangesOf(u, typed)) >= 1
    BY <2>2
  <2>4. AuthorOf(u)'
    <3>1. Len(stream) \in Nat /\ form'[u] = Len(stream) - 1
      BY <2>1
    <3>2. \A i \in 1 .. Len(changes'[u]) : Len(stream) + i - 2 = form'[u] + i - 1
      BY <3>1
    <3> QED
      BY <2>1, <2>2, <3>2 DEF AuthorOf
  <2> QED
    BY <2>1, <2>2, <2>3, <2>4
<1>3. ASSUME LoadFails(u)
      PROVE  /\ OthersStay(u) /\ pc[u] = "sent" /\ pc'[u] = "done"
             /\ UNCHANGED <<stream, raced, unanswered, form, loaded, changes, published>>
             /\ UNCHANGED <<shown, listed, overlapped>>
             /\ AuthorOf(u)'
  <2>1. /\ OthersStay(u) /\ pc[u] = "sent" /\ pc'[u] = "done"
        /\ UNCHANGED <<stream, raced, unanswered, form, loaded, changes, published>>
        /\ UNCHANGED <<shown, listed, overlapped>>
    BY <1>3 DEF LoadFails, OthersStay, store, readModel
  <2>2. changes[u] = <<>> /\ Len(<<>>) = 0
    BY <2>1 DEF PlaceInv, PlaceOf
  <2> QED
    BY <2>1, <2>2 DEF AuthorOf
<1>4. form[u] \in Nat \cup {-1} /\ loaded[u] \in Nat \cup {-1} /\ changes[u] \in Seq(Event)
  OBVIOUS
<1> HIDE DEF TypeOK
<1> QED
  BY <1>1, <1>2, <1>3, <1>4 DEF Prepare

LEMMA CheckFrame ==
  ASSUME TypeOK, NEW u \in Users, Check(u)
  PROVE  /\ OthersStay(u)
         /\ UNCHANGED <<stream, unanswered, form, loaded, changes, published>>
         /\ UNCHANGED <<shown, listed, overlapped>>
         /\ pc[u] = "commit"
         /\ \/ pc'[u] = "done" /\ raced' = raced
            \/ /\ pc'[u] = "append" /\ LastIsExpected(u)
               /\ raced' = (raced \/ \E w \in Users : pc[w] = "append")
<1>1. CASE CheckLast(u)
  BY <1>1 DEF CheckLast, TypeOK, OthersStay, readModel
<1>2. CASE CheckFails(u)
  BY <1>2 DEF CheckFails, TypeOK, OthersStay, store, readModel
<1> QED
  BY <1>1, <1>2 DEF Check

LEMMA AppendFrame ==
  ASSUME TypeOK, NEW u \in Users, AppendChanges(u)
  PROVE  /\ OthersStay(u)
         /\ UNCHANGED <<raced, form, loaded, changes, published>>
         /\ UNCHANGED <<shown, listed, overlapped>>
         /\ pc[u] = "append" /\ stream' \in Appended(u)
         /\ \/ pc'[u] = "publish" /\ unanswered' = unanswered
            \/ pc'[u] = "done" /\ unanswered' = unanswered + Len(changes[u])
  BY DEF TypeOK, AppendChanges, OthersStay, readModel

LEMMA PublishFrame ==
  ASSUME TypeOK, NEW u \in Users, PublishNext(u)
  PROVE  /\ OthersStay(u)
         /\ UNCHANGED <<stream, raced, unanswered, form, loaded, changes, shown, listed>>
         /\ overlapped => overlapped'
         /\ pc[u] = "publish"
         /\ \/ /\ pc'[u] = "get" /\ published[u] < Len(changes[u])
               /\ published'[u] = published[u] + 1
               /\ ~ overlapped' => ~ OthersHandle(u)
            \/ /\ pc'[u] = "done" /\ published'[u] = published[u]
               /\ published[u] >= Len(changes[u])
<1>1. published[u] \in Nat /\ Len(changes[u]) \in Nat
  BY DEF TypeOK
<1>2. CASE published[u] < Len(changes[u])
  <2>1. /\ published' = [published EXCEPT ![u] = @ + 1]
        /\ pc[u] = "publish" /\ pc' = [pc EXCEPT ![u] = "get"]
        /\ overlapped' = (overlapped \/ OthersHandle(u))
        /\ UNCHANGED <<stream, raced, unanswered, form, loaded, changes, shown, listed>>
    BY <1>2 DEF PublishNext, store
  <2>2. published'[u] = published[u] + 1
        /\ \A w \in Users \ {u} : published'[w] = published[w]
    BY <2>1 DEF TypeOK
  <2> QED
    BY <1>2, <2>1, <2>2 DEF TypeOK, OthersStay
<1>3. CASE ~ (published[u] < Len(changes[u]))
  BY <1>1, <1>3 DEF PublishNext, OthersStay, TypeOK, store
<1> QED
  BY <1>2, <1>3

(* The handlers: where they lead, and what they do to the note.            *)
LEMMA HandleFrame ==
  ASSUME TypeOK, NEW u \in Users, Handle(u)
  PROVE  /\ OthersStay(u)
         /\ UNCHANGED <<stream, raced, unanswered, form, loaded, changes, published, overlapped>>
         /\ pc[u] \in Handling /\ pc'[u] \in (Handling \ {"get"}) \cup {"publish"}
         /\ \/ /\ shown' = shown
               /\ pc'[u] = "version" => pc[u] = "get"
               /\ pc[u] = "get" => pc'[u] = "publish" \/ (pc'[u] = "version" /\ listed > 0)
            \/ /\ pc[u] = "get" /\ form[u] = -1 /\ pc'[u] = "any"
               /\ shown' = [version |-> 0, fields |-> Current(u).to]
            \/ /\ pc[u] = "version" /\ pc'[u] = "field"
               /\ shown' = [shown EXCEPT !.version = MadeVersion(u)]
            \/ /\ pc[u] = "field" /\ pc'[u] = "any"
               /\ shown' = [shown EXCEPT !.fields = Stored(@, Current(u))]
         /\ listed' > 0 => listed > 0 \/ pc[u] = "add"
         /\ listed' \in Nat
<1> USE DEF TypeOK, Moves, OthersStay, Handling, store
<1>1. CASE MakeNote(u)
  BY <1>1 DEF MakeNote
<1>2. CASE GetNote(u)
  BY <1>2 DEF GetNote
<1>3. CASE SetVersion(u)
  BY <1>3 DEF SetVersion
<1>4. CASE SetField(u)
  BY <1>4 DEF SetField
<1>5. CASE FindAny(u) \/ FindSingle(u) \/ RemoveNote(u) \/ AddNote(u) \/ SaveList(u)
  BY <1>5 DEF FindAny, FindSingle, RemoveNote, AddNote, SaveList
<1>6. CASE HandlerThrows(u)
  BY <1>6 DEF HandlerThrows
<1> QED
  BY <1>1, <1>2, <1>3, <1>4, <1>5, <1>6 DEF Handle


-----------------------------------------------------------------------------
(* The types are kept *)

LEMMA Numbers ==
  ASSUME TypeOK, NEW u \in Users
  PROVE  /\ form[u] \in Int /\ form[u] >= -1
         /\ published[u] \in Nat /\ published[u] <= Len(changes[u])
         /\ Len(changes[u]) \in Nat /\ Len(stream) \in Nat
         /\ shown.version \in Int /\ shown.version >= -1
         /\ shown \in Note => shown.version >= 0
         /\ unanswered \in Nat
<1>1. shown.version \in Nat \cup {-1} /\ (shown \in Note => shown.version \in Nat)
  BY DEF TypeOK, Note, NoNote
<1>2. Len(changes[u]) \in Nat /\ Len(stream) \in Nat
  BY DEF TypeOK
<1> QED
  BY <1>1, <1>2 DEF TypeOK

LEMMA PageKeepsTypes ==
  ASSUME TypeOK, NEW u \in Users, Page(u)
  PROVE  TypeOK'
<1>1. CASE OpenForm(u)
  BY <1>1 DEF OpenForm, TypeOK, Places, Note, NoNote, store, readModel
<1>2. CASE SendEdit(u)
  BY <1>2 DEF SendEdit, TypeOK, Places, store, readModel
<1>3. CASE SendCreate(u)
  BY <1>3 DEF SendCreate, TypeOK, Places, store, readModel
<1> QED
  BY <1>1, <1>2, <1>3 DEF Page

LEMMA PrepareKeepsTypes ==
  ASSUME TypeOK, PlaceInv, NEW u \in Users, Prepare(u)
  PROVE  TypeOK'
<1>1. /\ OthersStay(u)
      /\ UNCHANGED <<stream, raced, unanswered, form, published>>
      /\ UNCHANGED <<shown, listed, overlapped>>
      /\ pc[u] = "sent"
      /\ changes'[u] \in Seq(Event) /\ loaded'[u] \in Nat \cup {-1}
  BY PrepareFrame
<1>2. /\ pc' \in [Users -> Places] /\ DOMAIN changes' = Users /\ DOMAIN loaded' = Users
      /\ changes' = [w \in Users |-> changes'[w]] /\ loaded' = [w \in Users |-> loaded'[w]]
  BY DEF Prepare, NewNote, LoadAndChange, LoadFails, TypeOK, Places
<1>3. changes' \in [Users -> Seq(Event)] /\ loaded' \in [Users -> Nat \cup {-1}]
  <2>1. \A w \in Users : changes'[w] \in Seq(Event) /\ loaded'[w] \in Nat \cup {-1}
    BY <1>1 DEF OthersStay, TypeOK
  <2> QED
    BY <1>2, <2>1
<1>4. \A w \in Users : published'[w] <= Len(changes'[w])
  <2>1. published[u] = 0 /\ Len(changes'[u]) \in Nat
    BY <1>1 DEF PlaceInv, PlaceOf
  <2>2. \A w \in Users \ {u} : published[w] <= Len(changes'[w])
    BY <1>1 DEF OthersStay, TypeOK
  <2>3. \A w \in Users : published'[w] = published[w]
    BY <1>1
  <2> QED
    BY <2>1, <2>2, <2>3
<1> QED
  BY <1>1, <1>2, <1>3, <1>4 DEF TypeOK

LEMMA CheckKeepsTypes ==
  ASSUME TypeOK, NEW u \in Users, Check(u)
  PROVE  TypeOK'
<1>1. CASE CheckLast(u)
  BY <1>1 DEF CheckLast, TypeOK, Places, readModel
<1>2. CASE CheckFails(u)
  BY <1>2 DEF CheckFails, TypeOK, Places, store, readModel
<1> QED
  BY <1>1, <1>2 DEF Check

LEMMA AppendKeepsTypes ==
  ASSUME TypeOK, NEW u \in Users, AppendChanges(u)
  PROVE  TypeOK'
<1>1. stream' \in Seq(Event \cup {NullEvent})
  BY AppendedType, AppendFrame
<1>2. unanswered' \in Nat
  BY AppendFrame, Numbers
<1>3. pc' \in [Users -> Places] /\ UNCHANGED <<raced, form, loaded, changes, published, shown, listed, overlapped>>
  BY DEF AppendChanges, TypeOK, Places, readModel
<1> QED
  BY <1>1, <1>2, <1>3 DEF TypeOK

LEMMA PublishKeepsTypes ==
  ASSUME TypeOK, NEW u \in Users, PublishNext(u)
  PROVE  TypeOK'
<1>1. CASE published[u] < Len(changes[u])
  <2>1. /\ published' = [published EXCEPT ![u] = @ + 1]
        /\ overlapped' \in BOOLEAN
        /\ pc' \in [Users -> Places]
        /\ UNCHANGED <<stream, raced, unanswered, form, loaded, changes, shown, listed>>
    BY <1>1 DEF PublishNext, TypeOK, Places, Handling, store
  <2>2. published[u] + 1 <= Len(changes[u])
    BY <1>1 DEF TypeOK
  <2> QED
    BY <2>1, <2>2 DEF TypeOK
<1>2. CASE ~ (published[u] < Len(changes[u]))
  BY <1>2 DEF PublishNext, TypeOK, Places, store
<1> QED
  BY <1>1, <1>2

(* The event that a handler is called with. *)
LEMMA CurrentType ==
  ASSUME TypeOK, PlaceInv, AuthorInv, NEW u \in Users, pc[u] \in Handling
  PROVE  /\ published[u] \in 1 .. Len(changes[u])
         /\ Current(u) \in Event
         /\ MadeVersion(u) = form[u] + published[u]
         /\ MadeVersion(u) \in Nat
<1>1. published[u] \in 1 .. Len(changes[u])
  BY DEF TypeOK, PlaceInv, PlaceOf
<1>2. form[u] \in Nat \cup {-1} /\ published[u] \in Nat
  BY DEF TypeOK
<1>3. changes[u] \in Seq(Event) /\ changes[u][published[u]] \in Event
  BY <1>1 DEF TypeOK
<1>4. changes[u][published[u]].target = form[u] + published[u] - 1
  BY <1>1 DEF AuthorInv, AuthorOf
<1> QED
  BY <1>1, <1>2, <1>3, <1>4 DEF Current, MadeVersion

(* What a handler makes of the note is a note. *)
LEMMA HandleKeepsNote ==
  ASSUME TypeOK, PlaceInv, AuthorInv, NEW u \in Users, Handle(u)
  PROVE  shown' = shown \/ shown' \in Note
<1>1. pc[u] \in Handling
  BY HandleFrame
<1>2. Current(u) \in Event /\ MadeVersion(u) \in Nat
  BY <1>1, CurrentType
<1>3. Current(u).to \in [Fields -> Values]
  BY <1>2, EventTypes
<1>4. CASE shown' = [version |-> 0, fields |-> Current(u).to]
  BY <1>3, <1>4 DEF Note
<1>5. CASE pc[u] = "version" /\ shown' = [shown EXCEPT !.version = MadeVersion(u)]
  <2>1. shown \in Note
    BY <1>5 DEF PlaceInv, PlaceOf, Handling
  <2> QED
    BY <1>2, <1>5, <2>1 DEF Note
<1>6. CASE pc[u] = "field" /\ shown' = [shown EXCEPT !.fields = Stored(@, Current(u))]
  <2>1. shown \in Note
    BY <1>6 DEF PlaceInv, PlaceOf, Handling
  <2>2. Stored(shown.fields, Current(u)) \in [Fields -> Values]
    BY <1>2, <2>1, StoredType DEF Note
  <2> QED
    BY <1>6, <2>1, <2>2 DEF Note
<1> QED
  BY <1>4, <1>5, <1>6, HandleFrame

LEMMA HandleKeepsTypes ==
  ASSUME TypeOK, PlaceInv, AuthorInv, NEW u \in Users, Handle(u)
  PROVE  TypeOK'
<1>1. shown' \in Note \cup {NoNote}
  BY HandleKeepsNote DEF TypeOK
<1>2. listed' \in Nat
  BY HandleFrame
<1>3. UNCHANGED <<stream, raced, unanswered, form, loaded, changes, published, overlapped>>
  BY HandleFrame
<1>4. pc' \in [Users -> Places]
  BY DEF TypeOK, Handle, MakeNote, GetNote, SetVersion, SetField, FindAny, FindSingle,
         RemoveNote, AddNote, SaveList, HandlerThrows, Moves, Places, Handling
<1> QED
  BY <1>1, <1>2, <1>3, <1>4 DEF TypeOK

LEMMA StepKeepsTypes ==
  ASSUME BaseInv, NEW u \in Users, Step(u)
  PROVE  TypeOK'
BY PageKeepsTypes, PrepareKeepsTypes, CheckKeepsTypes, AppendKeepsTypes, PublishKeepsTypes,
   HandleKeepsTypes DEF BaseInv, Step

-----------------------------------------------------------------------------
(* What holds whatever happens to the stream *)

(* The locals of other tasks do not change, and a note stays a note. *)
LEMMA OthersKeepBase ==
  ASSUME BaseInv, NEW u \in Users, OthersStay(u), shown' = shown \/ shown' \in Note
  PROVE  \A w \in Users \ {u} : PlaceOf(w)' /\ AuthorOf(w)'
<1>1. ASSUME NEW w \in Users \ {u} PROVE PlaceOf(w)'
  BY DEF BaseInv, PlaceInv, PlaceOf, OthersStay
<1>2. ASSUME NEW w \in Users \ {u} PROVE AuthorOf(w)'
  BY DEF BaseInv, AuthorInv, AuthorOf, OthersStay
<1> QED
  BY <1>1, <1>2

(* A step that does not change the note and makes no new creator.          *)
LEMMA CreatorStays ==
  ASSUME BaseInv, NEW u \in Users, OthersStay(u), shown' = shown,
         pc'[u] # "idle", Creating(u)' => Creating(u),
         Creating(u)' /\ NotMade(u)' => NotMade(u)
  PROVE  CreatorInv'
<1>1. \A w \in Users \ {u} : (Creating(w)' <=> Creating(w)) /\ (NotMade(w)' <=> NotMade(w))
  BY DEF Creating, NotMade, OthersStay
<1>2. \A v, w \in Users : Creating(v)' /\ Creating(w)' => v = w
  BY <1>1 DEF BaseInv, CreatorInv
<1>3. \A w \in Users : Creating(w)' /\ NotMade(w)' => shown' = NoNote
  BY <1>1 DEF BaseInv, CreatorInv
<1> QED
  BY <1>2, <1>3 DEF CreatorInv

LEMMA PageKeepsBase ==
  ASSUME BaseInv, NEW u \in Users, Page(u)
  PROVE  BaseInv'
<1> USE DEF BaseInv
<1>1. TypeOK'
  BY StepKeepsTypes DEF Step
<1>2. /\ OthersStay(u)
      /\ UNCHANGED <<stream, raced, unanswered, loaded, changes, published>>
      /\ UNCHANGED <<shown, listed, overlapped>>
      /\ \/ /\ pc[u] = "idle" /\ pc'[u] = "form"
            /\ form'[u] = shown.version /\ listed > 0
         \/ pc[u] = "form" /\ pc'[u] = "sent" /\ form'[u] = form[u]
         \/ /\ pc[u] = "idle" /\ pc'[u] = "sent" /\ form'[u] = form[u]
            /\ \A w \in Users : pc[w] = "idle"
  BY PageFrame
<1>3. changes[u] = <<>> /\ loaded[u] = -1 /\ published[u] = 0
  BY <1>2 DEF PlaceInv, PlaceOf
<1>4. listed > 0 => shown \in Note /\ shown.version # -1
  BY Numbers DEF ListedInv
<1>5. PlaceOf(u)'
  BY <1>2, <1>3, <1>4 DEF PlaceInv, PlaceOf, Active, Publishing, Handling
<1>6. AuthorOf(u)'
  <2>1. Len(changes'[u]) = 0
    BY <1>2, <1>3
  <2> QED
    BY <2>1 DEF AuthorOf
<1>7. CreatorInv'
  <2>1. CASE \A w \in Users : pc[w] = "idle"
    <3>1. \A w \in Users \ {u} : ~ Creating(w)'
      BY <1>2, <2>1 DEF Creating, OthersStay
    <3>2. shown' = NoNote
      BY <1>2, <2>1 DEF CreatorInv
    <3> QED
      BY <3>1, <3>2 DEF CreatorInv
  <2>2. CASE ~ \A w \in Users : pc[w] = "idle"
    <3>1. pc'[u] # "idle" /\ ~ Creating(u)'
      BY <1>2, <1>4, <2>2 DEF Creating, PlaceInv, PlaceOf
    <3> QED
      BY <1>2, <3>1, CreatorStays
  <2> QED
    BY <2>1, <2>2
<1> QED
  BY <1>1, <1>2, <1>5, <1>6, <1>7, OthersKeepBase DEF PlaceInv, AuthorInv, ListedInv

LEMMA PrepareKeepsBase ==
  ASSUME BaseInv, NEW u \in Users, Prepare(u)
  PROVE  BaseInv'
<1> USE DEF BaseInv
<1>1. TypeOK'
  BY StepKeepsTypes DEF Step
<1>2. /\ OthersStay(u)
      /\ UNCHANGED <<stream, raced, unanswered, form, published>>
      /\ UNCHANGED <<shown, listed, overlapped>>
      /\ pc[u] = "sent" /\ pc'[u] \in {"commit", "done"}
      /\ pc'[u] = "commit" =>
           /\ loaded'[u] = form[u] /\ Len(changes'[u]) >= 1
           /\ form[u] = -1 => Len(changes'[u]) = 1 /\ changes'[u][1].sets = Fields
      /\ AuthorOf(u)'
  BY PrepareFrame
<1>3. PlaceOf(u)'
  BY <1>2 DEF PlaceInv, PlaceOf, Active, Publishing, Handling
<1>4. CreatorInv'
  BY <1>2, CreatorStays DEF Creating, NotMade
<1> QED
  BY <1>1, <1>2, <1>3, <1>4, OthersKeepBase DEF PlaceInv, AuthorInv, ListedInv

LEMMA CheckKeepsBase ==
  ASSUME BaseInv, NEW u \in Users, Check(u)
  PROVE  BaseInv'
<1> USE DEF BaseInv
<1>1. TypeOK'
  BY StepKeepsTypes DEF Step
<1>2. /\ OthersStay(u)
      /\ UNCHANGED <<stream, unanswered, form, loaded, changes, published>>
      /\ UNCHANGED <<shown, listed, overlapped>>
      /\ pc[u] = "commit" /\ pc'[u] \in {"append", "done"}
  BY CheckFrame
<1>3. PlaceOf(u)' /\ AuthorOf(u)'
  BY <1>2 DEF PlaceInv, PlaceOf, AuthorInv, AuthorOf, Active, Publishing, Handling
<1>4. CreatorInv'
  BY <1>2, CreatorStays DEF Creating, NotMade
<1> QED
  BY <1>1, <1>2, <1>3, <1>4, OthersKeepBase DEF PlaceInv, AuthorInv, ListedInv

LEMMA AppendKeepsBase ==
  ASSUME BaseInv, NEW u \in Users, AppendChanges(u)
  PROVE  BaseInv'
<1> USE DEF BaseInv
<1>1. TypeOK'
  BY StepKeepsTypes DEF Step
<1>2. /\ OthersStay(u)
      /\ UNCHANGED <<form, loaded, changes, published>>
      /\ UNCHANGED <<shown, listed, overlapped>>
      /\ pc[u] = "append" /\ pc'[u] \in {"publish", "done"}
  BY AppendFrame
<1>3. PlaceOf(u)' /\ AuthorOf(u)'
  BY <1>2 DEF PlaceInv, PlaceOf, AuthorInv, AuthorOf, Active, Publishing, Handling
<1>4. CreatorInv'
  BY <1>2, CreatorStays DEF Creating, NotMade
<1> QED
  BY <1>1, <1>2, <1>3, <1>4, OthersKeepBase DEF PlaceInv, AuthorInv, ListedInv

LEMMA PublishKeepsBase ==
  ASSUME BaseInv, NEW u \in Users, PublishNext(u)
  PROVE  BaseInv'
<1> USE DEF BaseInv
<1>1. TypeOK'
  BY StepKeepsTypes DEF Step
<1>2. /\ OthersStay(u)
      /\ UNCHANGED <<stream, raced, unanswered, form, loaded, changes, shown, listed>>
      /\ pc[u] = "publish"
      /\ \/ /\ pc'[u] = "get" /\ published[u] < Len(changes[u])
            /\ published'[u] = published[u] + 1
         \/ /\ pc'[u] = "done" /\ published'[u] = published[u]
            /\ published[u] >= Len(changes[u])
  BY PublishFrame
<1>3. /\ loaded[u] = form[u] /\ Len(changes[u]) >= 1
      /\ form[u] = -1 => Len(changes[u]) = 1 /\ changes[u][1].sets = Fields
      /\ form[u] # -1 => shown \in Note
  BY <1>2 DEF PlaceInv, PlaceOf, Active, Publishing
<1>4. published'[u] >= 1 \/ pc'[u] = "done"
  BY <1>2, Numbers
<1>5. PlaceOf(u)'
  BY <1>2, <1>3, <1>4 DEF PlaceOf, Active, Publishing, Handling
<1>6. AuthorOf(u)'
  BY <1>2 DEF AuthorInv, AuthorOf
<1>7. CreatorInv'
  <2>1. form[u] = -1 /\ pc'[u] = "get" => published[u] = 0
    <3> SUFFICES ASSUME form[u] = -1, pc'[u] = "get" PROVE published[u] = 0
      OBVIOUS
    <3>1. published[u] \in Nat
      BY Numbers
    <3>2. published[u] < Len(changes[u])
      BY <1>2
    <3>3. Len(changes[u]) = 1
      BY <1>3
    <3> QED
      BY <3>1, <3>2, <3>3
  <2>2. Creating(u)' => Creating(u)
    BY <1>2 DEF Creating
  <2>3. Creating(u)' /\ NotMade(u)' => NotMade(u)
    BY <1>2, <2>1 DEF Creating, NotMade
  <2> QED
    BY <1>2, <2>2, <2>3, CreatorStays
<1> QED
  BY <1>1, <1>2, <1>5, <1>6, <1>7, OthersKeepBase DEF PlaceInv, AuthorInv, ListedInv

LEMMA HandleKeepsBase ==
  ASSUME BaseInv, NEW u \in Users, Handle(u)
  PROVE  BaseInv'
<1> USE DEF BaseInv
<1>1. TypeOK'
  BY StepKeepsTypes DEF Step
<1>2. /\ OthersStay(u)
      /\ UNCHANGED <<stream, form, loaded, changes, published>>
      /\ pc[u] \in Handling /\ pc'[u] \in (Handling \ {"get"}) \cup {"publish"}
      /\ listed' > 0 => listed > 0 \/ pc[u] = "add"
  BY HandleFrame
<1>3. shown' = shown \/ shown' \in Note
  BY HandleKeepsNote
<1>4. /\ pc[u] = "get" => pc'[u] = "publish" \/ shown' \in Note
      /\ shown' # shown => form[u] = -1 \/ shown \in Note
  <2>1. listed > 0 => shown \in Note
    BY DEF ListedInv
  <2>2. \/ /\ shown' = shown
           /\ pc[u] = "get" => pc'[u] = "publish" \/ listed > 0
        \/ pc[u] = "get" /\ form[u] = -1 /\ shown' = [version |-> 0, fields |-> Current(u).to]
        \/ pc[u] \in {"version", "field"}
    BY HandleFrame
  <2>3. [version |-> 0, fields |-> Current(u).to] \in Note
    BY <1>2, CurrentType, EventTypes DEF Note
  <2>4. pc[u] \in {"version", "field"} => shown \in Note
    BY DEF PlaceInv, PlaceOf, Handling
  <2> QED
    BY <2>1, <2>2, <2>3, <2>4
<1>5. /\ loaded[u] = form[u] /\ Len(changes[u]) >= 1
      /\ form[u] = -1 => Len(changes[u]) = 1 /\ changes[u][1].sets = Fields
      /\ published[u] >= 1
      /\ form[u] # -1 \/ pc[u] # "get" => shown \in Note
  BY <1>2 DEF PlaceInv, PlaceOf, Active, Publishing
<1>6. PlaceOf(u)'
  <2>1. form[u] # -1 \/ pc'[u] # "publish" => shown' \in Note
    BY <1>2, <1>3, <1>4, <1>5
  <2> QED
    BY <1>2, <1>5, <2>1 DEF PlaceOf, Active, Publishing, Handling
<1>7. AuthorOf(u)'
  BY <1>2 DEF AuthorInv, AuthorOf
<1>8. ListedInv'
  <2>1. pc[u] = "add" => shown \in Note
    BY <1>5
  <2> QED
    BY <1>2, <1>3, <2>1 DEF ListedInv
<1>9. CreatorInv'
  <2>1. \A w \in Users : Creating(w)' <=> Creating(w)
    BY <1>2 DEF Creating, OthersStay, Handling
  <2>2. ~ NotMade(u)'
    BY <1>2, <1>5 DEF NotMade, Handling
  <2>3. ASSUME NEW w \in Users \ {u}, Creating(w), NotMade(w)' PROVE shown' = NoNote
    <3>1. NotMade(w) /\ shown = NoNote
      BY <1>2, <2>3 DEF NotMade, OthersStay, CreatorInv
    <3>2. form[u] # -1
      BY <1>2, <2>3 DEF CreatorInv, Creating, Handling
    <3>3. NoNote \notin Note
      BY DEF Note, NoNote
    <3> QED
      BY <1>4, <3>1, <3>2, <3>3
  <2>4. pc'[u] # "idle"
    BY <1>2 DEF Handling
  <2> QED
    BY <2>1, <2>2, <2>3, <2>4 DEF CreatorInv
<1> QED
  BY <1>1, <1>3, <1>6, <1>7, <1>8, <1>9, <1>2, OthersKeepBase DEF PlaceInv, AuthorInv

LEMMA StepKeepsBase ==
  ASSUME BaseInv, NEW u \in Users, Step(u)
  PROVE  BaseInv'
BY PageKeepsBase, PrepareKeepsBase, CheckKeepsBase, AppendKeepsBase, PublishKeepsBase,
   HandleKeepsBase DEF Step

LEMMA BaseInit ==
  ASSUME Init PROVE BaseInv
<1>1. TypeOK
  <2>1. \A S : <<>> \in Seq(S) /\ Len(<<>>) = 0
    OBVIOUS
  <2>2. /\ pc \in [Users -> Places]
        /\ form \in [Users -> Nat \cup {-1}] /\ loaded \in [Users -> Nat \cup {-1}]
        /\ changes \in [Users -> Seq(Event)] /\ published \in [Users -> Nat]
    BY <2>1 DEF Init, Places
  <2>3. \A u \in Users : published[u] <= Len(changes[u])
    BY <2>1 DEF Init
  <2> QED
    BY <2>1, <2>2, <2>3 DEF Init, TypeOK
<1>2. PlaceInv /\ AuthorInv
  BY DEF Init, PlaceInv, PlaceOf, AuthorInv, AuthorOf, Active, Publishing, Handling
<1>3. CreatorInv /\ ListedInv
  BY DEF Init, CreatorInv, Creating, ListedInv
<1> QED
  BY <1>1, <1>2, <1>3 DEF BaseInv

-----------------------------------------------------------------------------
(* What holds without a race to the stream *)

(* Steps that leave the stream and the note alone do not touch what holds  *)
(* of the other tasks.                                                     *)
LEMMA OthersKeepStream ==
  ASSUME RaceFreeInv, NEW u \in Users, OthersStay(u), stream' = stream
  PROVE  \A w \in Users \ {u} : StreamOf(w)' /\ ContentOf(w)'
<1>1. ASSUME NEW w \in Users \ {u} PROVE StreamOf(w)'
  BY DEF RaceFreeInv, StreamInv, StreamOf, StoredBehindPage, NothingStored, OthersStay
<1>2. ASSUME NEW w \in Users \ {u} PROVE ContentOf(w)'
  BY DEF RaceFreeInv, ContentInv, ContentOf, OthersStay
<1> QED
  BY <1>1, <1>2

LEMMA OthersKeepAppend ==
  ASSUME RaceFreeInv, NEW u \in Users, OthersStay(u), stream' = stream, pc'[u] # "append"
  PROVE  AppendInv'
<1>1. \A w \in Users : pc'[w] = "append" => pc[w] = "append" /\ form'[w] = form[w]
  BY DEF OthersStay
<1> QED
  BY <1>1 DEF RaceFreeInv, AppendInv

LEMMA OthersKeepVersion ==
  ASSUME RaceFreeInv, NEW u \in Users, OthersStay(u),
         UNCHANGED <<stream, unanswered, shown>>
  PROVE  \A w \in Users \ {u} : (Pending(w)' <=> Pending(w)) /\ PendingOf(w)'
BY DEF RaceFreeInv, VersionInv, Pending, PendingOf, OthersStay

(* Nothing is stored, prepared or shown by a step on a page. *)
LEMMA PageKeeps ==
  ASSUME BaseInv, RaceFreeInv, NEW u \in Users, Page(u)
  PROVE  RaceFreeInv'
<1>0. TypeOK
  BY DEF BaseInv
<1>1. /\ OthersStay(u)
      /\ UNCHANGED <<stream, unanswered, loaded, changes, published, shown>>
      /\ pc[u] \in {"idle", "form"} /\ pc'[u] \in {"form", "sent"}
      /\ form'[u] = form[u] \/ form'[u] = shown.version
  BY <1>0, PageFrame
<1>2. StreamOf(u)' /\ ContentOf(u)' /\ ~ Pending(u)'
  BY <1>1 DEF RaceFreeInv, StreamInv, StreamOf, NothingStored, ContentOf, Pending,
              Publishing, Handling
<1>3. VersionInv'
  <2>1. \A w \in Users : form'[w] <= shown'.version
    BY <1>0, <1>1, Numbers DEF RaceFreeInv, VersionInv, OthersStay
  <2> QED
    BY <1>1, <1>2, <2>1, OthersKeepVersion DEF RaceFreeInv, VersionInv, PendingOf
<1>4. AppendInv' /\ ReplayInv'
  BY <1>1, OthersKeepAppend DEF RaceFreeInv, ReplayInv
<1> QED
  BY <1>1, <1>2, <1>3, <1>4, OthersKeepStream DEF RaceFreeInv, StreamInv, ContentInv

LEMMA PrepareKeeps ==
  ASSUME BaseInv, RaceFreeInv, NEW u \in Users, Prepare(u)
  PROVE  RaceFreeInv'
<1>0. TypeOK /\ PlaceInv
  BY DEF BaseInv
<1>1. /\ OthersStay(u)
      /\ UNCHANGED <<stream, unanswered, form, published, shown>>
      /\ pc[u] = "sent" /\ pc'[u] \in {"commit", "done"}
  BY <1>0, PrepareFrame
<1>2. StreamOf(u)' /\ ContentOf(u)' /\ ~ Pending(u)'
  BY <1>1 DEF RaceFreeInv, StreamInv, StreamOf, NothingStored, ContentOf, Pending,
              Publishing, Handling
<1>3. VersionInv'
  BY <1>1, <1>2, OthersKeepVersion DEF RaceFreeInv, VersionInv, PendingOf
<1>4. AppendInv' /\ ReplayInv'
  BY <1>1, OthersKeepAppend DEF RaceFreeInv, ReplayInv
<1> QED
  BY <1>1, <1>2, <1>3, <1>4, OthersKeepStream DEF RaceFreeInv, StreamInv, ContentInv

(* The check lets only those pass whose page shows the newest version.     *)
LEMMA CheckedVersion ==
  ASSUME BaseInv, RaceFreeInv, NEW u \in Users, pc[u] = "commit", LastIsExpected(u)
  PROVE  form[u] = Len(stream) - 1
<1>1. loaded[u] = form[u] /\ TypeOK
  BY DEF BaseInv, PlaceInv, PlaceOf, Active
<1>2. stream \in Seq(Event) /\ Len(stream) \in Nat
  BY DEF RaceFreeInv, ReplayInv
<1>3. CASE stream = <<>>
  <2>1. Len(stream) = 0
    BY <1>3
  <2>2. form[u] <= shown.version /\ shown.version <= Len(stream) - 1 - unanswered
    BY DEF RaceFreeInv, VersionInv
  <2> QED
    BY <1>1, <2>1, <2>2, Numbers
<1>4. CASE stream # <<>>
  <2>1. Len(stream) \in 1 .. Len(stream) /\ Last(stream) = stream[Len(stream)]
    BY <1>2, <1>4 DEF Last
  <2>2. Last(stream).target = Len(stream) - 2
    BY <2>1 DEF RaceFreeInv, ReplayInv
  <2>3. Last(stream) # NullEvent
    <3>1. NullEvent.target = -2
      BY DEF NullEvent
    <3>2. Len(stream) - 2 # -2
      BY <1>2, <2>1
    <3> QED
      BY <2>2, <3>1, <3>2
  <2>4. Last(stream).target + 1 = loaded[u]
    BY <1>4, <2>3 DEF LastIsExpected
  <2> QED
    BY <1>1, <1>2, <2>2, <2>4
<1> QED
  BY <1>3, <1>4

LEMMA CheckKeeps ==
  ASSUME BaseInv, RaceFreeInv, NEW u \in Users, Check(u), ~ raced'
  PROVE  RaceFreeInv'
<1>0. TypeOK
  BY DEF BaseInv
<1>1. /\ OthersStay(u)
      /\ UNCHANGED <<stream, unanswered, form, loaded, changes, published, shown>>
      /\ pc[u] = "commit"
      /\ \/ pc'[u] = "done"
         \/ /\ pc'[u] = "append" /\ LastIsExpected(u)
            /\ raced' = (raced \/ \E w \in Users : pc[w] = "append")
  BY <1>0, CheckFrame
<1>2. StreamOf(u)' /\ ContentOf(u)' /\ ~ Pending(u)'
  BY <1>1 DEF RaceFreeInv, StreamInv, StreamOf, NothingStored, ContentOf, Pending,
              Publishing, Handling
<1>3. VersionInv'
  BY <1>1, <1>2, OthersKeepVersion DEF RaceFreeInv, VersionInv, PendingOf
<1>4. AppendInv'
  <2>1. CASE pc'[u] = "done"
    BY <1>1, <2>1, OthersKeepAppend
  <2>2. CASE pc'[u] = "append" /\ LastIsExpected(u)
             /\ raced' = (raced \/ \E w \in Users : pc[w] = "append")
    <3>1. form'[u] = Len(stream') - 1
      BY <1>1, <2>2, CheckedVersion
    <3>2. \A w \in Users \ {u} : pc'[w] # "append"
      BY <1>1, <2>2 DEF OthersStay
    <3> QED
      BY <3>1, <3>2 DEF AppendInv
  <2> QED
    BY <1>1, <2>1, <2>2
<1>5. ReplayInv'
  BY <1>1 DEF RaceFreeInv, ReplayInv
<1> QED
  BY <1>1, <1>2, <1>3, <1>4, <1>5, OthersKeepStream DEF RaceFreeInv, StreamInv, ContentInv

(* While a task is pending, or events are unanswered, no page has the      *)
(* newest version.                                                         *)
LEMMA NothingPending ==
  ASSUME BaseInv, RaceFreeInv, NEW u \in Users, form[u] = Len(stream) - 1
  PROVE  unanswered = 0 /\ \A w \in Users : ~ Pending(w)
<1>0. TypeOK
  BY DEF BaseInv
<1>1. form[u] <= shown.version /\ shown.version <= Len(stream) - 1 - unanswered
  BY DEF RaceFreeInv, VersionInv
<1>2. ASSUME NEW w \in Users, Pending(w) PROVE FALSE
  <2>1. /\ form[w] + 1 + Len(changes[w]) = Len(stream)
        /\ shown.version <= form[w] + published[w]
        /\ pc[w] \in {"get", "version"} => shown.version < form[w] + published[w]
    BY <1>2 DEF RaceFreeInv, VersionInv, PendingOf
  <2>2. pc[w] \in {"get", "version"} \/ published[w] < Len(changes[w])
    BY <1>2 DEF Pending
  <2> QED
    BY <1>0, <1>1, <2>1, <2>2, Numbers
<1> QED
  BY <1>0, <1>1, <1>2, Numbers

(* What the stream becomes: nobody has been at it since the check. *)
LEMMA AppendedBehindPage ==
  ASSUME BaseInv, RaceFreeInv, NEW u \in Users, AppendChanges(u)
  PROVE  /\ form[u] = Len(stream) - 1 /\ loaded[u] = form[u] /\ Len(changes[u]) >= 1
         /\ stream \in Seq(Event) /\ changes[u] \in Seq(Event)
         /\ stream' = stream \o changes[u]
         /\ stream' \in Seq(Event)
         /\ Len(stream') = Len(stream) + Len(changes[u])
         /\ \A i \in 1 .. Len(stream) : stream'[i] = stream[i]
         /\ \A i \in 1 .. Len(changes[u]) : stream'[Len(stream) + i] = changes[u][i]
         /\ \A i \in 1 .. Len(stream') :
              i > Len(stream) => /\ stream'[i].by = u
                                 /\ stream'[i].target = i - 2
<1>0. TypeOK
  BY DEF BaseInv
<1>1. pc[u] = "append" /\ stream' \in Appended(u)
  BY <1>0, AppendFrame
<1>2. form[u] = Len(stream) - 1 /\ loaded[u] = form[u] /\ Len(changes[u]) >= 1
  BY <1>1 DEF BaseInv, PlaceInv, PlaceOf, Active, RaceFreeInv, AppendInv
<1>3. /\ stream \in Seq(Event) /\ changes[u] \in Seq(Event)
      /\ Len(stream) \in Nat /\ Len(changes[u]) \in Nat
  BY <1>0 DEF RaceFreeInv, ReplayInv, TypeOK
<1>4. stream' = stream \o changes[u]
  <2>1. Len(stream) = loaded[u] + 1
    BY <1>2, <1>3
  <2> QED
    BY <1>1, <2>1 DEF Appended
<1>5. /\ stream' \in Seq(Event)
      /\ Len(stream') = Len(stream) + Len(changes[u])
      /\ \A i \in 1 .. Len(stream) : stream'[i] = stream[i]
      /\ \A i \in 1 .. Len(changes[u]) : stream'[Len(stream) + i] = changes[u][i]
  BY <1>3, <1>4
<1>6. ASSUME NEW i \in 1 .. Len(stream'), i > Len(stream)
      PROVE  stream'[i].by = u /\ stream'[i].target = i - 2
  <2>1. i - Len(stream) \in 1 .. Len(changes[u]) /\ Len(stream) + (i - Len(stream)) = i
    BY <1>3, <1>5, <1>6
  <2>2. stream'[i] = changes[u][i - Len(stream)]
    BY <1>5, <2>1
  <2>3. /\ changes[u][i - Len(stream)].by = u
        /\ changes[u][i - Len(stream)].target = form[u] + (i - Len(stream)) - 1
    BY <2>1 DEF BaseInv, AuthorInv, AuthorOf
  <2>4. form[u] + (i - Len(stream)) - 1 = i - 2
    BY <1>2, <1>3
  <2> QED
    BY <2>2, <2>3, <2>4
<1> QED
  BY <1>2, <1>3, <1>4, <1>5, <1>6

(* What is stored goes right behind the version on the page. *)
LEMMA AppendKeeps ==
  ASSUME BaseInv, RaceFreeInv, NEW u \in Users, AppendChanges(u)
  PROVE  RaceFreeInv'
<1>0. TypeOK /\ Len(stream) \in Nat /\ Len(changes[u]) \in Nat
  BY DEF BaseInv, TypeOK
<1>1. /\ OthersStay(u)
      /\ UNCHANGED <<form, loaded, changes, published, shown>>
      /\ pc[u] = "append"
      /\ \/ pc'[u] = "publish" /\ unanswered' = unanswered
         \/ pc'[u] = "done" /\ unanswered' = unanswered + Len(changes[u])
  BY <1>0, AppendFrame
<1>2. /\ form[u] = Len(stream) - 1 /\ loaded[u] = form[u] /\ Len(changes[u]) >= 1
      /\ stream' \in Seq(Event)
      /\ Len(stream') = Len(stream) + Len(changes[u])
      /\ \A i \in 1 .. Len(stream) : stream'[i] = stream[i]
      /\ \A i \in 1 .. Len(changes[u]) : stream'[Len(stream) + i] = changes[u][i]
      /\ \A i \in 1 .. Len(stream') :
           i > Len(stream) => stream'[i].by = u /\ stream'[i].target = i - 2
  BY AppendedBehindPage
<1>3. StoredBehindPage(u)'
  <2>1. \A i \in 1 .. Len(stream) : stream[i].by # u
    BY <1>1 DEF RaceFreeInv, StreamInv, StreamOf, NothingStored
  <2>2. form[u] + 2 = Len(stream) + 1 /\ form[u] + 1 + Len(changes[u]) = Len(stream')
    BY <1>0, <1>2
  <2>3. \A i \in 1 .. Len(stream') : stream'[i].by = u <=> i > Len(stream)
    BY <1>0, <1>2, <2>1
  <2>4. \A i \in 1 .. Len(stream') :
          stream'[i].by = u <=> form[u] + 2 <= i /\ i <= form[u] + 1 + Len(changes[u])
    BY <1>0, <1>2, <2>2, <2>3
  <2>5. form[u] + 1 + Len(changes[u]) <= Len(stream')
    BY <1>0, <1>2, <2>2
  <2> QED
    BY <1>1, <2>4, <2>5 DEF StoredBehindPage
<1>4. ASSUME NEW w \in Users \ {u} PROVE StreamOf(w)' /\ ContentOf(w)'
  <2>1. /\ pc'[w] = pc[w] /\ form'[w] = form[w] /\ changes'[w] = changes[w]
        /\ form[w] \in Int /\ form[w] >= -1 /\ Len(changes[w]) \in Nat
    BY <1>0, <1>1, Numbers DEF OthersStay
  <2>2. \A i \in 1 .. Len(stream') : i > Len(stream) => stream'[i].by # w
    BY <1>2
  <2>3. ASSUME NothingStored(w) PROVE NothingStored(w)'
    <3>1. ASSUME NEW i \in 1 .. Len(stream') PROVE stream'[i].by # w
      <4>1. i > Len(stream) \/ i \in 1 .. Len(stream)
        BY <1>0, <1>2
      <4> QED
        BY <1>2, <2>2, <2>3, <4>1 DEF NothingStored
    <3> QED
      BY <3>1 DEF NothingStored
  <2>4. ASSUME StoredBehindPage(w) PROVE StoredBehindPage(w)'
    <3>1. /\ form[w] + 1 + Len(changes[w]) <= Len(stream)
          /\ \A i \in 1 .. Len(stream) :
               stream[i].by = w <=> form[w] + 2 <= i /\ i <= form[w] + 1 + Len(changes[w])
      BY <2>4 DEF StoredBehindPage
    <3>2. ASSUME NEW i \in 1 .. Len(stream')
          PROVE  stream'[i].by = w <=> form[w] + 2 <= i /\ i <= form[w] + 1 + Len(changes[w])
      <4>1. CASE i > Len(stream)
        <5>1. stream'[i].by # w
          BY <2>2, <4>1
        <5>2. i > form[w] + 1 + Len(changes[w])
          BY <1>0, <1>2, <2>1, <3>1, <4>1
        <5> QED
          BY <2>1, <5>1, <5>2
      <4>2. CASE ~ (i > Len(stream))
        <5>1. i \in 1 .. Len(stream)
          BY <1>0, <1>2, <4>2
        <5> QED
          BY <1>2, <3>1, <5>1
      <4> QED
        BY <4>1, <4>2
    <3>3. form[w] + 1 + Len(changes[w]) <= Len(stream')
      BY <1>0, <1>2, <2>1, <3>1
    <3> QED
      BY <2>1, <3>2, <3>3 DEF StoredBehindPage
  <2>5. ContentOf(w)'
    <3>1. ASSUME pc[w] \in Publishing, NEW i \in 1 .. Len(changes[w])
          PROVE  stream'[form[w] + 1 + i] = changes[w][i]
      <4>1. form[w] + 1 + Len(changes[w]) <= Len(stream)
        BY <3>1 DEF RaceFreeInv, StreamInv, StreamOf, StoredBehindPage
      <4>2. form[w] + 1 + i \in 1 .. Len(stream)
        BY <1>0, <2>1, <4>1
      <4>3. stream[form[w] + 1 + i] = changes[w][i]
        BY <3>1 DEF RaceFreeInv, ContentInv, ContentOf
      <4> QED
        BY <1>2, <4>2, <4>3
    <3> QED
      BY <2>1, <3>1 DEF ContentOf
  <2> QED
    BY <2>1, <2>3, <2>4, <2>5 DEF RaceFreeInv, StreamInv, StreamOf
<1>5. StreamOf(u)' /\ ContentOf(u)'
  <2>1. form[u] + 1 = Len(stream)
    BY <1>0, <1>2
  <2>2. StreamOf(u)'
    BY <1>1, <1>3 DEF StreamOf, Publishing, Handling
  <2> QED
    BY <1>1, <1>2, <2>1, <2>2 DEF ContentOf
<1>6. ReplayInv'
  BY <1>0, <1>2 DEF RaceFreeInv, ReplayInv
<1>7. AppendInv'
  <2>1. \A w \in Users : pc'[w] # "append"
    BY <1>1 DEF RaceFreeInv, AppendInv, OthersStay
  <2> QED
    BY <2>1 DEF AppendInv
<1>8. VersionInv'
  <2>1. unanswered = 0 /\ \A w \in Users : ~ Pending(w)
    BY <1>2, NothingPending
  <2>2. \A w \in Users \ {u} : ~ Pending(w)'
    BY <1>1, <2>1 DEF Pending, OthersStay
  <2>3. shown.version <= Len(stream) - 1
    BY <1>0, <2>1 DEF RaceFreeInv, VersionInv
  <2>4. published[u] = 0 /\ shown.version \in Int
    BY <1>0, <1>1, Numbers DEF BaseInv, PlaceInv, PlaceOf
  <2>5. PendingOf(u)'
    <3> SUFFICES ASSUME Pending(u)' PROVE PendingOf(u)'
      BY DEF PendingOf
    <3>1. pc'[u] = "publish" /\ unanswered' = 0
      BY <1>1, <2>1 DEF Pending, Publishing, Handling
    <3>2. form[u] + 1 + Len(changes[u]) = Len(stream') /\ shown.version <= form[u] + published[u]
      BY <1>0, <1>2, <2>3, <2>4
    <3> QED
      BY <1>1, <3>1, <3>2 DEF PendingOf
  <2>6. shown'.version <= Len(stream') - 1 - unanswered'
    BY <1>0, <1>1, <1>2, <2>1, <2>3, <2>4
  <2> QED
    BY <1>1, <2>2, <2>5, <2>6 DEF RaceFreeInv, VersionInv, PendingOf
<1> QED
  BY <1>4, <1>5, <1>6, <1>7, <1>8 DEF RaceFreeInv, StreamInv, ContentInv

LEMMA PublishKeeps ==
  ASSUME BaseInv, RaceFreeInv, NEW u \in Users, PublishNext(u)
  PROVE  RaceFreeInv'
<1>0. TypeOK
  BY DEF BaseInv
<1>1. /\ OthersStay(u)
      /\ UNCHANGED <<stream, unanswered, form, loaded, changes, shown>>
      /\ pc[u] = "publish"
      /\ \/ /\ pc'[u] = "get" /\ published[u] < Len(changes[u])
            /\ published'[u] = published[u] + 1
         \/ /\ pc'[u] = "done" /\ published'[u] = published[u]
            /\ published[u] >= Len(changes[u])
  BY <1>0, PublishFrame
<1>2. StreamOf(u)' /\ ContentOf(u)'
  <2>1. StoredBehindPage(u) /\ ContentOf(u)
    BY <1>1 DEF RaceFreeInv, StreamInv, StreamOf, ContentInv, Publishing
  <2>2. StoredBehindPage(u)' /\ ContentOf(u)'
    BY <1>1, <2>1 DEF StoredBehindPage, ContentOf, Publishing, Handling
  <2> QED
    BY <1>1, <2>2 DEF StreamOf, Publishing, Handling
<1>3. VersionInv'
  <2>1. Pending(u)' => Pending(u)
    BY <1>1 DEF Pending, Publishing, Handling
  <2>2. \A w \in Users \ {u} : (Pending(w)' <=> Pending(w)) /\ PendingOf(w)'
    BY <1>1, OthersKeepVersion
  <2>3. PendingOf(u)'
    <3> SUFFICES ASSUME Pending(u)' PROVE PendingOf(u)'
      BY DEF PendingOf
    <3>1. /\ form[u] + 1 + Len(changes[u]) = Len(stream)
          /\ shown.version <= form[u] + published[u]
          /\ unanswered = 0
      BY <2>1 DEF RaceFreeInv, VersionInv, PendingOf
    <3>2. pc'[u] = "get" /\ published'[u] = published[u] + 1
      BY <1>1 DEF Pending, Publishing, Handling
    <3>3. shown.version < form[u] + published'[u] /\ shown.version <= form[u] + published'[u]
      BY <1>0, <3>1, <3>2, Numbers
    <3> QED
      BY <1>1, <3>1, <3>3 DEF PendingOf
  <2> QED
    BY <1>1, <2>1, <2>2, <2>3 DEF RaceFreeInv, VersionInv
<1>4. AppendInv' /\ ReplayInv'
  BY <1>1, OthersKeepAppend DEF RaceFreeInv, ReplayInv
<1> QED
  BY <1>1, <1>2, <1>3, <1>4, OthersKeepStream DEF RaceFreeInv, StreamInv, ContentInv

(* A handler shows its own version or none; it is a newer one.             *)
LEMMA HandleShows ==
  ASSUME BaseInv, RaceFreeInv, NEW u \in Users, Handle(u)
  PROVE  \/ shown'.version = shown.version
         \/ /\ pc[u] \in {"get", "version"} /\ pc'[u] \in {"any", "field"}
            /\ shown'.version = form[u] + published[u]
            /\ shown'.version > shown.version
<1> USE DEF BaseInv
<1>1. pc[u] \in Handling
  BY HandleFrame
<1>2. pc[u] \in {"get", "version"} => shown.version < form[u] + published[u]
  BY DEF RaceFreeInv, VersionInv, PendingOf, Pending
<1>3. MadeVersion(u) = form[u] + published[u]
  BY <1>1, CurrentType
<1>4. CASE pc[u] = "get" /\ form[u] = -1 /\ pc'[u] = "any"
           /\ shown' = [version |-> 0, fields |-> Current(u).to]
  <2>1. published[u] = 1
    <3>1. published[u] >= 1 /\ Len(changes[u]) = 1
      BY <1>1, <1>4 DEF PlaceInv, PlaceOf, Active, Publishing
    <3>2. published[u] \in Nat /\ published[u] <= Len(changes[u])
      BY Numbers
    <3> QED
      BY <3>1, <3>2
  <2>2. shown'.version = 0
    BY <1>4
  <2> QED
    BY <1>2, <1>4, <2>1, <2>2, Numbers
<1>5. CASE pc[u] = "version" /\ pc'[u] = "field"
           /\ shown' = [shown EXCEPT !.version = MadeVersion(u)]
  <2>1. shown \in Note
    BY <1>5 DEF PlaceInv, PlaceOf, Handling
  <2>2. shown'.version = MadeVersion(u)
    BY <1>5, <2>1 DEF Note
  <2> QED
    BY <1>2, <1>3, <1>5, <2>2, Numbers
<1>6. CASE pc[u] = "field" /\ shown' = [shown EXCEPT !.fields = Stored(@, Current(u))]
  <2>1. shown \in Note
    BY <1>6 DEF PlaceInv, PlaceOf, Handling
  <2> QED
    BY <1>6, <2>1 DEF Note
<1> QED
  BY <1>4, <1>5, <1>6, HandleFrame

LEMMA HandleKeeps ==
  ASSUME BaseInv, RaceFreeInv, NEW u \in Users, Handle(u)
  PROVE  RaceFreeInv'
<1>0. TypeOK
  BY DEF BaseInv
<1>1. /\ OthersStay(u)
      /\ UNCHANGED <<stream, unanswered, form, loaded, changes, published>>
      /\ pc[u] \in Handling /\ pc'[u] \in (Handling \ {"get"}) \cup {"publish"}
      /\ pc'[u] = "version" => pc[u] = "get" /\ shown' = shown
  <2>1. \/ shown' = shown /\ (pc'[u] = "version" => pc[u] = "get")
        \/ pc'[u] # "version"
    BY <1>0, HandleFrame
  <2> QED
    BY <1>0, <2>1, HandleFrame
<1>2. StreamOf(u)' /\ ContentOf(u)'
  <2>1. StoredBehindPage(u) /\ ContentOf(u)
    BY <1>1 DEF RaceFreeInv, StreamInv, StreamOf, ContentInv, Publishing
  <2>2. StoredBehindPage(u)' /\ ContentOf(u)'
    BY <1>1, <2>1 DEF StoredBehindPage, ContentOf, Publishing, Handling
  <2> QED
    BY <1>1, <2>2 DEF StreamOf, Publishing, Handling
<1>3. VersionInv'
  <2>1. Pending(u)' => Pending(u)
    BY <1>1 DEF Pending, Publishing, Handling
  <2>2. \A w \in Users \ {u} : Pending(w)' <=> Pending(w)
    BY <1>1 DEF Pending, OthersStay
  <2>3. CASE shown'.version = shown.version
    <3>1. PendingOf(u)'
      BY <1>1, <2>1, <2>3 DEF RaceFreeInv, VersionInv, PendingOf, Pending
    <3>2. \A w \in Users \ {u} : PendingOf(w)'
      BY <1>1, <2>2, <2>3 DEF RaceFreeInv, VersionInv, PendingOf, OthersStay
    <3> QED
      BY <1>1, <2>1, <2>2, <2>3, <3>1, <3>2 DEF RaceFreeInv, VersionInv
  <2>4. CASE /\ pc[u] \in {"get", "version"} /\ pc'[u] \in {"any", "field"}
             /\ shown'.version = form[u] + published[u]
             /\ shown'.version > shown.version
    <3>1. Pending(u) /\ form[u] + 1 + Len(changes[u]) = Len(stream) /\ unanswered = 0
      BY <2>4 DEF RaceFreeInv, VersionInv, PendingOf, Pending
    <3>2. shown'.version <= Len(stream') - 1 - unanswered'
      BY <1>0, <1>1, <2>4, <3>1, Numbers
    <3>3. \A w \in Users : form'[w] <= shown'.version
      <4> SUFFICES ASSUME NEW w \in Users PROVE form[w] <= shown'.version
        BY <1>1
      <4>1. form[w] <= shown.version /\ form[w] \in Int /\ shown.version \in Int
        BY <1>0, Numbers DEF RaceFreeInv, VersionInv
      <4>2. shown'.version \in Int
        BY <1>0, <2>4, Numbers
      <4> QED
        BY <2>4, <4>1, <4>2
    <3>4. PendingOf(u)'
      <4>1. form[u] + published[u] <= form[u] + published[u]
        BY <1>0, Numbers
      <4> QED
        BY <1>1, <2>4, <3>1, <4>1 DEF PendingOf
    <3>5. \A w \in Users \ {u} : ~ Pending(w)'
      BY <2>2, <3>1 DEF RaceFreeInv, VersionInv
    <3> QED
      BY <3>2, <3>3, <3>4, <3>5 DEF VersionInv, PendingOf
  <2> QED
    BY <2>3, <2>4, HandleShows
<1>4. AppendInv' /\ ReplayInv'
  <2>1. pc'[u] # "append"
    BY <1>1 DEF Handling
  <2> QED
    BY <1>1, <2>1, OthersKeepAppend DEF RaceFreeInv, ReplayInv
<1> QED
  BY <1>1, <1>2, <1>3, <1>4, OthersKeepStream DEF RaceFreeInv, StreamInv, ContentInv

LEMMA StepKeepsRaceFree ==
  ASSUME BaseInv, RaceFreeInv, NEW u \in Users, Step(u), ~ raced'
  PROVE  RaceFreeInv'
BY PageKeeps, PrepareKeeps, CheckKeeps, AppendKeeps, PublishKeeps, HandleKeeps DEF Step

(* Tasks that have raced cannot undo it, and handlers that have overlapped *)
(* neither.                                                                *)
LEMMA GhostsStay ==
  ASSUME BaseInv, NEW u \in Users, Step(u)
  PROVE  (raced => raced') /\ (overlapped => overlapped')
<1> USE DEF BaseInv
<1>1. CASE Page(u) \/ Prepare(u) \/ AppendChanges(u) \/ Handle(u)
  BY <1>1, PageFrame, PrepareFrame, AppendFrame, HandleFrame
<1>2. CASE Check(u)
  BY <1>2, CheckFrame
<1>3. CASE PublishNext(u)
  BY <1>3, PublishFrame
<1> QED
  BY <1>1, <1>2, <1>3 DEF Step

LEMMA RaceFreeInit ==
  ASSUME Init PROVE RaceFreeInv
<1>1. stream = <<>> /\ Len(<<>>) = 0 /\ <<>> \in Seq(Event)
  BY DEF Init
<1>2. ReplayInv
  BY <1>1 DEF ReplayInv
<1>3. StreamInv /\ AppendInv /\ ContentInv
  BY DEF Init, StreamInv, StreamOf, NothingStored, AppendInv, ContentInv, ContentOf,
         Publishing, Handling
<1>4. VersionInv
  BY <1>1 DEF Init, VersionInv, PendingOf, Pending, Publishing, Handling, NoNote
<1> QED
  BY <1>2, <1>3, <1>4 DEF RaceFreeInv

LEMMA ReadModelStep == ReadModelInv /\ [Next]_vars => ReadModelInv'
<1> SUFFICES ASSUME ReadModelInv, [Next]_vars PROVE ReadModelInv'
  OBVIOUS
<1>1. CASE UNCHANGED vars
  <2>1. BaseInv'
    BY <1>1 DEF vars, store, readModel, ReadModelInv, BaseInv, TypeOK, PlaceInv, PlaceOf,
                AuthorInv, AuthorOf, CreatorInv, Creating, NotMade, ListedInv
  <2>2. ~ raced' => RaceFreeInv'
    BY <1>1 DEF vars, store, readModel, ReadModelInv, RaceFreeInv, StreamInv, StreamOf,
                NothingStored, StoredBehindPage, ReplayInv, AppendInv, VersionInv,
                PendingOf, Pending, ContentInv, ContentOf
  <2> QED
    BY <2>1, <2>2 DEF ReadModelInv
<1>2. CASE Next
  <2> PICK u \in Users : Step(u)
    BY <1>2, NextIsStep
  <2> QED
    BY StepKeepsBase, StepKeepsRaceFree, GhostsStay DEF ReadModelInv
<1> QED
  BY <1>1, <1>2

LEMMA ReadModelInvariant == Spec => []ReadModelInv
<1>1. Init => ReadModelInv
  BY BaseInit, RaceFreeInit DEF ReadModelInv
<1> QED
  BY <1>1, ReadModelStep, PTL DEF Spec

-----------------------------------------------------------------------------

(* The stream, the pages, the tasks, the list and the note keep their      *)
(* types: the handlers are called with events of their task only.          *)
THEOREM TypeCorrect == Spec => []TypeOK
<1>1. ReadModelInv => TypeOK
  BY DEF ReadModelInv, BaseInv
<1> QED
  BY <1>1, ReadModelInvariant, PTL

(* Until two tasks are between check and append at once, what a user has   *)
(* typed is stored as a whole right behind the version that the page has   *)
(* shown, or not at all.                                                   *)
THEOREM EditsFollowTheirPageHolds == Spec => []EditsFollowTheirPage
<1>1. ReadModelInv => EditsFollowTheirPage
  <2> SUFFICES ASSUME ReadModelInv, ~ raced, NEW u \in Users
               PROVE  LET mine == {i \in DOMAIN stream : stream[i].by = u}
                      IN mine # {} => mine = form[u] + 2 .. form[u] + 1 + Len(changes[u])
    BY DEF EditsFollowTheirPage
  <2> DEFINE mine == {i \in DOMAIN stream : stream[i].by = u}
  <2>0. TypeOK /\ RaceFreeInv
    BY DEF ReadModelInv, BaseInv
  <2>1. DOMAIN stream = 1 .. Len(stream)
    BY <2>0 DEF TypeOK
  <2>2. NothingStored(u) \/ StoredBehindPage(u)
    BY <2>0 DEF TypeOK, RaceFreeInv, StreamInv, StreamOf, Places, Publishing
  <2>3. CASE NothingStored(u)
    BY <2>1, <2>3 DEF NothingStored
  <2>4. CASE StoredBehindPage(u)
    <3>1. /\ form[u] \in Int /\ form[u] >= -1
          /\ Len(changes[u]) \in Nat /\ Len(stream) \in Nat
      BY <2>0, Numbers
    <3>2. mine = form[u] + 2 .. form[u] + 1 + Len(changes[u])
      BY <2>1, <2>4, <3>1 DEF StoredBehindPage
    <3> QED
      BY <3>2
  <2> QED
    BY <2>2, <2>3, <2>4
<1> QED
  BY <1>1, ReadModelInvariant, PTL

(* As long, the note can be loaded: what the provider stores without       *)
(* looking at it has consecutive target versions.                          *)
THEOREM ReplaysUnlessRacedHolds == Spec => []ReplaysUnlessRaced
<1>1. ReadModelInv => ReplaysUnlessRaced
  <2> SUFFICES ASSUME ReadModelInv, ~ raced PROVE Replays
    BY DEF ReplaysUnlessRaced
  <2>1. ReplayInv
    BY DEF ReadModelInv, RaceFreeInv
  <2>2. DOMAIN stream = 1 .. Len(stream)
    BY <2>1 DEF ReplayInv
  <2> QED
    BY <2>1, <2>2 DEF ReplayInv, Replays
<1> QED
  BY <1>1, ReadModelInvariant, PTL

(* Nothing is stored any more once events have been stored that nobody     *)
(* published: no page ever shows the version that the check asks for.      *)
THEOREM BlockedOnceUnansweredHolds == Spec => BlockedOnceUnanswered
<1>1. ReadModelInv /\ [Next]_vars => [unanswered > 0 /\ ~ raced => stream' = stream]_vars
  <2> SUFFICES ASSUME ReadModelInv, Next, unanswered > 0, ~ raced PROVE stream' = stream
    OBVIOUS
  <2>0. TypeOK /\ PlaceInv /\ BaseInv /\ RaceFreeInv
    BY DEF ReadModelInv, BaseInv
  <2> PICK u \in Users : Step(u)
    BY NextIsStep
  <2>1. CASE AppendChanges(u)
    <3>1. form[u] = Len(stream) - 1
      BY <2>0, <2>1, AppendedBehindPage
    <3>2. unanswered = 0
      BY <2>0, <3>1, NothingPending
    <3> QED
      BY <3>2
  <2>2. CASE Page(u) \/ Prepare(u) \/ Check(u) \/ PublishNext(u) \/ Handle(u)
    BY <2>0, <2>2, PageFrame, PrepareFrame, CheckFrame, PublishFrame, HandleFrame
  <2> QED
    BY <2>1, <2>2 DEF Step
<1> QED
  BY <1>1, ReadModelInvariant, PTL DEF Spec, BlockedOnceUnanswered

(* The version on the pages never goes back, however the tasks that nobody *)
(* awaits interleave, as long as they do not race to the stream.           *)
THEOREM VersionNeverGoesBackHolds == Spec => VersionNeverGoesBack
<1>1. ReadModelInv /\ [Next]_vars => [~ raced => shown'.version >= shown.version]_vars
  <2> SUFFICES ASSUME ReadModelInv, Next, ~ raced PROVE shown'.version >= shown.version
    OBVIOUS
  <2>0. TypeOK /\ PlaceInv /\ BaseInv /\ RaceFreeInv
    BY DEF ReadModelInv, BaseInv
  <2> PICK u \in Users : Step(u)
    BY NextIsStep
  <2>1. shown.version \in Int
    BY <2>0, Numbers
  <2>2. CASE Handle(u)
    <3>1. form[u] \in Int /\ published[u] \in Nat
      BY <2>0, Numbers
    <3> QED
      BY <2>0, <2>1, <2>2, <3>1, HandleShows
  <2>3. CASE Page(u) \/ Prepare(u) \/ Check(u) \/ AppendChanges(u) \/ PublishNext(u)
    <3>1. shown' = shown
      BY <2>0, <2>3, PageFrame, PrepareFrame, CheckFrame, AppendFrame, PublishFrame
    <3> QED
      BY <2>1, <3>1
  <2> QED
    BY <2>2, <2>3 DEF Step
<1> QED
  BY <1>1, ReadModelInvariant, PTL DEF Spec, VersionNeverGoesBack

-----------------------------------------------------------------------------
(* The fields that the events make *)

(* Stored as a function, for the lemmas on folds. *)
StoredFcn == [p \in [Fields -> Values] \X Event |-> Stored(p[1], p[2])]

(* Folding a sequence of events gives the last value of their chain. *)
LEMMA StoredFold ==
  ASSUME NEW base \in [Fields -> Values], NEW s \in Seq(Event),
         NEW c \in [0 .. Len(s) -> [Fields -> Values]], Chain(c, StoredFcn, base, s)
  PROVE  FoldLeft(Stored, base, s) = c[Len(s)]
<1> DEFINE T == [Fields -> Values]
           n == Len(s)
           Body(g) == [d \in SUBSET (1 .. n) |->
                        IF d = {} THEN base ELSE Stored(g[d \ {Max(d)}], s[Max(d)])]
           iter == CHOOSE g : g = Body(g)
<1>1. n \in Nat /\ DOMAIN s = 1 .. n /\ \A i \in 1 .. n : s[i] \in Event
  OBVIOUS
<1>2. FoldLeft(Stored, base, s) = iter[1 .. n]
  BY <1>1 DEF FoldLeft, MapThenFoldSet
<1>3. StoredFcn \in [T \X Event -> T]
  BY StoredType DEF StoredFcn
<1>0. base \in T /\ s \in Seq(Event) /\ c \in [0 .. Len(s) -> T]
  OBVIOUS
<1>4. \A f \in T, e \in Event : StoredFcn[<<f, e>>] = Stored(f, e)
  BY DEF StoredFcn
<1> HIDE DEF n, T
<1>5. \A d \in SUBSET (1 .. n) :
        d # {} => Max(d) \in 1 .. n /\ d \ {Max(d)} \in SUBSET (1 .. n)
  BY <1>1, MaxIsElement
<1>6. iter = Body(iter)
  <2>0. \A m \in 0 .. Len(s) : \E g \in [SUBSET (1 .. m) -> T] : TakesLast(g, StoredFcn, base, s, m)
    BY <1>0, <1>3, RecursionIsDefined
  <2>1. PICK g \in [SUBSET (1 .. n) -> T] : TakesLast(g, StoredFcn, base, s, n)
    BY <1>1, <2>0 DEF n
  <2>2. \A d \in SUBSET (1 .. n) : g[d] = Body(g)[d]
    BY <1>1, <1>4, <1>5, <2>1 DEF TakesLast
  <2>3. g = Body(g)
    BY <2>2
  <2> HIDE DEF Body
  <2> QED
    BY <2>3
<1> HIDE DEF iter
<1>7. TakesLastTyped(iter, T, StoredFcn, base, s)
  <2>1. iter[{}] = base
    BY <1>6
  <2>2. \A d \in SUBSET (1 .. n) :
          d # {} /\ iter[d \ {Max(d)}] \in T =>
            iter[d] = StoredFcn[<<iter[d \ {Max(d)}], s[Max(d)]>>]
    BY <1>1, <1>4, <1>5, <1>6
  <2> QED
    BY <2>1, <2>2 DEF TakesLastTyped, n
<1>8. iter[1 .. Len(s)] = c[Len(s)]
  BY <1>0, <1>1, <1>7, IntervalsFollowChain DEF n
<1> QED
  BY <1>2, <1>8 DEF n

(* The fields after the first k events of a stream. *)
FieldsAt(s, k) == FoldLeft(Stored, Blank, SubSeq(s, 1, k))

(* The fields after each of the events make a chain. *)
LEMMA FieldsAreChain ==
  ASSUME NEW s \in Seq(Event)
  PROVE  \E c \in [0 .. Len(s) -> [Fields -> Values]] :
           /\ Chain(c, StoredFcn, Blank, s)
           /\ \A k \in 0 .. Len(s) : FieldsAt(s, k) = c[k]
<1> DEFINE T == [Fields -> Values]
<1>1. StoredFcn \in [T \X Event -> T]
  BY StoredType DEF StoredFcn
<1>2. PICK c \in [0 .. Len(s) -> T] : Chain(c, StoredFcn, Blank, s)
  BY <1>1, BlankType, ChainExists
<1>3. ASSUME NEW k \in 0 .. Len(s) PROVE FieldsAt(s, k) = c[k]
  <2> DEFINE t == SubSeq(s, 1, k)
  <2>1. /\ t \in Seq(Event) /\ Len(t) = k /\ k \in Nat /\ k <= Len(s)
        /\ \A i \in 1 .. k : s[i] = t[i]
    OBVIOUS
  <2> HIDE DEF t
  <2>2. PICK d \in [0 .. Len(t) -> T] : Chain(d, StoredFcn, Blank, t)
    BY <1>1, <2>1, BlankType, ChainExists
  <2>3. FoldLeft(Stored, Blank, t) = d[Len(t)]
    BY <2>1, <2>2, BlankType, StoredFold
  <2>4. k <= Len(t) /\ SameUpTo(s, t, k)
    BY <2>1 DEF SameUpTo
  <2>5. c[k] = d[k]
    BY <1>2, <2>1, <2>2, <2>4, ChainsAgree
  <2> QED
    BY <2>1, <2>3, <2>5 DEF FieldsAt, t
<1> QED
  BY <1>2, <1>3

(* Each event is stored in the fields that those before it have made. *)
LEMMA FieldsLaws ==
  ASSUME NEW s \in Seq(Event)
  PROVE  /\ FieldsAt(s, 0) = Blank
         /\ \A k \in 0 .. Len(s) : FieldsAt(s, k) \in [Fields -> Values]
         /\ \A k \in 0 .. Len(s) - 1 :
              FieldsAt(s, k + 1) = Stored(FieldsAt(s, k), s[k + 1])
         /\ FoldLeft(Stored, Blank, s) = FieldsAt(s, Len(s))
<1>1. PICK c \in [0 .. Len(s) -> [Fields -> Values]] :
           /\ Chain(c, StoredFcn, Blank, s)
           /\ \A k \in 0 .. Len(s) : FieldsAt(s, k) = c[k]
  BY FieldsAreChain
<1>2. Len(s) \in Nat /\ 0 \in 0 .. Len(s)
  OBVIOUS
<1>3. \A k \in 0 .. Len(s) : FieldsAt(s, k) \in [Fields -> Values]
  BY <1>1
<1>4. ASSUME NEW k \in 0 .. Len(s) - 1
      PROVE  FieldsAt(s, k + 1) = Stored(FieldsAt(s, k), s[k + 1])
  <2>1. /\ k + 1 \in 1 .. Len(s) /\ (k + 1) - 1 = k /\ k \in 0 .. Len(s)
        /\ k + 1 \in 0 .. Len(s)
    BY <1>2
  <2>2. c[k + 1] = StoredFcn[<<c[k], s[k + 1]>>]
    BY <1>1, <2>1 DEF Chain
  <2>3. c[k] \in [Fields -> Values] /\ s[k + 1] \in Event
    BY <1>1, <2>1
  <2>4. c[k + 1] = Stored(c[k], s[k + 1])
    BY <2>2, <2>3 DEF StoredFcn
  <2> QED
    BY <1>1, <2>1, <2>4
<1>5. FieldsAt(s, 0) = Blank
  BY <1>1, <1>2 DEF Chain
<1>6. FoldLeft(Stored, Blank, s) = c[Len(s)]
  BY <1>1, BlankType, StoredFold
<1>7. Len(s) \in 0 .. Len(s)
  BY <1>2
<1> QED
  BY <1>1, <1>3, <1>4, <1>5, <1>6, <1>7

(* Later events do not change what the earlier ones have made. *)
LEMMA FieldsOfMore ==
  ASSUME NEW s \in Seq(Event), NEW t \in Seq(Event), NEW k \in 0 .. Len(s)
  PROVE  FieldsAt(s \o t, k) = FieldsAt(s, k)
<1>1. SubSeq(s \o t, 1, k) = SubSeq(s, 1, k)
  OBVIOUS
<1> QED
  BY <1>1 DEF FieldsAt

-----------------------------------------------------------------------------
(* One handler at a time *)

OneHandles ==
  \A u, w \in Users : pc[u] \in Handling /\ pc[w] \in Handling => u = w

(* A new note is not in the list before it is added the first time, nor is *)
(* a note between its removal and its addition.                            *)
Unlisted(u) == pc[u] = "add" \/ (pc[u] = "any" /\ form[u] = -1)

ListOf(u) ==
  /\ Unlisted(u) => listed = 0
  /\ form[u] = -1 => pc[u] \notin {"version", "field", "single", "remove"}

ListInv ==
  shown \in Note /\ (\A u \in Users : ~ Unlisted(u)) => listed = 1

(* Whatever is stored, the list has the note once until handlers overlap.  *)
ListsInv == OneHandles /\ (\A u \in Users : ListOf(u)) /\ ListInv

(* The note shows the version of the last event the task has published,    *)
(* once its handler is past the place where the version is set.            *)
FollowsOf(u) ==
  /\ pc[u] \in {"get", "version"} => shown.version = form[u] + published[u] - 1
  /\ pc[u] \in Handling \ {"get", "version"} => shown.version = form[u] + published[u]
  /\ pc[u] = "publish" /\ published[u] < Len(changes[u]) =>
       shown.version = form[u] + published[u]

(* The fields are those of the version that is shown, except between the   *)
(* two assignments of a handler.                                           *)
ShownInv ==
  /\ \A u \in Users : FollowsOf(u)
  /\ (\A u \in Users : ~ Pending(u)) => shown.version = Len(stream) - 1 - unanswered
  /\ \A u \in Users :
       pc[u] = "field" => shown.fields = FieldsAt(stream, shown.version)
  /\ shown \in Note /\ (\A u \in Users : pc[u] # "field") =>
       shown.fields = FieldsAt(stream, shown.version + 1)

CaughtUpInv ==
  /\ ReadModelInv
  /\ ~ overlapped => ListsInv
  /\ ~ raced /\ ~ overlapped => ShownInv

-----------------------------------------------------------------------------
(* The list *)

(* Steps outside of the handlers. *)
LEMMA QuietKeepsLists ==
  ASSUME ListsInv, NEW u \in Users, OthersStay(u), UNCHANGED <<shown, listed>>,
         pc[u] \notin Handling, pc'[u] \notin Handling
  PROVE  ListsInv'
<1>1. ~ Unlisted(u) /\ ~ Unlisted(u)'
  BY DEF Unlisted, Handling
<1>2. \A w \in Users \ {u} : Unlisted(w)' <=> Unlisted(w)
  BY DEF Unlisted, OthersStay
<1>3. OneHandles'
  BY DEF ListsInv, OneHandles, OthersStay
<1>4. ListOf(u)'
  BY <1>1 DEF ListOf, Handling
<1>5. \A w \in Users \ {u} : ListOf(w)'
  BY <1>2 DEF ListsInv, ListOf, OthersStay
<1>6. ListInv'
  BY <1>1, <1>2 DEF ListsInv, ListInv
<1> QED
  BY <1>3, <1>4, <1>5, <1>6 DEF ListsInv

LEMMA PublishKeepsLists ==
  ASSUME BaseInv, ListsInv, NEW u \in Users, PublishNext(u), ~ overlapped'
  PROVE  ListsInv'
<1>1. /\ OthersStay(u) /\ UNCHANGED <<form, shown, listed>> /\ pc[u] = "publish"
      /\ pc'[u] = "done" \/ (pc'[u] = "get" /\ ~ OthersHandle(u))
  BY PublishFrame DEF BaseInv
<1>2. CASE pc'[u] = "done"
  BY <1>1, <1>2, QuietKeepsLists DEF Handling
<1>3. CASE pc'[u] = "get" /\ ~ OthersHandle(u)
  <2>1. ~ Unlisted(u) /\ ~ Unlisted(u)'
    BY <1>1, <1>3 DEF Unlisted
  <2>2. \A w \in Users \ {u} : Unlisted(w)' <=> Unlisted(w)
    BY <1>1 DEF Unlisted, OthersStay
  <2>3. OneHandles'
    BY <1>1, <1>3 DEF OneHandles, OthersStay, OthersHandle
  <2>4. ListOf(u)'
    BY <1>3, <2>1 DEF ListOf
  <2>5. \A w \in Users \ {u} : ListOf(w)'
    BY <1>1, <2>2 DEF ListsInv, ListOf, OthersStay
  <2>6. ListInv'
    BY <1>1, <2>1, <2>2 DEF ListsInv, ListInv
  <2> QED
    BY <2>3, <2>4, <2>5, <2>6 DEF ListsInv
<1> QED
  BY <1>1, <1>2, <1>3

(* The list as a handler that is alone leaves it to the next place.        *)
ListedAt(u) ==
  /\ shown \in Note
  /\ Unlisted(u) => listed = 0
  /\ ~ Unlisted(u) => listed = 1
  /\ form[u] = -1 => pc[u] \notin {"version", "field", "single", "remove"}

(* What a handler that is alone finds in it. *)
LEMMA LoneLists ==
  ASSUME BaseInv, ListsInv, NEW u \in Users, pc[u] \in Handling
  PROVE  /\ \A w \in Users \ {u} : pc[w] \notin Handling
         /\ pc[u] # "get" \/ form[u] # -1 => ListedAt(u)
         /\ pc[u] = "get" /\ form[u] = -1 => shown = NoNote /\ listed = 0
<1>1. \A w \in Users \ {u} : pc[w] \notin Handling
  BY DEF ListsInv, OneHandles
<1>2. \A w \in Users \ {u} : ~ Unlisted(w)
  BY <1>1 DEF Unlisted, Handling
<1>3. ASSUME pc[u] # "get" \/ form[u] # -1 PROVE ListedAt(u)
  <2>1. shown \in Note
    BY <1>3 DEF BaseInv, PlaceInv, PlaceOf
  <2>2. ListOf(u) /\ (~ Unlisted(u) => listed = 1)
    BY <1>2, <2>1 DEF ListsInv, ListInv
  <2> QED
    BY <2>1, <2>2 DEF ListedAt, ListOf
<1>4. ASSUME pc[u] = "get", form[u] = -1 PROVE shown = NoNote /\ listed = 0
  <2>1. shown = NoNote
    BY <1>4 DEF BaseInv, CreatorInv, Creating, NotMade
  <2>2. ~ (listed > 0) /\ listed \in Nat
    BY <2>1 DEF BaseInv, TypeOK, ListedInv, Note, NoNote
  <2> QED
    BY <2>1, <2>2
<1> QED
  BY <1>1, <1>3, <1>4

(* What a handler that is alone looks for is there. *)
LEMMA LoneDoesNotThrow ==
  ASSUME BaseInv, ListsInv, NEW u \in Users
  PROVE  ~ HandlerThrows(u)
<1> SUFFICES ASSUME HandlerThrows(u) PROVE FALSE
  OBVIOUS
<1>1. pc[u] \in Handling
  BY DEF HandlerThrows, Moves, Handling
<1>2. /\ \A w \in Users \ {u} : pc[w] \notin Handling
      /\ pc[u] # "get" \/ form[u] # -1 => ListedAt(u)
  BY <1>1, LoneLists
<1>3. ~ \E w \in Users \ {u} : pc[w] \in {"remove", "add"}
  BY <1>2 DEF Handling
<1>4. \/ form[u] # -1 /\ listed = 0 /\ pc[u] = "get"
      \/ listed # 1 /\ pc[u] = "single"
  BY <1>3 DEF HandlerThrows, Moves
<1> QED
  BY <1>2, <1>4 DEF ListedAt, Unlisted

(* Where a handler goes that does not throw, and what it does to the list. *)
LEMMA LoneListFrame ==
  ASSUME BaseInv, ListsInv, NEW u \in Users, Handle(u)
  PROVE  \/ MakeNote(u) /\ pc[u] = "get" /\ pc'[u] = "any" /\ form[u] = -1 /\ listed' = listed
         \/ /\ listed' = listed /\ form[u] # -1
            /\ \/ pc[u] = "get" /\ pc'[u] = "version"
               \/ pc[u] = "version" /\ pc'[u] = "field"
               \/ pc[u] = "field" /\ pc'[u] = "any"
         \/ /\ listed' = listed
            /\ \/ pc[u] = "any" /\ pc'[u] = IF listed > 0 THEN "single" ELSE "add"
               \/ pc[u] = "single" /\ pc'[u] = "remove"
               \/ pc[u] = "save" /\ pc'[u] = "publish"
         \/ /\ pc[u] = "remove" /\ pc'[u] = "add"
            /\ listed' = IF listed > 0 THEN listed - 1 ELSE 0
         \/ pc[u] = "add" /\ pc'[u] = "save" /\ listed' = listed + 1
<1>1. ~ HandlerThrows(u)
  BY LoneDoesNotThrow
<1>2. pc[u] \in {"version", "field"} => form[u] # -1
  BY DEF ListsInv, ListOf
<1>3. pc \in [Users -> Places]
  BY DEF BaseInv, TypeOK
<1> USE DEF Moves
<1>4. CASE MakeNote(u)
  BY <1>3, <1>4 DEF MakeNote
<1>5. CASE GetNote(u) \/ SetVersion(u) \/ SetField(u)
  BY <1>2, <1>3, <1>5 DEF GetNote, SetVersion, SetField
<1>6. CASE FindAny(u) \/ FindSingle(u) \/ SaveList(u)
  BY <1>3, <1>6 DEF FindAny, FindSingle, SaveList
<1>7. CASE RemoveNote(u) \/ AddNote(u)
  BY <1>3, <1>7 DEF RemoveNote, AddNote
<1> QED
  BY <1>1, <1>4, <1>5, <1>6, <1>7 DEF Handle

LEMMA HandleKeepsListed ==
  ASSUME BaseInv, ListsInv, NEW u \in Users, Handle(u)
  PROVE  ListedAt(u)'
<1>1. /\ form' = form /\ pc[u] \in Handling
      /\ shown' = shown \/ shown' \in Note
  BY HandleFrame, HandleKeepsNote DEF BaseInv
<1>2. /\ pc[u] # "get" \/ form[u] # -1 => ListedAt(u)
      /\ pc[u] = "get" /\ form[u] = -1 => shown = NoNote /\ listed = 0
  BY <1>1, LoneLists
<1>3. shown' \in Note
  <2>1. CASE shown \in Note
    BY <1>1, <2>1
  <2>2. CASE shown \notin Note
    <3>1. pc[u] = "get" /\ form[u] = -1
      BY <1>2, <2>2 DEF ListedAt
    <3>2. MakeNote(u)
      BY <3>1, LoneListFrame
    <3>3. shown' = [version |-> 0, fields |-> Current(u).to]
      BY <3>2 DEF MakeNote
    <3>4. Current(u).to \in [Fields -> Values]
      BY <1>1, CurrentType, EventTypes DEF BaseInv
    <3> QED
      BY <3>3, <3>4 DEF Note
  <2> QED
    BY <2>1, <2>2
<1>4. CASE pc[u] = "get" /\ form[u] = -1
  BY <1>1, <1>2, <1>3, <1>4, LoneListFrame DEF ListedAt, Unlisted
<1>5. CASE ~ (pc[u] = "get" /\ form[u] = -1)
  <2>1. ListedAt(u)
    BY <1>2, <1>5
  <2>2. CASE form[u] = -1
    BY <1>1, <1>3, <1>5, <2>1, <2>2, LoneListFrame DEF ListedAt, Unlisted
  <2>3. CASE form[u] # -1
    BY <1>1, <1>3, <2>1, <2>3, LoneListFrame DEF ListedAt, Unlisted
  <2> QED
    BY <2>2, <2>3
<1> QED
  BY <1>4, <1>5

LEMMA HandleKeepsLists ==
  ASSUME BaseInv, ListsInv, NEW u \in Users, Handle(u)
  PROVE  ListsInv'
<1>1. OthersStay(u) /\ pc[u] \in Handling
  BY HandleFrame DEF BaseInv
<1>2. ListedAt(u)'
  BY HandleKeepsListed
<1>3. \A w \in Users \ {u} : pc'[w] \notin Handling
  BY <1>1, LoneLists DEF OthersStay
<1>4. \A w \in Users \ {u} : ListOf(w)'
  BY <1>3 DEF ListOf, Unlisted, Handling
<1>5. ListOf(u)' /\ ListInv'
  BY <1>2 DEF ListedAt, ListOf, ListInv
<1>6. OneHandles'
  BY <1>3 DEF OneHandles
<1> QED
  BY <1>4, <1>5, <1>6 DEF ListsInv

LEMMA StepKeepsLists ==
  ASSUME BaseInv, ListsInv, NEW u \in Users, Step(u), ~ overlapped'
  PROVE  ListsInv'
<1>1. CASE Page(u) \/ Prepare(u) \/ Check(u) \/ AppendChanges(u)
  <2>1. /\ OthersStay(u) /\ UNCHANGED <<shown, listed>>
        /\ pc[u] \in {"idle", "form", "sent", "commit", "append"}
        /\ pc'[u] \in {"form", "sent", "commit", "append", "publish", "done"}
    BY <1>1, PageFrame, PrepareFrame, CheckFrame, AppendFrame DEF BaseInv
  <2>2. pc[u] \notin Handling /\ pc'[u] \notin Handling
    BY <2>1 DEF Handling
  <2> QED
    BY <2>1, <2>2, QuietKeepsLists
<1>2. CASE PublishNext(u)
  BY <1>2, PublishKeepsLists
<1>3. CASE Handle(u)
  BY <1>3, HandleKeepsLists
<1> QED
  BY <1>1, <1>2, <1>3 DEF Step

-----------------------------------------------------------------------------
(* The note that is shown *)

(* The version of the note and the one behind it are those of the stream.  *)
LEMMA ShownIsInStream ==
  ASSUME BaseInv, RaceFreeInv
  PROVE  /\ shown \in Note => shown.version \in 0 .. Len(stream) - 1
         /\ shown \in Note => shown.version + 1 \in 0 .. Len(stream)
         /\ stream \in Seq(Event) /\ Len(stream) \in Nat
<1>1. stream \in Seq(Event) /\ Len(stream) \in Nat
  BY DEF RaceFreeInv, ReplayInv
<1>2. shown \in Note => shown.version \in Nat
  BY DEF Note
<1>3. unanswered \in Nat
  BY DEF BaseInv, TypeOK
<1> QED
  BY <1>1, <1>2, <1>3 DEF RaceFreeInv, VersionInv

(* Steps that change neither the stream nor the note, of tasks that are    *)
(* not publishing or have published all.                                   *)
LEMMA QuietKeepsShown ==
  ASSUME ShownInv, NEW u \in Users, OthersStay(u), UNCHANGED <<stream, unanswered, shown>>,
         ~ Pending(u), pc[u] \notin Handling, pc'[u] \notin Publishing
  PROVE  ShownInv'
<1>1. ~ Pending(u)' /\ FollowsOf(u)' /\ pc[u] # "field" /\ pc'[u] # "field"
  BY DEF Pending, FollowsOf, Publishing, Handling
<1>2. \A w \in Users \ {u} : (Pending(w)' <=> Pending(w)) /\ FollowsOf(w)'
  BY DEF ShownInv, Pending, FollowsOf, OthersStay
<1>3. \A w \in Users : pc'[w] = "field" <=> pc[w] = "field"
  BY <1>1 DEF OthersStay
<1> QED
  BY <1>1, <1>2, <1>3 DEF ShownInv

LEMMA AppendKeepsShown ==
  ASSUME BaseInv, RaceFreeInv, ShownInv, NEW u \in Users, AppendChanges(u)
  PROVE  ShownInv'
<1>0. TypeOK /\ Len(stream) \in Nat /\ Len(changes[u]) \in Nat
  BY DEF BaseInv, TypeOK
<1>1. /\ OthersStay(u)
      /\ UNCHANGED <<form, loaded, changes, published, shown>>
      /\ pc[u] = "append"
      /\ \/ pc'[u] = "publish" /\ unanswered' = unanswered
         \/ pc'[u] = "done" /\ unanswered' = unanswered + Len(changes[u])
  BY <1>0, AppendFrame
<1>2. /\ form[u] = Len(stream) - 1 /\ Len(changes[u]) >= 1
      /\ stream \in Seq(Event) /\ changes[u] \in Seq(Event)
      /\ stream' = stream \o changes[u]
      /\ Len(stream') = Len(stream) + Len(changes[u])
  BY AppendedBehindPage
<1>3. unanswered = 0 /\ \A w \in Users : ~ Pending(w)
  BY <1>2, NothingPending
<1>4. shown.version = Len(stream) - 1 /\ published[u] = 0
  BY <1>0, <1>1, <1>3 DEF ShownInv, BaseInv, PlaceInv, PlaceOf
<1>5. \A w \in Users \ {u} : (Pending(w)' <=> Pending(w)) /\ FollowsOf(w)'
  BY <1>1 DEF ShownInv, Pending, FollowsOf, OthersStay
<1>6. FollowsOf(u)'
  <2>1. shown'.version = form'[u] + published'[u]
    BY <1>0, <1>1, <1>2, <1>4
  <2> QED
    BY <1>1, <2>1 DEF FollowsOf, Handling
<1>7. (\A w \in Users : ~ Pending(w)') => shown'.version = Len(stream') - 1 - unanswered'
  <2>1. CASE pc'[u] = "publish"
    <3>1. published'[u] < Len(changes'[u])
      BY <1>0, <1>1, <1>2, <1>4
    <3> QED
      BY <2>1, <3>1 DEF Pending, Publishing
  <2>2. CASE pc'[u] = "done" /\ unanswered' = unanswered + Len(changes[u])
    BY <1>0, <1>1, <1>2, <1>3, <1>4, <2>2
  <2> QED
    BY <1>1, <2>1, <2>2
<1>8. shown \in Note =>
        /\ FieldsAt(stream', shown.version) = FieldsAt(stream, shown.version)
        /\ FieldsAt(stream', shown.version + 1) = FieldsAt(stream, shown.version + 1)
  <2> SUFFICES ASSUME shown \in Note
               PROVE  /\ FieldsAt(stream', shown.version) = FieldsAt(stream, shown.version)
                      /\ FieldsAt(stream', shown.version + 1) = FieldsAt(stream, shown.version + 1)
    OBVIOUS
  <2>1. shown.version \in 0 .. Len(stream) /\ shown.version + 1 \in 0 .. Len(stream)
    BY ShownIsInStream
  <2> QED
    BY <1>2, <2>1, FieldsOfMore
<1>9. \A w \in Users : pc[w] = "field" => shown \in Note
  BY DEF BaseInv, PlaceInv, PlaceOf, Handling
<1>10. \A w \in Users : pc'[w] = "field" <=> pc[w] = "field"
  BY <1>1 DEF OthersStay
<1> QED
  BY <1>1, <1>5, <1>6, <1>7, <1>8, <1>9, <1>10 DEF ShownInv

LEMMA PublishKeepsShown ==
  ASSUME BaseInv, ShownInv, NEW u \in Users, PublishNext(u)
  PROVE  ShownInv'
<1>0. TypeOK
  BY DEF BaseInv
<1>1. /\ OthersStay(u)
      /\ UNCHANGED <<stream, unanswered, form, loaded, changes, shown>>
      /\ pc[u] = "publish"
      /\ \/ /\ pc'[u] = "get" /\ published[u] < Len(changes[u])
            /\ published'[u] = published[u] + 1
         \/ /\ pc'[u] = "done" /\ published'[u] = published[u]
            /\ published[u] >= Len(changes[u])
  BY <1>0, PublishFrame
<1>2. CASE pc'[u] = "done" /\ published[u] >= Len(changes[u])
  <2>1. ~ Pending(u)
    BY <1>0, <1>1, <1>2, Numbers DEF Pending
  <2> QED
    BY <1>1, <1>2, <2>1, QuietKeepsShown DEF Publishing, Handling
<1>3. CASE /\ pc'[u] = "get" /\ published[u] < Len(changes[u])
           /\ published'[u] = published[u] + 1
  <2>1. Pending(u)'
    BY <1>3 DEF Pending
  <2>2. FollowsOf(u)'
    <3>1. shown.version = form[u] + published[u]
      BY <1>1, <1>3 DEF ShownInv, FollowsOf
    <3>2. shown'.version = form'[u] + published'[u] - 1
      BY <1>0, <1>1, <1>3, <3>1, Numbers
    <3> QED
      BY <1>3, <3>2 DEF FollowsOf
  <2>3. \A w \in Users \ {u} : FollowsOf(w)'
    BY <1>1 DEF ShownInv, FollowsOf, OthersStay
  <2>4. \A w \in Users : pc'[w] = "field" <=> pc[w] = "field"
    BY <1>1, <1>3 DEF OthersStay
  <2> QED
    BY <1>1, <2>1, <2>2, <2>3, <2>4 DEF ShownInv
<1> QED
  BY <1>1, <1>2, <1>3

(* The note as a handler that is alone leaves it to the next place.        *)
ShownAt(u) ==
  /\ pc[u] = "version" => shown.version = form[u] + published[u] - 1
  /\ pc[u] # "version" => shown.version = form[u] + published[u]
  /\ pc[u] = "field" => shown.fields = FieldsAt(stream, shown.version)
  /\ pc[u] # "field" => shown.fields = FieldsAt(stream, shown.version + 1)

(* What a handler that is alone finds in it, and the event it has. *)
LEMMA LoneShows ==
  ASSUME BaseInv, RaceFreeInv, ListsInv, ShownInv, NEW u \in Users, pc[u] \in Handling
  PROVE  /\ Current(u) = stream[form[u] + published[u] + 1]
         /\ pc[u] # "get" => shown \in Note /\ ShownAt(u)
         /\ pc[u] = "get" =>
              /\ shown.version = form[u] + published[u] - 1
              /\ form[u] = -1 => published[u] = 1 /\ Current(u).sets = Fields
              /\ form[u] # -1 => /\ shown \in Note
                                 /\ shown.fields = FieldsAt(stream, shown.version + 1)
<1>0. TypeOK /\ PlaceInv /\ AuthorInv
  BY DEF BaseInv
<1>1. \A w \in Users \ {u} : pc[w] # "field"
  BY LoneLists DEF Handling
<1>2. published[u] \in 1 .. Len(changes[u])
  BY <1>0, CurrentType
<1>3. Current(u) = stream[form[u] + published[u] + 1]
  <2>1. stream[form[u] + 1 + published[u]] = changes[u][published[u]]
    BY <1>2 DEF RaceFreeInv, ContentInv, ContentOf, Publishing
  <2>2. form[u] + 1 + published[u] = form[u] + published[u] + 1
    BY <1>0, <1>2, Numbers
  <2> QED
    BY <2>1, <2>2 DEF Current
<1>4. shown \in Note /\ pc[u] # "field" => shown.fields = FieldsAt(stream, shown.version + 1)
  BY <1>1 DEF ShownInv
<1>5. ASSUME pc[u] # "get" PROVE shown \in Note /\ ShownAt(u)
  <2>1. shown \in Note
    BY <1>5 DEF BaseInv, PlaceInv, PlaceOf
  <2>2. /\ pc[u] = "version" => shown.version = form[u] + published[u] - 1
        /\ pc[u] # "version" => shown.version = form[u] + published[u]
    BY <1>5 DEF ShownInv, FollowsOf
  <2>3. pc[u] = "field" => shown.fields = FieldsAt(stream, shown.version)
    BY DEF ShownInv
  <2> QED
    BY <1>4, <2>1, <2>2, <2>3 DEF ShownAt
<1>6. ASSUME pc[u] = "get"
      PROVE  /\ shown.version = form[u] + published[u] - 1
             /\ form[u] = -1 => published[u] = 1 /\ Current(u).sets = Fields
             /\ form[u] # -1 => /\ shown \in Note
                                /\ shown.fields = FieldsAt(stream, shown.version + 1)
  <2>1. shown.version = form[u] + published[u] - 1
    BY <1>6 DEF ShownInv, FollowsOf
  <2>2. ASSUME form[u] = -1 PROVE published[u] = 1 /\ Current(u).sets = Fields
    <3>1. Len(changes[u]) = 1 /\ changes[u][1].sets = Fields
      BY <1>0, <2>2 DEF PlaceInv, PlaceOf, Active, Publishing
    <3>2. published[u] = 1
      BY <1>2, <3>1
    <3> QED
      BY <3>1, <3>2 DEF Current
  <2>3. ASSUME form[u] # -1
        PROVE  shown \in Note /\ shown.fields = FieldsAt(stream, shown.version + 1)
    <3>1. shown \in Note
      BY <2>3 DEF BaseInv, PlaceInv, PlaceOf
    <3> QED
      BY <1>4, <1>6, <3>1
  <2> QED
    BY <2>1, <2>2, <2>3
<1> QED
  BY <1>3, <1>5, <1>6

(* Every step of a handler that is alone leaves the note as the next place *)
(* needs it.                                                               *)
LEMMA LoneHandles ==
  ASSUME BaseInv, RaceFreeInv, ListsInv, ShownInv, NEW u \in Users, Handle(u)
  PROVE  ShownAt(u)'
<1>0. TypeOK /\ PlaceInv /\ AuthorInv
  BY DEF BaseInv
<1>1. UNCHANGED <<stream, form, published>> /\ pc[u] \in Handling
  BY <1>0, HandleFrame
<1>2. /\ Current(u) = stream[form[u] + published[u] + 1]
      /\ pc[u] # "get" => shown \in Note /\ ShownAt(u)
      /\ pc[u] = "get" =>
           /\ shown.version = form[u] + published[u] - 1
           /\ form[u] = -1 => published[u] = 1 /\ Current(u).sets = Fields
           /\ form[u] # -1 => /\ shown \in Note
                              /\ shown.fields = FieldsAt(stream, shown.version + 1)
  BY <1>1, LoneShows
<1>3. /\ Current(u) \in Event /\ MadeVersion(u) = form[u] + published[u]
      /\ MadeVersion(u) \in Nat
      /\ published[u] \in Nat /\ form[u] \in Int
  BY <1>0, <1>1, CurrentType, Numbers
<1>4. \A k \in 0 .. Len(stream) - 1 :
        FieldsAt(stream, k + 1) = Stored(FieldsAt(stream, k), stream[k + 1])
  BY ShownIsInStream, FieldsLaws
<1>5. \A here, there : Moves(u, here, there) => pc[u] = here /\ pc'[u] = there
  BY <1>0 DEF Moves, TypeOK
<1>6. CASE MakeNote(u)
  <2>1. /\ pc[u] = "get" /\ pc'[u] = "any" /\ form[u] = -1
        /\ shown' = [version |-> 0, fields |-> Current(u).to]
    BY <1>5, <1>6 DEF MakeNote
  <2>2. Current(u).to \in [Fields -> Values] /\ Current(u).sets = Fields
    BY <1>2, <1>3, <2>1, EventTypes
  <2>3. Stored(Blank, Current(u)) = Current(u).to
    BY <2>2 DEF Stored
  <2>4. FieldsAt(stream, 0 + 1) = Current(u).to
    <3>1. form[u] + published[u] + 1 = 1
      BY <1>2, <2>1
    <3>2. Current(u) = stream[1]
      BY <1>2, <3>1
    <3>3. 0 \in 0 .. Len(stream) - 1
      <4>1. form[u] + 1 + Len(changes[u]) <= Len(stream)
        BY <2>1 DEF RaceFreeInv, StreamInv, StreamOf, StoredBehindPage, Publishing, Handling
      <4>2. Len(changes[u]) = 1
        BY <1>0, <2>1 DEF PlaceInv, PlaceOf, Active, Publishing, Handling
      <4> QED
        BY <2>1, <4>1, <4>2, ShownIsInStream
    <3>4. FieldsAt(stream, 0 + 1) = Stored(FieldsAt(stream, 0), stream[0 + 1])
      BY <1>4, <3>3
    <3>5. FieldsAt(stream, 0) = Blank
      BY ShownIsInStream, FieldsLaws
    <3>6. 0 + 1 = 1
      OBVIOUS
    <3> QED
      BY <2>3, <3>2, <3>4, <3>5, <3>6
  <2>5. shown'.version = 0 /\ shown'.fields = Current(u).to /\ form[u] + published[u] = 0
    BY <1>2, <2>1
  <2> QED
    BY <1>1, <2>1, <2>4, <2>5 DEF ShownAt
<1>7. CASE GetNote(u)
  <2>1. pc[u] = "get" /\ pc'[u] = "version" /\ form[u] # -1 /\ shown' = shown
    BY <1>5, <1>7 DEF GetNote
  <2> QED
    BY <1>1, <1>2, <2>1 DEF ShownAt
<1>8. CASE SetVersion(u)
  <2>1. /\ pc[u] = "version" /\ pc'[u] = "field"
        /\ shown' = [shown EXCEPT !.version = MadeVersion(u)]
    BY <1>5, <1>8 DEF SetVersion
  <2>2. shown \in Note /\ ShownAt(u)
    BY <1>2, <2>1
  <2>3. shown'.version = MadeVersion(u) /\ shown'.fields = shown.fields
    BY <2>1, <2>2 DEF Note
  <2>4. shown'.version = shown.version + 1
    BY <1>3, <2>1, <2>2, <2>3 DEF ShownAt
  <2> QED
    BY <1>1, <1>3, <2>1, <2>2, <2>3, <2>4 DEF ShownAt
<1>9. CASE SetField(u)
  <2>1. /\ pc[u] = "field" /\ pc'[u] = "any"
        /\ shown' = [shown EXCEPT !.fields = Stored(@, Current(u))]
    BY <1>5, <1>9 DEF SetField
  <2>2. shown \in Note /\ ShownAt(u)
    BY <1>2, <2>1
  <2>3. shown'.version = shown.version /\ shown'.fields = Stored(shown.fields, Current(u))
    BY <2>1, <2>2 DEF Note
  <2>4. shown'.fields = FieldsAt(stream, shown.version + 1)
    <3>1. shown.version \in 0 .. Len(stream) - 1 /\ shown.version = form[u] + published[u]
      BY <2>1, <2>2, ShownIsInStream DEF ShownAt
    <3>2. Current(u) = stream[shown.version + 1]
      BY <1>2, <3>1
    <3>3. shown.fields = FieldsAt(stream, shown.version)
      BY <2>1, <2>2 DEF ShownAt
    <3> QED
      BY <1>4, <2>3, <3>1, <3>2, <3>3
  <2> QED
    BY <1>1, <2>1, <2>2, <2>3, <2>4 DEF ShownAt
<1>10. CASE FindAny(u) \/ FindSingle(u) \/ RemoveNote(u) \/ AddNote(u) \/ SaveList(u)
  <2>1. /\ pc[u] \in {"any", "single", "remove", "add", "save"}
        /\ pc'[u] \in {"any", "single", "remove", "add", "save", "publish"}
        /\ shown' = shown
    BY <1>5, <1>10 DEF FindAny, FindSingle, RemoveNote, AddNote, SaveList
  <2> QED
    BY <1>1, <1>2, <2>1 DEF ShownAt
<1>11. ~ HandlerThrows(u)
  BY LoneDoesNotThrow
<1> QED
  BY <1>6, <1>7, <1>8, <1>9, <1>10, <1>11 DEF Handle

LEMMA HandleKeepsShown ==
  ASSUME BaseInv, RaceFreeInv, ListsInv, ShownInv, NEW u \in Users, Handle(u)
  PROVE  ShownInv'
<1>0. TypeOK
  BY DEF BaseInv
<1>1. /\ OthersStay(u)
      /\ UNCHANGED <<stream, unanswered, form, loaded, changes, published>>
      /\ pc[u] \in Handling /\ pc'[u] \in (Handling \ {"get"}) \cup {"publish"}
  BY <1>0, HandleFrame
<1>2. ShownAt(u)'
  BY LoneHandles
<1>3. \A w \in Users \ {u} : pc'[w] \notin Handling /\ pc'[w] # "field"
  BY <1>1, LoneLists DEF OthersStay, Handling
<1>4. FollowsOf(u)'
  BY <1>1, <1>2 DEF ShownAt, FollowsOf
<1>5. \A w \in Users \ {u} : Pending(w)' <=> Pending(w)
  BY <1>1 DEF Pending, OthersStay
<1>6. \/ shown'.version = shown.version
      \/ /\ pc[u] \in {"get", "version"} /\ pc'[u] \in {"any", "field"}
         /\ shown'.version = form[u] + published[u]
  BY HandleShows
<1>7. ASSUME NEW w \in Users \ {u} PROVE FollowsOf(w)'
  <2>1. ASSUME pc'[w] = "publish", published'[w] < Len(changes'[w])
        PROVE  shown'.version = form'[w] + published'[w]
    <3>1. pc[w] = "publish" /\ published[w] < Len(changes[w])
      BY <1>1, <2>1 DEF OthersStay
    <3>2. Pending(w) /\ shown.version = form[w] + published[w]
      BY <3>1 DEF Pending, Publishing, ShownInv, FollowsOf
    <3>3. pc[u] \notin {"get", "version"}
      BY <3>2 DEF RaceFreeInv, VersionInv, Pending
    <3> QED
      BY <1>1, <1>6, <3>2, <3>3
  <2> QED
    BY <1>3, <2>1 DEF FollowsOf, Handling
<1>8. ASSUME \A w \in Users : ~ Pending(w)'
      PROVE  shown'.version = Len(stream') - 1 - unanswered'
  <2>1. CASE Pending(u)
    <3>1. form[u] + 1 + Len(changes[u]) = Len(stream) /\ unanswered = 0
      BY <2>1 DEF RaceFreeInv, VersionInv, PendingOf
    <3>2. pc'[u] # "version" /\ ~ (published[u] < Len(changes[u]))
      BY <1>1, <1>8 DEF Pending, Publishing
    <3>3. published[u] = Len(changes[u]) /\ shown'.version = form[u] + published[u]
      BY <1>0, <1>1, <1>2, <3>2, Numbers DEF ShownAt
    <3> QED
      BY <1>0, <1>1, <3>1, <3>3, Numbers
  <2>2. CASE ~ Pending(u)
    <3>1. shown'.version = shown.version
      BY <1>6, <2>2 DEF Pending
    <3>2. \A w \in Users : ~ Pending(w)
      BY <1>5, <1>8, <2>2
    <3> QED
      BY <1>1, <3>1, <3>2 DEF ShownInv
  <2> QED
    BY <2>1, <2>2
<1> QED
  BY <1>1, <1>2, <1>3, <1>4, <1>7, <1>8 DEF ShownAt, ShownInv

LEMMA StepKeepsShown ==
  ASSUME BaseInv, RaceFreeInv, ListsInv, ShownInv, NEW u \in Users, Step(u)
  PROVE  ShownInv'
<1>1. CASE Page(u) \/ Prepare(u) \/ Check(u)
  <2>1. /\ OthersStay(u) /\ UNCHANGED <<stream, unanswered, shown>>
        /\ pc[u] \in {"idle", "form", "sent", "commit"}
        /\ pc'[u] \in {"form", "sent", "commit", "append", "done"}
    BY <1>1, PageFrame, PrepareFrame, CheckFrame DEF BaseInv
  <2>2. ~ Pending(u) /\ pc[u] \notin Handling /\ pc'[u] \notin Publishing
    BY <2>1 DEF Pending, Publishing, Handling
  <2> QED
    BY <2>1, <2>2, QuietKeepsShown
<1>2. CASE AppendChanges(u)
  BY <1>2, AppendKeepsShown
<1>3. CASE PublishNext(u)
  BY <1>3, PublishKeepsShown
<1>4. CASE Handle(u)
  BY <1>4, HandleKeepsShown
<1> QED
  BY <1>1, <1>2, <1>3, <1>4 DEF Step

-----------------------------------------------------------------------------

LEMMA CaughtUpInit == Init => CaughtUpInv
<1> SUFFICES ASSUME Init PROVE CaughtUpInv
  OBVIOUS
<1>1. Len(stream) = 0 /\ shown.version = -1 /\ shown \notin Note
  BY DEF Init, NoNote, Note
<1>2. ListsInv
  BY <1>1 DEF Init, ListsInv, OneHandles, ListOf, Unlisted, ListInv, Handling
<1>3. ShownInv
  BY <1>1 DEF Init, ShownInv, FollowsOf, Handling
<1> QED
  BY <1>2, <1>3, BaseInit, RaceFreeInit DEF CaughtUpInv, ReadModelInv

LEMMA CaughtUpStep == CaughtUpInv /\ [Next]_vars => CaughtUpInv'
<1> SUFFICES ASSUME CaughtUpInv, [Next]_vars PROVE CaughtUpInv'
  OBVIOUS
<1>1. ReadModelInv'
  BY ReadModelStep DEF CaughtUpInv
<1>2. CASE UNCHANGED vars
  <2>1. ~ overlapped' => ListsInv'
    BY <1>2 DEF vars, store, readModel, CaughtUpInv, ListsInv, OneHandles, ListOf, Unlisted, ListInv
  <2>2. ~ raced' /\ ~ overlapped' => ShownInv'
    BY <1>2 DEF vars, store, readModel, CaughtUpInv, ShownInv, FollowsOf, Pending
  <2> QED
    BY <1>1, <2>1, <2>2 DEF CaughtUpInv
<1>3. CASE Next
  <2> PICK u \in Users : Step(u)
    BY <1>3, NextIsStep
  <2>1. BaseInv /\ (~ raced => RaceFreeInv)
    BY DEF CaughtUpInv, ReadModelInv
  <2>2. (raced => raced') /\ (overlapped => overlapped')
    BY <2>1, GhostsStay
  <2>3. ~ overlapped' => ListsInv'
    BY <2>1, <2>2, StepKeepsLists DEF CaughtUpInv
  <2>4. ~ raced' /\ ~ overlapped' => ShownInv'
    BY <2>1, <2>2, StepKeepsShown DEF CaughtUpInv
  <2> QED
    BY <1>1, <2>3, <2>4 DEF CaughtUpInv
<1> QED
  BY <1>2, <1>3

LEMMA CaughtUpInvariant == Spec => []CaughtUpInv
  BY CaughtUpInit, CaughtUpStep, PTL DEF Spec

(* A handler that no other has overlapped finds what it looks for and      *)
(* comes to the writing of the file, so that no event is lost with an      *)
(* exception nobody sees, whatever the tasks have made of the stream.      *)
THEOREM HandlersEndUnlessOverlappedHolds == Spec => HandlersEndUnlessOverlapped
<1> DEFINE Ends(u) == pc[u] \in Handling /\ pc'[u] \notin Handling => pc[u] = "save"
<1>1. CaughtUpInv /\ [Next]_vars => [~ overlapped => \A u \in Users : Ends(u)]_vars
  <2> SUFFICES ASSUME CaughtUpInv, Next, ~ overlapped, NEW u \in Users,
                      pc[u] \in Handling, pc'[u] \notin Handling
               PROVE  pc[u] = "save"
    OBVIOUS
  <2>0. BaseInv /\ ListsInv /\ TypeOK /\ PlaceInv
    BY DEF CaughtUpInv, ReadModelInv, BaseInv
  <2> PICK w \in Users : Step(w)
    BY NextIsStep
  <2>1. OthersStay(w)
    BY <2>0, PageFrame, PrepareFrame, CheckFrame, AppendFrame, PublishFrame, HandleFrame DEF Step
  <2>2. w = u
    BY <2>1 DEF OthersStay
  <2>3. Handle(u)
    <3>1. pc[u] \notin {"idle", "form", "sent", "commit", "append", "publish"}
      BY DEF Handling
    <3> QED
      BY <2>0, <2>2, <3>1, PageFrame, PrepareFrame, CheckFrame, AppendFrame, PublishFrame DEF Step
  <2>4. pc'[u] = "publish"
    BY <2>0, <2>3, HandleFrame DEF Handling
  <2> QED
    BY <2>0, <2>3, <2>4, LoneListFrame
<1> QED
  BY <1>1, CaughtUpInvariant, PTL DEF Spec, HandlersEndUnlessOverlapped

(* When the tasks have ended, no two events were handled at once and no    *)
(* two tasks have raced to the stream, the pages show what was stored with *)
(* an answer, once, whatever was published in between.                     *)
THEOREM CaughtUpUnlessOverlappedHolds == Spec => []CaughtUpUnlessOverlapped
<1> DEFINE answered == SubSeq(stream, 1, Len(stream) - unanswered)
<1>1. CaughtUpInv => CaughtUpUnlessOverlapped
  <2> SUFFICES ASSUME CaughtUpInv, ~ overlapped, ~ raced,
                      \A u \in Users : pc[u] \in {"idle", "form", "done"}
               PROVE  IF answered = <<>>
                        THEN listed = 0
                        ELSE /\ listed = 1
                             /\ shown = [version |-> Len(answered) - 1,
                                         fields |-> FoldLeft(Stored, Blank, answered)]
    BY DEF CaughtUpUnlessOverlapped
  <2>0. BaseInv /\ RaceFreeInv /\ ListsInv /\ ShownInv /\ TypeOK
    BY DEF CaughtUpInv, ReadModelInv, BaseInv
  <2>1. \A u \in Users : ~ Pending(u) /\ ~ Unlisted(u) /\ pc[u] # "field"
    BY DEF Pending, Unlisted, Publishing, Handling
  <2>2. shown.version = Len(stream) - 1 - unanswered
    BY <2>0, <2>1 DEF ShownInv
  <2>3. /\ stream \in Seq(Event) /\ Len(stream) \in Nat /\ unanswered \in Nat
        /\ shown.version \in Int /\ shown.version >= -1
    BY <2>0, ShownIsInStream DEF TypeOK, Note, NoNote
  <2>4. Len(stream) - unanswered \in 0 .. Len(stream) /\ shown.version + 1 = Len(stream) - unanswered
    BY <2>2, <2>3
  <2>5. Len(answered) = Len(stream) - unanswered /\ (answered = <<>> <=> Len(answered) = 0)
    <3>1. \A k \in 0 .. Len(stream) :
            SubSeq(stream, 1, k) \in Seq(Event) /\ Len(SubSeq(stream, 1, k)) = k
      BY <2>3
    <3>2. answered \in Seq(Event) /\ Len(answered) = Len(stream) - unanswered
      BY <2>4, <3>1
    <3> HIDE DEF answered
    <3> QED
      BY <3>2
  <2>6. CASE answered = <<>>
    <3>1. shown.version = -1
      BY <2>2, <2>3, <2>5, <2>6
    <3>2. shown \notin Note
      BY <3>1 DEF Note
    <3>3. ~ (listed > 0) /\ listed \in Nat
      BY <2>0, <3>2 DEF BaseInv, ListedInv, TypeOK
    <3> QED
      BY <2>6, <3>3
  <2>7. CASE answered # <<>>
    <3>1. shown.version # -1
      BY <2>4, <2>5, <2>7
    <3>2. shown \in Note
      BY <2>0, <3>1 DEF TypeOK, NoNote
    <3>3. listed = 1 /\ shown.fields = FieldsAt(stream, shown.version + 1)
      BY <2>0, <2>1, <3>2 DEF ListsInv, ListInv, ShownInv
    <3>4. shown.fields = FoldLeft(Stored, Blank, answered)
      BY <2>4, <3>3 DEF FieldsAt
    <3>5. shown.version = Len(answered) - 1
      BY <2>2, <2>3, <2>5
    <3> QED
      BY <2>7, <3>2, <3>3, <3>4, <3>5 DEF Note
  <2> QED
    BY <2>6, <2>7
<1> QED
  BY <1>1, CaughtUpInvariant, PTL
=============================================================================
