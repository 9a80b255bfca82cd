---------------------------- MODULE SessionProofs ----------------------------
(***************************************************************************)
(* What the runs of Session check, proved for any number of tasks, ids,    *)
(* instances and events, and for both kinds of session.                    *)
(*                                                                         *)
(* The invariant ties the lock to the places in the code: whoever has      *)
(* passed WaitAsync and not yet reached finally holds it, so that nobody   *)
(* else changes what is tracked until then; only Dispose does, after which *)
(* no call returns.                                                        *)
(***************************************************************************)
EXTENDS Session, SequenceTheorems, TLAPS

IsSaving(t) == pc[t] \in {"enumerating", "saving"}

(* Between WaitAsync and finally a task holds the lock. *)
LockInv ==
  \A t \in Tasks : pc[t] \in {"loading", "enumerating", "saving"} => lock = t

(* Instances that have not come into being have no events, and no instance *)
(* has more events committed than it has.                                  *)
ItemsInv ==
  \A o \in Objects : saved[o] <= made[o] /\ (o > alive => made[o] = 0)

(* What the places of a call tell of its locals. *)
CallInv ==
  \A t \in Tasks :
    /\ at[t] > 0 /\ (~ IsSaving(t) => at[t] = 1)
    /\ pc[t] = "loading" => arg[t] \in Ids
    /\ pc[t] = "saving" => arg[t] \in 1 .. alive
    /\ pc[t] \in {"idle", "waiting", "loading"} => goal[t] = Nothing
    /\ \A o \in Objects : goal[t][o] <= made[o]

(* An item is kept under the Id it has, or under none.  No two are kept    *)
(* under one Id, and at most one has none.                                 *)
KeyOK(d) == d.key \in {NoId, ident[d.item]}
Apart(d, e) ==
  /\ d.key = e.key => d.key = NoId /\ ~ master
  /\ NoId \in {ident[d.item], ident[e.item]} => ident[d.item] # ident[e.item]
KeysInv ==
  \A i, j \in DOMAIN tracked :
    KeyOK(tracked[i]) /\ (i # j => Apart(tracked[i], tracked[j]))

(* The id that is being loaded is not tracked meanwhile, but an item that  *)
(* is tracked under no Id may be given that very one.                      *)
LoadInv ==
  \A t \in Tasks : pc[t] = "loading" =>
    \A i \in DOMAIN tracked : tracked[i].key # arg[t]

(* A save has all that it has to commit in the list, and has committed     *)
(* what is in front of the place it has reached; or Dispose has cleared    *)
(* the list.                                                               *)
Listed(t) ==
  \A o \in Objects : goal[t][o] > 0 => \E i \in DOMAIN tracked : tracked[i].item = o
Passed(t) ==
  \A i \in DOMAIN tracked : i < at[t] =>
     saved[tracked[i].item] >= goal[t][tracked[i].item]
Current(t) ==
  pc[t] = "saving" => at[t] \in DOMAIN tracked /\ arg[t] = tracked[at[t]].item
SaveInv ==
  \A t \in Tasks : IsSaving(t) =>
    \/ disposed /\ ~ master /\ tracked = <<>>
    \/ Listed(t) /\ Passed(t) /\ Current(t)

SessionInv ==
  TypeOK /\ LockInv /\ ItemsInv /\ CallInv /\ KeysInv /\ LoadInv /\ SaveInv
         /\ SaveIsComplete

-----------------------------------------------------------------------------
(* Lists *)

LEMMA InsertAtProperties ==
  ASSUME NEW S, NEW s \in Seq(S), NEW e \in S, NEW i \in 1 .. Len(s) + 1
  PROVE  /\ InsertAt(s, i, e) \in Seq(S)
         /\ Len(InsertAt(s, i, e)) = Len(s) + 1
         /\ \A k \in 1 .. Len(s) + 1 :
              InsertAt(s, i, e)[k] =
                IF k < i THEN s[k] ELSE IF k = i THEN e ELSE s[k - 1]
<1> DEFINE a == SubSeq(s, 1, i - 1)
           b == SubSeq(s, i, Len(s))
           c == a \o <<e>>
<1>1. Len(s) \in Nat /\ \A k \in 1 .. Len(s) : s[k] \in S
  BY ElementOfSeq, LenProperties
<1>2. /\ a \in Seq(S) /\ Len(a) = i - 1
      /\ \A k \in 1 .. i - 1 : a[k] = s[k]
  BY <1>1
<1>3. /\ b \in Seq(S) /\ Len(b) = Len(s) - i + 1
      /\ \A k \in 1 .. Len(s) - i + 1 : b[k] = s[i + k - 1]
  BY <1>1
<1>4. /\ c \in Seq(S) /\ Len(c) = i /\ c[i] = e
      /\ \A k \in 1 .. i - 1 : c[k] = s[k]
  BY <1>1, <1>2
<1>5. InsertAt(s, i, e) = c \o b
  BY DEF InsertAt
<1> HIDE DEF b, c
<1>6. c \o b \in Seq(S) /\ Len(c \o b) = Len(s) + 1
  BY <1>1, <1>3, <1>4
<1>7. ASSUME NEW k \in 1 .. Len(s) + 1
      PROVE  (c \o b)[k] = IF k < i THEN s[k] ELSE IF k = i THEN e ELSE s[k - 1]
  <2>1. (c \o b)[k] = IF k <= i THEN c[k] ELSE b[k - i]
    BY <1>1, <1>3, <1>4
  <2>2. k > i => b[k - i] = s[k - 1]
    BY <1>1, <1>3
  <2> QED
    BY <1>1, <1>4, <2>1, <2>2
<1> QED
  BY <1>5, <1>6, <1>7

LEMMA RemoveAtProperties ==
  ASSUME NEW S, NEW s \in Seq(S), NEW i \in 1 .. Len(s)
  PROVE  /\ RemoveAt(s, i) \in Seq(S)
         /\ Len(RemoveAt(s, i)) = Len(s) - 1
         /\ \A k \in 1 .. Len(s) - 1 :
              RemoveAt(s, i)[k] = IF k < i THEN s[k] ELSE s[k + 1]
<1> DEFINE a == SubSeq(s, 1, i - 1)
           b == SubSeq(s, i + 1, Len(s))
<1>1. Len(s) \in Nat /\ \A k \in 1 .. Len(s) : s[k] \in S
  BY ElementOfSeq, LenProperties
<1>2. /\ a \in Seq(S) /\ Len(a) = i - 1
      /\ \A k \in 1 .. i - 1 : a[k] = s[k]
  BY <1>1
<1>3. /\ b \in Seq(S) /\ Len(b) = Len(s) - i
      /\ \A k \in 1 .. Len(s) - i : b[k] = s[i + k]
  BY <1>1
<1>4. RemoveAt(s, i) = a \o b
  BY DEF RemoveAt
<1> HIDE DEF a, b
<1>5. a \o b \in Seq(S) /\ Len(a \o b) = Len(s) - 1
  <2>1. a \o b \in Seq(S) /\ Len(a \o b) = Len(a) + Len(b)
    BY <1>2, <1>3, ConcatProperties
  <2> QED
    BY <1>1, <1>2, <1>3, <2>1
<1>6. ASSUME NEW k \in 1 .. Len(s) - 1
      PROVE  (a \o b)[k] = IF k < i THEN s[k] ELSE s[k + 1]
  <2>1. (a \o b)[k] = IF k < i THEN a[k] ELSE b[k - i + 1]
    BY <1>1, <1>2, <1>3
  <2>2. k >= i => b[k - i + 1] = s[k + 1]
    BY <1>1, <1>3
  <2> QED
    BY <1>1, <1>2, <2>1, <2>2
<1> QED
  BY <1>4, <1>5, <1>6

(* What Attach and GetByIdAsync do to the list: an entry more, and of two  *)
(* entries at most one is new.                                             *)
LEMMA TrackProperties ==
  ASSUME TypeOK, NEW o \in Objects, NEW id \in Ids \cup {NoId}, Track(o, id)
  PROVE  /\ tracked' \in Seq(Entry)
         /\ \A k \in DOMAIN tracked' :
              \/ tracked'[k] = [item |-> o, key |-> id]
              \/ \E j \in DOMAIN tracked : tracked'[k] = tracked[j]
         /\ \A k, l \in DOMAIN tracked' : k # l =>
              \/ /\ tracked'[k] = [item |-> o, key |-> id]
                 /\ \E j \in DOMAIN tracked : tracked'[l] = tracked[j]
              \/ /\ tracked'[l] = [item |-> o, key |-> id]
                 /\ \E j \in DOMAIN tracked : tracked'[k] = tracked[j]
              \/ \E j, m \in DOMAIN tracked :
                   j # m /\ tracked'[k] = tracked[j] /\ tracked'[l] = tracked[m]
<1> DEFINE e == [item |-> o, key |-> id]
           n == Len(tracked)
<1>1. tracked \in Seq(Entry) /\ e \in Entry
  BY DEF TypeOK, Entry
<1>2. PICK i \in 1 .. n + 1 : tracked' = InsertAt(tracked, i, e)
  BY DEF Track
<1> HIDE DEF e, n
<1>3. /\ tracked' \in Seq(Entry) /\ Len(tracked') = n + 1
      /\ \A k \in 1 .. n + 1 : tracked'[k] =
            IF k < i THEN tracked[k] ELSE IF k = i THEN e ELSE tracked[k - 1]
  <2>1. i \in 1 .. Len(tracked) + 1
    BY DEF n
  <2>2. /\ InsertAt(tracked, i, e) \in Seq(Entry)
        /\ Len(InsertAt(tracked, i, e)) = Len(tracked) + 1
        /\ \A k \in 1 .. Len(tracked) + 1 :
             InsertAt(tracked, i, e)[k] =
               IF k < i THEN tracked[k] ELSE IF k = i THEN e ELSE tracked[k - 1]
    BY <1>1, <2>1, InsertAtProperties
  <2> QED
    BY <1>2, <2>2 DEF n
<1>4. DOMAIN tracked' = 1 .. n + 1 /\ DOMAIN tracked = 1 .. n /\ n \in Nat
  BY <1>1, <1>3, LenProperties DEF n
<1> DEFINE old(k) == IF k < i THEN k ELSE k - 1
<1>5. ASSUME NEW k \in DOMAIN tracked'
      PROVE  IF k = i THEN tracked'[k] = e
                      ELSE old(k) \in DOMAIN tracked /\ tracked'[k] = tracked[old(k)]
  BY <1>3, <1>4
<1>6. ASSUME NEW k \in DOMAIN tracked', NEW l \in DOMAIN tracked', k # l,
             k # i, l # i
      PROVE  old(k) # old(l)
  BY <1>4, <1>6
<1> HIDE DEF old
<1> QED
  BY <1>3, <1>5, <1>6 DEF e

(* What Detach does to it: nothing new, and nothing is there twice that    *)
(* was there once.                                                         *)
LEMMA DetachProperties ==
  ASSUME TypeOK, NEW t \in Tasks, NEW o \in Objects, Detach(t, o),
         tracked' # tracked
  PROVE  /\ tracked' \in Seq(Entry)
         /\ \A k \in DOMAIN tracked' :
              \E j \in DOMAIN tracked : tracked'[k] = tracked[j]
         /\ \A k, l \in DOMAIN tracked' : k # l =>
              \E j, m \in DOMAIN tracked :
                 j # m /\ tracked'[k] = tracked[j] /\ tracked'[l] = tracked[m]
<1> DEFINE n == Len(tracked)
<1>1. tracked \in Seq(Entry)
  BY DEF TypeOK
<1>2. PICK i \in DOMAIN tracked : tracked' = RemoveAt(tracked, i)
  BY DEF Detach
<1>3. i \in 1 .. n /\ n \in Nat
  BY <1>1, LenProperties
<1>4. /\ tracked' \in Seq(Entry) /\ Len(tracked') = n - 1
      /\ \A k \in 1 .. n - 1 : tracked'[k] =
            IF k < i THEN tracked[k] ELSE tracked[k + 1]
  BY <1>1, <1>2, <1>3, RemoveAtProperties
<1>5. DOMAIN tracked' = 1 .. n - 1 /\ DOMAIN tracked = 1 .. n
  BY <1>1, <1>3, <1>4, LenProperties
<1> DEFINE old(k) == IF k < i THEN k ELSE k + 1
<1>6. ASSUME NEW k \in DOMAIN tracked'
      PROVE  old(k) \in DOMAIN tracked /\ tracked'[k] = tracked[old(k)]
  BY <1>3, <1>4, <1>5
<1>7. ASSUME NEW k \in DOMAIN tracked', NEW l \in DOMAIN tracked', k # l
      PROVE  old(k) # old(l)
  BY <1>3, <1>5, <1>7
<1> HIDE DEF old
<1> QED
  BY <1>4, <1>6, <1>7

-----------------------------------------------------------------------------
(* Types *)

LEMMA InitTypes == Init => TypeOK
<1> SUFFICES ASSUME Init PROVE TypeOK
  OBVIOUS
<1>1. tracked \in Seq(Entry) /\ ToSet(tracked) = {}
  BY DEF Init, ToSet
<1>2. Nothing \in [Objects -> 0 .. MaxVersion]
  BY SessionAssumption DEF Nothing
<1>3. /\ lock \in Tasks \cup {None} /\ disposed \in BOOLEAN /\ master \in BOOLEAN
      /\ stored \in [Ids -> 0 .. MaxVersion]
  BY DEF Init
<1>6. alive \in 0 .. MaxObjects /\ ident \in [Objects -> Ids \cup {NoId}]
  BY SessionAssumption DEF Init
<1>4. made \in [Objects -> 0 .. MaxVersion] /\ saved \in [Objects -> 0 .. MaxVersion]
  BY <1>2 DEF Init
<1>5. /\ pc \in [Tasks -> {"idle", "waiting", "loading", "enumerating", "saving"}
                          \cup Outcomes]
      /\ arg \in [Tasks -> Ids \cup Objects \cup {None}]
      /\ at \in [Tasks -> Nat]
      /\ goal \in [Tasks -> [Objects -> 0 .. MaxVersion]]
  BY <1>2 DEF Init
<1> QED
  BY <1>1, <1>3, <1>4, <1>5, <1>6 DEF TypeOK

(* What a session tracks has come into being. *)
LEMMA TrackedAreAlive ==
  ASSUME TypeOK, NEW i \in DOMAIN tracked
  PROVE  /\ tracked[i] \in Entry /\ i \in 1 .. Len(tracked) /\ Len(tracked) \in Nat
         /\ tracked[i].item \in 1 .. alive /\ tracked[i].item \in Objects
         /\ tracked[i].key \in Ids \cup {NoId}
<1>1. tracked \in Seq(Entry)
  BY DEF TypeOK
<1>2. i \in 1 .. Len(tracked) /\ Len(tracked) \in Nat /\ tracked[i] \in Entry
  BY <1>1, LenProperties, ElementOfSeq
<1>3. tracked[i].item <= alive
  BY DEF TypeOK, ToSet
<1> QED
  BY <1>2, <1>3, SessionAssumption DEF TypeOK, Entry, Objects

LEMMA ReturnTypes ==
  ASSUME TypeOK, NEW t \in Tasks, NEW how \in Outcomes, Return(t, how)
  PROVE  /\ lock' \in Tasks \cup {None} /\ disposed' \in BOOLEAN /\ master' \in BOOLEAN
         /\ pc' \in [Tasks -> {"idle", "waiting", "loading", "enumerating", "saving"}
                              \cup Outcomes]
         /\ arg' \in [Tasks -> Ids \cup Objects \cup {None}]
         /\ at' \in [Tasks -> Nat]
         /\ goal' \in [Tasks -> [Objects -> 0 .. MaxVersion]]
  BY DEF Return, TypeOK, Outcomes

LEMMA AliveGrows ==
  ASSUME Next
  PROVE  alive' = alive \/ alive' = alive + 1
<1>1. CASE Dispose \/ New \/ \E o \in Objects : ApplyEvent(o)
  BY <1>1 DEF Dispose, New, ApplyEvent, items
<1>2. CASE \E id \in Ids : ForeignWrite(id)
  BY <1>2 DEF ForeignWrite, items
<1>3. CASE \E t \in Tasks : Begin(t) \/ Refused(t) \/ Resume(t)
  BY <1>3 DEF Begin, Refused, Resume, items
<1>4. CASE \E t \in Tasks : Enter(t)
  <2>1. UNCHANGED items
    BY <1>4 DEF Enter, GetUntracked, GetTracked, Attach, Detach, DetachAll, BeginSave
  <2> QED
    BY <2>1 DEF items
<1>5. CASE \E t \in Tasks : Inside(t)
  BY <1>5 DEF Inside, Loaded, LoadFails, NextItem, SaveEnds, SaveInterrupted,
     SaveItem, SaveItemFails, items
<1> QED
  BY <1>1, <1>2, <1>3, <1>4, <1>5 DEF Next

(* The part of TypeOK that is about the list. *)
ListOK == tracked \in Seq(Entry) /\ \A e \in ToSet(tracked) : e.item <= alive

LEMMA ListStep ==
  ASSUME TypeOK, CallInv, Next
  PROVE  ListOK'
<1>1. ListOK /\ alive \in Nat /\ \A o \in Objects : o \in Nat
  BY SessionAssumption DEF TypeOK, ListOK, Objects
<1>2. CASE UNCHANGED tracked
  <2>1. alive' >= alive
    BY <1>1, AliveGrows
  <2>2. \A i \in DOMAIN tracked : tracked[i].item \in Nat
    BY <1>1, TrackedAreAlive DEF TypeOK
  <2>3. \A e \in ToSet(tracked) : e.item <= alive'
    BY <1>1, <2>1, <2>2, AliveGrows DEF ListOK, ToSet
  <2> QED
    BY <1>1, <1>2, <2>3 DEF ListOK
<1>3. CASE tracked' = <<>>
  BY <1>3 DEF ListOK, ToSet
<1>4. ASSUME NEW t \in Tasks, Loaded(t)
      PROVE  ListOK'
  <2>1. alive' = alive + 1 /\ alive' \in Objects /\ arg[t] \in Ids
    BY <1>1, <1>4, SessionAssumption DEF Loaded, Objects, TypeOK, CallInv
  <2>2. Track(alive', arg[t])
    BY <1>4 DEF Loaded
  <2>3. /\ tracked' \in Seq(Entry)
        /\ \A k \in DOMAIN tracked' :
             \/ tracked'[k] = [item |-> alive', key |-> arg[t]]
             \/ \E j \in DOMAIN tracked : tracked'[k] = tracked[j]
    BY <2>1, <2>2, TrackProperties
  <2>4. \A k \in DOMAIN tracked' : tracked'[k].item <= alive'
    BY <1>1, <2>1, <2>3, TrackedAreAlive
  <2> QED
    BY <2>3, <2>4 DEF ListOK, ToSet
<1>5. ASSUME NEW t \in Tasks, NEW o \in 1 .. alive, Attach(t, o),
             ~ UNCHANGED tracked
      PROVE  ListOK'
  <2>1. alive' = alive /\ o \in Objects /\ ident[o] \in Ids \cup {NoId}
    BY <1>1, <1>5, SessionAssumption DEF Attach, Objects, TypeOK, items
  <2>2. Track(o, ident[o])
    BY <1>5 DEF Attach
  <2>3. /\ tracked' \in Seq(Entry)
        /\ \A k \in DOMAIN tracked' :
             \/ tracked'[k] = [item |-> o, key |-> ident[o]]
             \/ \E j \in DOMAIN tracked : tracked'[k] = tracked[j]
    BY <2>1, <2>2, TrackProperties
  <2>4. \A k \in DOMAIN tracked' : tracked'[k].item <= alive'
    BY <1>1, <2>1, <2>3, TrackedAreAlive
  <2> QED
    BY <2>3, <2>4 DEF ListOK, ToSet
<1>6. ASSUME NEW t \in Tasks, NEW o \in 1 .. alive, Detach(t, o),
             ~ UNCHANGED tracked
      PROVE  ListOK'
  <2>1. alive' = alive /\ o \in Objects
    BY <1>1, <1>6, SessionAssumption DEF Detach, Objects, TypeOK, items
  <2>2. /\ tracked' \in Seq(Entry)
        /\ \A k \in DOMAIN tracked' :
             \E j \in DOMAIN tracked : tracked'[k] = tracked[j]
    BY <1>6, <2>1, DetachProperties
  <2>3. \A k \in DOMAIN tracked' : tracked'[k].item <= alive'
    BY <1>1, <2>1, <2>2, TrackedAreAlive
  <2> QED
    BY <2>2, <2>3 DEF ListOK, ToSet
<1>7. UNCHANGED tracked \/ tracked' = <<>>
        \/ \E t \in Tasks : \/ Loaded(t)
                           \/ \E o \in 1 .. alive : Attach(t, o) \/ Detach(t, o)
  BY DEF Next, New, ApplyEvent, ForeignWrite, Dispose, Enter, Inside, Begin,
     Refused, Resume, GetUntracked, GetTracked, DetachAll, BeginSave, LoadFails,
     NextItem, SaveEnds, SaveInterrupted, SaveItem, SaveItemFails, items, session
<1> QED
  BY <1>2, <1>3, <1>4, <1>5, <1>6, <1>7

LEMMA TypeStep ==
  ASSUME TypeOK, CallInv, Next
  PROVE  TypeOK'
<1>1. ListOK'
  BY ListStep
<1>2. CASE New \/ Dispose
  <2>1. lock' \in Tasks \cup {None} /\ disposed' \in BOOLEAN /\ master' \in BOOLEAN
    BY <1>2 DEF TypeOK, New, Dispose, session
  <2>3. alive \in 0 .. MaxObjects
    BY DEF TypeOK
  <2>4. alive' \in 0 .. MaxObjects
    BY <1>2, <2>3, SessionAssumption DEF New, Dispose, items
  <2>2. UNCHANGED <<ident, made, saved, stored, pc, arg, at, goal>>
    BY <1>2 DEF New, Dispose, items, tasks
  <2> QED
    BY <1>1, <2>1, <2>2, <2>4 DEF TypeOK, ListOK
<1>3. CASE \E o \in Objects : ApplyEvent(o)
  BY <1>1, <1>3, SessionAssumption DEF TypeOK, ListOK, ApplyEvent, session, tasks
<1>4. CASE \E id \in Ids : ForeignWrite(id)
  BY <1>1, <1>4, SessionAssumption DEF TypeOK, ListOK, ForeignWrite, items, session, tasks
<1>5. ASSUME NEW t \in Tasks, Begin(t) \/ Refused(t) \/ Resume(t)
      PROVE  TypeOK'
  <2>1. Nothing \in [Objects -> 0 .. MaxVersion]
    BY SessionAssumption DEF Nothing
  <2> QED
    BY <1>1, <1>5, <2>1
       DEF TypeOK, ListOK, Begin, Refused, Resume, Outcomes, items, session
<1>6. ASSUME NEW t \in Tasks, NEW how \in Outcomes, Return(t, how),
             UNCHANGED <<items, stored>>
      PROVE  TypeOK'
  BY <1>1, <1>6, ReturnTypes DEF TypeOK, ListOK, items
<1>7. ASSUME NEW t \in Tasks, Enter(t)
      PROVE  TypeOK'
  <2>1. CASE \E id \in Ids : GetUntracked(t, id)
    BY <1>1, <2>1 DEF TypeOK, ListOK, GetUntracked, items
  <2>2. CASE BeginSave(t)
    <3>1. goal' \in [Tasks -> [Objects -> 0 .. MaxVersion]]
      BY <2>2, SessionAssumption DEF BeginSave, TypeOK
    <3> QED
      BY <1>1, <2>2, <3>1 DEF TypeOK, ListOK, BeginSave, items
  <2>3. CASE \/ \E id \in Ids : GetTracked(t, id)
             \/ \E o \in 1 .. alive : Attach(t, o) \/ Detach(t, o)
             \/ DetachAll(t)
    <3>1. \E how \in Outcomes : Return(t, how) /\ UNCHANGED <<items, stored>>
      BY <2>3 DEF GetTracked, Attach, Detach, DetachAll, Outcomes
    <3> QED
      BY <1>6, <3>1
  <2> QED
    BY <1>7, <2>1, <2>2, <2>3 DEF Enter
<1>8. ASSUME NEW t \in Tasks, Inside(t)
      PROVE  TypeOK'
  <2>1. CASE Loaded(t)
    <3>1. arg[t] \in Ids /\ alive' \in 0 .. MaxObjects /\ "ok" \in Outcomes
      BY <2>1, SessionAssumption DEF Loaded, CallInv, TypeOK, Outcomes
    <3>2. /\ ident' \in [Objects -> Ids \cup {NoId}]
          /\ made' \in [Objects -> 0 .. MaxVersion]
          /\ saved' \in [Objects -> 0 .. MaxVersion]
          /\ stored' \in [Ids -> 0 .. MaxVersion]
          /\ Return(t, "ok")
      BY <2>1, <3>1 DEF Loaded, TypeOK
    <3> QED
      BY <1>1, <3>1, <3>2, ReturnTypes DEF TypeOK, ListOK
  <2>2. CASE LoadFails(t) \/ SaveEnds(t) \/ SaveInterrupted(t)
    <3>1. \E how \in Outcomes : Return(t, how) /\ UNCHANGED <<items, stored>>
      BY <2>2 DEF LoadFails, SaveEnds, SaveInterrupted, Outcomes
    <3> QED
      BY <1>6, <3>1
  <2>3. CASE NextItem(t)
    <3>1. at[t] \in DOMAIN tracked
      BY <2>3, LenProperties DEF NextItem, CallInv, TypeOK
    <3>2. tracked[at[t]].item \in Objects
      BY <3>1, TrackedAreAlive
    <3> QED
      BY <1>1, <2>3, <3>2 DEF TypeOK, ListOK, NextItem, items, session
  <2>4. CASE SaveItem(t)
    <3>1. arg[t] \in Objects
      BY <2>4, SessionAssumption DEF SaveItem, CallInv, TypeOK, Objects
    <3>2. /\ saved' \in [Objects -> 0 .. MaxVersion]
          /\ stored' \in [Ids -> 0 .. MaxVersion]
      BY <2>4, <3>1 DEF TypeOK, SaveItem
    <3>3. /\ pc' \in [Tasks -> {"idle", "waiting", "loading", "enumerating", "saving"}
                                \cup Outcomes]
          /\ at' \in [Tasks -> Nat]
      BY <2>4 DEF TypeOK, SaveItem
    <3>4. UNCHANGED <<alive, ident, made, tracked, lock, disposed, master, arg, goal>>
      BY <2>4 DEF SaveItem, session
    <3> QED
      BY <1>1, <3>2, <3>3, <3>4 DEF TypeOK, ListOK
  <2>5. CASE SaveItemFails(t)
    <3>1. arg[t] \in Objects /\ "threw" \in Outcomes
      BY <2>5, SessionAssumption DEF SaveItemFails, CallInv, TypeOK, Objects, Outcomes
    <3>2. stored' \in [Ids -> 0 .. MaxVersion] /\ UNCHANGED items /\ Return(t, "threw")
      BY <2>5, <3>1 DEF SaveItemFails, TypeOK
    <3> QED
      BY <1>1, <3>1, <3>2, ReturnTypes DEF TypeOK, ListOK, items
  <2> QED
    BY <1>8, <2>1, <2>2, <2>3, <2>4, <2>5 DEF Inside
<1> QED
  BY <1>2, <1>3, <1>4, <1>5, <1>7, <1>8 DEF Next

-----------------------------------------------------------------------------
(* The lock *)

LEMMA LockStep ==
  ASSUME TypeOK, LockInv, Next
  PROVE  LockInv'
<1>1. CASE New \/ Dispose \/ (\E o \in Objects : ApplyEvent(o))
           \/ \E id \in Ids : ForeignWrite(id)
  BY <1>1 DEF LockInv, New, Dispose, ApplyEvent, ForeignWrite, session, tasks
<1>2. ASSUME NEW t \in Tasks, Begin(t) \/ Refused(t) \/ Resume(t)
      PROVE  LockInv'
  BY <1>2 DEF TypeOK, LockInv, Begin, Refused, Resume, Outcomes, session
<1>3. ASSUME NEW t \in Tasks, NEW how \in Outcomes, Return(t, how), lock \in {None, t}
      PROVE  LockInv'
  BY <1>3, SessionAssumption DEF TypeOK, LockInv, Return, Outcomes
<1>4. ASSUME NEW t \in Tasks, Enter(t)
      PROVE  LockInv'
  <2>1. CASE BeginSave(t) \/ \E id \in Ids : GetUntracked(t, id)
    BY <2>1, SessionAssumption DEF TypeOK, LockInv, BeginSave, GetUntracked, Enters
  <2>2. CASE \/ \E id \in Ids : GetTracked(t, id)
             \/ \E o \in 1 .. alive : Attach(t, o) \/ Detach(t, o)
             \/ DetachAll(t)
    <3>1. \E how \in Outcomes : Return(t, how)
      BY <2>2 DEF GetTracked, Attach, Detach, DetachAll, Outcomes
    <3>2. lock = None
      BY <2>2 DEF GetTracked, Attach, Detach, DetachAll, Enters
    <3> QED
      BY <1>3, <3>1, <3>2
  <2> QED
    BY <1>4, <2>1, <2>2 DEF Enter
<1>5. ASSUME NEW t \in Tasks, Inside(t)
      PROVE  LockInv'
  <2>1. lock = t
    BY <1>5 DEF LockInv, Inside, Loaded, LoadFails, NextItem, SaveEnds,
       SaveInterrupted, SaveItem, SaveItemFails
  <2>2. CASE NextItem(t) \/ SaveItem(t)
    BY <2>1, <2>2 DEF TypeOK, LockInv, NextItem, SaveItem, session
  <2>3. CASE Loaded(t) \/ LoadFails(t) \/ SaveEnds(t) \/ SaveInterrupted(t)
             \/ SaveItemFails(t)
    <3>1. \E how \in Outcomes : Return(t, how)
      BY <2>3 DEF Loaded, LoadFails, SaveEnds, SaveInterrupted, SaveItemFails, Outcomes
    <3> QED
      BY <1>3, <2>1, <3>1
  <2> QED
    BY <1>5, <2>2, <2>3 DEF Inside
<1> QED
  BY <1>1, <1>2, <1>4, <1>5 DEF Next

(* While a task holds the lock, its own steps and Dispose apart, nothing   *)
(* happens to the list and to its locals.                                  *)
Holds(u) == pc[u] \in {"loading", "enumerating", "saving"}
LEMMA HoldersFrame ==
  ASSUME TypeOK, LockInv, Next, NEW u \in Tasks, Holds(u)
  PROVE  \/ Dispose
         \/ Inside(u)
         \/ /\ UNCHANGED <<tracked, disposed, master>>
            /\ UNCHANGED <<pc[u], arg[u], at[u], goal[u]>>
<1>1. lock = u /\ lock # None
  BY SessionAssumption DEF LockInv, Holds
<1>2. CASE New \/ (\E o \in Objects : ApplyEvent(o)) \/ \E id \in Ids : ForeignWrite(id)
  BY <1>2 DEF New, ApplyEvent, ForeignWrite, session, tasks
<1>3. ASSUME NEW t \in Tasks, Begin(t) \/ Refused(t) \/ Resume(t)
      PROVE  /\ UNCHANGED <<tracked, disposed, master>>
             /\ UNCHANGED <<pc[u], arg[u], at[u], goal[u]>>
  <2>1. t # u
    BY <1>3 DEF Begin, Refused, Resume, Holds, Outcomes
  <2> QED
    BY <1>3, <2>1 DEF TypeOK, Begin, Refused, Resume, session
<1>4. ASSUME NEW t \in Tasks
      PROVE  ~ Enter(t)
  BY <1>1 DEF Enter, GetUntracked, GetTracked, Attach, Detach, DetachAll,
     BeginSave, Enters
<1>5. ASSUME NEW t \in Tasks, Inside(t)
      PROVE  t = u
  BY <1>1, <1>5 DEF LockInv, Inside, Loaded, LoadFails, NextItem, SaveEnds,
     SaveInterrupted, SaveItem, SaveItemFails
<1> QED
  BY <1>2, <1>3, <1>4, <1>5 DEF Next

(* A task comes to hold the lock over an await in two calls.               *)
LEMMA HoldersEnter ==
  ASSUME TypeOK, Next, NEW u \in Tasks, ~ Holds(u), Holds(u)'
  PROVE  BeginSave(u) \/ \E id \in Ids : GetUntracked(u, id)
<1>1. CASE New \/ Dispose \/ (\E o \in Objects : ApplyEvent(o))
           \/ \E id \in Ids : ForeignWrite(id)
  BY <1>1 DEF New, Dispose, ApplyEvent, ForeignWrite, tasks, Holds
<1>2. ASSUME NEW t \in Tasks, Begin(t) \/ Refused(t) \/ Resume(t)
      PROVE  FALSE
  BY <1>2 DEF TypeOK, Begin, Refused, Resume, Holds
<1>3. ASSUME NEW t \in Tasks, NEW how \in Outcomes, Return(t, how)
      PROVE  FALSE
  BY <1>3 DEF TypeOK, Return, Holds, Outcomes
<1>4. ASSUME NEW t \in Tasks, Inside(t)
      PROVE  FALSE
  <2>1. NextItem(t) \/ SaveItem(t)
    BY <1>3, <1>4 DEF Inside, Loaded, LoadFails, SaveEnds, SaveInterrupted,
       SaveItemFails, Outcomes
  <2> QED
    BY <2>1 DEF TypeOK, NextItem, SaveItem, Holds
<1>5. ASSUME NEW t \in Tasks, Enter(t)
      PROVE  BeginSave(u) \/ \E id \in Ids : GetUntracked(u, id)
  <2>1. BeginSave(t) \/ \E id \in Ids : GetUntracked(t, id)
    BY <1>3, <1>5 DEF Enter, GetTracked, Attach, Detach, DetachAll, Outcomes
  <2>2. t = u
    BY <2>1 DEF TypeOK, BeginSave, GetUntracked, Holds
  <2> QED
    BY <2>1, <2>2
<1> QED
  BY <1>1, <1>2, <1>4, <1>5 DEF Next

-----------------------------------------------------------------------------
(* The items *)

(* What changes the items. *)
LEMMA ItemChanges ==
  ASSUME Next
  PROVE  \/ UNCHANGED items
         \/ New \/ \E o \in Objects : ApplyEvent(o)
         \/ \E t \in Tasks : Loaded(t) \/ SaveItem(t)
  BY DEF Next, Dispose, ForeignWrite, Enter, Inside, Begin, Refused, Resume,
     GetUntracked, GetTracked, Attach, Detach, DetachAll, BeginSave, LoadFails,
     NextItem, SaveEnds, SaveInterrupted, SaveItemFails, items

(* Loading makes an instance that was not there. *)
LEMMA LoadedItem ==
  ASSUME TypeOK, CallInv, NEW t \in Tasks, Loaded(t)
  PROVE  LET n == alive + 1
         IN /\ n \in Objects /\ alive' = n /\ arg[t] \in Ids
            /\ made'[n] = stored[arg[t]] /\ saved'[n] = stored[arg[t]]
            /\ ident'[n] = arg[t]
            /\ \A o \in Objects \ {n} : /\ made'[o] = made[o] /\ saved'[o] = saved[o]
                                        /\ ident'[o] = ident[o]
<1>1. alive + 1 \in Objects /\ alive' = alive + 1 /\ arg[t] \in Ids
  BY SessionAssumption DEF Loaded, Objects, TypeOK, CallInv
<1> QED
  BY <1>1 DEF Loaded, TypeOK

LEMMA ItemsStep ==
  ASSUME TypeOK, CallInv, ItemsInv, Next
  PROVE  /\ ItemsInv'
         /\ \A o \in Objects : made[o] <= made'[o] /\ saved[o] <= saved'[o]
<1>1. /\ alive \in Nat
      /\ \A o \in Objects : o \in Nat /\ made[o] \in Nat /\ saved[o] \in Nat
  BY SessionAssumption DEF TypeOK, Objects
<1>2. CASE UNCHANGED items
  BY <1>1, <1>2 DEF ItemsInv, items
<1>3. CASE New
  BY <1>1, <1>3 DEF ItemsInv, New
<1>4. CASE \E o \in Objects : ApplyEvent(o)
  BY <1>1, <1>4 DEF ItemsInv, ApplyEvent, TypeOK
<1>5. ASSUME NEW t \in Tasks, Loaded(t)
      PROVE  /\ ItemsInv'
             /\ \A o \in Objects : made[o] <= made'[o] /\ saved[o] <= saved'[o]
  <2>1. made[alive + 1] = 0 /\ saved[alive + 1] = 0
    BY <1>1, <1>5, LoadedItem DEF ItemsInv
  <2>2. stored[arg[t]] \in Nat
    BY <1>5, LoadedItem, SessionAssumption DEF TypeOK
  <2> QED
    BY <1>1, <1>5, <2>1, <2>2, LoadedItem DEF ItemsInv
<1>6. ASSUME NEW t \in Tasks, SaveItem(t)
      PROVE  /\ ItemsInv'
             /\ \A o \in Objects : made[o] <= made'[o] /\ saved[o] <= saved'[o]
  BY <1>1, <1>6 DEF ItemsInv, SaveItem, TypeOK
<1> QED
  BY <1>2, <1>3, <1>4, <1>5, <1>6, ItemChanges

-----------------------------------------------------------------------------
(* The calls *)

LEMMA CallStep ==
  ASSUME TypeOK, CallInv, ItemsInv, Next, NEW u \in Tasks
  PROVE  /\ at'[u] > 0 /\ (~ IsSaving(u)' => at'[u] = 1)
         /\ pc'[u] = "loading" => arg'[u] \in Ids
         /\ pc'[u] = "saving" => arg'[u] \in 1 .. alive'
         /\ pc'[u] \in {"idle", "waiting", "loading"} => goal'[u] = Nothing
         /\ \A o \in Objects : goal'[u][o] <= made'[o]
<1> DEFINE Good == /\ at'[u] > 0 /\ (~ IsSaving(u)' => at'[u] = 1)
                   /\ pc'[u] = "loading" => arg'[u] \in Ids
                   /\ pc'[u] = "saving" => arg'[u] \in 1 .. alive'
                   /\ pc'[u] \in {"idle", "waiting", "loading"} => goal'[u] = Nothing
                   /\ \A o \in Objects : goal'[u][o] <= made'[o]
<1>1. /\ alive \in Nat /\ at[u] \in Nat
      /\ \A o \in Objects : /\ o \in Nat /\ made[o] \in Nat /\ made'[o] \in Nat
                            /\ goal[u][o] \in Nat /\ Nothing[o] = 0
      /\ alive' = alive \/ alive' = alive + 1
  <2>1. made' \in [Objects -> 0 .. MaxVersion]
    BY TypeStep DEF TypeOK
  <2>2. goal[u] \in [Objects -> 0 .. MaxVersion] /\ made \in [Objects -> 0 .. MaxVersion]
        /\ alive \in Nat /\ at[u] \in Nat
    BY SessionAssumption DEF TypeOK
  <2> QED
    BY <2>1, <2>2, AliveGrows, SessionAssumption DEF Objects, Nothing
<1>2. \A o \in Objects : goal[u][o] <= made'[o] /\ Nothing[o] <= made'[o]
  BY <1>1, ItemsStep DEF CallInv
<1>3. CASE UNCHANGED <<pc[u], arg[u], at[u], goal[u]>>
  BY <1>1, <1>2, <1>3 DEF CallInv, IsSaving
<1>4. ASSUME Begin(u) \/ Refused(u) \/ Resume(u)
      PROVE  Good
  BY <1>1, <1>2, <1>4 DEF CallInv, IsSaving, Begin, Refused, Resume, Outcomes, TypeOK
<1>5. ASSUME NEW how \in Outcomes, Return(u, how)
      PROVE  Good
  BY <1>1, <1>2, <1>5 DEF IsSaving, Return, Outcomes, TypeOK
<1>6. ASSUME Enter(u)
      PROVE  Good
  <2>1. CASE \E id \in Ids : GetUntracked(u, id)
    BY <1>1, <1>2, <2>1 DEF CallInv, IsSaving, GetUntracked, Enters, TypeOK
  <2>2. CASE BeginSave(u)
    <3>1. \A o \in Objects : goal'[u][o] \in {0, made[o]}
      BY <2>2 DEF BeginSave, TypeOK
    <3>2. \A o \in Objects : goal'[u][o] <= made'[o]
      BY <1>1, <3>1, ItemsStep
    <3> QED
      BY <1>1, <2>2, <3>2 DEF CallInv, IsSaving, BeginSave, Enters, TypeOK
  <2> QED
    BY <1>5, <1>6, <2>1, <2>2 DEF Enter, GetTracked, Attach, Detach, DetachAll, Outcomes
<1>7. ASSUME Inside(u)
      PROVE  Good
  <2>1. CASE NextItem(u)
    <3>1. at[u] \in DOMAIN tracked
      BY <2>1, LenProperties DEF NextItem, CallInv, TypeOK
    <3>2. tracked[at[u]].item \in 1 .. alive
      BY <3>1, TrackedAreAlive
    <3> QED
      BY <1>1, <1>2, <2>1, <3>2 DEF CallInv, IsSaving, NextItem, TypeOK, items
  <2>2. CASE SaveItem(u)
    BY <1>1, <1>2, <2>2 DEF CallInv, IsSaving, SaveItem, TypeOK
  <2> QED
    BY <1>5, <1>7, <2>1, <2>2 DEF Inside, Loaded, LoadFails, SaveEnds,
       SaveInterrupted, SaveItemFails, Outcomes
<1>8. ASSUME NEW t \in Tasks, t # u,
             Begin(t) \/ Refused(t) \/ Resume(t) \/ Enter(t) \/ Inside(t)
      PROVE  UNCHANGED <<pc[u], arg[u], at[u], goal[u]>>
  <2>1. CASE Begin(t) \/ Refused(t) \/ Resume(t)
    BY <1>8, <2>1 DEF TypeOK, Begin, Refused, Resume
  <2>2. ASSUME NEW how \in Outcomes, Return(t, how)
        PROVE  UNCHANGED <<pc[u], arg[u], at[u], goal[u]>>
    BY <1>8, <2>2 DEF TypeOK, Return
  <2>3. CASE BeginSave(t) \/ \E id \in Ids : GetUntracked(t, id)
    BY <1>8, <2>3 DEF TypeOK, BeginSave, GetUntracked
  <2>4. CASE NextItem(t) \/ SaveItem(t)
    BY <1>8, <2>4 DEF TypeOK, NextItem, SaveItem
  <2> QED
    BY <1>8, <2>1, <2>2, <2>3, <2>4 DEF Enter, Inside, GetTracked, Attach, Detach,
       DetachAll, Loaded, LoadFails, SaveEnds, SaveInterrupted, SaveItemFails, Outcomes
<1>9. CASE New \/ Dispose \/ (\E o \in Objects : ApplyEvent(o))
           \/ \E id \in Ids : ForeignWrite(id)
  BY <1>3, <1>9 DEF New, Dispose, ApplyEvent, ForeignWrite, tasks
<1> HIDE DEF Good
<1>10. Good
  BY <1>3, <1>4, <1>6, <1>7, <1>8, <1>9 DEF Next, Good
<1> QED
  BY <1>10 DEF Good

-----------------------------------------------------------------------------
(* The keys of the list *)

(* Keys survive what does not touch the list, and events that give items   *)
(* their Ids.                                                              *)
LEMMA KeysOfSameList ==
  ASSUME TypeOK, KeysInv, UNCHANGED <<tracked, master>>,
         \A i \in DOMAIN tracked :
           LET o == tracked[i].item
           IN ident'[o] = ident[o] \/ (ident[o] = NoId /\ ident'[o] # NoId)
  PROVE  KeysInv'
<1>1. ASSUME NEW i \in DOMAIN tracked, NEW j \in DOMAIN tracked
      PROVE  KeyOK(tracked[i])' /\ (i # j => Apart(tracked[i], tracked[j])')
  <2> DEFINE x == tracked[i].item
             y == tracked[j].item
  <2>1. /\ ident'[x] = ident[x] \/ (ident[x] = NoId /\ ident'[x] # NoId)
        /\ ident'[y] = ident[y] \/ (ident[y] = NoId /\ ident'[y] # NoId)
    OBVIOUS
  <2>2. KeyOK(tracked[i]) /\ (i # j => Apart(tracked[i], tracked[j]))
    BY DEF KeysInv
  <2>3. KeyOK(tracked[i])'
    BY <2>1, <2>2 DEF KeyOK
  <2>4. i # j => Apart(tracked[i], tracked[j])'
    BY <2>1, <2>2 DEF Apart
  <2> QED
    BY <2>3, <2>4
<1> QED
  BY <1>1 DEF KeysInv

(* And one more entry that is apart from all there are. *)
LEMMA KeysOfLongerList ==
  ASSUME TypeOK, KeysInv, UNCHANGED master,
         NEW o \in Objects, NEW id \in Ids \cup {NoId}, Track(o, id),
         \A i \in DOMAIN tracked : ident'[tracked[i].item] = ident[tracked[i].item],
         id \in {NoId, ident'[o]},
         \A i \in DOMAIN tracked :
           /\ tracked[i].key = id => id = NoId /\ ~ master
           /\ NoId \in {ident[tracked[i].item], ident'[o]} =>
                ident[tracked[i].item] # ident'[o]
  PROVE  KeysInv'
<1> DEFINE e == [item |-> o, key |-> id]
<1>1. /\ \A k \in DOMAIN tracked' :
           tracked'[k] = e \/ \E j \in DOMAIN tracked : tracked'[k] = tracked[j]
      /\ \A k, l \in DOMAIN tracked' : k # l =>
           \/ tracked'[k] = e /\ \E j \in DOMAIN tracked : tracked'[l] = tracked[j]
           \/ tracked'[l] = e /\ \E j \in DOMAIN tracked : tracked'[k] = tracked[j]
           \/ \E j, m \in DOMAIN tracked :
                j # m /\ tracked'[k] = tracked[j] /\ tracked'[l] = tracked[m]
  BY TrackProperties
<1>2. e.item = o /\ e.key = id
  OBVIOUS
<1> HIDE DEF e
<1>3. ASSUME NEW k \in DOMAIN tracked'
      PROVE  KeyOK(tracked[k])'
  <2>1. CASE tracked'[k] = e
    BY <1>2, <2>1 DEF KeyOK
  <2>2. ASSUME NEW j \in DOMAIN tracked, tracked'[k] = tracked[j]
        PROVE  KeyOK(tracked[k])'
    BY <2>2 DEF KeyOK, KeysInv
  <2> QED
    BY <1>1, <2>1, <2>2
<1>4. ASSUME NEW k \in DOMAIN tracked', NEW l \in DOMAIN tracked', k # l
      PROVE  Apart(tracked[k], tracked[l])'
  <2>1. ASSUME NEW j \in DOMAIN tracked, tracked'[k] = e, tracked'[l] = tracked[j]
        PROVE  Apart(tracked[k], tracked[l])'
    BY <1>2, <2>1 DEF Apart
  <2>2. ASSUME NEW j \in DOMAIN tracked, tracked'[l] = e, tracked'[k] = tracked[j]
        PROVE  Apart(tracked[k], tracked[l])'
    BY <1>2, <2>2 DEF Apart
  <2>3. ASSUME NEW j \in DOMAIN tracked, NEW m \in DOMAIN tracked, j # m,
               tracked'[k] = tracked[j], tracked'[l] = tracked[m]
        PROVE  Apart(tracked[k], tracked[l])'
    BY <2>3 DEF Apart, KeysInv
  <2> QED
    BY <1>1, <1>4, <2>1, <2>2, <2>3
<1> QED
  BY <1>3, <1>4 DEF KeysInv

LEMMA KeysStep ==
  ASSUME TypeOK, CallInv, KeysInv, LoadInv, Next
  PROVE  KeysInv'
<1>1. /\ alive \in Nat /\ NoId \notin Ids
      /\ \A o \in Objects : ident[o] \in Ids \cup {NoId}
  BY SessionAssumption DEF TypeOK
<1>2. CASE UNCHANGED <<tracked, ident, master>>
  BY <1>2, KeysOfSameList
<1>3. ASSUME NEW o \in Objects, ApplyEvent(o)
      PROVE  KeysInv'
  <2>1. UNCHANGED <<tracked, master>>
    BY <1>3 DEF ApplyEvent, session
  <2>2. \A x \in Objects : ident'[x] = ident[x] \/ (ident[x] = NoId /\ ident'[x] # NoId)
    BY <1>1, <1>3 DEF ApplyEvent, TypeOK
  <2> QED
    BY <2>1, <2>2, TrackedAreAlive, KeysOfSameList
<1>4. CASE tracked' = <<>>
  BY <1>4 DEF KeysInv
<1>5. ASSUME NEW t \in Tasks, Loaded(t)
      PROVE  KeysInv'
  <2> DEFINE n == alive + 1
             id == arg[t]
  <2>1. /\ n \in Objects /\ alive' = n /\ id \in Ids /\ ident'[n] = id
        /\ \A o \in Objects \ {n} : ident'[o] = ident[o]
    BY <1>5, LoadedItem
  <2>2. Track(n, id) /\ UNCHANGED master /\ pc[t] = "loading"
    BY <1>5, <2>1 DEF Loaded, Return
  <2>3. ASSUME NEW i \in DOMAIN tracked
        PROVE  /\ ident'[tracked[i].item] = ident[tracked[i].item]
               /\ tracked[i].key # id
    <3>1. tracked[i].item \in Objects \ {n}
      BY <1>1, TrackedAreAlive
    <3> QED
      BY <2>1, <2>2, <3>1 DEF LoadInv
  <2>4. NoId # id /\ id \in Ids \cup {NoId} /\ id \in {NoId, ident'[n]}
    BY <1>1, <2>1
  <2>5. \A i \in DOMAIN tracked :
           /\ tracked[i].key = id => id = NoId /\ ~ master
           /\ NoId \in {ident[tracked[i].item], ident'[n]} =>
                ident[tracked[i].item] # ident'[n]
    BY <2>1, <2>3, <2>4
  <2> HIDE DEF n, id
  <2> QED
    BY <2>1, <2>2, <2>3, <2>4, <2>5, KeysOfLongerList
<1>6. ASSUME NEW t \in Tasks, NEW o \in 1 .. alive, Attach(t, o), ~ UNCHANGED tracked
      PROVE  KeysInv'
  <2> DEFINE id == ident[o]
  <2>1. /\ o \in Objects /\ id \in Ids \cup {NoId} /\ UNCHANGED ident
    BY <1>1, <1>6, SessionAssumption DEF Attach, Objects, TypeOK, items
  <2>2. Track(o, id) /\ UNCHANGED master /\ ~ Tracks(id)
    BY <1>6 DEF Attach, Return
  <2>3. ASSUME NEW i \in DOMAIN tracked
        PROVE  /\ tracked[i].key = id => id = NoId /\ ~ master
               /\ NoId \in {ident[tracked[i].item], id} => ident[tracked[i].item] # id
    <3>1. Name(tracked[i]) # id
      BY <2>2 DEF Tracks, ToSet
    <3>2. KeyOK(tracked[i])
      BY DEF KeysInv
    <3> QED
      BY <3>1, <3>2 DEF Name, KeyOK
  <2> HIDE DEF id
  <2>4. id = ident'[o]
    BY <2>1 DEF id
  <2> QED
    BY <2>1, <2>2, <2>3, <2>4, KeysOfLongerList
<1>7. ASSUME NEW t \in Tasks, NEW o \in 1 .. alive, Detach(t, o), ~ UNCHANGED tracked
      PROVE  KeysInv'
  <2>1. o \in Objects /\ UNCHANGED <<ident, master>>
    BY <1>1, <1>7, SessionAssumption DEF Detach, Return, Objects, TypeOK, items
  <2>2. /\ \A k \in DOMAIN tracked' : \E j \in DOMAIN tracked : tracked'[k] = tracked[j]
        /\ \A k, l \in DOMAIN tracked' : k # l =>
             \E j, m \in DOMAIN tracked :
                j # m /\ tracked'[k] = tracked[j] /\ tracked'[l] = tracked[m]
    BY <1>7, <2>1, DetachProperties
  <2> QED
    BY <2>1, <2>2 DEF KeysInv, KeyOK, Apart
<1>8. \/ UNCHANGED <<tracked, ident, master>> \/ tracked' = <<>>
      \/ \E o \in Objects : ApplyEvent(o)
      \/ \E t \in Tasks : \/ Loaded(t)
                         \/ \E o \in 1 .. alive : Attach(t, o) \/ Detach(t, o)
  BY DEF Next, New, ForeignWrite, Dispose, Enter, Inside, Begin, Return,
     Refused, Resume, GetUntracked, GetTracked, DetachAll, BeginSave, LoadFails,
     NextItem, SaveEnds, SaveInterrupted, SaveItem, SaveItemFails, items, session
<1>9. ASSUME NEW t \in Tasks, NEW o \in 1 .. alive, Attach(t, o) \/ Detach(t, o),
             UNCHANGED tracked
      PROVE  UNCHANGED <<tracked, ident, master>>
  BY <1>9 DEF Attach, Detach, Return, items
<1> QED
  BY <1>2, <1>3, <1>4, <1>5, <1>6, <1>7, <1>8, <1>9

(* The id a call loads stays untracked. *)
LEMMA LoadStep ==
  ASSUME TypeOK, LockInv, CallInv, KeysInv, LoadInv, Next
  PROVE  LoadInv'
<1> SUFFICES ASSUME NEW u \in Tasks, pc'[u] = "loading"
             PROVE  \A i \in DOMAIN tracked' : tracked'[i].key # arg'[u]
  BY DEF LoadInv
<1>1. Holds(u)'
  BY DEF Holds
<1>2. CASE ~ Holds(u)
  <2>1. PICK id \in Ids : GetUntracked(u, id)
    <3>1. ~ BeginSave(u)
      BY DEF BeginSave, TypeOK
    <3> QED
      BY <1>1, <1>2, <3>1, HoldersEnter
  <2>2. arg'[u] = id /\ UNCHANGED tracked /\ ~ Tracks(id) /\ id # NoId
    BY <2>1, SessionAssumption DEF GetUntracked, TypeOK
  <2>3. ASSUME NEW i \in DOMAIN tracked
        PROVE  tracked[i].key # id
    <3>1. Name(tracked[i]) # id
      BY <2>2 DEF Tracks, ToSet
    <3>2. KeyOK(tracked[i])
      BY DEF KeysInv
    <3> QED
      BY <2>2, <3>1, <3>2 DEF Name, KeyOK
  <2> QED
    BY <2>2, <2>3
<1>3. CASE Holds(u)
  <2>1. CASE Dispose
    <3>1. UNCHANGED <<pc, arg>> /\ tracked' \in {tracked, <<>>}
      BY <2>1 DEF Dispose, tasks
    <3> QED
      BY <3>1 DEF LoadInv
  <2>2. CASE Inside(u)
    <3>1. CASE NextItem(u) \/ SaveItem(u)
      BY <3>1 DEF NextItem, SaveItem, TypeOK
    <3>2. ASSUME NEW how \in Outcomes, Return(u, how)
          PROVE  FALSE
      BY <3>2 DEF Return, Outcomes, TypeOK
    <3> QED
      BY <2>2, <3>1, <3>2 DEF Inside, Loaded, LoadFails, SaveEnds, SaveInterrupted,
         SaveItemFails, Outcomes
  <2>3. CASE UNCHANGED <<tracked, pc[u], arg[u]>>
    BY <2>3 DEF LoadInv
  <2> QED
    BY <1>3, <2>1, <2>2, <2>3, HoldersFrame
<1> QED
  BY <1>2, <1>3

-----------------------------------------------------------------------------
(* The enumeration *)

(* A save that the others leave alone keeps its place. *)
LEMMA SaveKept ==
  ASSUME TypeOK, CallInv, ItemsInv, SaveInv, Next, NEW u \in Tasks,
         IsSaving(u), UNCHANGED <<tracked, disposed, master>>,
         UNCHANGED <<pc[u], arg[u], at[u], goal[u]>>
  PROVE  \/ (disposed /\ ~ master /\ tracked = <<>>)'
         \/ (Listed(u) /\ Passed(u) /\ Current(u))'
<1>1. CASE disposed /\ ~ master /\ tracked = <<>>
  BY <1>1
<1>2. CASE Listed(u) /\ Passed(u) /\ Current(u)
  <2>1. ASSUME NEW i \in DOMAIN tracked, i < at[u]
        PROVE  saved'[tracked[i].item] >= goal[u][tracked[i].item]
    <3> DEFINE o == tracked[i].item
    <3>1. o \in Objects
      BY TrackedAreAlive
    <3>2. saved[o] \in Nat /\ saved'[o] \in Nat /\ goal[u][o] \in Nat
      <4>1. saved' \in [Objects -> 0 .. MaxVersion]
        BY TypeStep DEF TypeOK
      <4>2. /\ saved \in [Objects -> 0 .. MaxVersion]
            /\ goal[u] \in [Objects -> 0 .. MaxVersion]
        BY DEF TypeOK
      <4> QED
        BY <3>1, <4>1, <4>2, SessionAssumption
    <3>3. saved[o] >= goal[u][o] /\ saved[o] <= saved'[o]
      BY <1>2, <2>1, <3>1, ItemsStep DEF Passed
    <3> QED
      BY <3>2, <3>3
  <2>2. Listed(u)'
    BY <1>2 DEF Listed
  <2>3. Passed(u)'
    BY <2>1 DEF Passed
  <2>4. Current(u)'
    BY <1>2 DEF Current
  <2> QED
    BY <2>2, <2>3, <2>4
<1> QED
  BY <1>1, <1>2 DEF SaveInv

LEMMA SaveStep ==
  ASSUME TypeOK, LockInv, CallInv, ItemsInv, SaveInv, Next
  PROVE  SaveInv'
<1> SUFFICES ASSUME NEW u \in Tasks, IsSaving(u)'
             PROVE  \/ (disposed /\ ~ master /\ tracked = <<>>)'
                    \/ (Listed(u) /\ Passed(u) /\ Current(u))'
  BY DEF SaveInv
<1>1. Holds(u)'
  BY DEF Holds, IsSaving
<1>2. CASE ~ Holds(u)
  <2>1. BeginSave(u)
    <3>1. \A id \in Ids : ~ GetUntracked(u, id)
      BY DEF GetUntracked, TypeOK, IsSaving
    <3> QED
      BY <1>1, <1>2, <3>1, HoldersEnter
  <2>2. at'[u] = 1 /\ UNCHANGED tracked /\ pc'[u] = "enumerating"
    BY <2>1 DEF BeginSave, Enters, CallInv, IsSaving, TypeOK
  <2>3. Listed(u)'
    <3>1. \A o \in Objects : goal'[u][o] =
            IF \E e \in ToSet(tracked) : e.item = o THEN made[o] ELSE 0
      BY <2>1 DEF BeginSave, TypeOK
    <3> QED
      BY <2>2, <3>1 DEF Listed, ToSet
  <2>4. Passed(u)'
    <3>1. \A i \in DOMAIN tracked : i \in Nat /\ i >= 1
      BY LenProperties DEF TypeOK
    <3> QED
      BY <2>2, <3>1 DEF Passed
  <2> QED
    BY <2>2, <2>3, <2>4 DEF Current
<1>3. CASE Holds(u) /\ Dispose
  <2>1. UNCHANGED <<pc, arg, at, goal, saved, master>> /\ disposed'
        /\ tracked' = IF master THEN tracked ELSE <<>>
    BY <1>3 DEF Dispose, tasks, items
  <2>2. IsSaving(u)
    BY <2>1 DEF IsSaving
  <2>3. CASE master
    <3>1. Listed(u) /\ Passed(u) /\ Current(u)
      BY <2>2, <2>3 DEF SaveInv
    <3> QED
      BY <2>1, <2>3, <3>1 DEF Listed, Passed, Current
  <2> QED
    BY <2>1, <2>3
<1>4. CASE Holds(u) /\ Inside(u)
  <2>1. ASSUME NEW how \in Outcomes, Return(u, how)
        PROVE  FALSE
    BY <2>1 DEF Return, Outcomes, TypeOK, IsSaving
  <2>2. NextItem(u) \/ SaveItem(u)
    BY <1>4, <2>1 DEF Inside, Loaded, LoadFails, SaveEnds, SaveInterrupted,
         SaveItemFails, Outcomes
  <2>3. UNCHANGED <<tracked, disposed, master, goal>> /\ IsSaving(u)
    BY <2>2 DEF NextItem, SaveItem, IsSaving, session
  <2>4. CASE disposed /\ ~ master /\ tracked = <<>>
    BY <2>3, <2>4
  <2>5. CASE NextItem(u) /\ Listed(u) /\ Passed(u) /\ Current(u)
    <3>1. UNCHANGED <<at, saved>> /\ arg'[u] = tracked[at[u]].item /\ at[u] <= Len(tracked)
      BY <2>5 DEF NextItem, TypeOK, items
    <3>2. at[u] \in DOMAIN tracked
      BY <3>1, LenProperties DEF CallInv, TypeOK
    <3> QED
      BY <2>3, <2>5, <3>1, <3>2 DEF Listed, Passed, Current
  <2>6. CASE SaveItem(u) /\ Listed(u) /\ Passed(u) /\ Current(u)
    <3> DEFINE n == at[u]
               x == arg[u]
    <3>1. /\ at'[u] = n + 1 /\ pc'[u] = "enumerating" /\ pc[u] = "saving"
          /\ n \in Nat
      BY <2>6 DEF SaveItem, TypeOK
    <3>2. n \in DOMAIN tracked /\ x = tracked[n].item /\ x \in Objects
      BY <2>6, <3>1, TrackedAreAlive DEF Current
    <3>3. saved' = [saved EXCEPT ![x] = made[x]]
      BY <2>6 DEF SaveItem
    <3>4. ASSUME NEW i \in DOMAIN tracked, i < n + 1
          PROVE  saved'[tracked[i].item] >= goal[u][tracked[i].item]
      <4> DEFINE o == tracked[i].item
      <4>1. o \in Objects /\ i \in Nat
        BY TrackedAreAlive
      <4>2. CASE o = x
        <5>1. saved'[o] = made[o] /\ goal[u][o] <= made[o]
          BY <3>2, <3>3, <4>1, <4>2 DEF CallInv, TypeOK
        <5>2. made[o] \in Nat /\ goal[u][o] \in Nat
          BY <4>1, SessionAssumption DEF TypeOK
        <5> QED
          BY <5>1, <5>2
      <4>3. CASE o # x
        <5>1. i < n
          BY <3>1, <3>2, <3>4, <4>1, <4>3
        <5>2. saved'[o] = saved[o]
          BY <3>3, <4>1, <4>3 DEF TypeOK
        <5> QED
          BY <2>6, <5>1, <5>2 DEF Passed
      <4> QED
        BY <4>2, <4>3
    <3> HIDE DEF x
    <3>5. Passed(u)'
      BY <2>3, <3>1, <3>4 DEF Passed
    <3>6. Listed(u)' /\ Current(u)'
      BY <2>3, <2>6, <3>1 DEF Listed, Current
    <3> QED
      BY <3>5, <3>6
  <2> QED
    BY <2>2, <2>3, <2>4, <2>5, <2>6 DEF SaveInv
<1>5. CASE /\ UNCHANGED <<tracked, disposed, master>>
           /\ UNCHANGED <<pc[u], arg[u], at[u], goal[u]>>
  BY <1>5, SaveKept DEF IsSaving
<1> QED
  BY <1>2, <1>3, <1>4, <1>5, HoldersFrame

-----------------------------------------------------------------------------
(* What a call leaves behind *)

LEMMA DoneStep ==
  ASSUME TypeOK, CallInv, ItemsInv, SaveInv, SaveIsComplete, Next
  PROVE  SaveIsComplete'
<1> SUFFICES ASSUME NEW u \in Tasks, pc'[u] = "ok", NEW o \in Objects
             PROVE  saved'[o] >= goal'[u][o]
  BY DEF SaveIsComplete
<1>1. saved[o] \in Nat /\ saved'[o] \in Nat /\ goal[u][o] \in Nat /\ at[u] \in Nat
  <2>1. saved' \in [Objects -> 0 .. MaxVersion]
    BY TypeStep DEF TypeOK
  <2>2. /\ saved \in [Objects -> 0 .. MaxVersion] /\ at[u] \in Nat
        /\ goal[u] \in [Objects -> 0 .. MaxVersion]
    BY DEF TypeOK
  <2> QED
    BY <2>1, <2>2, SessionAssumption
<1>2. saved[o] <= saved'[o]
  BY ItemsStep
<1>3. CASE saved[o] >= goal[u][o] /\ goal'[u] = goal[u]
  BY <1>1, <1>2, <1>3
<1>4. CASE pc[u] = "ok" /\ goal'[u] = goal[u]
  BY <1>1, <1>2, <1>4 DEF SaveIsComplete
<1>5. CASE goal[u] = Nothing /\ goal'[u] = goal[u]
  BY <1>1, <1>5 DEF Nothing
<1>6. CASE New \/ Dispose \/ (\E x \in Objects : ApplyEvent(x))
           \/ \E id \in Ids : ForeignWrite(id)
  BY <1>4, <1>6 DEF New, Dispose, ApplyEvent, ForeignWrite, tasks
<1>7. ASSUME NEW t \in Tasks, Begin(t) \/ Refused(t) \/ Resume(t)
      PROVE  pc[u] = "ok" /\ goal'[u] = goal[u]
  BY <1>7 DEF Begin, Refused, Resume, TypeOK
<1>8. ASSUME NEW t \in Tasks, t # u, Enter(t) \/ Inside(t)
      PROVE  pc[u] = "ok" /\ goal'[u] = goal[u]
  <2>1. ASSUME NEW how \in Outcomes, Return(t, how)
        PROVE  pc[u] = "ok" /\ goal'[u] = goal[u]
    BY <1>8, <2>1 DEF TypeOK, Return
  <2>2. CASE BeginSave(t) \/ \E id \in Ids : GetUntracked(t, id)
    BY <1>8, <2>2 DEF TypeOK, BeginSave, GetUntracked
  <2>3. CASE NextItem(t) \/ SaveItem(t)
    BY <1>8, <2>3 DEF TypeOK, NextItem, SaveItem
  <2> QED
    BY <1>8, <2>1, <2>2, <2>3 DEF Enter, Inside, GetTracked, Attach, Detach,
       DetachAll, Loaded, LoadFails, SaveEnds, SaveInterrupted, SaveItemFails, Outcomes
<1>9. ASSUME Enter(u) \/ Loaded(u) \/ LoadFails(u)
      PROVE  goal[u] = Nothing /\ goal'[u] = goal[u]
  <2>1. goal[u] = Nothing
    BY <1>9 DEF CallInv, Enter, GetUntracked, GetTracked, Attach, Detach, DetachAll,
       BeginSave, Enters, Loaded, LoadFails
  <2>2. ~ BeginSave(u) /\ \A id \in Ids : ~ GetUntracked(u, id)
    BY DEF BeginSave, GetUntracked, TypeOK
  <2>3. UNCHANGED goal
    BY <1>9, <2>2 DEF Enter, GetTracked, Attach, Detach, DetachAll, Loaded, LoadFails,
       Return
  <2> QED
    BY <2>1, <2>3
<1>10. ~ NextItem(u) /\ ~ SaveItem(u) /\ ~ SaveItemFails(u) /\ ~ SaveInterrupted(u)
  BY DEF NextItem, SaveItem, SaveItemFails, SaveInterrupted, Return, TypeOK
<1>11. ASSUME SaveEnds(u)
       PROVE  saved[o] >= goal[u][o] /\ goal'[u] = goal[u]
  <2>1. /\ ~ disposed /\ IsSaving(u) /\ at[u] > Len(tracked) /\ UNCHANGED goal
    BY <1>11 DEF SaveEnds, Return, IsSaving, TypeOK
  <2>2. Listed(u) /\ Passed(u)
    BY <2>1 DEF SaveInv
  <2>3. ASSUME goal[u][o] > 0
        PROVE  saved[o] >= goal[u][o]
    <3>1. PICK i \in DOMAIN tracked : tracked[i].item = o
      BY <2>2, <2>3 DEF Listed
    <3>2. i < at[u]
      BY <1>1, <2>1, TrackedAreAlive
    <3> QED
      BY <2>2, <3>1, <3>2 DEF Passed
  <2> QED
    BY <1>1, <2>1, <2>3
<1> QED
  BY <1>3, <1>4, <1>5, <1>6, <1>7, <1>8, <1>9, <1>10, <1>11 DEF Next, Inside

-----------------------------------------------------------------------------
(* The theorems *)

LEMMA InitInv == Init => SessionInv
<1> SUFFICES ASSUME Init PROVE SessionInv
  OBVIOUS
<1>1. TypeOK
  BY InitTypes
<1>2. \A o \in Objects : Nothing[o] = 0
  BY DEF Nothing
<1>3. \A t \in Tasks : pc[t] = "idle" /\ at[t] = 1 /\ goal[t] = Nothing
  BY DEF Init
<1>4. LockInv /\ LoadInv /\ SaveInv /\ SaveIsComplete
  BY <1>3 DEF LockInv, LoadInv, SaveInv, IsSaving, SaveIsComplete
<1>5. ItemsInv /\ CallInv
  BY <1>2, <1>3 DEF Init, ItemsInv, CallInv
<1>6. KeysInv
  BY DEF Init, KeysInv
<1> QED
  BY <1>1, <1>4, <1>5, <1>6 DEF SessionInv

LEMMA StepInv == SessionInv /\ [Next]_vars => SessionInv'
<1> SUFFICES ASSUME SessionInv, [Next]_vars PROVE SessionInv'
  OBVIOUS
<1>1. TypeOK /\ LockInv /\ ItemsInv /\ CallInv /\ KeysInv /\ LoadInv /\ SaveInv
      /\ SaveIsComplete
  BY DEF SessionInv
<1>2. CASE Next
  <2>1. TypeOK' /\ LockInv' /\ ItemsInv' /\ KeysInv' /\ LoadInv' /\ SaveInv'
        /\ SaveIsComplete'
    BY <1>1, <1>2, TypeStep, LockStep, ItemsStep, KeysStep, LoadStep, SaveStep, DoneStep
  <2>2. CallInv'
    <3> SUFFICES ASSUME NEW u \in Tasks
                 PROVE  /\ at'[u] > 0 /\ (~ IsSaving(u)' => at'[u] = 1)
                        /\ pc'[u] = "loading" => arg'[u] \in Ids
                        /\ pc'[u] = "saving" => arg'[u] \in 1 .. alive'
                        /\ pc'[u] \in {"idle", "waiting", "loading"} => goal'[u] = Nothing
                        /\ \A o \in Objects : goal'[u][o] <= made'[o]
      BY DEF CallInv
    <3> QED
      BY <1>1, <1>2, CallStep
  <2> QED
    BY <2>1, <2>2 DEF SessionInv
<1>3. CASE UNCHANGED vars
  <2>1. TypeOK' /\ LockInv' /\ ItemsInv'
    BY <1>1, <1>3 DEF vars, items, session, tasks, TypeOK, LockInv, ItemsInv
  <2>2. CallInv' /\ KeysInv' /\ LoadInv' /\ SaveIsComplete'
    BY <1>1, <1>3 DEF vars, items, session, tasks, CallInv, IsSaving, KeysInv, KeyOK,
       Apart, LoadInv, SaveIsComplete
  <2>3. SaveInv'
    BY <1>1, <1>3 DEF vars, items, session, tasks, SaveInv, IsSaving, Listed, Passed, Current
  <2> QED
    BY <2>1, <2>2, <2>3 DEF SessionInv
<1> QED
  BY <1>2, <1>3

THEOREM Inductive == Spec => []SessionInv
<1> QED
  BY InitInv, StepInv, PTL DEF Spec

(* The state of a session, its items and its callers keeps its shape.      *)
THEOREM TypeCorrect == Spec => []TypeOK
<1>1. SessionInv => TypeOK
  BY DEF SessionInv
<1> QED
  BY <1>1, Inductive, PTL

(* GetByIdAsync and Attach never leave two instances of an aggregate in a  *)
(* session, unless one of them had no Id when it was attached.             *)
THEOREM OneInstancePerIdHolds == Spec => []OneInstancePerId
<1>1. SessionInv => OneInstancePerId
  <2> SUFFICES ASSUME SessionInv, NEW i \in DOMAIN tracked, NEW j \in DOMAIN tracked,
                      i # j, ident[tracked[i].item] = ident[tracked[j].item]
               PROVE  /\ ident[tracked[i].item] # NoId
                      /\ NoId \in {tracked[i].key, tracked[j].key}
    BY DEF OneInstancePerId
  <2>1. KeyOK(tracked[i]) /\ KeyOK(tracked[j]) /\ Apart(tracked[i], tracked[j])
    BY DEF SessionInv, KeysInv
  <2> QED
    BY <2>1 DEF KeyOK, Apart
<1> QED
  BY <1>1, Inductive, PTL

(* A SaveAsync that returns has committed all that its items held when it  *)
(* got the lock.                                                           *)
THEOREM SaveIsCompleteHolds == Spec => []SaveIsComplete
<1>1. SessionInv => SaveIsComplete
  BY DEF SessionInv
<1> QED
  BY <1>1, Inductive, PTL

(* SaveAsync stores its items from the first to the last and stops at the  *)
(* one it is refused.                                                      *)
THEOREM SavesInOrderHolds == Spec => SavesInOrder
<1> DEFINE Ordered ==
      \A t \in Tasks, j \in DOMAIN tracked :
        LET committed(e) == saved[e.item] >= goal[t][e.item]
        IN lock = t /\ saved'[tracked[j].item] # saved[tracked[j].item] =>
             \E k \in 1 .. j : /\ tracked[k].item = tracked[j].item
                               /\ \A i \in 1 .. k - 1 : committed(tracked[i])
<1>1. SessionInv /\ [Next]_vars => [Ordered]_vars
  <2> SUFFICES ASSUME SessionInv, Next, NEW t \in Tasks, NEW j \in DOMAIN tracked,
                      lock = t, saved'[tracked[j].item] # saved[tracked[j].item]
               PROVE  \E k \in 1 .. j :
                        /\ tracked[k].item = tracked[j].item
                        /\ \A i \in 1 .. k - 1 :
                             saved[tracked[i].item] >= goal[t][tracked[i].item]
    OBVIOUS
  <2>1. TypeOK /\ LockInv /\ CallInv /\ SaveInv
    BY DEF SessionInv
  <2> DEFINE x == tracked[j].item
  <2>2. x \in Objects /\ x \in 1 .. alive /\ alive \in Nat /\ j \in 1 .. Len(tracked)
    BY <2>1, TrackedAreAlive, SessionAssumption DEF TypeOK
  <2>3. SaveItem(t)
    <3>1. CASE UNCHANGED items \/ New \/ \E o \in Objects : ApplyEvent(o)
      BY <3>1 DEF items, New, ApplyEvent
    <3>2. ASSUME NEW u \in Tasks, Loaded(u)
          PROVE  FALSE
      <4>1. x \in Objects \ {alive + 1}
        BY <2>2
      <4> QED
        BY <2>1, <3>2, <4>1, LoadedItem
    <3>3. ASSUME NEW u \in Tasks, SaveItem(u)
          PROVE  u = t
      BY <2>1, <3>3 DEF SaveItem, LockInv
    <3> QED
      BY <3>1, <3>2, <3>3, ItemChanges
  <2>4. /\ at[t] \in DOMAIN tracked /\ arg[t] = tracked[at[t]].item
        /\ Passed(t) /\ IsSaving(t)
    BY <2>1, <2>2, <2>3 DEF SaveItem, SaveInv, IsSaving, Current
  <2>5. x = arg[t]
    BY <2>1, <2>2, <2>3 DEF SaveItem, TypeOK
  <2>6. at[t] \in 1 .. Len(tracked) /\ DOMAIN tracked = 1 .. Len(tracked)
        /\ Len(tracked) \in Nat
    BY <2>1, <2>4, TrackedAreAlive, LenProperties DEF TypeOK
  <2>7. ASSUME NEW k \in 1 .. j, k <= at[t]
        PROVE  \A i \in 1 .. k - 1 : saved[tracked[i].item] >= goal[t][tracked[i].item]
    BY <2>2, <2>4, <2>6, <2>7 DEF Passed
  <2>8. CASE j < at[t]
    BY <2>2, <2>6, <2>7, <2>8
  <2>9. CASE at[t] <= j
    <3>1. at[t] \in 1 .. j
      BY <2>2, <2>6, <2>9
    <3>2. tracked[at[t]].item = tracked[j].item
      BY <2>4, <2>5
    <3>3. at[t] <= at[t]
      BY <2>6
    <3> QED
      BY <2>7, <3>1, <3>2, <3>3
  <2> QED
    BY <2>2, <2>6, <2>8, <2>9
<1> QED
  BY <1>1, Inductive, PTL DEF Spec, SavesInOrder
=============================================================================
