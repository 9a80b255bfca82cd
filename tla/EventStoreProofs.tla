-------------------------- MODULE EventStoreProofs --------------------------
(***************************************************************************)
(* The safety properties of EventStoreProvider, for any number of tasks,   *)
(* any size of page, and any starts and counts.                            *)
(***************************************************************************)
EXTENDS EventStoreProvider, SequenceTheorems, TLAPS

(* The events that begin at a number. *)
Numbers(from, n) == [i \in 1 .. n |-> from + i - 1]

(* What is true of a call when the stream has a number of events: it has   *)
(* the events from its start up to next; it holds none that are not stored *)
(* or were not asked for; the loop goes on only while there are more; and  *)
(* when it returns, it has come to where the stream ended when it began.   *)
CallInv(c, place, end) ==
  /\ c.events = Numbers(First(c.start), Len(c.events))
  /\ c.next = First(c.start) + Len(c.events)
  /\ c.seen <= end
  /\ Len(c.events) > 0 => Len(c.events) <= c.count /\ c.next <= end
  /\ place \in {"asking", "making", "connecting"} => Len(c.events) = 0
  /\ place = "reading" /\ Len(c.events) > 0 => c.next < end
  /\ place = "returned" => c.next >= c.seen
  /\ place = "refused" => c.count <= 0 \/ First(c.start) + c.count < end

(* The factory runs once, and Dispose waits only for what it has made.     *)
ConnectionInv ==
  /\ opened = IF connection = "none" THEN 0 ELSE 1
  /\ connection = "none" <=> lazy = "unset"
  /\ \A t \in Tasks : pc[t] = "making" => lazy # "unset"
  /\ disposal = "waiting" => lazy = "set"
  /\ disposal = "done" /\ ~ late => connection \notin {"connecting", "open"}

ReadInv ==
  /\ TypeOK
  /\ \A t \in Tasks : CallInv(call[t], pc[t], stored)

-----------------------------------------------------------------------------

LEMMA NumbersAreNat ==
  ASSUME NEW from \in Nat, NEW n \in Nat
  PROVE  Numbers(from, n) \in Seq(Nat) /\ Len(Numbers(from, n)) = n
  <1>1. \A i \in 1 .. n : from + i - 1 \in Nat
    OBVIOUS
  <1>2. Numbers(from, n) \in [1 .. n -> Nat]
    BY <1>1 DEF Numbers
  <1>3. QED
    BY <1>2

(* Ranges join. *)
LEMMA NumbersJoin ==
  ASSUME NEW from \in Nat, NEW m \in Nat, NEW n \in Nat
  PROVE  Numbers(from, m) \o Numbers(from + m, n) = Numbers(from, m + n)
  <1>1. from + m \in Nat /\ m + n \in Nat
    OBVIOUS
  <1>2. /\ Numbers(from, m) \in Seq(Nat) /\ Len(Numbers(from, m)) = m
        /\ Numbers(from + m, n) \in Seq(Nat) /\ Len(Numbers(from + m, n)) = n
        /\ Numbers(from, m + n) \in Seq(Nat) /\ Len(Numbers(from, m + n)) = m + n
    BY <1>1, NumbersAreNat
  <1>3. \A i \in 1 .. m : Numbers(from, m + n)[i] = Numbers(from, m)[i]
    BY DEF Numbers
  <1>4. \A i \in 1 .. n : Numbers(from, m + n)[m + i] = Numbers(from + m, n)[i]
    BY DEF Numbers
  <1>5. PICK a \in Seq(Nat), b \in Seq(Nat), c \in Seq(Nat) :
          a = Numbers(from, m) /\ b = Numbers(from + m, n) /\ c = Numbers(from, m + n)
    BY <1>2
  <1>6. /\ Len(a) = m /\ Len(b) = n /\ Len(c) = m + n
        /\ \A i \in 1 .. m : c[i] = a[i]
        /\ \A i \in 1 .. n : c[m + i] = b[i]
    BY <1>2, <1>3, <1>4, <1>5
  <1>7. PICK s \in Seq(Nat) : s = a \o b
    BY ConcatProperties
  <1>8. /\ Len(s) = m + n
        /\ \A i \in 1 .. m + n : s[i] = IF i <= m THEN a[i] ELSE b[i - m]
    BY <1>6, <1>7, ConcatProperties
  <1>9. ASSUME NEW i \in 1 .. m + n PROVE s[i] = c[i]
    <2>1. CASE i <= m
      BY <1>6, <1>8, <2>1
    <2>2. CASE ~ (i <= m)
      <3>1. i - m \in 1 .. n /\ m + (i - m) = i
        BY <2>2
      <3>2. c[m + (i - m)] = b[i - m]
        BY <1>6, <3>1
      <3>3. QED
        BY <1>8, <2>2, <3>1, <3>2
    <2>3. QED
      BY <2>1, <2>2
  <1>10. s = c
    BY <1>6, <1>8, <1>9, SeqEqual
  <1>11. QED
    BY <1>5, <1>7, <1>10

(* What a page adds.                                                       *)
LEMMA SliceIsNumbers ==
  ASSUME TypeOK, NEW from \in Nat, NEW n \in Nat
  PROVE  \E k \in Nat :
           /\ Slice(from, n) = Numbers(from, k) /\ Len(Slice(from, n)) = k
           /\ k <= n
           /\ k > 0 => from + k <= stored
           /\ from + n < stored => k = n
           /\ from + n >= stored => from + k >= stored
  <1>1. DEFINE end == IF from + n < stored THEN from + n ELSE stored
               k == IF from <= end THEN end - from ELSE 0
  <1>2. k \in Nat /\ end \in Nat
    BY DEF TypeOK
  <1>3. 1 .. (end - from) = 1 .. k
    BY <1>2
  <1>4. Slice(from, n) = Numbers(from, k)
    BY <1>3 DEF Slice, Numbers
  <1>5. Len(Numbers(from, k)) = k
    BY <1>2, NumbersAreNat
  <1>6. k <= n /\ (k > 0 => from + k <= stored) /\ (from + n < stored => k = n)
           /\ (from + n >= stored => from + k >= stored)
    BY <1>2 DEF TypeOK
  <1>7. QED
    BY <1>2, <1>4, <1>5, <1>6

LEMMA FirstIsNat == \A start \in Int : First(start) \in Nat
  BY DEF First

LEMMA CallType ==
  ASSUME NEW c \in Call
  PROVE  /\ c.start \in Int /\ c.count \in Int /\ c.next \in Nat
         /\ c.seen \in Nat /\ c.events \in Seq(Nat) /\ Len(c.events) \in Nat
         /\ First(c.start) \in Nat
  <1>1. /\ c.start \in Int /\ c.count \in Int /\ c.next \in Nat
        /\ c.seen \in Nat /\ c.events \in Seq(Nat)
    BY DEF Call
  <1>2. Len(c.events) \in Nat
    BY <1>1
  <1>3. QED
    BY <1>1, <1>2, FirstIsNat

-----------------------------------------------------------------------------

LEMMA InitReadInv == Init => ReadInv
  <1>1. SUFFICES ASSUME Init PROVE ReadInv
    OBVIOUS
  <1>2. TypeOK
    <2>1. [start |-> 0, count |-> 0, next |-> 0, events |-> <<>>, seen |-> 0] \in Call
      BY DEF Call
    <2>2. pc \in [Tasks -> Busy \cup Idle] /\ call \in [Tasks -> Call]
      BY <1>1, <2>1 DEF Init, Idle
    <2>3. QED
      BY <1>1, <2>2 DEF Init, TypeOK
  <1>3. Numbers(First(0), Len(<<>>)) = <<>>
    BY DEF Numbers, First
  <1>4. ASSUME NEW t \in Tasks PROVE CallInv(call[t], pc[t], stored)
    BY <1>1, <1>3 DEF Init, CallInv, First
  <1>5. QED
    BY <1>2, <1>4 DEF ReadInv

(* A longer stream disturbs no call.                                       *)
LEMMA LongerStream ==
  ASSUME NEW c \in Call, NEW place, NEW end \in Nat, NEW end2 \in Nat,
         end <= end2, CallInv(c, place, end)
  PROVE  CallInv(c, place, end2)
  <1>1. /\ c.start \in Int /\ c.count \in Int /\ c.next \in Nat /\ c.seen \in Nat
        /\ Len(c.events) \in Nat /\ First(c.start) \in Nat
    BY CallType
  <1>2. QED
    BY <1>1 DEF CallInv

(* An iteration of the loop.                                               *)
LEMMA PageStep ==
  ASSUME ReadInv, NEW t \in Tasks, ReadPage(t)
  PROVE  call' \in [Tasks -> Call] /\ CallInv(call[t]', pc[t]', stored)
  <1>1. DEFINE c == call[t]
               n == NextReadCount(c)
               m == Len(c.events)
               from == First(c.start)
  <1>2. /\ c \in Call /\ c.start \in Int /\ c.count \in Int /\ c.next \in Nat
        /\ c.seen \in Nat /\ c.events \in Seq(Nat) /\ m \in Nat /\ from \in Nat
        /\ stored \in Nat
    <2>1. c \in Call /\ stored \in Nat
      BY DEF ReadInv, TypeOK
    <2>2. QED
      BY <2>1, CallType
  <1>3. n \in Nat /\ n > 0 /\ m + n <= c.count
    <2>1. n > 0 /\ n = IF c.count - m > PageSize THEN PageSize ELSE c.count - m
      BY DEF ReadPage, NextReadCount
    <2>2. PageSize \in Nat /\ c.count - m \in Int
      BY <1>2, EventStoreProviderAssumption
    <2>3. QED
      BY <1>2, <2>1, <2>2
  <1>4. c.events = Numbers(from, m) /\ c.next = from + m /\ c.seen <= stored
    BY DEF ReadInv, CallInv
  <1>5. PICK k \in Nat :
          /\ Slice(c.next, n) = Numbers(c.next, k) /\ Len(Slice(c.next, n)) = k
          /\ k <= n
          /\ k > 0 => c.next + k <= stored
          /\ c.next + n < stored => k = n
          /\ c.next + n >= stored => c.next + k >= stored
    BY <1>2, <1>3, SliceIsNumbers DEF ReadInv
  <1>6. DEFINE d == [c EXCEPT !.events = c.events \o Slice(c.next, n),
                              !.next = c.next + Len(Slice(c.next, n))]
  <1>7. call' = [call EXCEPT ![t] = d]
    BY <1>2 DEF ReadPage, ReadInv, TypeOK, Call
  <1>8. c.events \o Slice(c.next, n) = Numbers(from, m + k)
    <2>1. Slice(c.next, n) = Numbers(from + m, k)
      BY <1>4, <1>5
    <2>2. Numbers(from, m) \o Numbers(from + m, k) = Numbers(from, m + k)
      BY <1>2, NumbersJoin, Zenon
    <2>3. QED
      BY <1>4, <2>1, <2>2, Zenon
  <1>9. Numbers(from, m + k) \in Seq(Nat) /\ Len(Numbers(from, m + k)) = m + k
    <2>1. m + k \in Nat
      BY <1>2
    <2>2. QED
      BY <1>2, <2>1, NumbersAreNat
  <1>10. /\ d \in Call /\ d.start = c.start /\ d.count = c.count /\ d.seen = c.seen
         /\ d.events = Numbers(from, m + k) /\ Len(d.events) = m + k
         /\ d.next = from + (m + k) /\ from = First(d.start)
    <2>1. from + (m + k) \in Nat /\ c.next + k = from + (m + k)
      BY <1>2, <1>4
    <2>2. d = [c EXCEPT !.events = Numbers(from, m + k), !.next = from + (m + k)]
      BY <1>5, <1>8, <2>1
    <2>3. QED
      BY <1>2, <1>9, <2>1, <2>2 DEF Call
  <1>11. call' \in [Tasks -> Call] /\ call[t]' = d
    BY <1>7, <1>10 DEF ReadInv, TypeOK
  <1>12. pc[t]' = IF c.next + n >= stored THEN "returned" ELSE "reading"
    BY DEF ReadPage, Goto, EndsStream, ReadInv, TypeOK
  <1> HIDE DEF d, n, m, from, c
  <1>13. /\ d.next = c.next + k /\ d.count = c.count /\ d.seen = c.seen
         /\ c.next = from + m /\ c.next \in Nat /\ m + k \in Nat
    BY <1>2, <1>4, <1>10
  <1>14. /\ k <= n
         /\ k > 0 => c.next + k <= stored
         /\ c.next + n < stored => k = n
         /\ c.next + n >= stored => c.next + k >= stored
    BY <1>5
  <1>15. /\ m + k > 0 => d.next <= stored /\ m + k <= d.count
         /\ pc[t]' = "reading" => d.next < stored
         /\ pc[t]' = "returned" => d.next >= d.seen
    <2>1. m > 0 => c.next <= stored
      BY DEF ReadInv, CallInv, c, m
    <2>2. m + k > 0 => d.next <= stored
      BY <1>2, <1>13, <1>14, <2>1
    <2>3. m + k <= d.count
      <3>1. k <= n
        BY <1>14
      <3>2. QED
        BY <1>2, <1>3, <1>13, <3>1
    <2>4. pc[t]' = "reading" => d.next < stored
      BY <1>2, <1>3, <1>12, <1>13, <1>14
    <2>5. pc[t]' = "returned" => d.next >= stored
      BY <1>2, <1>3, <1>12, <1>13, <1>14
    <2>6. c.seen <= stored
      BY <1>4
    <2>7. QED
      BY <1>2, <1>13, <2>2, <2>3, <2>4, <2>5, <2>6
  <1>16. CallInv(d, pc[t]', stored)
    <2>1. d.events = Numbers(First(d.start), Len(d.events)) /\ d.next = First(d.start) + Len(d.events)
      BY <1>10
    <2>2. d.seen <= stored
      BY <1>4, <1>10
    <2>3. QED
      BY <1>10, <1>12, <1>15, <2>1, <2>2 DEF CallInv
  <1>17. QED
    BY <1>11, <1>16

(* The end of what was asked for, or less, is not the end of the stream.   *)
LEMMA RefusedStep ==
  ASSUME ReadInv, NEW t \in Tasks, ReadRefused(t)
  PROVE  CallInv(call[t], "refused", stored)
  <1>1. DEFINE c == call[t]
  <1>2. /\ c.start \in Int /\ c.count \in Int /\ c.next \in Nat /\ c.seen \in Nat
        /\ Len(c.events) \in Nat /\ First(c.start) \in Nat /\ stored \in Nat
    <2>1. c \in Call /\ stored \in Nat
      BY DEF ReadInv, TypeOK
    <2>2. QED
      BY <2>1, CallType
  <1>3. pc[t] = "reading" /\ CallInv(c, "reading", stored)
    BY DEF ReadInv, ReadRefused
  <1>4. c.count <= Len(c.events)
    BY <1>2, EventStoreProviderAssumption DEF ReadRefused, NextReadCount
  <1>5. c.count <= 0 \/ First(c.start) + c.count < stored
    BY <1>2, <1>3, <1>4 DEF CallInv
  <1>6. QED
    BY <1>3, <1>5 DEF CallInv

-----------------------------------------------------------------------------

LEMMA NextReadInv == ReadInv /\ [Next]_vars => ReadInv'
  <1>1. SUFFICES ASSUME ReadInv, [Next]_vars PROVE ReadInv'
    OBVIOUS
  <1>2. TypeOK /\ \A u \in Tasks : CallInv(call[u], pc[u], stored)
    BY <1>1 DEF ReadInv
  <1>3. ASSUME NEW t \in Tasks, NEW start \in Starts, NEW count \in Counts,
               GetEvents(t, start, count)
        PROVE  ReadInv'
    <2>1. DEFINE c == [start |-> start, count |-> count, next |-> First(start),
                       events |-> <<>>, seen |-> stored]
    <2>2. start \in Int /\ count \in Int /\ First(start) \in Nat
      BY FirstIsNat, EventStoreProviderAssumption
    <2>3. c \in Call
      BY <1>2, <2>2 DEF Call, TypeOK
    <2>4. TypeOK'
      BY <1>2, <1>3, <2>3 DEF GetEvents, connecting, Goto, TypeOK, Busy, Idle
    <2>5. CallInv(c, "asking", stored)
      <3>1. Numbers(First(start), 0) = <<>>
        BY DEF Numbers
      <3>2. QED
        BY <1>2, <2>2, <3>1 DEF CallInv, TypeOK
    <2>6. ASSUME NEW u \in Tasks PROVE CallInv(call[u], pc[u], stored)'
      <3>1. stored' = stored
        BY <1>3 DEF GetEvents
      <3>2. CASE u = t
        BY <1>2, <1>3, <2>5, <3>1, <3>2 DEF GetEvents, Goto, TypeOK
      <3>3. CASE u # t
        BY <1>2, <1>3, <3>1, <3>3 DEF GetEvents, Goto, TypeOK
      <3>4. QED
        BY <3>2, <3>3
    <2>7. QED
      BY <2>4, <2>6 DEF ReadInv
  <1>4. ASSUME NEW t \in Tasks, ReadPage(t) PROVE ReadInv'
    <2>1. call' \in [Tasks -> Call] /\ CallInv(call[t]', pc[t]', stored)
      BY <1>1, <1>4, PageStep
    <2>2. TypeOK'
      BY <1>2, <1>4, <2>1 DEF ReadPage, connecting, Goto, TypeOK, Busy, Idle
    <2>3. ASSUME NEW u \in Tasks, u # t PROVE call[u]' = call[u] /\ pc[u]' = pc[u]
      BY <1>2, <1>4, <2>3 DEF ReadPage, Goto, TypeOK
    <2>4. stored' = stored
      BY <1>4 DEF ReadPage
    <2>5. ASSUME NEW u \in Tasks PROVE CallInv(call[u], pc[u], stored)'
      BY <1>2, <2>1, <2>3, <2>4
    <2>6. QED
      BY <2>2, <2>5 DEF ReadInv
  <1>5. ASSUME NEW t \in Tasks,
               NEW place \in {"making", "connecting", "reading", "refused", "failed"},
               Goto(t, place), UNCHANGED <<stored, call>>,
               TypeOK', CallInv(call[t], place, stored)
        PROVE  ReadInv'
    <2>1. TypeOK'
      BY <1>5
    <2>2. ASSUME NEW u \in Tasks PROVE CallInv(call[u], pc[u], stored)'
      <3>1. CASE u = t
        BY <1>2, <1>5, <3>1 DEF Goto, TypeOK
      <3>2. CASE u # t
        BY <1>2, <1>5, <3>2 DEF Goto, TypeOK
      <3>3. QED
        BY <3>1, <3>2
    <2>3. QED
      BY <2>1, <2>2 DEF ReadInv
  <1>6. ASSUME NEW t \in Tasks, Resume(t) PROVE ReadInv'
    <2>1. CallInv(call[t], "reading", stored) /\ CallInv(call[t], "failed", stored)
      BY <1>2, <1>6 DEF Resume, CallInv
    <2>2. TypeOK'
      BY <1>2, <1>6 DEF Resume, connecting, Goto, TypeOK, Busy, Idle
    <2>3. QED
      BY <1>5, <1>6, <2>1, <2>2 DEF Resume
  <1>7. ASSUME NEW t \in Tasks, ReadRefused(t) PROVE ReadInv'
    <2>1. CallInv(call[t], "refused", stored)
      BY <1>1, <1>7, RefusedStep
    <2>2. TypeOK'
      BY <1>2, <1>7 DEF ReadRefused, connecting, Goto, TypeOK, Busy, Idle
    <2>3. QED
      BY <1>5, <1>7, <2>1, <2>2 DEF ReadRefused
  <1>8. ASSUME NEW t \in Tasks, ReadFails(t) PROVE ReadInv'
    <2>1. CallInv(call[t], "failed", stored)
      BY <1>2, <1>8 DEF ReadFails, CallInv
    <2>2. TypeOK'
      BY <1>2, <1>8 DEF ReadFails, connecting, Goto, TypeOK, Busy, Idle
    <2>3. QED
      BY <1>5, <1>8, <2>1, <2>2 DEF ReadFails
  <1>9. CASE AppendByOthers
    <2>1. TypeOK'
      BY <1>2, <1>9 DEF AppendByOthers, connecting, TypeOK
    <2>2. ASSUME NEW u \in Tasks PROVE CallInv(call[u], pc[u], stored)'
      <3>1. call[u] \in Call /\ stored \in Nat /\ stored' \in Nat /\ stored <= stored'
        BY <1>2, <1>9 DEF AppendByOthers, TypeOK
      <3>2. CallInv(call[u], pc[u], stored')
        BY <1>2, <3>1, LongerStream
      <3>3. QED
        BY <1>9, <3>2 DEF AppendByOthers
    <2>3. QED
      BY <2>1, <2>2 DEF ReadInv
  <1>10. CASE ConnectEnds \/ BeginDispose \/ EndDispose \/ UNCHANGED vars
    <2>1. UNCHANGED <<stored, pc, call>>
      BY <1>10 DEF ConnectEnds, BeginDispose, EndDispose, vars
    <2>2. TypeOK'
      <3>1. CASE ConnectEnds
        BY <1>2, <3>1 DEF ConnectEnds, TypeOK
      <3>2. CASE BeginDispose
        BY <1>2, <3>2 DEF BeginDispose, TypeOK
      <3>3. CASE EndDispose
        BY <1>2, <3>3 DEF EndDispose, TypeOK
      <3>4. CASE UNCHANGED vars
        BY <1>2, <3>4 DEF vars, connecting, TypeOK
      <3>5. QED
        BY <1>10, <3>1, <3>2, <3>3, <3>4
    <2>3. QED
      BY <1>2, <2>1, <2>2 DEF ReadInv
  <1>11. ASSUME NEW t \in Tasks, Connect(t) PROVE ReadInv'
    <2>1. CallInv(call[t], "making", stored) /\ CallInv(call[t], "connecting", stored)
      BY <1>2, <1>11 DEF Connect, StartFactory, PublishValue, GetValue, CallInv
    <2>2. CASE StartFactory(t)
      <3>1. TypeOK'
        BY <1>2, <2>2 DEF StartFactory, Goto, TypeOK, Busy, Idle
      <3>2. QED
        BY <1>5, <2>1, <2>2, <3>1 DEF StartFactory
    <2>3. CASE PublishValue(t)
      <3>1. TypeOK'
        BY <1>2, <2>3 DEF PublishValue, Goto, TypeOK, Busy, Idle
      <3>2. QED
        BY <1>5, <2>1, <2>3, <3>1 DEF PublishValue
    <2>4. CASE GetValue(t)
      <3>1. TypeOK'
        BY <1>2, <2>4 DEF GetValue, connecting, Goto, TypeOK, Busy, Idle
      <3>2. QED
        BY <1>5, <2>1, <2>4, <3>1 DEF GetValue
    <2>5. QED
      BY <1>11, <2>2, <2>3, <2>4 DEF Connect
  <1>12. QED
    BY <1>1, <1>3, <1>4, <1>6, <1>7, <1>8, <1>9, <1>10, <1>11 DEF Next

(* The variables of EventStoreProvider keep their types. *)
THEOREM TypeCorrect == Spec => []TypeOK
  <1>1. ReadInv => TypeOK
    BY DEF ReadInv
  <1>2. QED
    BY <1>1, InitReadInv, NextReadInv, PTL DEF Spec

(* ReadEvents gives a range of the stream that leaves out nothing it       *)
(* should have, whatever is appended between its pages.                    *)
THEOREM ReadsAreRanges == Spec => []ReadIsRange
  <1>1. ASSUME ReadInv PROVE ReadIsRange
    <2>1. SUFFICES ASSUME NEW t \in Tasks
                   PROVE  LET c == call[t] IN
                      /\ c.events = [i \in 1 .. Len(c.events) |-> First(c.start) + i - 1]
                      /\ \A i \in 1 .. Len(c.events) : i <= c.count /\ c.events[i] < stored
                      /\ pc[t] = "returned" =>
                           \A e \in First(c.start) .. c.seen - 1 :
                             e < First(c.start) + c.count => e < First(c.start) + Len(c.events)
      BY DEF ReadIsRange
    <2>2. DEFINE c == call[t]
    <2>3. /\ c.start \in Int /\ c.count \in Int /\ c.next \in Nat /\ c.seen \in Nat
          /\ Len(c.events) \in Nat /\ First(c.start) \in Nat /\ stored \in Nat
      <3>1. c \in Call /\ stored \in Nat
        BY <1>1 DEF ReadInv, TypeOK
      <3>2. QED
        BY <3>1, CallType
    <2>4. CallInv(c, pc[t], stored)
      BY <1>1 DEF ReadInv
    <2>5. c.events = [i \in 1 .. Len(c.events) |-> First(c.start) + i - 1]
      BY <2>4 DEF CallInv, Numbers
    <2>6. ASSUME NEW i \in 1 .. Len(c.events) PROVE i <= c.count /\ c.events[i] < stored
      <3>1. c.events[i] = First(c.start) + i - 1
        BY <2>5
      <3>2. QED
        BY <2>3, <2>4, <3>1 DEF CallInv
    <2>7. ASSUME pc[t] = "returned", NEW e \in First(c.start) .. c.seen - 1
          PROVE  e < First(c.start) + Len(c.events)
      BY <2>3, <2>4, <2>7 DEF CallInv
    <2>8. QED
      BY <2>5, <2>6, <2>7
  <1>2. QED
    BY <1>1, InitReadInv, NextReadInv, PTL DEF Spec

(* A read that asks for all of the stream, or for a part that ends with    *)
(* it, is never refused by the client.                                     *)
THEOREM RefusalsAreInside == Spec => []RefusedOnlyInside
  <1>1. ReadInv => RefusedOnlyInside
    BY DEF ReadInv, RefusedOnlyInside, CallInv
  <1>2. QED
    BY <1>1, InitReadInv, NextReadInv, PTL DEF Spec

-----------------------------------------------------------------------------

(* A scope makes at most one connection; and once it has been disposed of, *)
(* it leaves that open only if Dispose came while the factory ran or the   *)
(* connection was first asked for after Dispose.                           *)
THEOREM ConnectionsAreClosed == Spec => []ConnectionIsClosed
  <1>1. Init => ConnectionInv
    BY DEF Init, ConnectionInv
  <1>2. ReadInv /\ ConnectionInv /\ [Next]_vars => ConnectionInv'
    <2>1. SUFFICES ASSUME ReadInv, ConnectionInv, [Next]_vars PROVE ConnectionInv'
      OBVIOUS
    <2>2. TypeOK
      BY <2>1 DEF ReadInv
    <2>3. ASSUME NEW t \in Tasks, NEW place \in Busy \cup Idle,
                 place # "making", Goto(t, place), UNCHANGED connecting
          PROVE  ConnectionInv'
      BY <2>1, <2>2, <2>3 DEF Goto, connecting, TypeOK, ConnectionInv
    <2>4. ASSUME NEW t \in Tasks, NEW start \in Starts, NEW count \in Counts,
                 GetEvents(t, start, count)
          PROVE  ConnectionInv'
      BY <2>3, <2>4 DEF GetEvents, Busy
    <2>5. ASSUME NEW t \in Tasks, Resume(t) PROVE ConnectionInv'
      BY <2>3, <2>5 DEF Resume, Busy, Idle
    <2>6. ASSUME NEW t \in Tasks, ReadPage(t) PROVE ConnectionInv'
      BY <2>3, <2>6 DEF ReadPage, Busy, Idle
    <2>7. ASSUME NEW t \in Tasks, ReadRefused(t) \/ ReadFails(t) PROVE ConnectionInv'
      BY <2>3, <2>7 DEF ReadRefused, ReadFails, Busy, Idle
    <2>8. ASSUME NEW t \in Tasks, StartFactory(t) PROVE ConnectionInv'
      <3>1. opened = 0 /\ connection = "none" /\ disposal # "waiting"
        BY <2>1, <2>8 DEF StartFactory, ConnectionInv
      <3>2. disposal = "done" => late'
        BY <2>8 DEF StartFactory
      <3>3. QED
        BY <2>2, <2>8, <3>1, <3>2 DEF StartFactory, TypeOK, ConnectionInv
    <2>9. ASSUME NEW t \in Tasks, PublishValue(t) PROVE ConnectionInv'
      <3>1. lazy # "unset"
        BY <2>1, <2>9 DEF PublishValue, ConnectionInv
      <3>2. QED
        BY <2>1, <2>2, <2>9, <3>1 DEF PublishValue, ConnectionInv
    <2>10. ASSUME NEW t \in Tasks, GetValue(t) PROVE ConnectionInv'
      BY <2>3, <2>10 DEF GetValue, Busy
    <2>11. CASE ConnectEnds
      BY <2>1, <2>11 DEF ConnectEnds, ConnectionInv
    <2>12. CASE BeginDispose
      <3>1. lazy = "unset" \/ lazy = "running" \/ lazy = "set"
        BY <2>2 DEF TypeOK
      <3>2. QED
        BY <2>1, <2>12, <3>1 DEF BeginDispose, IsValueCreated, ConnectionInv
    <2>13. CASE EndDispose
      BY <2>1, <2>13 DEF EndDispose, ConnectionInv
    <2>14. CASE AppendByOthers \/ UNCHANGED vars
      BY <2>1, <2>14 DEF AppendByOthers, vars, connecting, ConnectionInv
    <2>15. QED
      BY <2>1, <2>4, <2>5, <2>6, <2>7, <2>8, <2>9, <2>10, <2>11, <2>12, <2>13, <2>14
      DEF Next, Connect
  <1>3. ConnectionInv => ConnectionIsClosed
    BY DEF ConnectionInv, ConnectionIsClosed
  <1>4. QED
    BY <1>1, <1>2, <1>3, InitReadInv, NextReadInv, PTL DEF Spec
=============================================================================
