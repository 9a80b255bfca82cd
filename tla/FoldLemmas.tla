----------------------------- MODULE FoldLemmas -----------------------------
(***************************************************************************)
(* Induction on numbers, and what it says of FoldLeft: a fold has the last *)
(* value of a chain, which applies the operator to one element after the   *)
(* other.                                                                  *)
(*                                                                         *)
(* Induction is stated of a set and the operator of a fold is represented  *)
(* by a function, so that the lemmas can be instantiated by first-order    *)
(* provers.  A module that folds an operator of its own shows that the     *)
(* function that FoldLeft defines fulfils TakesLastTyped.                  *)
(***************************************************************************)
EXTENDS SequencesExt, Integers, WellFoundedInduction, TLAPS

(* A set that contains 0 and the successors of its elements contains all   *)
(* numbers.                                                                *)
LEMMA Induction ==
  ASSUME NEW S \in SUBSET Nat, 0 \in S, \A n \in S : n + 1 \in S
  PROVE  \A n \in Nat : n \in S
<1> SUFFICES ASSUME Nat \ S # {} PROVE FALSE
  OBVIOUS
<1>1. PICK x \in Nat \ S : \A y \in Nat \ S : ~ (<<y, x>> \in OpToRel(<, Nat))
  <2>1. Nat \ S \subseteq Nat
    OBVIOUS
  <2> QED
    BY <2>1, NatLessThanWellFounded, WFMin
<1>2. \A y \in Nat \ S : ~ (y < x)
  BY <1>1 DEF OpToRel
<1>3. x # 0 /\ x - 1 \in Nat
  OBVIOUS
<1>4. x - 1 \in S
  BY <1>2, <1>3
<1> QED
  BY <1>3, <1>4

(* The greatest element of a set of numbers up to n. *)
LEMMA MaxOfInterval ==
  ASSUME NEW n \in Nat, NEW d \in SUBSET (1 .. n + 1), n + 1 \in d
  PROVE  Max(d) = n + 1
<1>1. \A y \in d : n + 1 >= y
  OBVIOUS
<1>2. \A x \in d : (\A y \in d : x >= y) => x = n + 1
  <2> SUFFICES ASSUME NEW x \in d, \A y \in d : x >= y PROVE x = n + 1
    OBVIOUS
  <2>1. x >= n + 1 /\ n + 1 >= x /\ x \in Int
    BY <1>1
  <2> QED
    BY <2>1
<1> QED
  BY <1>1, <1>2 DEF Max

(* Taking the greatest element of an interval leaves an interval. *)
LEMMA UpToIsInterval ==
  ASSUME NEW k \in Nat \ {0}
  PROVE  Max(1 .. k) = k /\ (1 .. k) \ {k} = 1 .. k - 1
<1>1. k - 1 \in Nat /\ (k - 1) + 1 = k /\ k \in 1 .. k
  OBVIOUS
<1>2. Max(1 .. k) = k
  BY <1>1, MaxOfInterval
<1> QED
  BY <1>2

(* A set of numbers up to n that is not empty has a greatest element. *)
LEMMA MaxIsElement ==
  ASSUME NEW n \in Nat, NEW d \in SUBSET (1 .. n), d # {}
  PROVE  Max(d) \in d
<1> DEFINE HasMax(m) == \A e \in SUBSET (1 .. m) : e # {} => \E x \in e : \A y \in e : x >= y
           A == {m \in Nat : HasMax(m)}
<1>1. 0 \in A
  <2>1. \A e \in SUBSET (1 .. 0) : e = {}
    OBVIOUS
  <2> QED
    BY <2>1
<1>2. \A m \in A : m + 1 \in A
  <2> SUFFICES ASSUME NEW m \in Nat, HasMax(m),
                      NEW e \in SUBSET (1 .. m + 1), e # {}
               PROVE  \E x \in e : \A y \in e : x >= y
    OBVIOUS
  <2>1. CASE m + 1 \in e
    BY <2>1
  <2>2. CASE m + 1 \notin e
    <3>1. e \in SUBSET (1 .. m)
      BY <2>2
    <3> QED
      BY <3>1
  <2> QED
    BY <2>1, <2>2
<1> HIDE DEF HasMax
<1>3. \A m \in Nat : m \in A
  BY <1>1, <1>2, Induction
<1>4. HasMax(n)
  BY <1>3
<1> QED
  BY <1>4 DEF HasMax, Max

(* The equations of the recursive function of a fold: of the positions in  *)
(* a set the last one is taken last.                                       *)
TakesLast(g, F, base, s, n) ==
  \A d \in SUBSET (1 .. n) :
    g[d] = IF d = {} THEN base ELSE F[<<g[d \ {Max(d)}], s[Max(d)]>>]

(* There is a function that fulfils them. *)
LEMMA RecursionIsDefined ==
  ASSUME NEW T, NEW E, NEW F \in [T \X E -> T], NEW base \in T, NEW s \in Seq(E)
  PROVE  \A n \in 0 .. Len(s) : \E g \in [SUBSET (1 .. n) -> T] : TakesLast(g, F, base, s, n)
<1> DEFINE Defined(n) == \E g \in [SUBSET (1 .. n) -> T] : TakesLast(g, F, base, s, n)
           S == {n \in Nat : n <= Len(s) => Defined(n)}
<1>1. 0 \in S
  <2> DEFINE g0 == [d \in SUBSET (1 .. 0) |-> base]
  <2>1. g0 \in [SUBSET (1 .. 0) -> T] /\ \A d \in SUBSET (1 .. 0) : d = {} /\ g0[d] = base
    OBVIOUS
  <2>2. TakesLast(g0, F, base, s, 0)
    BY <2>1 DEF TakesLast
  <2> QED
    BY <2>1, <2>2
<1>2. \A n \in S : n + 1 \in S
  <2> SUFFICES ASSUME NEW n \in Nat, n + 1 <= Len(s), Defined(n) PROVE Defined(n + 1)
    <3> HIDE DEF Defined
    <3>1. Len(s) \in Nat
      OBVIOUS
    <3> QED
      BY <3>1
  <2>1. PICK g \in [SUBSET (1 .. n) -> T] : TakesLast(g, F, base, s, n)
    OBVIOUS
  <2> DEFINE h == [d \in SUBSET (1 .. n + 1) |->
                    IF n + 1 \in d THEN F[<<g[d \ {n + 1}], s[n + 1]>>] ELSE g[d]]
  <2>2. s[n + 1] \in E
    OBVIOUS
  <2>3. \A d \in SUBSET (1 .. n + 1) :
          /\ d \ {n + 1} \in SUBSET (1 .. n)
          /\ n + 1 \notin d => d \in SUBSET (1 .. n)
    OBVIOUS
  <2>4. h \in [SUBSET (1 .. n + 1) -> T]
    BY <2>2, <2>3
  <2>5. ASSUME NEW d \in SUBSET (1 .. n + 1)
        PROVE  h[d] = IF d = {} THEN base ELSE F[<<h[d \ {Max(d)}], s[Max(d)]>>]
    <3>1. CASE n + 1 \in d
      <4>1. Max(d) = n + 1
        BY <3>1, MaxOfInterval
      <4>2. h[d \ {n + 1}] = g[d \ {n + 1}]
        BY <2>3
      <4> QED
        BY <3>1, <4>1, <4>2
    <3>2. CASE n + 1 \notin d /\ d # {}
      <4>1. d \in SUBSET (1 .. n) /\ h[d] = g[d]
        BY <2>3, <3>2
      <4>2. d \ {Max(d)} \in SUBSET (1 .. n) /\ n + 1 \notin d \ {Max(d)}
        <5>1. d \subseteq 1 .. n /\ n + 1 \notin 1 .. n
          BY <4>1
        <5> HIDE DEF h
        <5> QED
          BY <5>1
      <4>3. h[d \ {Max(d)}] = g[d \ {Max(d)}]
        BY <2>3, <4>2
      <4> QED
        BY <2>1, <3>2, <4>1, <4>3 DEF TakesLast
    <3>3. CASE d = {}
      BY <2>1, <2>3, <3>3 DEF TakesLast
    <3> QED
      BY <3>1, <3>2, <3>3
  <2>6. TakesLast(h, F, base, s, n + 1)
    BY <2>5 DEF TakesLast
  <2> QED
    BY <2>4, <2>6
<1> HIDE DEF Defined
<1>3. \A n \in Nat : n \in S
  BY <1>1, <1>2, Induction
<1>4. \A n \in 0 .. Len(s) : n \in Nat /\ n <= Len(s)
  OBVIOUS
<1>5. \A n \in 0 .. Len(s) : Defined(n)
  BY <1>3, <1>4
<1> QED
  BY <1>5 DEF Defined

-----------------------------------------------------------------------------
(* Chains: the values of a fold after each of the elements. *)
Chain(c, F, base, s) ==
  /\ c[0] = base
  /\ \A k \in 1 .. Len(s) : c[k] = F[<<c[k - 1], s[k]>>]

(* Every sequence has a chain. *)
LEMMA ChainExists ==
  ASSUME NEW T, NEW E, NEW F \in [T \X E -> T], NEW base \in T, NEW s \in Seq(E)
  PROVE  \E c \in [0 .. Len(s) -> T] : Chain(c, F, base, s)
<1> DEFINE n == Len(s)
<1>1. n \in Nat /\ n \in 0 .. n
  OBVIOUS
<1>2. PICK g \in [SUBSET (1 .. n) -> T] : TakesLast(g, F, base, s, n)
  BY <1>1, RecursionIsDefined
<1> HIDE DEF n
<1> DEFINE c == [k \in 0 .. n |-> g[1 .. k]]
<1>3. \A k \in 0 .. n : 1 .. k \in SUBSET (1 .. n)
  BY <1>1
<1>4. c \in [0 .. n -> T]
  BY <1>3
<1>5. c[0] = base
  <2>1. 1 .. 0 = {} /\ c[0] = g[1 .. 0]
    BY <1>1
  <2> QED
    BY <1>1, <1>2, <1>3, <2>1 DEF TakesLast
<1>6. ASSUME NEW k \in 1 .. n PROVE c[k] = F[<<c[k - 1], s[k]>>]
  <2>1. /\ c[k] = g[1 .. k] /\ c[k - 1] = g[1 .. k - 1]
        /\ 1 .. k \in SUBSET (1 .. n) /\ 1 .. k # {}
    <3>1. k \in Nat /\ k \in 0 .. n /\ k - 1 \in 0 .. n /\ k \in 1 .. k
      BY <1>1, <1>6
    <3> QED
      BY <1>3, <3>1
  <2>2. Max(1 .. k) = k /\ (1 .. k) \ {k} = 1 .. k - 1
    BY <1>1, UpToIsInterval
  <2> QED
    BY <1>2, <2>1, <2>2 DEF TakesLast
<1> QED
  BY <1>4, <1>5, <1>6 DEF Chain, n

(* Two sequences have the same first n elements. *)
SameUpTo(s, t, n) == \A i \in 1 .. n : s[i] = t[i]

(* The chains of sequences that are the same up to n agree there. *)
LEMMA ChainsAgree ==
  ASSUME NEW F, NEW base, NEW S, NEW s \in Seq(S), NEW t \in Seq(S), NEW c, NEW d,
         Chain(c, F, base, s), Chain(d, F, base, t),
         NEW n \in Nat, n <= Len(s), n <= Len(t), SameUpTo(s, t, n)
  PROVE  c[n] = d[n]
<1> DEFINE A == {k \in Nat : k <= n => c[k] = d[k]}
<1>1. 0 \in A
  BY DEF Chain
<1>2. \A k \in A : k + 1 \in A
  <2> SUFFICES ASSUME NEW k \in Nat, k + 1 <= n, c[k] = d[k] PROVE c[k + 1] = d[k + 1]
    OBVIOUS
  <2>1. k + 1 \in 1 .. Len(s) /\ k + 1 \in 1 .. Len(t) /\ k + 1 \in 1 .. n /\ (k + 1) - 1 = k
    OBVIOUS
  <2> QED
    BY <2>1 DEF Chain, SameUpTo
<1>3. \A k \in Nat : k \in A
  BY <1>1, <1>2, Induction
<1> QED
  BY <1>3

(* The same equations, where the value before is known to be of type T.    *)
TakesLastTyped(g, T, F, base, s) ==
  /\ g[{}] = base
  /\ \A d \in SUBSET (1 .. Len(s)) :
       d # {} /\ g[d \ {Max(d)}] \in T => g[d] = F[<<g[d \ {Max(d)}], s[Max(d)]>>]

(* Whatever fulfils them has the values of the chain.                      *)
LEMMA IntervalsFollowChain ==
  ASSUME NEW T, NEW F, NEW base, NEW s, Len(s) \in Nat,
         NEW c \in [0 .. Len(s) -> T], Chain(c, F, base, s),
         NEW g, TakesLastTyped(g, T, F, base, s)
  PROVE  g[1 .. Len(s)] = c[Len(s)]
<1> DEFINE n == Len(s)
           A == {k \in Nat : k <= n => g[1 .. k] = c[k]}
<1>1. n \in Nat
  OBVIOUS
<1> HIDE DEF n
<1>2. 0 \in A
  <2>1. 1 .. 0 = {}
    OBVIOUS
  <2> QED
    BY <2>1 DEF Chain, TakesLastTyped
<1>3. ASSUME NEW k \in Nat, k + 1 <= n, g[1 .. k] = c[k]
      PROVE  g[1 .. k + 1] = c[k + 1]
  <2>1. k + 1 \in 1 .. n /\ k \in 0 .. n /\ (k + 1) - 1 = k /\ k + 1 \in Nat \ {0}
    BY <1>1, <1>3
  <2>2. 1 .. k + 1 \in SUBSET (1 .. n)
    BY <1>1, <1>3
  <2>3. 1 .. k + 1 # {}
    <3>1. k + 1 \in 1 .. k + 1
      BY <1>3
    <3> QED
      BY <3>1
  <2>4. Max(1 .. k + 1) = k + 1 /\ (1 .. k + 1) \ {k + 1} = 1 .. k
    BY <2>1, UpToIsInterval
  <2>5. g[1 .. k] \in T
    BY <1>3, <2>1 DEF n
  <2>6. g[1 .. k + 1] = F[<<g[1 .. k], s[k + 1]>>]
    BY <2>2, <2>3, <2>4, <2>5 DEF n, TakesLastTyped
  <2> QED
    BY <1>3, <2>1, <2>6 DEF Chain, n
<1>4. \A k \in A : k + 1 \in A
  BY <1>1, <1>3
<1>5. \A k \in Nat : k \in A
  BY <1>2, <1>4, Induction
<1> QED
  BY <1>1, <1>5 DEF n
=============================================================================
