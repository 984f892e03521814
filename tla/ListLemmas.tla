------------------------------ MODULE ListLemmas ------------------------------
(***************************************************************************)
(* The linked lists of scheduler.c and pool.c are sequences in the models: *)
(* what inserting and removing one element does to a sequence, and to the  *)
(* set of its elements when none is linked twice.  Loops that look for the *)
(* first match, or for an extreme, find a least or a greatest number.      *)
(* The rows of the pages are lists too, which are selected, sorted and     *)
(* joined by folds: a fold is the last of a series of values, each made of *)
(* the one before it, and what is true of each is shown by induction.      *)
(***************************************************************************)
EXTENDS Selection, SequenceTheorems, FiniteSetTheorems, WellFoundedInduction, TLAPS

Once(s) == \A i, k \in 1..Len(s) : s[i] = s[k] => i = k

LEMMA ElementsIn ==
  ASSUME NEW S, NEW s \in Seq(S)
  PROVE  /\ ToSet(s) = {s[i] : i \in 1..Len(s)}
         /\ ToSet(s) \subseteq S
  BY LenProperties DEF ToSet

LEMMA InsertedAt ==
  ASSUME NEW S, NEW s \in Seq(S), NEW e \in S, NEW i \in 1..(Len(s) + 1)
  PROVE  /\ InsertAt(s, i, e) \in Seq(S)
         /\ Len(InsertAt(s, i, e)) = Len(s) + 1
         /\ \A k \in 1..(Len(s) + 1) :
              InsertAt(s, i, e)[k] = IF k < i THEN s[k] ELSE IF k = i THEN e ELSE s[k - 1]
<1> DEFINE a == SubSeq(s, 1, i - 1)
           b == <<e>>
           c == SubSeq(s, i, Len(s))
<1>1. Len(s) \in Nat /\ \A k \in 1..Len(s) : s[k] \in S
  BY LenProperties
<1>2. /\ a \in Seq(S) /\ Len(a) = i - 1
      /\ \A k \in 1..(i - 1) : a[k] = s[k]
  BY <1>1, SubSeqProperties
<1>3. /\ c \in Seq(S) /\ Len(c) = Len(s) - i + 1
      /\ \A k \in 1..(Len(s) - i + 1) : c[k] = s[i + k - 1]
  BY <1>1, SubSeqProperties
<1>4. b \in Seq(S) /\ Len(b) = 1 /\ b[1] = e
  OBVIOUS
<1> HIDE DEF a, b, c
<1>5. /\ a \o b \in Seq(S) /\ Len(a \o b) = i
      /\ \A k \in 1..i : (a \o b)[k] = IF k < i THEN s[k] ELSE e
  <2>1. /\ a \o b \in Seq(S) /\ Len(a \o b) = Len(a) + Len(b)
        /\ \A k \in 1..(Len(a) + Len(b)) :
              (a \o b)[k] = IF k <= Len(a) THEN a[k] ELSE b[k - Len(a)]
    BY <1>2, <1>4, ConcatProperties
  <2>2. Len(a) + Len(b) = i /\ i \in Nat
    BY <1>1, <1>2, <1>4
  <2>3. ASSUME NEW k \in 1..i PROVE (a \o b)[k] = IF k < i THEN s[k] ELSE e
    <3>1. CASE k < i
      BY <1>2, <2>1, <2>2, <3>1
    <3>2. CASE k = i
      <4>1. k - Len(a) = 1 /\ ~ (k <= Len(a))
        BY <1>2, <2>2, <3>2
      <4> QED
        BY <1>4, <2>1, <2>2, <3>2, <4>1
    <3> QED
      BY <2>2, <3>1, <3>2
  <2> QED
    BY <2>1, <2>2, <2>3
<1>6. /\ (a \o b) \o c \in Seq(S) /\ Len((a \o b) \o c) = Len(s) + 1
      /\ \A k \in 1..(Len(s) + 1) :
            ((a \o b) \o c)[k] = IF k <= i THEN (a \o b)[k] ELSE c[k - i]
  BY <1>1, <1>3, <1>5, ConcatProperties
<1>7. InsertAt(s, i, e) = (a \o b) \o c
  BY DEF InsertAt, a, b, c
<1> QED
  BY <1>1, <1>3, <1>5, <1>6, <1>7

LEMMA InsertedElements ==
  ASSUME NEW S, NEW s \in Seq(S), NEW e \in S, NEW i \in 1..(Len(s) + 1)
  PROVE  /\ ToSet(InsertAt(s, i, e)) = ToSet(s) \cup {e}
         /\ Once(s) /\ e \notin ToSet(s) => Once(InsertAt(s, i, e))
<1> DEFINE t == InsertAt(s, i, e)
<1>1. /\ t \in Seq(S) /\ Len(t) = Len(s) + 1 /\ Len(s) \in Nat
      /\ \A k \in 1..(Len(s) + 1) :
           t[k] = IF k < i THEN s[k] ELSE IF k = i THEN e ELSE s[k - 1]
  BY InsertedAt, LenProperties
<1> HIDE DEF t
<1>2. ToSet(t) = {t[k] : k \in 1..(Len(s) + 1)} /\ ToSet(s) = {s[k] : k \in 1..Len(s)}
  BY <1>1, ElementsIn
<1>3. ASSUME NEW x \in ToSet(t) PROVE x \in ToSet(s) \cup {e}
  <2>1. PICK k \in 1..(Len(s) + 1) : x = t[k]
    BY <1>2
  <2>2. CASE k < i
    BY <1>1, <1>2, <2>1, <2>2
  <2>3. CASE k > i
    <3>1. k - 1 \in 1..Len(s) /\ x = s[k - 1]
      BY <1>1, <2>1, <2>3
    <3> QED
      BY <1>2, <3>1
  <2> QED
    BY <1>1, <2>1, <2>2, <2>3
<1>4. ASSUME NEW x \in ToSet(s) PROVE x \in ToSet(t)
  <2>1. PICK k \in 1..Len(s) : x = s[k]
    BY <1>2
  <2>2. CASE k < i
    <3>1. k \in 1..(Len(s) + 1) /\ t[k] = s[k]
      BY <1>1, <2>2
    <3> QED
      BY <1>2, <2>1, <3>1
  <2>3. CASE k >= i
    <3>1. k + 1 \in 1..(Len(s) + 1) /\ t[k + 1] = s[k]
      BY <1>1, <2>3
    <3> QED
      BY <1>2, <2>1, <3>1
  <2> QED
    BY <1>1, <2>2, <2>3
<1>5. e \in ToSet(t)
  BY <1>1, <1>2
<1>6. ASSUME Once(s), e \notin ToSet(s) PROVE Once(t)
  <2> DEFINE from(k) == IF k < i THEN k ELSE k - 1
  <2>1. ASSUME NEW k \in 1..Len(t), k # i
        PROVE  from(k) \in 1..Len(s) /\ t[k] = s[from(k)] /\ t[k] # e
    BY <1>1, <1>2, <1>6, <2>1
  <2>2. ASSUME NEW j \in 1..Len(t), NEW k \in 1..Len(t), t[j] = t[k]
        PROVE  j = k
    <3>1. t[i] = e
      BY <1>1
    <3>2. CASE j = i \/ k = i
      BY <2>1, <2>2, <3>1, <3>2
    <3>3. CASE j # i /\ k # i
      <4>1. from(j) = from(k)
        BY <1>6, <2>1, <2>2, <3>3 DEF Once
      <4> QED
        BY <1>1, <3>3, <4>1
    <3> QED
      BY <3>2, <3>3
  <2> QED
    BY <2>2 DEF Once
<1> QED
  BY <1>3, <1>4, <1>5, <1>6 DEF t

LEMMA Removed ==
  ASSUME NEW S, NEW s \in Seq(S), NEW i \in 1..Len(s)
  PROVE  /\ RemoveAt(s, i) \in Seq(S)
         /\ Len(RemoveAt(s, i)) = Len(s) - 1
         /\ \A k \in 1..(Len(s) - 1) :
              RemoveAt(s, i)[k] = IF k < i THEN s[k] ELSE s[k + 1]
<1> DEFINE a == SubSeq(s, 1, i - 1)
           c == SubSeq(s, i + 1, Len(s))
<1>1. Len(s) \in Nat /\ \A k \in 1..Len(s) : s[k] \in S
  BY LenProperties
<1>2. /\ a \in Seq(S) /\ Len(a) = i - 1
      /\ \A k \in 1..(i - 1) : a[k] = s[k]
  BY <1>1, SubSeqProperties
<1>3. /\ c \in Seq(S) /\ Len(c) = Len(s) - i
      /\ \A k \in 1..(Len(s) - i) : c[k] = s[i + k]
  BY <1>1, SubSeqProperties
<1> HIDE DEF a, c
<1>4. /\ a \o c \in Seq(S) /\ Len(a \o c) = Len(s) - 1
      /\ \A k \in 1..(Len(s) - 1) : (a \o c)[k] = IF k < i THEN a[k] ELSE c[k - i + 1]
  <2>1. /\ a \o c \in Seq(S) /\ Len(a \o c) = Len(a) + Len(c)
        /\ \A k \in 1..(Len(a) + Len(c)) :
              (a \o c)[k] = IF k <= Len(a) THEN a[k] ELSE c[k - Len(a)]
    BY <1>2, <1>3, ConcatProperties
  <2>2. Len(a) + Len(c) = Len(s) - 1
    BY <1>1, <1>2, <1>3
  <2>3. ASSUME NEW k \in 1..(Len(s) - 1)
        PROVE  (a \o c)[k] = IF k < i THEN a[k] ELSE c[k - i + 1]
    <3>1. k - Len(a) = k - i + 1 /\ (k <= Len(a) <=> k < i)
      BY <1>1, <1>2
    <3> QED
      BY <2>1, <2>2, <3>1
  <2> QED
    BY <2>1, <2>2, <2>3
<1>5. RemoveAt(s, i) = a \o c
  BY DEF RemoveAt, a, c
<1> QED
  <2>1. ASSUME NEW k \in 1..(Len(s) - 1)
        PROVE  (a \o c)[k] = IF k < i THEN s[k] ELSE s[k + 1]
    <3>1. CASE k < i
      BY <1>1, <1>2, <1>4, <3>1
    <3>2. CASE ~ (k < i)
      <4>1. k - i + 1 \in 1..(Len(s) - i) /\ i + (k - i + 1) = k + 1
        BY <1>1, <3>2
      <4> QED
        BY <1>1, <1>3, <1>4, <3>2, <4>1
    <3> QED
      BY <3>1, <3>2
  <2> QED
    BY <1>4, <1>5, <2>1

LEMMA RemovedElements ==
  ASSUME NEW S, NEW s \in Seq(S), NEW i \in 1..Len(s), Once(s)
  PROVE  /\ ToSet(RemoveAt(s, i)) = ToSet(s) \ {s[i]}
         /\ Once(RemoveAt(s, i))
<1> DEFINE t == RemoveAt(s, i)
<1>1. /\ t \in Seq(S) /\ Len(t) = Len(s) - 1 /\ Len(s) \in Nat
      /\ \A k \in 1..(Len(s) - 1) : t[k] = IF k < i THEN s[k] ELSE s[k + 1]
  BY Removed, LenProperties
<1> HIDE DEF t
<1>2. ToSet(t) = {t[k] : k \in 1..(Len(s) - 1)} /\ ToSet(s) = {s[k] : k \in 1..Len(s)}
  BY <1>1, ElementsIn
<1>3. ASSUME NEW x \in ToSet(t) PROVE x \in ToSet(s) \ {s[i]}
  BY <1>1, <1>2 DEF Once
<1>4. ASSUME NEW x \in ToSet(s) \ {s[i]} PROVE x \in ToSet(t)
  <2>1. PICK k \in 1..Len(s) : x = s[k] /\ k # i
    BY <1>2
  <2>2. CASE k < i
    BY <1>1, <1>2, <2>1, <2>2
  <2>3. CASE k > i
    <3>1. k - 1 \in 1..(Len(s) - 1) /\ t[k - 1] = s[k]
      BY <1>1, <2>3
    <3> QED
      BY <1>2, <2>1, <3>1
  <2> QED
    BY <1>1, <2>1, <2>2, <2>3
<1>5. Once(t)
  <2> DEFINE from(k) == IF k < i THEN k ELSE k + 1
  <2>1. ASSUME NEW k \in 1..Len(t) PROVE from(k) \in 1..Len(s) /\ t[k] = s[from(k)]
    BY <1>1
  <2>2. ASSUME NEW j \in 1..Len(t), NEW k \in 1..Len(t), t[j] = t[k] PROVE j = k
    <3>1. from(j) = from(k)
      BY <2>1, <2>2 DEF Once
    <3> QED
      BY <3>1
  <2> QED
    BY <2>2 DEF Once
<1> QED
  BY <1>3, <1>4, <1>5 DEF t

\* The ends of a list.
LEMMA Ends ==
  ASSUME NEW S, NEW s \in Seq(S), s # <<>>
  PROVE  /\ Len(s) \in Nat \ {0}
         /\ Head(s) = s[1] /\ Tail(s) = RemoveAt(s, 1)
         /\ Last(s) = s[Len(s)] /\ Front(s) = RemoveAt(s, Len(s))
<1>1. Len(s) \in Nat \ {0}
  BY EmptySeq
<1>2. Tail(s) = RemoveAt(s, 1)
  <2>1. SubSeq(s, 1, 1 - 1) = <<>>
    BY SubSeqEmpty
  <2>2. Tail(s) = SubSeq(s, 2, Len(s)) /\ Tail(s) \in Seq(S)
    BY TailIsSubSeq, HeadTailProperties
  <2> QED
    BY <2>1, <2>2, ConcatEmptySeq DEF RemoveAt
<1>3. Front(s) = RemoveAt(s, Len(s))
  <2>1. SubSeq(s, Len(s) + 1, Len(s)) = <<>>
    BY <1>1, SubSeqEmpty
  <2>2. SubSeq(s, 1, Len(s) - 1) \in Seq(S)
    <3>1. \A k \in 1..(Len(s) - 1) : s[k] \in S
      BY <1>1, ElementOfSeq
    <3> QED
      BY <1>1, <3>1, SubSeqProperties
  <2> QED
    BY <2>1, <2>2, ConcatEmptySeq DEF RemoveAt, Front
<1> QED
  BY <1>1, <1>2, <1>3 DEF Last

\* Inserting at the head.
LEMMA Consed ==
  ASSUME NEW S, NEW s \in Seq(S), NEW e \in S
  PROVE  /\ Cons(e, s) \in Seq(S)
         /\ Len(Cons(e, s)) = Len(s) + 1
         /\ ToSet(Cons(e, s)) = ToSet(s) \cup {e}
         /\ Once(s) /\ e \notin ToSet(s) => Once(Cons(e, s))
<1>1. Len(s) \in Nat /\ 1 \in 1..(Len(s) + 1)
  BY LenProperties
<1>2. Cons(e, s) = InsertAt(s, 1, e)
  <2>1. SubSeq(s, 1, 1 - 1) = <<>>
    BY SubSeqEmpty
  <2>2. SubSeq(s, 1, Len(s)) = s
    BY SubSeqFull
  <2>3. <<>> \o <<e>> = <<e>>
    BY ConcatEmptySeq
  <2> QED
    BY <2>1, <2>2, <2>3 DEF InsertAt, Cons
<1>3. InsertAt(s, 1, e) \in Seq(S) /\ Len(InsertAt(s, 1, e)) = Len(s) + 1
  BY <1>1, InsertedAt
<1>4. /\ ToSet(InsertAt(s, 1, e)) = ToSet(s) \cup {e}
      /\ Once(s) /\ e \notin ToSet(s) => Once(InsertAt(s, 1, e))
  BY <1>1, InsertedElements
<1> QED
  BY <1>2, <1>3, <1>4

\* Removing at the head, and at the tail.
LEMMA Tailed ==
  ASSUME NEW S, NEW s \in Seq(S), s # <<>>
  PROVE  /\ Tail(s) \in Seq(S) /\ Len(Tail(s)) = Len(s) - 1
         /\ Head(s) \in ToSet(s)
         /\ Once(s) => ToSet(Tail(s)) = ToSet(s) \ {Head(s)} /\ Once(Tail(s))
<1>1. /\ Len(s) \in Nat \ {0}
      /\ Head(s) = s[1] /\ Tail(s) = RemoveAt(s, 1)
  BY Ends
<1>2. 1 \in 1..Len(s)
  BY <1>1
<1>3. RemoveAt(s, 1) \in Seq(S) /\ Len(RemoveAt(s, 1)) = Len(s) - 1
  BY <1>2, Removed
<1>4. Once(s) => ToSet(RemoveAt(s, 1)) = ToSet(s) \ {s[1]} /\ Once(RemoveAt(s, 1))
  BY <1>2, RemovedElements
<1>5. s[1] \in ToSet(s)
  BY <1>2, ElementsIn
<1> QED
  BY <1>1, <1>3, <1>4, <1>5

LEMMA Fronted ==
  ASSUME NEW S, NEW s \in Seq(S), s # <<>>
  PROVE  /\ Front(s) \in Seq(S) /\ Len(Front(s)) = Len(s) - 1
         /\ Last(s) \in ToSet(s)
         /\ Once(s) => ToSet(Front(s)) = ToSet(s) \ {Last(s)} /\ Once(Front(s))
<1>1. /\ Len(s) \in Nat \ {0}
      /\ Last(s) = s[Len(s)] /\ Front(s) = RemoveAt(s, Len(s))
  BY Ends
<1>2. Len(s) \in 1..Len(s)
  BY <1>1
<1>3. RemoveAt(s, Len(s)) \in Seq(S) /\ Len(RemoveAt(s, Len(s))) = Len(s) - 1
  BY <1>2, Removed
<1>4. Once(s) => /\ ToSet(RemoveAt(s, Len(s))) = ToSet(s) \ {s[Len(s)]}
                 /\ Once(RemoveAt(s, Len(s)))
  BY <1>2, RemovedElements
<1>5. s[Len(s)] \in ToSet(s)
  BY <1>2, ElementsIn
<1> QED
  BY <1>1, <1>3, <1>4, <1>5

\* A list holds no more elements than its length.
LEMMA ElementsCounted ==
  ASSUME NEW S, NEW s \in Seq(S)
  PROVE  /\ IsFiniteSet(ToSet(s))
         /\ Cardinality(ToSet(s)) \in Nat
         /\ Cardinality(ToSet(s)) <= Len(s)
<1>1. Len(s) \in Nat /\ s \in [1..Len(s) -> S]
  BY LenProperties
<1>2. ToSet(s) = {s[i] : i \in 1..Len(s)}
  BY ElementsIn
<1>3. s \in Surjection(1..Len(s), ToSet(s))
  BY <1>1, <1>2 DEF Surjection
<1>4. IsFiniteSet(1..Len(s)) /\ Cardinality(1..Len(s)) = Len(s)
  BY <1>1, FS_Interval
<1> QED
  BY <1>3, <1>4, FS_Surjection, FS_CardinalityType

-----------------------------------------------------------------------------

\* A set of naturals has a least element: what a loop that stops at the first
\* match finds.
LEMMA LeastNatural ==
  ASSUME NEW T \in SUBSET Nat, T # {}
  PROVE  \E x \in T : \A y \in T : x <= y
<1> DEFINE R == {ss \in Nat \X Nat : ss[1] < ss[2]}
<1>1. IsWellFoundedOn(R, Nat)
  BY NatLessThanWellFounded DEF OpToRel
<1>2. PICK x \in T : \A y \in T : ~ (<<y, x>> \in R)
  <2> HIDE DEF R
  <2> QED
    BY <1>1, WFMin
<1>3. ASSUME NEW y \in T PROVE x <= y
  <2>1. x \in Nat /\ y \in Nat
    OBVIOUS
  <2>2. ~ (y < x)
    BY <1>2, <2>1
  <2> QED
    BY <2>1, <2>2
<1> QED
  BY <1>3

\* The greatest index of a non-empty set of indices is one of them.
LEMMA GreatestIndex ==
  ASSUME NEW n \in Nat, NEW S \in SUBSET (1..n), S # {}
  PROVE  Max(S) \in S /\ \A k \in S : k <= Max(S)
<1> DEFINE T == {n - x : x \in S}
<1>1. T \in SUBSET Nat
  <2>1. \A x \in S : n - x \in Nat
    OBVIOUS
  <2> QED
    BY <2>1
<1>2. T # {}
  OBVIOUS
<1>3. PICK y \in T : \A z \in T : y <= z
  <2> HIDE DEF T
  <2> QED
    BY <1>1, <1>2, LeastNatural
<1>4. PICK x \in S : y = n - x
  OBVIOUS
<1>5. ASSUME NEW z \in S PROVE x >= z
  <2>1. n - x <= n - z
    BY <1>3, <1>4
  <2> QED
    BY <2>1
<1>6. Max(S) \in S /\ \A z \in S : Max(S) >= z
  BY <1>5 DEF Max
<1> QED
  BY <1>6

-----------------------------------------------------------------------------
\* Induction, and the folds over the first numbers.

LEMMA Induction ==
  ASSUME NEW P, 0 \in P, \A n \in Nat : n \in P => n + 1 \in P
  PROVE  Nat \subseteq P
<1> DEFINE Bad == {n \in Nat : n \notin P}
<1>1. SUFFICES ASSUME Bad # {} PROVE FALSE
  OBVIOUS
<1>2. PICK n \in Bad : \A k \in Bad : n <= k
  <2>1. Bad \in SUBSET Nat
    OBVIOUS
  <2> HIDE DEF Bad
  <2> QED
    BY <1>1, <2>1, LeastNatural
<1>3. n - 1 \in Nat /\ (n - 1) + 1 = n
  BY <1>2
<1>4. n - 1 \in Bad
  BY <1>2, <1>3
<1> QED
  BY <1>2, <1>3, <1>4

\* A function that is defined by recursion over the numbers up to N.
Unrolled(N, base, step, g) ==
    g = [n \in 0..N |-> IF n = 0 THEN base ELSE step[<<n, g[n - 1]>>]]

\* A recursion over the numbers up to N has a function.
LEMMA RecursionExists ==
  ASSUME NEW N \in Nat, NEW V, NEW base \in V, NEW step \in [(1..N) \X V -> V]
  PROVE  \E g \in [0..N -> V] : Unrolled(N, base, step, g)
<1> DEFINE P == {m \in Nat : m <= N => \E g \in [0..m -> V] : Unrolled(m, base, step, g)}
<1>1. 0 \in P
  <2> DEFINE g == [n \in 0..0 |-> base]
  <2>1. g \in [0..0 -> V] /\ Unrolled(0, base, step, g)
    BY DEF Unrolled
  <2> QED
    BY <2>1
<1>2. ASSUME NEW m \in Nat, m \in P PROVE m + 1 \in P
  <2>1. SUFFICES ASSUME m + 1 <= N PROVE \E h \in [0..(m + 1) -> V] : Unrolled(m + 1, base, step, h)
    OBVIOUS
  <2>2. PICK g \in [0..m -> V] : Unrolled(m, base, step, g)
    BY <1>2, <2>1
  <2> DEFINE h == [n \in 0..(m + 1) |-> IF n = m + 1 THEN step[<<m + 1, g[m]>>] ELSE g[n]]
  <2>3. g[m] \in V /\ step[<<m + 1, g[m]>>] \in V
    BY <2>1, <2>2
  <2>4. h \in [0..(m + 1) -> V]
    BY <2>2, <2>3
  <2>5. ASSUME NEW n \in 0..(m + 1)
        PROVE  h[n] = IF n = 0 THEN base ELSE step[<<n, h[n - 1]>>]
    <3>1. CASE n = m + 1
      <4>1. n - 1 \in 0..(m + 1) /\ n - 1 = m /\ n # 0
        BY <3>1
      <4> QED
        BY <3>1, <4>1
    <3>2. CASE n # m + 1
      <4>1. n \in 0..m /\ h[n] = g[n]
        BY <3>2
      <4>2. g[n] = IF n = 0 THEN base ELSE step[<<n, g[n - 1]>>]
        BY <2>2, <4>1 DEF Unrolled
      <4>3. n # 0 => h[n - 1] = g[n - 1]
        BY <4>1
      <4> HIDE DEF h
      <4> QED
        BY <4>1, <4>2, <4>3
    <3> QED
      BY <3>1, <3>2
  <2>6. Unrolled(m + 1, base, step, h)
    BY <2>5, <2>4 DEF Unrolled
  <2> QED
    BY <2>4, <2>6
<1>3. Nat \subseteq P
  <2> HIDE DEF P
  <2> QED
    BY <1>1, <1>2, Induction
<1> QED
  BY <1>3

LEMMA GreatestOfFirst ==
  ASSUME NEW n \in Nat \ {0}, NEW s \in SUBSET (1..n), n \in s
  PROVE  Max(s) = n
<1>1. \A y \in s : n >= y
  OBVIOUS
<1>2. ASSUME NEW x \in s, \A y \in s : x >= y PROVE x = n
  BY <1>1, <1>2
<1> QED
  BY <1>1, <1>2 DEF Max

LEMMA FirstNumbers ==
  ASSUME NEW N \in Nat, NEW n \in 1..N
  PROVE  /\ 1..n \in SUBSET (1..N) /\ 1..n # {} /\ Max(1..n) = n /\ (1..n) \ {n} = 1..(n - 1)
<1>1. 1..n \in SUBSET (1..N) /\ n \in 1..n /\ (1..n) \ {n} = 1..(n - 1)
  OBVIOUS
<1>2. Max(1..n) = n
  BY <1>1, GreatestOfFirst
<1> QED
  BY <1>1, <1>2

\* A fold over the numbers up to N, the greatest of which comes last.
Folded(N, base, step, it) ==
    it = [s \in SUBSET (1..N) |-> IF s = {} THEN base ELSE step[<<Max(s), it[s \ {Max(s)}]>>]]

\* A fold over the numbers up to N is the last of a series of values.
LEMMA FoldExists ==
  ASSUME NEW N \in Nat, NEW V, NEW base \in V, NEW step \in [(1..N) \X V -> V]
  PROVE  \E it \in [SUBSET (1..N) -> V] : Folded(N, base, step, it)
<1> DEFINE Has(m) == \E it \in [SUBSET (1..m) -> V] : Folded(m, base, step, it)
           P == {m \in Nat : m <= N => Has(m)}
<1>1. 0 \in P
  <2> DEFINE it == [s \in SUBSET (1..0) |-> base]
  <2>1. it \in [SUBSET (1..0) -> V]
    OBVIOUS
  <2>2. \A s \in SUBSET (1..0) : s = {}
    OBVIOUS
  <2>3. Folded(0, base, step, it)
    BY <2>2 DEF Folded
  <2>4. Has(0)
    <3> HIDE DEF it
    <3> QED
      BY <2>1, <2>3
  <2> QED
    BY <2>4
<1>2. ASSUME NEW m \in Nat, m \in P PROVE m + 1 \in P
  <2>1. SUFFICES ASSUME m + 1 <= N PROVE Has(m + 1)
    <3> HIDE DEF Has
    <3> QED
      OBVIOUS
  <2>2. PICK it \in [SUBSET (1..m) -> V] : Folded(m, base, step, it)
    <3>1. Has(m)
      <4> HIDE DEF Has
      <4> QED
        BY <1>2, <2>1
    <3> QED
      BY <3>1
  <2> DEFINE h == [s \in SUBSET (1..(m + 1)) |->
                     IF m + 1 \in s THEN step[<<m + 1, it[s \ {m + 1}]>>] ELSE it[s]]
  <2>3. ASSUME NEW s \in SUBSET (1..(m + 1)), m + 1 \in s
        PROVE  /\ s \ {m + 1} \in SUBSET (1..m) /\ it[s \ {m + 1}] \in V
               /\ h[s] = step[<<m + 1, it[s \ {m + 1}]>>] /\ h[s] \in V
               /\ h[s \ {m + 1}] = it[s \ {m + 1}]
    <3>1. s \ {m + 1} \in SUBSET (1..m)
      OBVIOUS
    <3>2. it[s \ {m + 1}] \in V
      BY <2>2, <3>1
    <3>3. step[<<m + 1, it[s \ {m + 1}]>>] \in V
      BY <2>1, <3>2
    <3>4. s \ {m + 1} \in SUBSET (1..(m + 1)) /\ m + 1 \notin s \ {m + 1}
      OBVIOUS
    <3> QED
      BY <2>3, <3>1, <3>2, <3>3, <3>4
  <2>4. ASSUME NEW s \in SUBSET (1..(m + 1)), m + 1 \notin s
        PROVE  s \in SUBSET (1..m) /\ h[s] = it[s] /\ h[s] \in V
    <3>1. s \in SUBSET (1..m)
      BY <2>4
    <3> QED
      BY <2>2, <2>4, <3>1
  <2>5. h \in [SUBSET (1..(m + 1)) -> V]
    BY <2>3, <2>4
  <2> HIDE DEF h
  <2>6. ASSUME NEW s \in SUBSET (1..(m + 1))
        PROVE  h[s] = IF s = {} THEN base ELSE step[<<Max(s), h[s \ {Max(s)}]>>]
    <3>1. CASE m + 1 \in s
      <4>1. Max(s) = m + 1
        BY <3>1, GreatestOfFirst
      <4> QED
        BY <2>3, <3>1, <4>1
    <3>2. CASE m + 1 \notin s
      <4>1. s \in SUBSET (1..m) /\ h[s] = it[s]
        BY <2>4, <3>2
      <4>2. it[s] = IF s = {} THEN base ELSE step[<<Max(s), it[s \ {Max(s)}]>>]
        BY <2>2, <4>1 DEF Folded
      <4>3. s \ {Max(s)} \in SUBSET (1..(m + 1)) /\ m + 1 \notin s \ {Max(s)}
        BY <3>2
      <4>4. h[s \ {Max(s)}] = it[s \ {Max(s)}]
        BY <2>4, <4>3
      <4> QED
        BY <4>1, <4>2, <4>4
    <3> QED
      BY <3>1, <3>2
  <2>7. Folded(m + 1, base, step, h)
    <3>1. h = [s \in SUBSET (1..(m + 1)) |-> h[s]]
      BY <2>5
    <3> QED
      BY <2>6, <3>1, Zenon DEF Folded
  <2> QED
    BY <2>5, <2>7
<1>3. Nat \subseteq P
  <2> HIDE DEF P
  <2> QED
    BY <1>1, <1>2, Induction
<1>4. Has(N)
  <2> HIDE DEF Has
  <2> QED
    BY <1>3
<1> QED
  BY <1>4

-----------------------------------------------------------------------------
\* Lists: sequences, of whatever values.

LEMMA ListIn == ASSUME NEW S, NEW s \in Seq(S) PROVE IsList(s)
<1>1. Len(s) \in Nat /\ s \in [1..Len(s) -> S]
  BY LenProperties
<1>2. s \in [1..Len(s) -> ToSet(s)]
  BY <1>1 DEF ToSet
<1> QED
  BY <1>1, <1>2, SeqDef DEF IsList

LEMMA ListIs ==
  ASSUME NEW s, IsList(s)
  PROVE  /\ Len(s) \in Nat /\ DOMAIN s = 1..Len(s) /\ s = [i \in 1..Len(s) |-> s[i]]
         /\ ToSet(s) = {s[i] : i \in 1..Len(s)}
<1>1. s \in Seq(ToSet(s))
  BY DEF IsList
<1>2. Len(s) \in Nat /\ s \in [1..Len(s) -> ToSet(s)]
  BY <1>1, LenProperties
<1> QED
  BY <1>2 DEF ToSet

LEMMA ListMade ==
  ASSUME NEW s, NEW n \in Nat, s = [i \in 1..n |-> s[i]]
  PROVE  IsList(s) /\ Len(s) = n /\ ToSet(s) = {s[i] : i \in 1..n}
<1> DEFINE S == {s[i] : i \in 1..n}
<1>1. s \in Seq(S)
  BY SeqDef
<1>2. Len(s) = n
  BY <1>1, LenProperties
<1>3. IsList(s)
  BY <1>1, ListIn
<1> QED
  BY <1>2, <1>3, ListIs

LEMMA ListWithin ==
  ASSUME NEW S, NEW s, IsList(s), \A i \in 1..Len(s) : s[i] \in S
  PROVE  s \in Seq(S)
  BY ListIs, SeqDef

LEMMA ListsSame ==
  ASSUME NEW s, NEW t, IsList(s), IsList(t), Len(s) = Len(t), \A i \in 1..Len(s) : s[i] = t[i]
  PROVE  s = t
<1>1. s = [i \in 1..Len(s) |-> s[i]] /\ t = [i \in 1..Len(t) |-> t[i]]
  BY ListIs
<1> QED
  BY <1>1

LEMMA EmptyList == IsList(<<>>) /\ Len(<<>>) = 0 /\ ToSet(<<>>) = {}
<1>1. <<>> \in Seq({})
  OBVIOUS
<1>2. IsList(<<>>)
  BY <1>1, ListIn
<1>3. Len(<<>>) = 0
  OBVIOUS
<1>4. ToSet(<<>>) = {<<>>[i] : i \in 1..Len(<<>>)}
  BY <1>2, ListIs
<1> QED
  BY <1>2, <1>3, <1>4

LEMMA Single == ASSUME NEW x PROVE IsList(<<x>>) /\ Len(<<x>>) = 1 /\ <<x>>[1] = x /\ ToSet(<<x>>) = {x}
<1>1. <<x>> \in Seq({x}) /\ Len(<<x>>) = 1 /\ <<x>>[1] = x
  OBVIOUS
<1>2. IsList(<<x>>)
  BY <1>1, ListIn
<1>3. ToSet(<<x>>) = {<<x>>[i] : i \in 1..Len(<<x>>)}
  BY <1>2, ListIs
<1>4. ToSet(<<x>>) = {x}
  BY <1>1, <1>3
<1> QED
  BY <1>1, <1>2, <1>4

LEMMA Pair == ASSUME NEW a, NEW b PROVE IsList(<<a, b>>) /\ Len(<<a, b>>) = 2 /\ <<a, b>>[1] = a /\ <<a, b>>[2] = b
<1>1. <<a, b>> \in Seq({a, b})
  OBVIOUS
<1> QED
  BY <1>1, ListIn

LEMMA Triple ==
  ASSUME NEW a, NEW b, NEW c
  PROVE  IsList(<<a, b, c>>) /\ Len(<<a, b, c>>) = 3 /\ <<a, b, c>>[1] = a /\ <<a, b, c>>[2] = b /\ <<a, b, c>>[3] = c
<1>1. <<a, b, c>> \in Seq({a, b, c})
  OBVIOUS
<1> QED
  BY <1>1, ListIn

LEMMA Fourth == ASSUME NEW a, NEW b, NEW c, NEW d PROVE IsList(<<a, b, c, d>>)
<1>1. <<a, b, c, d>> \in Seq({a, b, c, d})
  OBVIOUS
<1> QED
  BY <1>1, ListIn

LEMMA OneNotEmpty == ASSUME NEW w PROVE <<w>> # <<>>
<1>1. Len(<<w>>) = 1 /\ Len(<<>>) = 0
  BY Single, EmptyList
<1> QED
  BY <1>1

LEMMA AppendedList ==
  ASSUME NEW s, IsList(s), NEW x
  PROVE  /\ IsList(Append(s, x)) /\ Len(Append(s, x)) = Len(s) + 1 /\ Append(s, x)[Len(s) + 1] = x
         /\ \A i \in 1..Len(s) : Append(s, x)[i] = s[i]
<1> DEFINE S == ToSet(s) \cup {x}
<1>1. \A i \in 1..Len(s) : s[i] \in S
  BY ListIs
<1>2. s \in Seq(S) /\ x \in S
  BY <1>1, ListWithin
<1>3. /\ Append(s, x) \in Seq(S) /\ Len(Append(s, x)) = Len(s) + 1 /\ Append(s, x)[Len(s) + 1] = x
      /\ \A i \in 1..Len(s) : Append(s, x)[i] = s[i]
  BY <1>2, AppendProperties
<1> QED
  BY <1>3, ListIn

LEMMA AppendedOne == ASSUME NEW a, NEW b PROVE Append(<<a>>, b) = <<a, b>>
<1> DEFINE s == <<a>>
           t == <<a, b>>
           u == Append(s, b)
<1>1. IsList(s) /\ Len(s) = 1 /\ s[1] = a
  BY Single
<1>2. IsList(t) /\ Len(t) = 2 /\ t[1] = a /\ t[2] = b
  BY Pair
<1> HIDE DEF s, t
<1>3. /\ IsList(u) /\ Len(u) = Len(s) + 1 /\ u[Len(s) + 1] = b
      /\ \A i \in 1..Len(s) : u[i] = s[i]
  BY <1>1, AppendedList
<1> HIDE DEF u
<1>4. Len(u) = 2 /\ u[1] = a /\ u[2] = b
  BY <1>1, <1>3
<1>5. Len(u) = Len(t) /\ \A i \in 1..Len(u) : u[i] = t[i]
  BY <1>2, <1>4
<1>6. u = t
  BY <1>2, <1>3, <1>5, ListsSame
<1> QED
  BY <1>6 DEF s, t, u

LEMMA AppendedTwo == ASSUME NEW a, NEW b, NEW x PROVE Append(<<a, b>>, x) = <<a, b, x>>
<1> DEFINE s == <<a, b>>
           t == <<a, b, x>>
           u == Append(s, x)
<1>1. IsList(s) /\ Len(s) = 2 /\ s[1] = a /\ s[2] = b
  BY Pair
<1>2. IsList(t) /\ Len(t) = 3 /\ t[1] = a /\ t[2] = b /\ t[3] = x
  BY Triple
<1> HIDE DEF s, t
<1>3. /\ IsList(u) /\ Len(u) = Len(s) + 1 /\ u[Len(s) + 1] = x
      /\ \A i \in 1..Len(s) : u[i] = s[i]
  <2>1. IsList(s)
    BY <1>1
  <2> QED
    BY <2>1, AppendedList, Zenon
<1> HIDE DEF u
<1>4. Len(u) = 3 /\ u[1] = a /\ u[2] = b /\ u[3] = x
  BY <1>1, <1>3
<1>5. Len(u) = Len(t) /\ \A i \in 1..Len(u) : u[i] = t[i]
  BY <1>2, <1>4
<1>6. u = t
  BY <1>2, <1>3, <1>5, ListsSame
<1> QED
  BY <1>6 DEF s, t, u

LEMMA PartOfList ==
  ASSUME NEW s, IsList(s), NEW m \in Nat \ {0}, NEW n \in Nat, n <= Len(s), m <= n + 1
  PROVE  /\ IsList(SubSeq(s, m, n)) /\ Len(SubSeq(s, m, n)) = n - m + 1
         /\ \A i \in 1..(n - m + 1) : SubSeq(s, m, n)[i] = s[m + i - 1]
<1>1. s \in Seq(ToSet(s)) /\ Len(s) \in Nat
  BY ListIs DEF IsList
<1>2. \A i \in m..n : s[i] \in ToSet(s)
  BY <1>1, ListIs
<1>3. /\ SubSeq(s, m, n) \in Seq(ToSet(s))
      /\ Len(SubSeq(s, m, n)) = IF m <= n THEN n - m + 1 ELSE 0
      /\ \A i \in 1..(n - m + 1) : SubSeq(s, m, n)[i] = s[m + i - 1]
  BY <1>1, <1>2, SubSeqProperties
<1>4. IsList(SubSeq(s, m, n))
  BY <1>3, ListIn
<1>5. Len(SubSeq(s, m, n)) = n - m + 1
  BY <1>3
<1> QED
  BY <1>3, <1>4, <1>5

LEMMA PartWithin ==
  ASSUME NEW s, IsList(s), NEW m \in Nat \ {0}, NEW n \in Int, n <= Len(s)
  PROVE  /\ IsList(SubSeq(s, m, n)) /\ Len(SubSeq(s, m, n)) = IF m <= n THEN n - m + 1 ELSE 0
         /\ \A i \in 1..Len(SubSeq(s, m, n)) : SubSeq(s, m, n)[i] = s[m + i - 1] /\ m + i - 1 \in 1..Len(s)
<1>1. Len(s) \in Nat
  BY ListIs
<1>2. CASE m <= n
  BY <1>1, <1>2, PartOfList
<1>3. CASE ~(m <= n)
  <2>1. SubSeq(s, m, n) = <<>>
    BY <1>3
  <2> QED
    BY <1>3, <2>1, EmptyList
<1> QED
  BY <1>2, <1>3

LEMMA PrefixMore ==
  ASSUME NEW s, IsList(s), NEW n \in Nat, n + 1 <= Len(s)
  PROVE  Append(SubSeq(s, 1, n), s[n + 1]) = SubSeq(s, 1, n + 1)
<1> DEFINE a == SubSeq(s, 1, n)
           b == SubSeq(s, 1, n + 1)
           c == Append(a, s[n + 1])
<1>1. Len(s) \in Nat
  BY ListIs
<1>2. IsList(a) /\ Len(a) = n /\ \A i \in 1..n : a[i] = s[i]
  <2>1. /\ IsList(a) /\ Len(a) = n - 1 + 1 /\ \A i \in 1..(n - 1 + 1) : a[i] = s[1 + i - 1]
    <3>1. 1 \in Nat \ {0} /\ n <= Len(s) /\ 1 <= n + 1
      BY <1>1
    <3> QED
      BY <3>1, PartOfList
  <2> HIDE DEF a
  <2> QED
    BY <2>1
<1>3. IsList(b) /\ Len(b) = n + 1 /\ \A i \in 1..(n + 1) : b[i] = s[i]
  <2>1. /\ IsList(b) /\ Len(b) = (n + 1) - 1 + 1 /\ \A i \in 1..((n + 1) - 1 + 1) : b[i] = s[1 + i - 1]
    <3>1. 1 \in Nat \ {0} /\ n + 1 \in Nat /\ n + 1 <= Len(s) /\ 1 <= (n + 1) + 1
      BY <1>1
    <3> QED
      BY <3>1, PartOfList
  <2> HIDE DEF b
  <2> QED
    BY <2>1
<1> HIDE DEF a, b
<1>4. IsList(c) /\ Len(c) = Len(a) + 1 /\ c[Len(a) + 1] = s[n + 1] /\ \A i \in 1..Len(a) : c[i] = a[i]
  BY <1>2, AppendedList
<1> HIDE DEF c
<1>5. \A i \in 1..Len(c) : c[i] = b[i]
  <2>1. SUFFICES ASSUME NEW i \in 1..(n + 1) PROVE c[i] = b[i]
    BY <1>2, <1>4
  <2>2. CASE i = n + 1
    BY <1>2, <1>3, <1>4, <2>2
  <2>3. CASE i # n + 1
    <3>1. i \in 1..n
      BY <2>3
    <3> QED
      BY <1>2, <1>3, <1>4, <3>1
  <2> QED
    BY <2>2, <2>3
<1>6. c = b
  BY <1>2, <1>3, <1>4, <1>5, ListsSame
<1> QED
  BY <1>6 DEF a, b, c

LEMMA PrefixNone == ASSUME NEW s PROVE SubSeq(s, 1, 0) = <<>>
  OBVIOUS

LEMMA PrefixAll == ASSUME NEW s, IsList(s) PROVE SubSeq(s, 1, Len(s)) = s
<1>0. Len(s) \in Nat
  BY ListIs
<1>1. IsList(SubSeq(s, 1, Len(s))) /\ Len(SubSeq(s, 1, Len(s))) = Len(s)
  BY <1>0, PartOfList
<1>2. \A i \in 1..Len(s) : SubSeq(s, 1, Len(s))[i] = s[i]
  BY <1>0, PartOfList
<1> QED
  BY <1>1, <1>2, ListsSame

LEMMA JoinedLists ==
  ASSUME NEW a, NEW b, IsList(a), IsList(b)
  PROVE  /\ IsList(a \o b) /\ Len(a) \in Nat /\ Len(b) \in Nat
         /\ Len(a \o b) = Len(a) + Len(b)
         /\ \A i \in 1..(Len(a) + Len(b)) : (a \o b)[i] = IF i <= Len(a) THEN a[i] ELSE b[i - Len(a)]
         /\ ToSet(a \o b) = ToSet(a) \cup ToSet(b)
<1> DEFINE S == ToSet(a) \cup ToSet(b)
<1>1. a \in Seq(S) /\ b \in Seq(S)
  <2>1. \A i \in 1..Len(a) : a[i] \in S
    BY ListIs
  <2>2. \A i \in 1..Len(b) : b[i] \in S
    BY ListIs
  <2> QED
    BY <2>1, <2>2, ListWithin
<1>2. Len(a) \in Nat /\ Len(b) \in Nat
  BY ListIs
<1>3. /\ a \o b \in Seq(S) /\ Len(a \o b) = Len(a) + Len(b)
      /\ \A i \in 1..(Len(a) + Len(b)) : (a \o b)[i] = IF i <= Len(a) THEN a[i] ELSE b[i - Len(a)]
  BY <1>1, ConcatProperties
<1>4. IsList(a \o b)
  BY <1>3, ListIn
<1> DEFINE c == a \o b
<1>5. ToSet(c) = {c[i] : i \in 1..Len(c)} /\ ToSet(a) = {a[i] : i \in 1..Len(a)}
      /\ ToSet(b) = {b[i] : i \in 1..Len(b)}
  BY <1>4, ListIs
<1>6. /\ Len(c) = Len(a) + Len(b)
      /\ \A i \in 1..(Len(a) + Len(b)) : c[i] = IF i <= Len(a) THEN a[i] ELSE b[i - Len(a)]
  BY <1>3
<1> HIDE DEF c
<1>7. ASSUME NEW x \in ToSet(c) PROVE x \in ToSet(a) \cup ToSet(b)
  <2>1. PICK i \in 1..Len(c) : x = c[i]
    BY <1>5
  <2>2. CASE i <= Len(a)
    BY <1>2, <1>5, <1>6, <2>1, <2>2
  <2>3. CASE ~(i <= Len(a))
    <3>1. i - Len(a) \in 1..Len(b)
      BY <1>2, <1>6, <2>3
    <3> QED
      BY <1>2, <1>5, <1>6, <2>1, <2>3, <3>1
  <2> QED
    BY <2>2, <2>3
<1>8. ASSUME NEW x \in ToSet(a) PROVE x \in ToSet(c)
  <2>1. PICK i \in 1..Len(a) : x = a[i]
    BY <1>5
  <2>2. i \in 1..Len(c) /\ c[i] = a[i]
    BY <1>2, <1>6
  <2> QED
    BY <1>5, <2>1, <2>2
<1>9. ASSUME NEW x \in ToSet(b) PROVE x \in ToSet(c)
  <2>1. PICK i \in 1..Len(b) : x = b[i]
    BY <1>5
  <2>2. Len(a) + i \in 1..Len(c) /\ ~(Len(a) + i <= Len(a)) /\ (Len(a) + i) - Len(a) = i
    BY <1>2, <1>6
  <2>3. c[Len(a) + i] = b[i]
    BY <1>2, <1>6, <2>2
  <2> QED
    BY <1>5, <2>1, <2>2, <2>3
<1>10. ToSet(c) = ToSet(a) \cup ToSet(b)
  BY <1>7, <1>8, <1>9
<1> QED
  BY <1>2, <1>3, <1>4, <1>10 DEF c

LEMMA JoinedOne == ASSUME NEW s, IsList(s), NEW x PROVE s \o <<x>> = Append(s, x)
<1> DEFINE b == <<x>>
<1>1. IsList(b) /\ Len(b) = 1 /\ b[1] = x
  BY Single
<1> HIDE DEF b
<1>2. /\ IsList(s \o b) /\ Len(s) \in Nat /\ Len(s \o b) = Len(s) + 1
      /\ \A i \in 1..(Len(s) + 1) : (s \o b)[i] = IF i <= Len(s) THEN s[i] ELSE b[i - Len(s)]
  BY <1>1, JoinedLists
<1>3. /\ IsList(Append(s, x)) /\ Len(Append(s, x)) = Len(s) + 1 /\ Append(s, x)[Len(s) + 1] = x
      /\ \A i \in 1..Len(s) : Append(s, x)[i] = s[i]
  BY AppendedList
<1>4. ASSUME NEW i \in 1..(Len(s) + 1) PROVE (s \o b)[i] = Append(s, x)[i]
  <2>1. CASE i = Len(s) + 1
    <3>1. ~(i <= Len(s)) /\ i - Len(s) = 1
      BY <1>2, <2>1
    <3> QED
      BY <1>1, <1>2, <1>3, <2>1, <3>1
  <2>2. CASE i # Len(s) + 1
    <3>1. i <= Len(s) /\ i \in 1..Len(s)
      BY <1>2, <2>2
    <3> QED
      BY <1>2, <1>3, <3>1
  <2> QED
    BY <2>1, <2>2
<1>5. s \o b = Append(s, x)
  BY <1>2, <1>3, <1>4, ListsSame
<1> QED
  BY <1>5 DEF b

LEMMA JoinedNone == ASSUME NEW s, IsList(s) PROVE s \o <<>> = s
<1> DEFINE e == <<>>
<1>1. IsList(e) /\ Len(e) = 0
  BY EmptyList
<1> HIDE DEF e
<1>2. /\ IsList(s \o e) /\ Len(s) \in Nat /\ Len(s \o e) = Len(s)
      /\ \A i \in 1..Len(s) : (s \o e)[i] = s[i]
  <2>1. /\ IsList(s \o e) /\ Len(s) \in Nat /\ Len(s \o e) = Len(s) + Len(e)
        /\ \A i \in 1..(Len(s) + Len(e)) : (s \o e)[i] = IF i <= Len(s) THEN s[i] ELSE e[i - Len(s)]
    BY <1>1, JoinedLists
  <2> QED
    BY <1>1, <2>1
<1>3. s \o e = s
  BY <1>2, ListsSame
<1> QED
  BY <1>3 DEF e

\* One and one, two and two.
LEMMA OneAndOne ==
  ASSUME NEW a, IsList(a), Len(a) = 1, NEW b, IsList(b), Len(b) = 1
  PROVE  IsList(a \o b) /\ Len(a \o b) = 2 /\ (a \o b)[1] = a[1] /\ (a \o b)[2] = b[1]
<1> DEFINE s == a \o b
<1>1. /\ IsList(s) /\ Len(s) = Len(a) + Len(b)
      /\ \A i \in 1..(Len(a) + Len(b)) : s[i] = IF i <= Len(a) THEN a[i] ELSE b[i - Len(a)]
  BY JoinedLists
<1> HIDE DEF s
<1>2. IsList(s) /\ Len(s) = 2 /\ s[1] = a[1] /\ s[2] = b[1]
  BY <1>1
<1> QED
  BY <1>2 DEF s

LEMMA TwoAndTwo ==
  ASSUME NEW a, IsList(a), Len(a) = 2, NEW b, IsList(b), Len(b) = 2
  PROVE  /\ IsList(a \o b) /\ Len(a \o b) = 4
         /\ (a \o b)[1] = a[1] /\ (a \o b)[2] = a[2] /\ (a \o b)[3] = b[1] /\ (a \o b)[4] = b[2]
<1> DEFINE s == a \o b
<1>1. /\ IsList(s) /\ Len(s) = Len(a) + Len(b)
      /\ \A i \in 1..(Len(a) + Len(b)) : s[i] = IF i <= Len(a) THEN a[i] ELSE b[i - Len(a)]
  BY JoinedLists
<1> HIDE DEF s
<1>2. IsList(s) /\ Len(s) = 4 /\ s[1] = a[1] /\ s[2] = a[2] /\ s[3] = b[1] /\ s[4] = b[2]
  BY <1>1
<1> QED
  BY <1>2 DEF s

LEMMA ReversedList ==
  ASSUME NEW s, IsList(s)
  PROVE  /\ IsList(Reverse(s)) /\ Len(Reverse(s)) = Len(s) /\ ToSet(Reverse(s)) = ToSet(s)
         /\ \A i \in 1..Len(s) : Reverse(s)[i] = s[Len(s) - i + 1]
         /\ Once(s) => Once(Reverse(s))
<1>1. Len(s) \in Nat /\ ToSet(s) = {s[i] : i \in 1..Len(s)}
  BY ListIs
<1> DEFINE r == [i \in 1..Len(s) |-> s[(Len(s) - i) + 1]]
<1>2. Reverse(s) = r
  BY DEF Reverse
<1>3. IsList(r) /\ Len(r) = Len(s) /\ ToSet(r) = {r[i] : i \in 1..Len(s)}
  BY <1>1, ListMade
<1>4. \A i \in 1..Len(s) : (Len(s) - i) + 1 \in 1..Len(s) /\ r[i] = s[(Len(s) - i) + 1] /\ (Len(s) - ((Len(s) - i) + 1)) + 1 = i
  BY <1>1
<1> HIDE DEF r
<1>5. ToSet(r) = ToSet(s)
  <2>1. ASSUME NEW i \in 1..Len(s) PROVE r[i] \in ToSet(s) /\ s[i] \in ToSet(r)
    <3>1. s[i] = r[(Len(s) - i) + 1]
      BY <1>4
    <3> QED
      BY <1>1, <1>3, <1>4, <3>1
  <2> QED
    BY <1>1, <1>3, <2>1
<1>6. Once(s) => Once(r)
  <2>1. SUFFICES ASSUME Once(s), NEW i \in 1..Len(s), NEW k \in 1..Len(s), r[i] = r[k] PROVE i = k
    BY <1>3 DEF Once
  <2>2. (Len(s) - i) + 1 = (Len(s) - k) + 1
    BY <1>4, <2>1 DEF Once
  <2> QED
    BY <1>1, <2>2
<1> QED
  BY <1>1, <1>2, <1>3, <1>4, <1>5, <1>6

-----------------------------------------------------------------------------
\* The elements of a list that are selected, in their order.

\* What is selected of the first elements, one after the other.
SelectsBy(S, s, kept, taken) ==
    /\ taken \in [0..Len(s) -> Seq(S)]
    /\ taken[0] = <<>> /\ Select(s, kept) = taken[Len(s)]
    /\ \A n \in 1..Len(s) :
         taken[n] = IF n \in kept THEN Append(taken[n - 1], s[n]) ELSE taken[n - 1]

LEMMA SelectSteps ==
  ASSUME NEW S, NEW s \in Seq(S), NEW kept
  PROVE  \E taken : SelectsBy(S, s, kept, taken)
<1> DEFINE N == Len(s)
           V == Seq(S)
           step == [m \in (1..N) \X V |-> IF m[1] \in kept THEN Append(m[2], s[m[1]]) ELSE m[2]]
           Taken(g) == g = [n \in 0..N |-> IF n = 0 THEN <<>>
                                            ELSE IF n \in kept THEN Append(g[n - 1], s[n]) ELSE g[n - 1]]
<1>1. N \in Nat /\ \A i \in 1..N : s[i] \in S
  BY LenProperties
<1>2. step \in [(1..N) \X V -> V]
  <2>1. ASSUME NEW m \in (1..N) \X V
        PROVE  (IF m[1] \in kept THEN Append(m[2], s[m[1]]) ELSE m[2]) \in V
    BY <1>1, AppendProperties
  <2> QED
    BY <2>1
<1>3. <<>> \in V
  OBVIOUS
<1>4. PICK h \in [0..N -> V] : Unrolled(N, <<>>, step, h)
  <2> HIDE DEF N, V, step
  <2> QED
    BY <1>1, <1>2, <1>3, RecursionExists
<1>5. Taken(h)
  <2>1. ASSUME NEW n \in 0..N
        PROVE  (IF n = 0 THEN <<>> ELSE step[<<n, h[n - 1]>>])
               = (IF n = 0 THEN <<>> ELSE IF n \in kept THEN Append(h[n - 1], s[n]) ELSE h[n - 1])
    <3>1. CASE n = 0
      BY <3>1
    <3>2. CASE n # 0
      <4>1. n \in 1..N /\ n - 1 \in 0..N
        BY <1>1, <3>2
      <4>2. <<n, h[n - 1]>> \in (1..N) \X V
        BY <1>4, <4>1
      <4> QED
        BY <3>2, <4>2
    <3> QED
      BY <3>1, <3>2
  <2> HIDE DEF step, V, N
  <2> QED
    BY <1>4, <2>1 DEF Unrolled
<1> DEFINE taken == CHOOSE g : Taken(g)
<1>6. Taken(taken)
  <2> HIDE DEF Taken
  <2> QED
    BY <1>5
<1>7. Select(s, kept) = taken[N]
  BY DEF Select
<1> HIDE DEF taken
<1>8. /\ taken[0] = <<>>
      /\ \A n \in 1..N : taken[n] = IF n \in kept THEN Append(taken[n - 1], s[n]) ELSE taken[n - 1]
  <2>1. taken[0] = <<>>
    <3> HIDE DEF N
    <3>1. 0 \in 0..N
      BY <1>1
    <3> QED
      BY <1>6, <3>1
  <2>2. ASSUME NEW n \in 1..N
        PROVE  taken[n] = IF n \in kept THEN Append(taken[n - 1], s[n]) ELSE taken[n - 1]
    <3> HIDE DEF N
    <3>1. n \in 0..N /\ n # 0
      BY <1>1
    <3> QED
      BY <1>6, <3>1
  <2> QED
    BY <2>1, <2>2
<1>9. \A n \in 0..N : taken[n] \in V
  <2> DEFINE Good == {n \in Nat : n <= N => taken[n] \in V}
  <2>1. 0 \in Good
    BY <1>3, <1>8
  <2>2. ASSUME NEW n \in Nat, n \in Good PROVE n + 1 \in Good
    <3>1. SUFFICES ASSUME n + 1 <= N PROVE taken[n + 1] \in V
      OBVIOUS
    <3>2. taken[n] \in V /\ n + 1 \in 1..N /\ (n + 1) - 1 = n
      BY <1>1, <2>2, <3>1
    <3>3. s[n + 1] \in S /\ taken[n + 1] = IF n + 1 \in kept THEN Append(taken[n], s[n + 1]) ELSE taken[n]
      BY <1>1, <1>8, <3>2
    <3> QED
      BY <3>2, <3>3, AppendProperties
  <2>3. Nat \subseteq Good
    <3> HIDE DEF Good
    <3> QED
      BY <2>1, <2>2, Induction
  <2> QED
    BY <1>1, <2>3
<1>10. taken \in [0..N -> V]
  BY <1>6, <1>9
<1>11. SelectsBy(S, s, kept, taken)
  BY <1>7, <1>8, <1>10 DEF SelectsBy
<1> QED
  BY <1>11

\* The places in s of the elements that are selected.
Located(t, s, kept, place) ==
    /\ place \in [1..Len(t) -> kept]
    /\ \A k \in 1..Len(t) : t[k] = s[place[k]]
    /\ \A k, j \in 1..Len(t) : k < j => place[k] < place[j]
    /\ \A i \in kept : \E k \in 1..Len(t) : place[k] = i

LEMMA SelectPlaces ==
  ASSUME NEW S, NEW s \in Seq(S), NEW kept
  PROVE  /\ Select(s, kept) \in Seq(S)
         /\ \E place : Located(Select(s, kept), s, kept \cap (1..Len(s)), place)
<1>1. Len(s) \in Nat /\ \A i \in 1..Len(s) : s[i] \in S
  BY LenProperties
<1>2. PICK taken : SelectsBy(S, s, kept, taken)
  BY SelectSteps
<1>20. /\ taken \in [0..Len(s) -> Seq(S)]
       /\ taken[0] = <<>> /\ Select(s, kept) = taken[Len(s)]
       /\ \A n \in 1..Len(s) :
            taken[n] = IF n \in kept THEN Append(taken[n - 1], s[n]) ELSE taken[n - 1]
  BY <1>2 DEF SelectsBy
<1> DEFINE Has(n) == \E place : Located(taken[n], s, kept \cap (1..n), place)
           Good == {n \in Nat : n <= Len(s) => Has(n)}
<1>3. 0 \in Good
  <2>1. taken[0] = <<>> /\ Len(taken[0]) = 0
    BY <1>20
  <2>2. kept \cap (1..0) = {}
    OBVIOUS
  <2>3. Located(taken[0], s, kept \cap (1..0), [i \in 1..0 |-> 0])
    BY <2>1, <2>2 DEF Located
  <2> QED
    BY <2>3
<1>4. ASSUME NEW n \in Nat, n \in Good PROVE n + 1 \in Good
  <2>1. SUFFICES ASSUME n + 1 <= Len(s) PROVE Has(n + 1)
    <3> HIDE DEF Has
    <3> QED
      OBVIOUS
  <2>2. PICK place : Located(taken[n], s, kept \cap (1..n), place)
    <3>1. Has(n)
      <4> HIDE DEF Has
      <4> QED
        BY <1>1, <1>4, <2>1
    <3> QED
      BY <3>1
  <2>3. n + 1 \in 1..Len(s) /\ (n + 1) - 1 = n /\ n \in 0..Len(s)
    BY <1>1, <2>1
  <2>4. CASE n + 1 \notin kept
    <3>1. taken[n + 1] = taken[n]
      BY <1>20, <2>3, <2>4
    <3>2. kept \cap (1..(n + 1)) = kept \cap (1..n)
      BY <2>4
    <3> QED
      BY <2>2, <3>1, <3>2
  <2>5. CASE n + 1 \in kept
    <3> DEFINE t == taken[n]
               u == taken[n + 1]
               place2 == [k \in 1..(Len(t) + 1) |-> IF k = Len(t) + 1 THEN n + 1 ELSE place[k]]
    <3>1. t \in Seq(S) /\ Len(t) \in Nat /\ s[n + 1] \in S
      BY <1>1, <1>20, <2>3, LenProperties
    <3>2. u = Append(t, s[n + 1])
      BY <1>20, <2>3, <2>5
    <3>3. /\ Len(u) = Len(t) + 1 /\ u[Len(t) + 1] = s[n + 1]
          /\ \A k \in 1..Len(t) : u[k] = t[k]
      BY <3>1, <3>2, AppendProperties
    <3> HIDE DEF t, u
    <3>4. Located(t, s, kept \cap (1..n), place)
      BY <2>2 DEF t
    <3>5. Located(u, s, kept \cap (1..(n + 1)), place2)
      <4>1. ASSUME NEW k \in 1..Len(u)
            PROVE  place2[k] \in kept \cap (1..(n + 1)) /\ u[k] = s[place2[k]]
                   /\ (k = Len(u) => place2[k] = n + 1)
                   /\ (k # Len(u) => k \in 1..Len(t) /\ place2[k] = place[k] /\ place[k] <= n)
        <5>1. CASE k = Len(u)
          BY <2>5, <3>1, <3>3, <5>1
        <5>2. CASE k # Len(u)
          <6>1. k \in 1..Len(t) /\ place2[k] = place[k] /\ u[k] = t[k]
            BY <3>1, <3>3, <5>2
          <6>2. place[k] \in kept \cap (1..n) /\ t[k] = s[place[k]]
            BY <3>4, <6>1 DEF Located
          <6> QED
            BY <5>2, <6>1, <6>2
        <5> QED
          BY <5>1, <5>2
      <4>2. place2 \in [1..Len(u) -> kept \cap (1..(n + 1))]
        BY <3>3, <4>1
      <4>3. ASSUME NEW k \in 1..Len(u), NEW j \in 1..Len(u), k < j PROVE place2[k] < place2[j]
        <5>1. k # Len(u) /\ k \in 1..Len(t) /\ place2[k] = place[k] /\ place[k] <= n
          BY <3>1, <3>3, <4>1, <4>3
        <5>2. place[k] \in Nat
          BY <3>4, <5>1 DEF Located
        <5>3. CASE j = Len(u)
          <6>1. place2[j] = n + 1
            BY <4>1, <5>3
          <6> HIDE DEF place2
          <6> QED
            BY <5>1, <5>2, <6>1
        <5>4. CASE j # Len(u)
          <6>1. j \in 1..Len(t) /\ place2[j] = place[j]
            BY <4>1, <5>4
          <6> QED
            BY <3>4, <4>3, <5>1, <6>1 DEF Located
        <5> QED
          BY <5>3, <5>4
      <4>4. ASSUME NEW i \in kept \cap (1..(n + 1)) PROVE \E k \in 1..Len(u) : place2[k] = i
        <5>1. CASE i = n + 1
          BY <3>1, <3>3, <4>1, <5>1
        <5>2. CASE i # n + 1
          <6>1. i \in kept \cap (1..n)
            BY <5>2
          <6>2. PICK k \in 1..Len(t) : place[k] = i
            BY <3>4, <6>1 DEF Located
          <6>3. k \in 1..Len(u) /\ place2[k] = i
            BY <3>1, <3>3, <6>2
          <6> QED
            BY <6>3
        <5> QED
          BY <5>1, <5>2
      <4> HIDE DEF place2
      <4> QED
        BY <4>1, <4>2, <4>3, <4>4 DEF Located
    <3> QED
      BY <3>5 DEF u
  <2> QED
    BY <2>4, <2>5
<1>5. Nat \subseteq Good
  <2> HIDE DEF Good
  <2> QED
    BY <1>3, <1>4, Induction
<1>6. \E place : Located(taken[Len(s)], s, kept \cap (1..Len(s)), place)
  <2>1. Has(Len(s))
    <3> HIDE DEF Has
    <3> QED
      BY <1>1, <1>5
  <2> QED
    BY <2>1
<1> QED
  BY <1>1, <1>20, <1>6

\* The numbers that place gives are all those of K, each once.
Numbers(place, n, K) ==
    /\ place \in [1..n -> K]
    /\ \A k, j \in 1..n : place[k] = place[j] => k = j
    /\ \A i \in K : \E k \in 1..n : place[k] = i

LEMMA Numbered ==
  ASSUME NEW K, NEW n \in Nat, NEW place, Numbers(place, n, K)
  PROVE  IsFiniteSet(K) /\ Cardinality(K) = n
<1>1. place \in Bijection(1..n, K)
  BY DEF Numbers, Bijection, Injection, Surjection, IsInjective
<1>2. ExistsBijection(1..n, K)
  BY <1>1 DEF ExistsBijection
<1>3. IsFiniteSet(K)
  BY <1>2, FS_NatBijection
<1>4. Cardinality(K) = n
  BY <1>2, FS_CountingElements
<1> QED
  BY <1>3, <1>4

LEMMA SelectedList ==
  ASSUME NEW s, IsList(s), NEW kept
  PROVE  /\ IsList(Select(s, kept)) /\ Len(Select(s, kept)) \in 0..Len(s)
         /\ ToSet(Select(s, kept)) = {s[i] : i \in kept \cap (1..Len(s))}
         /\ Once(s) => Once(Select(s, kept))
         /\ Len(Select(s, kept)) = Cardinality(kept \cap (1..Len(s)))
<1> DEFINE t == Select(s, kept)
           K == kept \cap (1..Len(s))
<1>1. s \in Seq(ToSet(s)) /\ Len(s) \in Nat
  BY ListIs DEF IsList
<1>2. t \in Seq(ToSet(s)) /\ \E place : Located(t, s, K, place)
  BY <1>1, SelectPlaces
<1>3. IsList(t)
  BY <1>2, ListIn
<1>4. Len(t) \in Nat /\ ToSet(t) = {t[i] : i \in 1..Len(t)}
  BY <1>3, ListIs
<1> HIDE DEF t, K
<1>5. PICK place : Located(t, s, K, place)
  BY <1>2
<1>6. /\ place \in [1..Len(t) -> K]
      /\ \A k \in 1..Len(t) : t[k] = s[place[k]]
      /\ \A k, j \in 1..Len(t) : k < j => place[k] < place[j]
      /\ \A i \in K : \E k \in 1..Len(t) : place[k] = i
  BY <1>5 DEF Located
<1>7. K \in SUBSET (1..Len(s)) /\ K \subseteq Nat
  BY DEF K
<1>8. \A k, j \in 1..Len(t) : place[k] = place[j] => k = j
  <2>1. SUFFICES ASSUME NEW k \in 1..Len(t), NEW j \in 1..Len(t), place[k] = place[j], k # j PROVE FALSE
    OBVIOUS
  <2>2. k < j \/ j < k
    BY <1>4, <2>1
  <2>3. place[k] < place[j] \/ place[j] < place[k]
    BY <1>6, <2>2
  <2>5. place[k] \in K /\ place[j] \in K
    BY <1>6
  <2>4. place[k] \in Nat /\ place[j] \in Nat
    BY <1>7, <2>5
  <2> QED
    BY <2>1, <2>3, <2>4
<1>9. ToSet(t) = {s[i] : i \in K}
  <2>1. ASSUME NEW k \in 1..Len(t) PROVE t[k] \in {s[i] : i \in K}
    BY <1>6
  <2>2. ASSUME NEW i \in K PROVE s[i] \in ToSet(t)
    <3>1. PICK k \in 1..Len(t) : place[k] = i
      BY <1>6
    <3> QED
      BY <1>4, <1>6, <3>1
  <2> QED
    BY <1>4, <2>1, <2>2
<1>10. Once(s) => Once(t)
  <2>1. SUFFICES ASSUME Once(s), NEW i \in 1..Len(t), NEW k \in 1..Len(t), t[i] = t[k] PROVE i = k
    BY DEF Once
  <2>2. place[i] \in 1..Len(s) /\ place[k] \in 1..Len(s) /\ s[place[i]] = s[place[k]]
    BY <1>6, <1>7, <2>1
  <2>3. place[i] = place[k]
    BY <2>1, <2>2 DEF Once
  <2> QED
    BY <1>8, <2>3
<1>11. Cardinality(K) = Len(t) /\ Len(t) <= Len(s)
  <2>1. Cardinality(K) = Len(t)
    <3> HIDE DEF K
    <3>1. Numbers(place, Len(t), K)
      BY <1>6, <1>8 DEF Numbers
    <3> QED
      BY <1>4, <3>1, Numbered
  <2>2. IsFiniteSet(1..Len(s)) /\ Cardinality(1..Len(s)) = Len(s)
    <3>1. 1 \in Int /\ Len(s) \in Int
      BY <1>1
    <3> QED
      BY <1>1, <3>1, FS_Interval
  <2>3. Cardinality(K) <= Cardinality(1..Len(s))
    BY <1>7, <2>2, FS_Subset
  <2> QED
    BY <2>1, <2>2, <2>3
<1>12. Len(t) \in 0..Len(s)
  BY <1>1, <1>4, <1>11
<1> QED
  BY <1>3, <1>9, <1>10, <1>11, <1>12 DEF t, K

\* The second of two, and the last two of three.
LEMMA SecondKept ==
  ASSUME NEW e, NEW f, NEW kept, 1 \notin kept, 2 \in kept
  PROVE  Select(<<e, f>>, kept) = <<f>>
<1> DEFINE s == <<e, f>>
           S == {e, f}
<1>1. s \in Seq(S) /\ Len(s) = 2 /\ s[2] = f
  OBVIOUS
<1> HIDE DEF s, S
<1>2. PICK taken : SelectsBy(S, s, kept, taken)
  BY <1>1, SelectSteps
<1>3. taken[0] = <<>> /\ Select(s, kept) = taken[2] /\ taken[1] = taken[0] /\ taken[2] = Append(taken[1], s[2])
  <2>1. 1 \in 1..Len(s) /\ 2 \in 1..Len(s) /\ 1 - 1 = 0 /\ 2 - 1 = 1
    BY <1>1
  <2> QED
    BY <1>1, <1>2, <2>1 DEF SelectsBy
<1>4. Select(s, kept) = Append(<<>>, f)
  BY <1>1, <1>3
<1>5. Append(<<>>, f) = <<f>>
  OBVIOUS
<1> QED
  BY <1>4, <1>5 DEF s

LEMMA LastTwoKept ==
  ASSUME NEW e, NEW f, NEW g, NEW kept, 1 \notin kept, 2 \in kept, 3 \in kept
  PROVE  Select(<<e, f, g>>, kept) = <<f, g>>
<1> DEFINE s == <<e, f, g>>
           S == {e, f, g}
<1>1. s \in Seq(S) /\ Len(s) = 3 /\ s[2] = f /\ s[3] = g
  OBVIOUS
<1> HIDE DEF s, S
<1>2. PICK taken : SelectsBy(S, s, kept, taken)
  BY <1>1, SelectSteps
<1>3. /\ taken[0] = <<>> /\ Select(s, kept) = taken[3] /\ taken[1] = taken[0]
      /\ taken[2] = Append(taken[1], s[2]) /\ taken[3] = Append(taken[2], s[3])
  <2>1. 1 \in 1..Len(s) /\ 2 \in 1..Len(s) /\ 3 \in 1..Len(s) /\ 1 - 1 = 0 /\ 2 - 1 = 1 /\ 3 - 1 = 2
    BY <1>1
  <2> QED
    BY <1>1, <1>2, <2>1 DEF SelectsBy
<1>4. taken[2] = Append(<<>>, f)
  BY <1>1, <1>3
<1>5. Append(<<>>, f) = <<f>>
  OBVIOUS
<1>6. Select(s, kept) = Append(<<f>>, g)
  BY <1>1, <1>3, <1>4, <1>5
<1> QED
  BY <1>6, AppendedOne DEF s

-----------------------------------------------------------------------------
\* The lists of a list, one after the other.

\* The sequences that are joined one after the other.
JoinsBy(S, seqs, joined) ==
    /\ joined \in [0..Len(seqs) -> Seq(S)]
    /\ joined[0] = <<>> /\ FlattenSeq(seqs) = joined[Len(seqs)]
    /\ \A n \in 1..Len(seqs) : joined[n] = joined[n - 1] \o seqs[n]

LEMMA FlattenSteps ==
  ASSUME NEW S, NEW seqs \in Seq(Seq(S))
  PROVE  \E joined : JoinsBy(S, seqs, joined)
<1> DEFINE N == Len(seqs)
           V == Seq(S)
           step == [m \in (1..N) \X V |-> m[2] \o seqs[m[1]]]
           Flat(g) == g = [i \in 1..N |-> IF i = 1 THEN seqs[i] ELSE g[i - 1] \o seqs[i]]
<1>1. N \in Nat /\ \A i \in 1..N : seqs[i] \in V
  BY LenProperties
<1>2. step \in [(1..N) \X V -> V]
  <2>1. ASSUME NEW m \in (1..N) \X V PROVE m[2] \o seqs[m[1]] \in V
    BY <1>1, ConcatProperties
  <2> QED
    BY <2>1
<1>3. <<>> \in V
  OBVIOUS
<1>4. PICK h \in [0..N -> V] : Unrolled(N, <<>>, step, h)
  <2> HIDE DEF N, V, step
  <2> QED
    BY <1>1, <1>2, <1>3, RecursionExists
<1>5. h[0] = <<>>
  <2>1. 0 \in 0..N
    BY <1>1
  <2> HIDE DEF N, V, step
  <2> QED
    BY <1>4, <2>1 DEF Unrolled
<1>6. ASSUME NEW n \in 1..N
      PROVE  n - 1 \in 0..N /\ h[n] = h[n - 1] \o seqs[n]
  <2>1. n \in 0..N /\ n # 0 /\ n - 1 \in 0..N
    BY <1>1
  <2>2. h[n] = step[<<n, h[n - 1]>>]
    <3> HIDE DEF N, V, step
    <3> QED
      BY <1>4, <2>1 DEF Unrolled
  <2>3. <<n, h[n - 1]>> \in (1..N) \X V
    BY <1>4, <2>1
  <2> QED
    BY <2>1, <2>2, <2>3
<1> HIDE DEF step
<1>7. CASE N = 0
  <2>1. FlattenSeq(seqs) = seqs /\ seqs = <<>>
    BY <1>7, EmptySeq DEF FlattenSeq
  <2>2. JoinsBy(S, seqs, h)
    BY <1>4, <1>5, <1>6, <1>7, <2>1 DEF JoinsBy
  <2> QED
    BY <2>2
<1>8. CASE N # 0
  <2> DEFINE f == [i \in 1..N |-> h[i]]
             flatten == CHOOSE g : Flat(g)
  <2>1. Flat(f)
    <3>1. ASSUME NEW i \in 1..N
          PROVE  f[i] = IF i = 1 THEN seqs[i] ELSE f[i - 1] \o seqs[i]
      <4>1. CASE i = 1
        <5>1. h[i] = <<>> \o seqs[i] /\ seqs[i] \in V
          <6> HIDE DEF N
          <6>1. h[i] = h[i - 1] \o seqs[i]
            BY <1>6
          <6>2. i - 1 = 0
            BY <4>1
          <6> QED
            BY <1>1, <1>5, <6>1, <6>2
        <5> QED
          BY <4>1, <5>1, ConcatEmptySeq
      <4>2. CASE i # 1
        <5>1. i - 1 \in 1..N
          BY <1>1, <4>2
        <5> QED
          BY <1>6, <4>2, <5>1
      <4> QED
        BY <4>1, <4>2
    <3> HIDE DEF N
    <3> QED
      BY <3>1
  <2>2. Flat(flatten)
    <3> HIDE DEF Flat, f
    <3> QED
      BY <2>1
  <2>3. FlattenSeq(seqs) = flatten[N]
    BY <1>8 DEF FlattenSeq
  <2> HIDE DEF flatten, f
  <2>4. ASSUME NEW i \in 1..N
        PROVE  flatten[i] = IF i = 1 THEN seqs[i] ELSE flatten[i - 1] \o seqs[i]
    <3> HIDE DEF N
    <3> QED
      BY <2>2
  <2> DEFINE Same == {n \in Nat : n + 1 <= N => flatten[n + 1] = h[n + 1]}
  <2>5. 0 \in Same
    <3>1. 1 \in 1..N
      BY <1>1, <1>8
    <3>2. h[1] = <<>> \o seqs[1] /\ seqs[1] \in V
      <4> HIDE DEF N
      <4>1. h[1] = h[1 - 1] \o seqs[1]
        BY <1>6, <3>1
      <4>2. 1 - 1 = 0
        OBVIOUS
      <4> QED
        BY <1>1, <1>5, <3>1, <4>1, <4>2
    <3> QED
      BY <2>4, <3>1, <3>2, ConcatEmptySeq
  <2>6. ASSUME NEW n \in Nat, n \in Same PROVE n + 1 \in Same
    <3>1. SUFFICES ASSUME (n + 1) + 1 <= N PROVE flatten[(n + 1) + 1] = h[(n + 1) + 1]
      OBVIOUS
    <3>2. flatten[n + 1] = h[n + 1]
      BY <1>1, <2>6, <3>1
    <3>3. (n + 1) + 1 \in 1..N /\ ((n + 1) + 1) - 1 = n + 1 /\ (n + 1) + 1 # 1
      BY <1>1, <3>1
    <3>4. h[(n + 1) + 1] = h[((n + 1) + 1) - 1] \o seqs[(n + 1) + 1]
      BY <1>6, <3>3
    <3>5. flatten[(n + 1) + 1] = flatten[((n + 1) + 1) - 1] \o seqs[(n + 1) + 1]
      BY <2>4, <3>3
    <3> HIDE DEF N
    <3> QED
      BY <3>2, <3>3, <3>4, <3>5
  <2>7. Nat \subseteq Same
    <3> HIDE DEF Same
    <3> QED
      BY <2>5, <2>6, Induction
  <2>8. flatten[N] = h[N]
    <3>1. N - 1 \in Nat /\ (N - 1) + 1 = N
      BY <1>1, <1>8
    <3>2. N - 1 \in Same
      BY <2>7, <3>1
    <3> QED
      BY <1>1, <3>1, <3>2
  <2>9. JoinsBy(S, seqs, h)
    BY <1>4, <1>5, <1>6, <2>3, <2>8 DEF JoinsBy
  <2> QED
    BY <2>9
<1> QED
  BY <1>7, <1>8

\* What is joined of lists is a list.
LEMMA FlattenedList ==
  ASSUME NEW seqs, IsList(seqs), \A i \in 1..Len(seqs) : IsList(seqs[i])
  PROVE  /\ IsList(FlattenSeq(seqs))
         /\ \E S : seqs \in Seq(Seq(S))
<1> DEFINE S == UNION {ToSet(seqs[i]) : i \in 1..Len(seqs)}
<1>1. ASSUME NEW i \in 1..Len(seqs) PROVE seqs[i] \in Seq(S)
  <2> DEFINE s == seqs[i]
  <2>1. IsList(s)
    OBVIOUS
  <2>2. ToSet(s) \subseteq S
    OBVIOUS
  <2> HIDE DEF s, S
  <2>3. \A k \in 1..Len(s) : s[k] \in S
    BY <2>1, <2>2, ListIs
  <2>4. s \in Seq(S)
    BY <2>1, <2>3, ListWithin
  <2> QED
    BY <2>4 DEF s
<1> HIDE DEF S
<1>2. seqs \in Seq(Seq(S))
  BY <1>1, ListWithin
<1>3. PICK joined : JoinsBy(S, seqs, joined)
  BY <1>2, FlattenSteps
<1>4. FlattenSeq(seqs) \in Seq(S)
  <2>1. Len(seqs) \in Nat
    BY ListIs
  <2> QED
    BY <1>3, <2>1 DEF JoinsBy
<1> QED
  BY <1>2, <1>4, ListIn

LEMMA FlatSingles ==
  ASSUME NEW s, IsList(s)
  PROVE  FlattenSeq([i \in DOMAIN s |-> <<s[i]>>]) = s
<1> DEFINE seqs == [i \in 1..Len(s) |-> <<s[i]>>]
<1>1. Len(s) \in Nat /\ DOMAIN s = 1..Len(s)
  BY ListIs
<1>2. [i \in DOMAIN s |-> <<s[i]>>] = seqs
  BY <1>1
<1>3. seqs = [i \in 1..Len(s) |-> seqs[i]] /\ \A i \in 1..Len(s) : seqs[i] = <<s[i]>>
  OBVIOUS
<1> HIDE DEF seqs
<1>4. IsList(seqs) /\ Len(seqs) = Len(s) /\ \A i \in 1..Len(seqs) : IsList(seqs[i])
  <2>1. IsList(seqs) /\ Len(seqs) = Len(s)
    BY <1>1, <1>3, ListMade
  <2>2. ASSUME NEW i \in 1..Len(seqs) PROVE IsList(seqs[i])
    <3>1. seqs[i] = <<s[i]>>
      BY <1>3, <2>1
    <3>2. IsList(<<s[i]>>)
      BY Single
    <3> QED
      BY <3>1, <3>2
  <2> QED
    BY <2>1, <2>2
<1>5. PICK S : seqs \in Seq(Seq(S))
  BY <1>4, FlattenedList
<1>6. PICK joined : JoinsBy(S, seqs, joined)
  BY <1>5, FlattenSteps
<1>7. joined[0] = <<>> /\ FlattenSeq(seqs) = joined[Len(s)] /\ \A n \in 1..Len(s) : joined[n] = joined[n - 1] \o seqs[n]
  BY <1>4, <1>6 DEF JoinsBy
<1> DEFINE Good == {n \in Nat : n <= Len(s) => joined[n] = SubSeq(s, 1, n)}
<1>8. 0 \in Good
  BY <1>7, PrefixNone
<1>9. ASSUME NEW n \in Nat, n \in Good PROVE n + 1 \in Good
  <2>1. SUFFICES ASSUME n + 1 <= Len(s) PROVE joined[n + 1] = SubSeq(s, 1, n + 1)
    OBVIOUS
  <2>2. n + 1 \in 1..Len(s) /\ (n + 1) - 1 = n /\ n <= Len(s) /\ joined[n] = SubSeq(s, 1, n)
    BY <1>1, <1>9, <2>1
  <2>3. joined[n + 1] = SubSeq(s, 1, n) \o <<s[n + 1]>>
    BY <1>3, <1>7, <2>2
  <2>4. IsList(SubSeq(s, 1, n))
    <3>1. 1 \in Nat \ {0} /\ 1 <= n + 1
      OBVIOUS
    <3> QED
      BY <2>2, <3>1, PartOfList
  <2>5. SubSeq(s, 1, n) \o <<s[n + 1]>> = Append(SubSeq(s, 1, n), s[n + 1])
    BY <2>4, JoinedOne
  <2>6. Append(SubSeq(s, 1, n), s[n + 1]) = SubSeq(s, 1, n + 1)
    BY <2>1, PrefixMore
  <2> QED
    BY <2>3, <2>5, <2>6
<1>10. Nat \subseteq Good
  <2> HIDE DEF Good
  <2> QED
    BY <1>8, <1>9, Induction
<1>11. joined[Len(s)] = s
  BY <1>1, <1>10, PrefixAll
<1> QED
  BY <1>2, <1>7, <1>11

-----------------------------------------------------------------------------
\* The elements of a list, in the order of their keys.

\* The places in s of the elements of t, which are in the order of their keys.
Ordered(t, s, key, kept, place) ==
    /\ place \in [1..Len(t) -> kept]
    /\ \A k \in 1..Len(t) : t[k] = s[place[k]]
    /\ \A k, j \in 1..Len(t) : k < j => place[k] # place[j] /\ key[place[k]] <= key[place[j]]
    /\ \A i \in kept : \E k \in 1..Len(t) : place[k] = i

LEMMA SortedPlaces ==
  ASSUME NEW S, NEW s \in Seq(S), NEW n \in Nat, NEW key, \A i \in 1..Len(s) : key[i] \in 1..n
  PROVE  /\ SortedBy(s, key, n) \in Seq(S)
         /\ \E place : Ordered(SortedBy(s, key, n), s, key, 1..Len(s), place)
<1> DEFINE Of(k) == {i \in DOMAIN s : key[i] = k}
           seqs == [k \in 1..n |-> Select(s, Of(k))]
           UpToKey(k) == {i \in 1..Len(s) : key[i] <= k}
<1>1. Len(s) \in Nat /\ DOMAIN s = 1..Len(s)
  BY LenProperties
<1>2. ASSUME NEW k \in 1..n
      PROVE  /\ Select(s, Of(k)) \in Seq(S)
             /\ \E place : Located(Select(s, Of(k)), s, Of(k), place)
  <2>1. Of(k) \cap (1..Len(s)) = Of(k)
    BY <1>1
  <2> HIDE DEF Of
  <2> QED
    BY <2>1, SelectPlaces
<1> HIDE DEF Of
<1>3. seqs \in Seq(Seq(S)) /\ Len(seqs) = n /\ \A k \in 1..n : seqs[k] = Select(s, Of(k))
  BY <1>2
<1>4. SortedBy(s, key, n) = FlattenSeq(seqs)
  BY DEF SortedBy, Of
<1> HIDE DEF seqs
<1>5. PICK joined : JoinsBy(S, seqs, joined)
  BY <1>3, FlattenSteps
<1>6. /\ joined \in [0..n -> Seq(S)]
      /\ joined[0] = <<>> /\ FlattenSeq(seqs) = joined[n]
      /\ \A k \in 1..n : joined[k] = joined[k - 1] \o Select(s, Of(k))
  BY <1>3, <1>5 DEF JoinsBy
<1> DEFINE Has(k) == \E place : Ordered(joined[k], s, key, UpToKey(k), place)
           Good == {k \in Nat : k <= n => Has(k)}
<1>7. 0 \in Good
  <2>1. joined[0] = <<>> /\ Len(joined[0]) = 0
    BY <1>6
  <2>2. UpToKey(0) = {}
    <3>1. ASSUME NEW i \in 1..Len(s), key[i] <= 0 PROVE FALSE
      BY <3>1
    <3> QED
      BY <3>1
  <2> HIDE DEF UpToKey
  <2>3. Ordered(joined[0], s, key, UpToKey(0), [i \in 1..0 |-> 0])
    BY <2>1, <2>2 DEF Ordered
  <2> QED
    BY <2>3
<1>8. ASSUME NEW m \in Nat, m \in Good PROVE m + 1 \in Good
  <2>1. SUFFICES ASSUME m + 1 <= n PROVE Has(m + 1)
    <3> HIDE DEF Has
    <3> QED
      OBVIOUS
  <2>2. PICK before : Ordered(joined[m], s, key, UpToKey(m), before)
    <3>1. Has(m)
      <4> HIDE DEF Has
      <4> QED
        BY <1>8, <2>1
    <3> QED
      BY <3>1
  <2>3. m + 1 \in 1..n /\ (m + 1) - 1 = m /\ m \in 0..n
    BY <2>1
  <2>4. PICK place : Located(Select(s, Of(m + 1)), s, Of(m + 1), place)
    BY <1>2, <2>3
  <2> DEFINE a == joined[m]
             b == Select(s, Of(m + 1))
             c == joined[m + 1]
             both == [k \in 1..(Len(a) + Len(b)) |-> IF k <= Len(a) THEN before[k] ELSE place[k - Len(a)]]
  <2>5. a \in Seq(S) /\ b \in Seq(S) /\ c = a \o b
    BY <1>2, <1>6, <2>3
  <2> HIDE DEF a, b, c
  <2>6. /\ Len(a) \in Nat /\ Len(b) \in Nat
        /\ Len(c) = Len(a) + Len(b)
        /\ \A k \in 1..(Len(a) + Len(b)) : c[k] = IF k <= Len(a) THEN a[k] ELSE b[k - Len(a)]
    BY <2>5, ConcatProperties, LenProperties
  <2>7. Ordered(a, s, key, UpToKey(m), before) /\ Located(b, s, Of(m + 1), place)
    BY <2>2, <2>4 DEF a, b
  <2>8. ASSUME NEW i \in UpToKey(m) PROVE i \in UpToKey(m + 1) /\ key[i] <= m
    OBVIOUS
  <2>9. ASSUME NEW i \in Of(m + 1) PROVE i \in UpToKey(m + 1) /\ key[i] = m + 1
    BY <1>1 DEF Of
  <2>10. ASSUME NEW i \in UpToKey(m + 1) PROVE i \in UpToKey(m) \/ i \in Of(m + 1)
    <3>1. i \in 1..Len(s) /\ key[i] \in 1..n /\ key[i] <= m + 1
      OBVIOUS
    <3> QED
      BY <1>1, <3>1 DEF Of
  <2>11. ASSUME NEW i \in UpToKey(m + 1) PROVE key[i] \in Nat
    OBVIOUS
  <2> HIDE DEF UpToKey
  <2>12. ASSUME NEW k \in 1..(Len(a) + Len(b)), k <= Len(a)
         PROVE  k \in 1..Len(a) /\ both[k] = before[k] /\ both[k] \in UpToKey(m) /\ c[k] = s[both[k]]
    <3>1. k \in 1..Len(a) /\ both[k] = before[k]
      BY <2>6, <2>12
    <3> QED
      BY <2>6, <2>7, <2>12, <3>1 DEF Ordered
  <2>13. ASSUME NEW k \in 1..(Len(a) + Len(b)), ~(k <= Len(a))
         PROVE  /\ k - Len(a) \in 1..Len(b) /\ both[k] = place[k - Len(a)]
                /\ both[k] \in Of(m + 1) /\ c[k] = s[both[k]]
    <3>1. k - Len(a) \in 1..Len(b) /\ both[k] = place[k - Len(a)]
      BY <2>6, <2>13
    <3> QED
      BY <2>6, <2>7, <2>13, <3>1 DEF Located
  <2>14. both \in [1..Len(c) -> UpToKey(m + 1)]
    BY <2>6, <2>8, <2>9, <2>12, <2>13
  <2>15. \A k \in 1..Len(c) : c[k] = s[both[k]]
    BY <2>6, <2>12, <2>13
  <2>16. ASSUME NEW i \in UpToKey(m + 1) PROVE \E k \in 1..Len(c) : both[k] = i
    <3>1. CASE i \in UpToKey(m)
      <4>1. PICK k \in 1..Len(a) : before[k] = i
        BY <2>7, <3>1 DEF Ordered
      <4>2. k \in 1..(Len(a) + Len(b)) /\ k <= Len(a)
        BY <2>6
      <4>3. both[k] = i
        BY <2>12, <4>1, <4>2
      <4> QED
        BY <2>6, <4>2, <4>3
    <3>2. CASE i \in Of(m + 1)
      <4>1. PICK k \in 1..Len(b) : place[k] = i
        BY <2>7, <3>2 DEF Located
      <4>2. Len(a) + k \in 1..(Len(a) + Len(b)) /\ ~(Len(a) + k <= Len(a)) /\ (Len(a) + k) - Len(a) = k
        BY <2>6
      <4>3. both[Len(a) + k] = i
        BY <2>13, <4>1, <4>2
      <4> QED
        BY <2>6, <4>2, <4>3
    <3> QED
      BY <2>10, <3>1, <3>2
  <2>17. ASSUME NEW k \in 1..Len(c), NEW j \in 1..Len(c), k < j
         PROVE  both[k] # both[j] /\ key[both[k]] <= key[both[j]]
    <3>1. k \in 1..(Len(a) + Len(b)) /\ j \in 1..(Len(a) + Len(b))
      BY <2>6
    <3>2. CASE j <= Len(a)
      <4>1. k <= Len(a)
        BY <2>6, <2>17, <3>2
      <4> QED
        BY <2>7, <2>12, <2>17, <3>1, <3>2, <4>1 DEF Ordered
    <3>3. CASE ~(j <= Len(a)) /\ k <= Len(a)
      <4>1. both[k] \in UpToKey(m) /\ both[j] \in Of(m + 1)
        BY <2>12, <2>13, <3>1, <3>3
      <4>2. key[both[k]] <= m /\ key[both[k]] \in Nat /\ key[both[j]] = m + 1
        BY <2>8, <2>9, <2>11, <4>1
      <4> HIDE DEF both
      <4> QED
        BY <4>2
    <3>4. CASE ~(j <= Len(a)) /\ ~(k <= Len(a))
      <4>1. /\ both[k] \in Of(m + 1) /\ both[j] \in Of(m + 1)
            /\ k - Len(a) \in 1..Len(b) /\ both[k] = place[k - Len(a)]
            /\ j - Len(a) \in 1..Len(b) /\ both[j] = place[j - Len(a)]
        BY <2>13, <3>1, <3>4
      <4>2. k - Len(a) < j - Len(a)
        BY <2>6, <2>17
      <4>3. both[k] < both[j]
        BY <2>7, <4>1, <4>2 DEF Located
      <4>4. key[both[k]] = m + 1 /\ key[both[j]] = m + 1
        BY <2>9, <4>1
      <4>5. both[k] \in Nat /\ both[j] \in Nat
        BY <1>1, <4>1 DEF Of
      <4> HIDE DEF both
      <4> QED
        BY <4>3, <4>4, <4>5
    <3> QED
      BY <3>2, <3>3, <3>4
  <2> HIDE DEF both
  <2>18. Ordered(c, s, key, UpToKey(m + 1), both)
    BY <2>14, <2>15, <2>16, <2>17 DEF Ordered
  <2> QED
    BY <2>18 DEF c
<1>9. Has(n)
  <2> HIDE DEF Has
  <2>1. Nat \subseteq Good
    <3> HIDE DEF Good
    <3> QED
      BY <1>7, <1>8, Induction
  <2> QED
    BY <2>1
<1>10. UpToKey(n) = 1..Len(s)
  BY <1>1
<1>11. joined[n] \in Seq(S) /\ SortedBy(s, key, n) = joined[n]
  BY <1>4, <1>6
<1> HIDE DEF UpToKey
<1>12. PICK place : Ordered(joined[n], s, key, UpToKey(n), place)
  BY <1>9
<1> QED
  BY <1>10, <1>11, <1>12

LEMMA ListSorted ==
  ASSUME NEW s, IsList(s), NEW n \in Nat, NEW key, \A i \in 1..Len(s) : key[i] \in 1..n
  PROVE  /\ IsList(SortedBy(s, key, n)) /\ Len(SortedBy(s, key, n)) = Len(s)
         /\ ToSet(SortedBy(s, key, n)) = ToSet(s)
         /\ Once(s) => Once(SortedBy(s, key, n))
<1> DEFINE t == SortedBy(s, key, n)
           K == 1..Len(s)
<1>1. s \in Seq(ToSet(s)) /\ Len(s) \in Nat /\ ToSet(s) = {s[i] : i \in K}
  BY ListIs DEF IsList
<1>2. t \in Seq(ToSet(s)) /\ \E place : Ordered(t, s, key, K, place)
  BY <1>1, SortedPlaces
<1>3. IsList(t)
  BY <1>2, ListIn
<1>4. Len(t) \in Nat /\ ToSet(t) = {t[i] : i \in 1..Len(t)}
  BY <1>3, ListIs
<1> HIDE DEF t
<1>5. PICK place : Ordered(t, s, key, K, place)
  BY <1>2
<1>6. /\ place \in [1..Len(t) -> K]
      /\ \A k \in 1..Len(t) : t[k] = s[place[k]]
      /\ \A k, j \in 1..Len(t) : k < j => place[k] # place[j]
      /\ \A i \in K : \E k \in 1..Len(t) : place[k] = i
  BY <1>5 DEF Ordered
<1>8. \A k, j \in 1..Len(t) : place[k] = place[j] => k = j
  <2>1. SUFFICES ASSUME NEW k \in 1..Len(t), NEW j \in 1..Len(t), place[k] = place[j], k # j PROVE FALSE
    OBVIOUS
  <2>2. k < j \/ j < k
    BY <1>4, <2>1
  <2> QED
    BY <1>6, <2>1, <2>2
<1>9. ToSet(t) = ToSet(s)
  <2>1. ASSUME NEW k \in 1..Len(t) PROVE t[k] \in ToSet(s)
    <3>1. place[k] \in K /\ t[k] = s[place[k]]
      BY <1>6
    <3> QED
      BY <1>1, <3>1
  <2>2. ASSUME NEW i \in K PROVE s[i] \in ToSet(t)
    <3>1. PICK k \in 1..Len(t) : place[k] = i
      BY <1>6
    <3> QED
      BY <1>4, <1>6, <3>1
  <2> QED
    BY <1>1, <1>4, <2>1, <2>2
<1>10. Once(s) => Once(t)
  <2>1. SUFFICES ASSUME Once(s), NEW i \in 1..Len(t), NEW k \in 1..Len(t), t[i] = t[k] PROVE i = k
    BY DEF Once
  <2>2. place[i] \in 1..Len(s) /\ place[k] \in 1..Len(s) /\ s[place[i]] = s[place[k]]
    BY <1>6, <2>1
  <2>3. place[i] = place[k]
    BY <2>1, <2>2 DEF Once
  <2> QED
    BY <1>8, <2>3
<1>11. Len(s) = Len(t)
  <2>1. Cardinality(K) = Len(t)
    <3> HIDE DEF K
    <3>1. Numbers(place, Len(t), K)
      BY <1>6, <1>8 DEF Numbers
    <3> QED
      BY <1>4, <3>1, Numbered
  <2>2. Cardinality(1..Len(s)) = Len(s)
    <3>1. 1 \in Int /\ Len(s) \in Int
      BY <1>1
    <3> QED
      BY <1>1, <3>1, FS_Interval
  <2> QED
    BY <2>1, <2>2
<1> QED
  BY <1>3, <1>9, <1>10, <1>11 DEF t
=============================================================================
