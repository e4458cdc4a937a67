---------------------------- MODULE QueueLemmas ----------------------------
(***************************************************************************)
(* Facts about queues in which nothing is twice, for the lists of          *)
(* transfers that the components keep: appending, taking the head, taking  *)
(* one out of the middle, and how many there are; the least of a set.      *)
(***************************************************************************)
EXTENDS Integers, SequencesExt, FiniteSetTheorems, SequenceTheorems, WellFoundedInduction, TLAPS

\* The elements of a queue, and that none is in it twice, by positions
LEMMA QueueElements ==
  ASSUME NEW S, NEW q \in Seq(S)
  PROVE  /\ Len(q) \in Nat /\ DOMAIN q = 1 .. Len(q) /\ ToSet(q) \subseteq S
         /\ ToSet(q) = {q[k] : k \in 1 .. Len(q)}
         /\ IsInjective(q) <=> \A k, l \in 1 .. Len(q) : q[k] = q[l] => k = l
  BY DEF ToSet, IsInjective

\* Appending an element that is not in the queue
LEMMA AppendIn ==
  ASSUME NEW S, NEW q \in Seq(S), NEW x \in S
  PROVE  /\ Append(q, x) \in Seq(S) /\ ToSet(Append(q, x)) = ToSet(q) \cup {x}
         /\ IsInjective(q) /\ x \notin ToSet(q) => IsInjective(Append(q, x))
  <1>1. DOMAIN q = 1 .. Len(q) /\ DOMAIN Append(q, x) = 1 .. Len(q) + 1 /\ Append(q, x) \in Seq(S)
    OBVIOUS
  <1>2. Append(q, x)[Len(q) + 1] = x /\ \A k \in 1 .. Len(q) : Append(q, x)[k] = q[k]
    OBVIOUS
  <1>3. QED
    BY <1>1, <1>2 DEF ToSet, IsInjective

\* Taking the head
LEMMA TailIn ==
  ASSUME NEW S, NEW q \in Seq(S), q # <<>>
  PROVE  /\ Head(q) \in S /\ Tail(q) \in Seq(S) /\ ToSet(q) = ToSet(Tail(q)) \cup {Head(q)}
         /\ IsInjective(q) => IsInjective(Tail(q)) /\ Head(q) \notin ToSet(Tail(q))
  <1> DEFINE t == Tail(q)
  <1>1. t \in Seq(S) /\ Head(q) \in S /\ Len(q) \in Nat \ {0} /\ Len(t) = Len(q) - 1 /\ Head(q) = q[1]
    OBVIOUS
  <1>2. \A k \in 1 .. Len(t) : t[k] = q[k + 1]
    BY HeadTailProperties
  <1>3. \A k \in 2 .. Len(q) : k - 1 \in 1 .. Len(t) /\ q[k] = t[k - 1]
    BY <1>1, <1>2
  <1> HIDE DEF t
  <1>4. ToSet(t) = {t[k] : k \in 1 .. Len(t)} /\ ToSet(q) = {q[k] : k \in 1 .. Len(q)}
    BY <1>1, QueueElements
  <1>5. ToSet(q) = ToSet(t) \cup {q[1]}
    <2>1. ToSet(q) \subseteq ToSet(t) \cup {q[1]}
      BY <1>1, <1>3, <1>4
    <2>2. ToSet(t) \cup {q[1]} \subseteq ToSet(q)
      BY <1>1, <1>2, <1>4
    <2>3. QED
      BY <2>1, <2>2
  <1>6. ASSUME IsInjective(q) PROVE IsInjective(t) /\ q[1] \notin ToSet(t)
    <2>1. \A k, l \in 1 .. Len(q) : q[k] = q[l] => k = l
      BY <1>6, QueueElements
    <2>2. \A k \in 1 .. Len(t) : k + 1 \in 2 .. Len(q) /\ k + 1 \in 1 .. Len(q)
      BY <1>1
    <2>3. ASSUME NEW k \in 1 .. Len(t), NEW l \in 1 .. Len(t), t[k] = t[l] PROVE k = l
      <3>1. q[k + 1] = q[l + 1]
        BY <1>2, <2>3
      <3>2. k + 1 = l + 1
        BY <2>1, <2>2, <3>1
      <3>3. QED
        BY <3>2
    <2>4. IsInjective(t)
      BY <1>1, <2>3, QueueElements
    <2>5. \A k \in 1 .. Len(t) : t[k] # q[1]
      <3>1. 1 \in 1 .. Len(q)
        BY <1>1
      <3>2. QED
        BY <1>2, <2>1, <2>2, <3>1
    <2>6. QED
      BY <1>4, <2>4, <2>5
  <1>7. QED
    BY <1>1, <1>5, <1>6 DEF t

\* Where the elements are when one is taken out
LEMMA RemovePlaces ==
  ASSUME NEW S, NEW q \in Seq(S), NEW i \in DOMAIN q
  PROVE  /\ RemoveAt(q, i) \in Seq(S) /\ Len(RemoveAt(q, i)) = Len(q) - 1
         /\ \A k \in 1 .. Len(q) - 1 : RemoveAt(q, i)[k] = IF k < i THEN q[k] ELSE q[k + 1]
  <1> DEFINE a == SubSeq(q, 1, i - 1)
             b == SubSeq(q, i + 1, Len(q))
             r == RemoveAt(q, i)
  <1>1. Len(q) \in Nat /\ i \in 1 .. Len(q)
    BY QueueElements
  <1>2. a \in Seq(S) /\ Len(a) = i - 1 /\ \A k \in 1 .. i - 1 : a[k] = q[k]
    BY <1>1, SubSeqProperties
  <1>3. b \in Seq(S) /\ Len(b) = Len(q) - i /\ \A k \in 1 .. Len(q) - i : b[k] = q[i + k]
    <2>1. \A k \in i + 1 .. Len(q) : q[k] \in S
      BY <1>1
    <2>2. b \in Seq(S) /\ Len(b) = (IF i + 1 <= Len(q) THEN Len(q) - (i + 1) + 1 ELSE 0)
          /\ \A k \in 1 .. Len(q) - (i + 1) + 1 : b[k] = q[i + 1 + k - 1]
      BY <1>1, <2>1, SubSeqProperties
    <2>3. QED
      BY <1>1, <2>2
  <1>4. r \in Seq(S) /\ Len(r) = Len(q) - 1 /\
        \A k \in 1 .. Len(q) - 1 : r[k] = IF k < i THEN q[k] ELSE q[k + 1]
    <2> HIDE DEF a, b
    <2>1. r = a \o b
      BY DEF a, b, RemoveAt
    <2> HIDE DEF r
    <2>2. /\ r \in Seq(S) /\ Len(r) = Len(a) + Len(b)
          /\ \A k \in 1 .. Len(a) + Len(b) : r[k] = IF k <= Len(a) THEN a[k] ELSE b[k - Len(a)]
      BY <1>2, <1>3, <2>1, ConcatProperties
    <2>3. /\ Len(a) = i - 1 /\ Len(b) = Len(q) - i /\ Len(r) = Len(q) - 1
          /\ Len(q) \in Nat /\ i \in 1 .. Len(q)
      BY <1>1, <1>2, <1>3, <2>2
    <2>4. ASSUME NEW k \in 1 .. Len(q) - 1 PROVE r[k] = IF k < i THEN q[k] ELSE q[k + 1]
      <3>1. CASE k < i
        <4>1. k \in 1 .. Len(a) + Len(b) /\ k <= Len(a) /\ k \in 1 .. i - 1
          BY <2>3, <2>4, <3>1
        <4>2. QED
          BY <1>2, <2>2, <3>1, <4>1
      <3>2. CASE ~(k < i)
        <4>1. /\ k \in 1 .. Len(a) + Len(b) /\ ~(k <= Len(a))
              /\ k - Len(a) \in 1 .. Len(q) - i /\ i + (k - Len(a)) = k + 1
          BY <2>3, <2>4, <3>2
        <4>2. QED
          BY <1>3, <2>2, <3>2, <4>1
      <3>3. QED
        BY <3>1, <3>2
    <2>5. QED
      BY <2>2, <2>3, <2>4
  <1>5. QED
    BY <1>4

\* Where they are when one is put in
LEMMA InsertPlaces ==
  ASSUME NEW S, NEW q \in Seq(S), NEW i \in 1 .. Len(q) + 1, NEW x \in S
  PROVE  /\ InsertAt(q, i, x) \in Seq(S) /\ Len(InsertAt(q, i, x)) = Len(q) + 1
         /\ \A k \in 1 .. Len(q) + 1 :
              InsertAt(q, i, x)[k] = IF k < i THEN q[k] ELSE IF k = i THEN x ELSE q[k - 1]
  <1> DEFINE a == SubSeq(q, 1, i - 1)
             b == SubSeq(q, i, Len(q))
             m == a \o <<x>>
             r == InsertAt(q, i, x)
  <1>1. Len(q) \in Nat /\ i \in 1 .. Len(q) + 1
    BY QueueElements
  <1>2. a \in Seq(S) /\ Len(a) = i - 1 /\ \A k \in 1 .. i - 1 : a[k] = q[k]
    <2>1. \A k \in 1 .. i - 1 : q[k] \in S
      BY <1>1
    <2>2. a \in Seq(S) /\ Len(a) = (IF 1 <= i - 1 THEN i - 1 - 1 + 1 ELSE 0)
          /\ \A k \in 1 .. i - 1 - 1 + 1 : a[k] = q[1 + k - 1]
      BY <1>1, <2>1, SubSeqProperties
    <2>3. QED
      BY <1>1, <2>2
  <1>3. b \in Seq(S) /\ Len(b) = Len(q) - i + 1 /\ \A k \in 1 .. Len(q) - i + 1 : b[k] = q[i + k - 1]
    <2>1. \A k \in i .. Len(q) : q[k] \in S
      BY <1>1
    <2>2. b \in Seq(S) /\ Len(b) = (IF i <= Len(q) THEN Len(q) - i + 1 ELSE 0)
          /\ \A k \in 1 .. Len(q) - i + 1 : b[k] = q[i + k - 1]
      BY <1>1, <2>1, SubSeqProperties
    <2>3. QED
      BY <1>1, <2>2
  <1> HIDE DEF a, b
  <1>4. m \in Seq(S) /\ Len(m) = i /\ m[i] = x /\ \A k \in 1 .. i - 1 : m[k] = q[k]
    BY <1>1, <1>2
  <1>5. r = m \o b
    BY DEF InsertAt, a, b
  <1> HIDE DEF m, r
  <1>6. r \in Seq(S) /\ Len(r) = Len(q) + 1
    <2>1. m \in Seq(S) /\ b \in Seq(S) /\ Len(m) + Len(b) = Len(q) + 1
      BY <1>1, <1>3, <1>4
    <2>2. QED
      BY <1>5, <2>1, ConcatProperties
  <1>7. ASSUME NEW k \in 1 .. Len(q) + 1
        PROVE  r[k] = IF k < i THEN q[k] ELSE IF k = i THEN x ELSE q[k - 1]
    <2>1. CASE k <= i
      BY <1>1, <1>3, <1>4, <1>5, <2>1, ConcatProperties
    <2>2. CASE k > i
      <3>1. r[k] = b[k - i]
        BY <1>1, <1>3, <1>4, <1>5, <2>2, ConcatProperties
      <3>2. k - i \in 1 .. Len(q) - i + 1 /\ i + (k - i) - 1 = k - 1
        BY <1>1, <2>2
      <3>3. QED
        BY <1>1, <1>3, <2>2, <3>1, <3>2
    <2>3. QED
      BY <1>1, <2>1, <2>2
  <1>8. QED
    BY <1>6, <1>7 DEF r

\* Taking out the element at a place
LEMMA RemoveIn ==
  ASSUME NEW S, NEW q \in Seq(S), NEW i \in DOMAIN q
  PROVE  /\ RemoveAt(q, i) \in Seq(S)
         /\ IsInjective(q) => IsInjective(RemoveAt(q, i)) /\ ToSet(RemoveAt(q, i)) = ToSet(q) \ {q[i]}
  <1> DEFINE r == RemoveAt(q, i)
  <1>1. Len(q) \in Nat /\ i \in 1 .. Len(q)
    BY QueueElements
  <1>2. r \in Seq(S) /\ Len(r) = Len(q) - 1 /\
        \A k \in 1 .. Len(q) - 1 : r[k] = IF k < i THEN q[k] ELSE q[k + 1]
    BY RemovePlaces
  <1> HIDE DEF r
  <1>3. ASSUME IsInjective(q) PROVE IsInjective(r)
    <2>1. \A k, l \in 1 .. Len(q) : q[k] = q[l] => k = l
      BY <1>3, QueueElements
    <2>2. ASSUME NEW k \in 1 .. Len(r), NEW l \in 1 .. Len(r), r[k] = r[l] PROVE k = l
      <3> DEFINE From(j) == IF j < i THEN j ELSE j + 1
      <3>1. From(k) \in 1 .. Len(q) /\ From(l) \in 1 .. Len(q) /\ r[k] = q[From(k)] /\ r[l] = q[From(l)]
        BY <1>1, <1>2
      <3>2. From(k) = From(l)
        <4> HIDE DEF From
        <4> QED
          BY <2>1, <2>2, <3>1
      <3>3. QED
        BY <1>1, <1>2, <3>2
    <2>3. QED
      BY <1>2, <2>2, QueueElements
  <1>4. ASSUME IsInjective(q) PROVE ToSet(r) = ToSet(q) \ {q[i]}
    <2>1. ASSUME NEW k \in 1 .. Len(r) PROVE r[k] \in ToSet(q) \ {q[i]}
      <3> DEFINE j == IF k < i THEN k ELSE k + 1
      <3>1. j \in 1 .. Len(q) /\ j # i /\ r[k] = q[j]
        BY <1>1, <1>2
      <3> HIDE DEF j
      <3>2. q[j] \in ToSet(q) /\ q[j] # q[i]
        BY <1>1, <1>4, <3>1, QueueElements
      <3>3. QED
        BY <3>1, <3>2
    <2>2. ASSUME NEW k \in 1 .. Len(q), k # i PROVE q[k] \in ToSet(r)
      <3>1. CASE k < i
        BY <1>1, <1>2, <3>1, QueueElements
      <3>2. CASE k > i
        <4>1. k - 1 \in 1 .. Len(r) /\ r[k - 1] = q[k]
          BY <1>1, <1>2, <3>2
        <4>2. QED
          BY <1>2, <4>1, QueueElements
      <3>3. QED
        BY <1>1, <2>2, <3>1, <3>2
    <2>3. ToSet(r) = {r[k] : k \in 1 .. Len(r)} /\ ToSet(q) = {q[k] : k \in 1 .. Len(q)}
      BY <1>2, QueueElements
    <2>4. QED
      BY <2>1, <2>2, <2>3
  <1>5. QED
    BY <1>2, <1>3, <1>4 DEF r

\* The size of an interval that starts at 1
LEMMA UpTo ==
  ASSUME NEW n \in Nat
  PROVE  IsFiniteSet(1 .. n) /\ Cardinality(1 .. n) = n
  <1>1. IsFiniteSet(1 .. n) /\ Cardinality(1 .. n) = IF 1 > n THEN 0 ELSE n - 1 + 1
    BY FS_Interval
  <1>2. QED
    BY <1>1

\* A queue is as long as it has elements.
LEMMA CardIn ==
  ASSUME NEW S, NEW q \in Seq(S), IsInjective(q)
  PROVE  IsFiniteSet(ToSet(q)) /\ Cardinality(ToSet(q)) = Len(q)
  <1>1. Len(q) \in Nat /\ ToSet(q) = {q[k] : k \in 1 .. Len(q)} /\ q \in [1 .. Len(q) -> ToSet(q)]
    BY QueueElements
  <1>2. \A k, l \in 1 .. Len(q) : q[k] = q[l] => k = l
    BY QueueElements
  <1>3. q \in Bijection(1 .. Len(q), ToSet(q))
    <2>1. q \in Injection(1 .. Len(q), ToSet(q))
      BY <1>1, <1>2 DEF Injection, IsInjective
    <2>2. q \in Surjection(1 .. Len(q), ToSet(q))
      BY <1>1 DEF Surjection
    <2>3. QED
      BY <2>1, <2>2 DEF Bijection
  <1>4. ExistsBijection(1 .. Len(q), ToSet(q))
    BY <1>3 DEF ExistsBijection
  <1>5. IsFiniteSet(1 .. Len(q)) /\ Cardinality(1 .. Len(q)) = Len(q)
    BY <1>1, UpTo
  <1>6. QED
    BY <1>4, <1>5, FS_Bijection

\* Every nonempty set of naturals has a least element.
LEMMA Least ==
  ASSUME NEW S, S \subseteq Nat, S # {}
  PROVE  \E m \in S : \A n \in S : m <= n
  <1> DEFINE R == OpToRel(<, Nat)
  <1>1. IsWellFoundedOn(R, Nat)
    BY NatLessThanWellFounded
  <1>2. \A x, y \in Nat : y < x => <<y, x>> \in R
    BY DEF OpToRel
  <1> HIDE DEF R
  <1>3. PICK m \in S : \A n \in S : ~ (<<n, m>> \in R)
    BY <1>1, WFMin
  <1>4. \A n \in S : m <= n
    <2> TAKE n \in S
    <2>1. m \in Nat /\ n \in Nat /\ ~(n < m)
      BY <1>2, <1>3
    <2> QED
      BY <2>1
  <1> QED
    BY <1>4

\* Taking the first that satisfies a condition, if one does, leaves the others.
LEMMA RemoveFirstIn ==
  ASSUME NEW S, NEW q \in Seq(S), NEW x \in S
  PROVE  /\ RemoveFirst(q, x) \in Seq(S)
         /\ IsInjective(q) => IsInjective(RemoveFirst(q, x)) /\ ToSet(RemoveFirst(q, x)) = ToSet(q) \ {x}
  <1>1. Len(q) \in Nat /\ DOMAIN q = 1 .. Len(q) /\ ToSet(q) = {q[k] : k \in 1 .. Len(q)}
    BY QueueElements
  <1>2. CASE ~\E k \in 1 .. Len(q) : q[k] = x
    BY <1>1, <1>2 DEF RemoveFirst
  <1>3. CASE \E k \in 1 .. Len(q) : q[k] = x
    <2> DEFINE I == {k \in 1 .. Len(q) : q[k] = x}
    <2>1. I # {} /\ I \subseteq Nat
      BY <1>1, <1>3
    <2>2. \E m \in I : \A n \in I : m <= n
      BY <2>1, Least
    <2>3. PICK i \in I : i = Min(I)
      BY <2>2 DEF Min
    <2>4. RemoveFirst(q, x) = RemoveAt(q, i)
      BY <1>3, <2>1, <2>3 DEF RemoveFirst, SelectInSeq
    <2>5. i \in DOMAIN q /\ q[i] = x
      BY <1>1, <2>3
    <2>6. QED
      BY <2>4, <2>5, RemoveIn
  <1>4. QED
    BY <1>2, <1>3
=============================================================================
