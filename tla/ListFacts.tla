------------------------------ MODULE ListFacts ------------------------------
(***************************************************************************)
(* Facts about lists that the proofs about several components cite: the    *)
(* first and the last of some places, a list that an element is put on or  *)
(* taken from, and what Kept leaves of one.                                *)
(***************************************************************************)
EXTENDS Lists, SequencesExt, FiniteSetTheorems, SequenceTheorems, NaturalsInduction,
        WellFoundedInduction, TLAPS

(* The first of some places, and the last.                                 *)
LEMMA LeastPlace ==
  ASSUME NEW I \in SUBSET Nat, I # {}
  PROVE  Min(I) \in I /\ \A j \in I : Min(I) <= j
<1> DEFINE R == OpToRel(<, Nat)
<1>1. \A j, k \in Nat : j < k => <<j, k>> \in R
  BY Zenon DEF OpToRel
<1>2. IsWellFoundedOn(R, Nat)
  BY NatLessThanWellFounded, Zenon
<1> HIDE DEF R
<1>3. PICK m \in I : \A k \in I : ~(<<k, m>> \in R)
  BY <1>2, WFMin, Zenon
<1>4. \A j \in I : m <= j
  <2>1. SUFFICES ASSUME NEW j \in I, j < m PROVE FALSE
    OBVIOUS
  <2> QED BY <1>1, <1>3, <2>1
<1> QED BY <1>4 DEF Min

LEMMA GreatestPlace ==
  ASSUME NEW n \in Nat, NEW I \in SUBSET (1..n), I # {}
  PROVE  Max(I) \in I /\ \A j \in I : j <= Max(I)
<1> DEFINE back == {n - i : i \in I}
<1>1. (\E k : k \in back) /\ back \subseteq Nat
  <2>1. \A i \in I : n - i \in Nat
    OBVIOUS
  <2> QED BY <2>1
<1> DEFINE R == OpToRel(<, Nat)
<1>2. \A j, k \in Nat : j < k => <<j, k>> \in R
  BY Zenon DEF OpToRel
<1>3. IsWellFoundedOn(R, Nat)
  BY NatLessThanWellFounded, Zenon
<1> HIDE DEF back, R
<1>4. PICK m \in back : \A k \in back : ~(<<k, m>> \in R)
  <2>1. back # {}
    BY <1>1
  <2> QED BY <1>1, <1>3, <2>1, WFMin, Zenon
<1>5. PICK i \in I : m = n - i
  BY DEF back
<1>6. \A j \in I : i >= j
  <2>1. SUFFICES ASSUME NEW j \in I, i < j PROVE FALSE
    OBVIOUS
  <2>2. n - j \in back /\ n - j < m /\ n - j \in Nat /\ m \in Nat
    BY <1>5, <2>1 DEF back
  <2> QED BY <1>2, <1>4, <2>2
<1>7. Max(I) \in I /\ \A j \in I : Max(I) >= j
  BY <1>5, <1>6 DEF Max
<1> QED BY <1>7

(* A list that loses one place closes up behind it.                        *)
LEMMA RemovedAt ==
  ASSUME NEW S, NEW q \in Seq(S), NEW k \in 1..Len(q)
  PROVE  /\ RemoveAt(q, k) \in Seq(S) /\ Len(RemoveAt(q, k)) = Len(q) - 1
         /\ \A i \in 1..(Len(q) - 1) : RemoveAt(q, k)[i] = IF i < k THEN q[i] ELSE q[i + 1]
<1> DEFINE a == SubSeq(q, 1, k - 1)
           b == SubSeq(q, k + 1, Len(q))
           r == RemoveAt(q, k)
<1>1. Len(q) \in Nat /\ \A i \in 1..Len(q) : q[i] \in S
  OBVIOUS
<1>2. a \in Seq(S) /\ Len(a) = k - 1 /\ \A i \in 1..(k - 1) : a[i] = q[i]
  BY <1>1
<1>3. b \in Seq(S) /\ Len(b) = Len(q) - k /\ \A i \in 1..(Len(q) - k) : b[i] = q[k + i]
  BY <1>1
<1>4. r = a \o b
  BY DEF RemoveAt
<1> HIDE DEF a, b, r
<1>5. r \in Seq(S) /\ Len(r) = Len(q) - 1
  <2>1. r \in Seq(S) /\ Len(r) = Len(a) + Len(b)
    BY <1>2, <1>3, <1>4, ConcatProperties
  <2> QED BY <1>1, <1>2, <1>3, <2>1
<1>6. ASSUME NEW i \in 1..(Len(q) - 1) PROVE r[i] = IF i < k THEN q[i] ELSE q[i + 1]
  <2>1. CASE i < k
    BY <1>1, <1>2, <1>3, <1>4, <2>1
  <2>2. CASE i >= k
    <3>1. i - (k - 1) \in 1..(Len(q) - k) /\ r[i] = b[i - (k - 1)]
      BY <1>1, <1>2, <1>3, <1>4, <2>2
    <3> QED BY <1>1, <1>3, <2>2, <3>1
  <2> QED BY <2>1, <2>2
<1> QED BY <1>5, <1>6 DEF r

-----------------------------------------------------------------------------
(* Lists without repetition.                                               *)

LEMMA NoElems == ASSUME NEW S PROVE <<>> \in Seq(S) /\ IsInjective(<<>>) /\ ToSet(<<>>) = {}
  BY DEF IsInjective, ToSet

LEMMA AppendElems ==
  ASSUME NEW S, NEW q \in Seq(S), NEW e \in S, IsInjective(q), e \notin ToSet(q)
  PROVE  /\ IsInjective(Append(q, e)) /\ Append(q, e) \in Seq(S)
         /\ ToSet(Append(q, e)) = ToSet(q) \cup {e}
<1> DEFINE r == Append(q, e)
<1>1. /\ r \in Seq(S) /\ Len(q) \in Nat /\ Len(r) = Len(q) + 1
      /\ DOMAIN q = 1..Len(q) /\ DOMAIN r = 1..(Len(q) + 1)
      /\ r[Len(q) + 1] = e /\ \A i \in 1..Len(q) : r[i] = q[i]
  BY AppendProperties, LenProperties
<1> HIDE DEF r
<1>2. IsInjective(r)
  BY <1>1 DEF IsInjective, ToSet
<1>3. ASSUME NEW x \in ToSet(r) PROVE x \in ToSet(q) \cup {e}
  BY <1>1 DEF ToSet
<1>4. ASSUME NEW x \in ToSet(q) \cup {e} PROVE x \in ToSet(r)
  BY <1>1 DEF ToSet
<1>5. ToSet(r) = ToSet(q) \cup {e}
  BY <1>3, <1>4
<1> QED BY <1>1, <1>2, <1>5 DEF r

LEMMA TailElems ==
  ASSUME NEW S, NEW q \in Seq(S), IsInjective(q), q # <<>>
  PROVE  /\ IsInjective(Tail(q)) /\ Tail(q) \in Seq(S)
         /\ Head(q) \in ToSet(q) /\ ToSet(Tail(q)) = ToSet(q) \ {Head(q)}
<1>1. /\ Len(q) \in Nat /\ Len(q) # 0 /\ DOMAIN q = 1..Len(q)
      /\ Tail(q) \in Seq(S) /\ Len(Tail(q)) = Len(q) - 1
      /\ DOMAIN Tail(q) = 1..(Len(q) - 1)
      /\ \A i \in 1..(Len(q) - 1) : Tail(q)[i] = q[i + 1]
      /\ Head(q) = q[1]
  BY EmptySeq, LenProperties
<1>2. IsInjective(Tail(q))
  BY <1>1 DEF IsInjective
<1>3. Head(q) \in ToSet(q)
  BY <1>1 DEF ToSet
<1>4. ASSUME NEW x \in ToSet(Tail(q)) PROVE x \in ToSet(q) \ {Head(q)}
  BY <1>1, <1>4 DEF ToSet, IsInjective
<1>5. ASSUME NEW x \in ToSet(q) \ {Head(q)} PROVE x \in ToSet(Tail(q))
  <2>1. PICK i \in 1..Len(q) : q[i] = x
    BY <1>1 DEF ToSet
  <2>2. i - 1 \in 1..(Len(q) - 1) /\ Tail(q)[i - 1] = x
    BY <1>1, <2>1
  <2> QED BY <1>1, <2>2 DEF ToSet
<1> QED BY <1>1, <1>2, <1>3, <1>4, <1>5

LEMMA RemoveElems ==
  ASSUME NEW S, NEW q \in Seq(S), NEW e, IsInjective(q)
  PROVE  /\ IsInjective(RemoveFirst(q, e)) /\ RemoveFirst(q, e) \in Seq(S)
         /\ ToSet(RemoveFirst(q, e)) = ToSet(q) \ {e}
<1>1. CASE ~\E i \in 1..Len(q) : q[i] = e
  <2>1. e \notin ToSet(q) /\ RemoveFirst(q, e) = q
    BY <1>1 DEF ToSet, RemoveFirst
  <2> QED BY <2>1
<1>2. CASE \E i \in 1..Len(q) : q[i] = e
  <2>1. PICK k \in 1..Len(q) : q[k] = e
    BY <1>2
  <2>2. {i \in 1..Len(q) : q[i] = e} = {k}
    BY <2>1 DEF IsInjective
  <2>3. SelectInSeq(q, LAMBDA v : v = e) = k
    <3>1. Min({k}) = k
      BY <2>1 DEF Min
    <3> QED BY <2>2, <3>1 DEF SelectInSeq
  <2> DEFINE r == RemoveAt(q, k)
  <2>4. RemoveFirst(q, e) = r
    BY <1>2, <2>3 DEF RemoveFirst
  <2>5. /\ r \in Seq(S) /\ Len(r) = Len(q) - 1 /\ DOMAIN r = 1..(Len(q) - 1)
        /\ \A i \in 1..(Len(q) - 1) : r[i] = IF i < k THEN q[i] ELSE q[i + 1]
    BY RemovedAt, LenProperties
  <2> HIDE DEF r
  <2>6. IsInjective(r)
    BY <2>1, <2>5, SMTT(60) DEF IsInjective
  <2>7. ASSUME NEW x \in ToSet(r) PROVE x \in ToSet(q) \ {e}
    BY <2>1, <2>5, SMTT(60) DEF ToSet, IsInjective
  <2>8. ASSUME NEW x \in ToSet(q) \ {e} PROVE x \in ToSet(r)
    <3>1. PICK i \in 1..Len(q) : q[i] = x
      BY DEF ToSet
    <3>2. CASE i < k
      BY <2>1, <2>5, <3>1, <3>2 DEF ToSet
    <3>3. CASE i > k
      <4>1. i - 1 \in 1..(Len(q) - 1) /\ r[i - 1] = x
        BY <2>1, <2>5, <3>1, <3>3
      <4> QED BY <2>5, <4>1 DEF ToSet
    <3> QED BY <2>1, <3>1, <3>2, <3>3
  <2> QED BY <2>4, <2>5, <2>6, <2>7, <2>8
<1> QED BY <1>1, <1>2

(* A list with the new handle, or without it where memory is short.        *)
LEMMA AddedElems ==
  ASSUME NEW S, NEW q \in Seq(S), NEW e \in S, IsInjective(q), e \notin ToSet(q),
         NEW new \in {<<e>>, <<>>}
  PROVE  /\ q \o new \in Seq(S) /\ IsInjective(q \o new)
         /\ \A x \in ToSet(q \o new) : x \in ToSet(q) \/ x = e
<1>1. CASE new = <<>>
  BY <1>1
<1>2. CASE new = <<e>>
  <2>1. q \o new = Append(q, e)
    BY <1>2
  <2> QED BY <2>1, AppendElems
<1> QED BY <1>1, <1>2

-----------------------------------------------------------------------------
(* What Kept leaves of a list.                                             *)
TakenFrom(places, r, q, I, n) ==
  /\ \A j \in 1..n : r[j] = q[places[j]]
  /\ \A j, k \in 1..n : places[j] = places[k] => j = k
  /\ \A i \in I : \E j \in 1..n : places[j] = i

LEMMA KeptPlaces ==
  ASSUME NEW S, NEW q \in Seq(S), NEW I \in SUBSET DOMAIN q
  PROVE  /\ Kept(q, I) \in Seq(S) /\ Cardinality(I) \in Nat
         /\ DOMAIN Kept(q, I) = 1..Cardinality(I) /\ Len(Kept(q, I)) = Cardinality(I)
         /\ \E places \in [1..Cardinality(I) -> I] :
              TakenFrom(places, Kept(q, I), q, I, Cardinality(I))
<1> DEFINE upto(i) == {k \in I : k <= i}
           n == Cardinality(I)
           rank == [i \in I |-> Cardinality(upto(i))]
<1>1. Len(q) \in Nat /\ DOMAIN q = 1..Len(q) /\ I \subseteq 1..Len(q)
  BY LenProperties
<1>2. IsFiniteSet(I) /\ n \in Nat
  <2>1. IsFiniteSet(1..Len(q))
    BY <1>1, FS_Interval
  <2>2. IsFiniteSet(I)
    BY <1>1, <2>1, FS_Subset
  <2> QED BY <2>2, FS_CardinalityType
<1>3. ASSUME NEW i \in I
      PROVE  IsFiniteSet(upto(i)) /\ rank[i] \in 1..n /\ i \in upto(i)
  <2>1. upto(i) \subseteq I /\ i \in upto(i)
    BY <1>1
  <2>2. IsFiniteSet(upto(i)) /\ Cardinality(upto(i)) <= n
    BY <1>2, <2>1, FS_Subset
  <2>3. Cardinality(upto(i)) \in Nat /\ Cardinality(upto(i)) # 0
    BY <2>1, <2>2, FS_CardinalityType, FS_EmptySet
  <2>4. rank[i] = Cardinality(upto(i))
    OBVIOUS
  <2> HIDE DEF upto, n, rank
  <2> QED BY <1>2, <2>1, <2>2, <2>3, <2>4
<1>4. ASSUME NEW i \in I, NEW j \in I, i < j
      PROVE  rank[i] # rank[j]
  <2>1. upto(i) \subseteq upto(j)
    BY <1>1, <1>4
  <2>2. j \in upto(j) /\ j \notin upto(i)
    BY <1>1, <1>4
  <2>3. Cardinality(upto(j)) = Cardinality(upto(i)) => upto(j) = upto(i)
    BY <1>3, <2>1, FS_Subset
  <2> QED BY <2>2, <2>3
<1>5. rank \in Injection(I, 1..n)
  <2>1. rank \in [I -> 1..n]
    <3>1. \A i \in I : rank[i] \in 1..n
      BY <1>3
    <3> QED BY <3>1
  <2> HIDE DEF rank, n
  <2>2. \A i, j \in I : rank[i] = rank[j] => i = j
    BY <1>1, <1>4
  <2> QED BY <2>1, <2>2 DEF Injection, IsInjective
<1>6. rank \in Surjection(I, 1..n)
  <2>1. IsFiniteSet(1..n) /\ Cardinality(1..n) = n
    BY <1>2, FS_Interval
  <2> HIDE DEF rank
  <2> QED BY <1>5, <2>1, FS_Injection
<1> DEFINE at(j) == CHOOSE i \in I : Cardinality(upto(i)) = j
<1>7. ASSUME NEW j \in 1..n PROVE at(j) \in I /\ rank[at(j)] = j
  <2>1. \E i \in I : rank[i] = j
    BY <1>6 DEF Surjection
  <2>2. \E i \in I : Cardinality(upto(i)) = j
    BY <2>1
  <2>3. at(j) \in I /\ Cardinality(upto(at(j))) = j
    BY <2>2
  <2> HIDE DEF at, upto
  <2> QED BY <2>3
<1>8. ASSUME NEW i \in I PROVE rank[i] \in 1..n /\ at(rank[i]) = i
  <2>1. rank[i] \in 1..n
    BY <1>3
  <2>2. at(rank[i]) \in I /\ rank[at(rank[i])] = rank[i]
    BY <1>7, <2>1
  <2> HIDE DEF at, rank
  <2> QED BY <1>1, <1>4, <2>1, <2>2
<1>9. Kept(q, I) = [j \in 1..n |-> q[at(j)]]
  BY DEF Kept
<1> HIDE DEF rank, at, n, upto
<1>10. \A i \in I : q[i] \in S
  BY <1>1
<1>11. Kept(q, I) \in Seq(S) /\ DOMAIN Kept(q, I) = 1..n /\ Len(Kept(q, I)) = n
  BY <1>2, <1>7, <1>9, <1>10
<1>12. \A j \in 1..n : Kept(q, I)[j] = q[at(j)]
  BY <1>9
<1>13. PICK places : places = [j \in 1..n |-> at(j)]
  OBVIOUS
<1>14. places \in [1..n -> I] /\ \A j \in 1..n : places[j] = at(j)
  BY <1>7, <1>13
<1>15. \A j, k \in 1..n : places[j] = places[k] => j = k
  BY <1>7, <1>14
<1>16. \A i \in I : \E j \in 1..n : places[j] = i
  BY <1>8, <1>14
<1>17. \A j \in 1..n : Kept(q, I)[j] = q[places[j]]
  BY <1>12, <1>14
<1>18. TakenFrom(places, Kept(q, I), q, I, n)
  BY <1>15, <1>16, <1>17 DEF TakenFrom
<1> QED BY <1>2, <1>11, <1>14, <1>18 DEF n

LEMMA KeptElems ==
  ASSUME NEW S, NEW q \in Seq(S), NEW I \in SUBSET DOMAIN q
  PROVE  /\ Kept(q, I) \in Seq(S) /\ Len(Kept(q, I)) = Cardinality(I)
         /\ \A x : x \in ToSet(Kept(q, I)) <=> \E i \in I : q[i] = x
         /\ IsInjective(q) => IsInjective(Kept(q, I))
<1>1. PICK n \in Nat : n = Cardinality(I)
  BY KeptPlaces
<1>2. PICK r : r = Kept(q, I)
  OBVIOUS
<1>3. r \in Seq(S) /\ DOMAIN r = 1..n /\ Len(r) = n
  BY <1>1, <1>2, KeptPlaces
<1>4. PICK places \in [1..n -> I] : TakenFrom(places, r, q, I, n)
  BY <1>1, <1>2, KeptPlaces
<1>5. ASSUME NEW x PROVE x \in ToSet(r) <=> \E i \in I : q[i] = x
  BY <1>3, <1>4 DEF ToSet, TakenFrom
<1>6. ASSUME IsInjective(q) PROVE IsInjective(r)
  BY <1>3, <1>4, <1>6 DEF IsInjective, TakenFrom
<1> QED BY <1>1, <1>2, <1>3, <1>5, <1>6

-----------------------------------------------------------------------------
(* Lists one behind the other.  The function that FlattenSeq computes with *)
(* exists for every list of lists: each step looks at the one before it.   *)
IsFlattening(f, q, n) == \A i \in 1..n : f[i] = IF i = 1 THEN q[i] ELSE f[i - 1] \o q[i]

LEMMA FlattenEnds ==
  ASSUME NEW S, NEW q \in Seq(Seq(S)), NEW n \in Nat \ {0}, n = Len(q)
  PROVE  \E f \in [1..n -> Seq(S)] : IsFlattening(f, q, n)
<1> DEFINE Sol(f, m) == \A i \in 1..m : f[i] = IF i = 1 THEN q[i] ELSE f[i - 1] \o q[i]
           Good(m) == \E f \in [1..m -> Seq(S)] : Sol(f, m)
           Bad == {m \in Nat : 1 <= m /\ m <= n /\ ~Good(m)}
<1>1. \A i \in 1..n : q[i] \in Seq(S)
  OBVIOUS
<1>2. Bad = {}
  <2>1. SUFFICES ASSUME Bad # {} PROVE FALSE
    OBVIOUS
  <2>2. Bad \in SUBSET Nat
    OBVIOUS
  <2> HIDE DEF Bad
  <2>3. PICK m : m = Min(Bad)
    OBVIOUS
  <2>4. m \in Bad /\ \A k \in Bad : m <= k
    BY <2>1, <2>2, <2>3, LeastPlace
  <2>5. m \in Nat /\ 1 <= m /\ m <= n /\ ~Good(m)
    BY <2>4 DEF Bad
  <2>6. CASE m = 1
    <3>1. PICK f : f = [i \in 1..m |-> q[1]]
      OBVIOUS
    <3>2. f \in [1..m -> Seq(S)] /\ Sol(f, m)
      BY <1>1, <2>5, <2>6, <3>1
    <3> QED BY <2>5, <3>2
  <2>7. CASE m # 1
    <3>1. PICK k \in Nat : k = m - 1 /\ 1 <= k /\ k <= n /\ k < m
      BY <2>5, <2>7
    <3>2. k \notin Bad
      BY <2>4, <2>5, <3>1
    <3>3. Good(k)
      BY <3>1, <3>2 DEF Bad
    <3>4. PICK f \in [1..k -> Seq(S)] : Sol(f, k)
      BY <3>3
    <3>5. PICK last : last = f[k] \o q[m]
      OBVIOUS
    <3>6. last \in Seq(S)
      BY <1>1, <2>5, <3>1, <3>4, <3>5
    <3>7. PICK g : g = [i \in 1..m |-> IF i = m THEN last ELSE f[i]]
      OBVIOUS
    <3>8. g \in [1..m -> Seq(S)] /\ g[m] = last /\ \A i \in 1..k : g[i] = f[i]
      BY <2>5, <3>1, <3>4, <3>6, <3>7
    <3>9. ASSUME NEW i \in 1..m PROVE g[i] = IF i = 1 THEN q[i] ELSE g[i - 1] \o q[i]
      <4>1. CASE i = m
        <5>1. m - 1 = k /\ k \in 1..k /\ i # 1
          BY <2>5, <2>7, <3>1, <4>1
        <5>2. g[i - 1] = f[k] /\ g[i] = last
          BY <3>8, <4>1, <5>1
        <5> QED BY <3>5, <4>1, <5>1, <5>2
      <4>2. CASE i # m
        <5>1. i \in 1..k /\ (i # 1 => i - 1 \in 1..k)
          BY <2>5, <3>1, <4>2
        <5>2. f[i] = IF i = 1 THEN q[i] ELSE f[i - 1] \o q[i]
          BY <3>4, <5>1
        <5> QED BY <3>8, <5>1, <5>2
      <4> QED BY <4>1, <4>2
    <3>10. Sol(g, m)
      BY <3>9
    <3> QED BY <2>5, <3>8, <3>10
  <2> QED BY <2>6, <2>7
<1> HIDE DEF Good
<1>3. Good(n)
  BY <1>2
<1> QED BY <1>3 DEF Good, IsFlattening

Flattens(f, q, n) == f[1] = q[1] /\ \A i \in 2..n : f[i] = f[i - 1] \o q[i]

LEMMA FlattenSteps ==
  ASSUME NEW S, NEW q \in Seq(Seq(S)), NEW n \in Nat \ {0}, n = Len(q)
  PROVE  \E f \in [1..n -> Seq(S)] : FlattenSeq(q) = f[n] /\ Flattens(f, q, n)
<1>1. PICK f : f = CHOOSE g : g = [i \in 1..n |-> IF i = 1 THEN q[i] ELSE g[i - 1] \o q[i]]
  OBVIOUS
<1>2. PICK h \in [1..n -> Seq(S)] : IsFlattening(h, q, n)
  BY FlattenEnds
<1>3. h = [i \in 1..n |-> IF i = 1 THEN q[i] ELSE h[i - 1] \o q[i]]
  BY <1>2 DEF IsFlattening
<1>4. f = [i \in 1..n |-> IF i = 1 THEN q[i] ELSE f[i - 1] \o q[i]]
  BY <1>1, <1>3, Zenon
<1>5. FlattenSeq(q) = f[n]
  <2>1. Len(q) # 0
    OBVIOUS
  <2> QED BY <1>1, <2>1, Zenon DEF FlattenSeq
<1>6. f[1] = q[1] /\ \A i \in 2..n : f[i] = f[i - 1] \o q[i]
  <2>1. \A i \in 1..n : f[i] = IF i = 1 THEN q[i] ELSE f[i - 1] \o q[i]
    BY <1>4, Zenon
  <2>2. 1 \in 1..n /\ \A i \in 2..n : i \in 1..n /\ i # 1
    OBVIOUS
  <2> QED BY <2>1, <2>2
<1> DEFINE Bad == {m \in Nat : 1 <= m /\ m <= n /\ f[m] \notin Seq(S)}
<1>7. Bad = {}
  <2>1. SUFFICES ASSUME Bad # {} PROVE FALSE
    OBVIOUS
  <2>2. Bad \in SUBSET Nat
    OBVIOUS
  <2> HIDE DEF Bad
  <2>3. PICK m : m = Min(Bad)
    OBVIOUS
  <2>4. m \in Bad /\ \A k \in Bad : m <= k
    BY <2>1, <2>2, <2>3, LeastPlace
  <2>5. m \in Nat /\ 1 <= m /\ m <= n /\ f[m] \notin Seq(S)
    BY <2>4 DEF Bad
  <2>6. \A i \in 1..n : q[i] \in Seq(S)
    OBVIOUS
  <2>7. m # 1
    BY <1>6, <2>5, <2>6
  <2>8. PICK k \in Nat : k = m - 1 /\ 1 <= k /\ k <= n /\ k < m
    BY <2>5, <2>7
  <2>9. k \notin Bad
    BY <2>4, <2>5, <2>8
  <2>10. f[k] \in Seq(S)
    BY <2>8, <2>9 DEF Bad
  <2>11. f[m] = f[k] \o q[m] /\ q[m] \in Seq(S)
    <3>1. m \in 2..n /\ m \in 1..n /\ m - 1 = k
      BY <2>5, <2>7, <2>8
    <3> QED BY <1>6, <2>6, <3>1
  <2> QED BY <2>5, <2>10, <2>11
<1> HIDE DEF Bad
<1>8. \A i \in 1..n : f[i] \in Seq(S)
  <2> SUFFICES ASSUME NEW i \in 1..n PROVE f[i] \in Seq(S)
    OBVIOUS
  <2>1. i \in Nat /\ 1 <= i /\ i <= n /\ i \notin Bad
    BY <1>7
  <2> QED BY <2>1 DEF Bad
<1>9. f \in [1..n -> Seq(S)]
  <2>1. \E body : f = [i \in 1..n |-> body[i]]
    <3>1. f = [i \in 1..n |-> f[i]]
      BY <1>4, Zenon
    <3> QED BY <3>1
  <2> QED BY <1>8, <2>1
<1>10. Flattens(f, q, n)
  BY <1>6 DEF Flattens
<1> QED BY <1>5, <1>9, <1>10

(* The places of two lists one behind the other.                           *)
LEMMA ConcatPlaces ==
  ASSUME NEW S, NEW s \in Seq(S), NEW t \in Seq(S)
  PROVE  /\ s \o t \in Seq(S) /\ Len(s) \in Nat /\ Len(t) \in Nat /\ DOMAIN s = 1..Len(s)
         /\ DOMAIN t = 1..Len(t) /\ DOMAIN (s \o t) = 1..(Len(s) + Len(t))
         /\ Len(s \o t) = Len(s) + Len(t)
         /\ \A i \in 1..Len(s) : (s \o t)[i] = s[i]
         /\ \A i \in 1..Len(t) : (s \o t)[Len(s) + i] = t[i]
<1>1. s \o t \in Seq(S) /\ Len(s \o t) = Len(s) + Len(t) /\ Len(s) \in Nat /\ Len(t) \in Nat
  OBVIOUS
<1>2. \A i \in 1..Len(s) : (s \o t)[i] = s[i]
  OBVIOUS
<1>3. \A i \in 1..Len(t) : (s \o t)[Len(s) + i] = t[i]
  OBVIOUS
<1> QED BY <1>1, <1>2, <1>3

(* Where the parts of a flattened list are.                                *)
Begins(s, t) == Len(s) <= Len(t) /\ \A i \in 1..Len(s) : t[i] = s[i]

LEMMA FlattenGrows ==
  ASSUME NEW S, NEW n \in Nat \ {0}, NEW q \in [1..n -> Seq(S)], NEW f \in [1..n -> Seq(S)],
         Flattens(f, q, n), NEW k \in 1..n
  PROVE  \A m \in k..n : Begins(f[k], f[m])
<1> DEFINE Good(m) == Len(f[k]) <= Len(f[m]) /\ \A i \in 1..Len(f[k]) : f[m][i] = f[k][i]
           Bad == {m \in Nat : k <= m /\ m <= n /\ ~Good(m)}
<1>1. Bad = {}
  <2>1. SUFFICES ASSUME Bad # {} PROVE FALSE
    OBVIOUS
  <2>2. Bad \in SUBSET Nat
    OBVIOUS
  <2> HIDE DEF Bad
  <2>3. PICK m : m = Min(Bad)
    OBVIOUS
  <2>4. m \in Bad /\ \A j \in Bad : m <= j
    BY <2>1, <2>2, <2>3, LeastPlace
  <2>5. m \in Nat /\ k <= m /\ m <= n /\ ~Good(m)
    BY <2>4 DEF Bad
  <2>6. m # k
    BY <2>5
  <2>7. PICK j \in Nat : j = m - 1 /\ k <= j /\ j <= n /\ j < m /\ j \in 1..n /\ m \in 2..n /\ m \in 1..n
    BY <2>5, <2>6
  <2>8. j \notin Bad
    BY <2>4, <2>5, <2>7
  <2>9. Good(j)
    BY <2>7, <2>8 DEF Bad
  <2>10. f[m] = f[j] \o q[m]
    BY <2>7 DEF Flattens
  <2>11. PICK a \in Seq(S), b \in Seq(S) : a = f[j] /\ b = q[m]
    BY <2>7
  <2>12. /\ Len(a \o b) = Len(a) + Len(b) /\ Len(a) \in Nat /\ Len(b) \in Nat
         /\ \A i \in 1..Len(a) : (a \o b)[i] = a[i]
    BY ConcatPlaces
  <2>13. PICK c \in Seq(S) : c = f[k]
    OBVIOUS
  <2>14. Len(c) \in Nat /\ Len(c) <= Len(a) /\ \A i \in 1..Len(c) : a[i] = c[i]
    BY <2>9, <2>11, <2>13
  <2>15. f[m] = a \o b
    BY <2>10, <2>11
  <2>16. Len(c) <= Len(f[m])
    BY <2>12, <2>14, <2>15
  <2>17. \A i \in 1..Len(c) : f[m][i] = c[i]
    <3> SUFFICES ASSUME NEW i \in 1..Len(c) PROVE f[m][i] = c[i]
      OBVIOUS
    <3>1. i \in 1..Len(a)
      BY <2>12, <2>14
    <3> QED BY <2>12, <2>14, <2>15, <3>1
  <2> QED BY <2>5, <2>13, <2>16, <2>17
<1> HIDE DEF Good
<1>2. \A m \in k..n : Good(m)
  <2> SUFFICES ASSUME NEW m \in k..n PROVE Good(m)
    OBVIOUS
  <2> HIDE DEF Bad
  <2>1. m \in Nat /\ k <= m /\ m <= n
    OBVIOUS
  <2>2. m \notin Bad
    BY <1>1
  <2> QED BY <2>1, <2>2 DEF Bad
<1> QED BY <1>2 DEF Good, Begins
=============================================================================
