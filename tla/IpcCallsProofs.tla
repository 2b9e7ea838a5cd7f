--------------------------- MODULE IpcCallsProofs ---------------------------
(***************************************************************************)
(* Proofs about the calls of a client over the binder and over D-Bus, for  *)
(* every call and every size: the service gets what the client passed, and *)
(* the client is not told of a success that was none.  A parcel that is    *)
(* read with the fields it was written with gives back their values; the   *)
(* rest compares the two sides call by call.                               *)
(***************************************************************************)
EXTENDS IpcCalls, ListFacts

-----------------------------------------------------------------------------
(* What ReadParcel computes with exists: each field looks at the one       *)
(* before it.                                                              *)
IsReading(f, fields, words, sz, known, n) ==
  /\ f[0] = [at |-> 1, v |-> Zero, known |-> known]
  /\ \A k \in 1..n : f[k] = ReadField(f[k - 1], fields[k], words, sz)

(* A reading of the first fields goes on to the next.                      *)
LEMMA ReadingEnds ==
  ASSUME NEW n \in Nat, NEW fields, NEW words, NEW sz, NEW known
  PROVE  \E f : /\ f = [k \in 0..n |-> f[k]]
                /\ IsReading(f, fields, words, sz, known, n)
<1> DEFINE Good(m) == \E f : f = [k \in 0..m |-> f[k]] /\ IsReading(f, fields, words, sz, known, m)
           Bad == {m \in Nat : m <= n /\ ~Good(m)}
<1>1. Bad = {}
  <2>1. SUFFICES ASSUME Bad # {} PROVE FALSE
    OBVIOUS
  <2>2. Bad \in SUBSET Nat
    OBVIOUS
  <2> HIDE DEF Bad
  <2>3. PICK m : m = Min(Bad)
    OBVIOUS
  <2>4. m \in Bad /\ \A k \in Bad : m <= k
    BY <2>1, <2>2, <2>3, LeastPlace
  <2>5. m \in Nat /\ m <= n /\ ~Good(m)
    BY <2>4 DEF Bad
  <2>6. CASE m = 0
    <3>1. PICK first : first = [at |-> 1, v |-> Zero, known |-> known]
      OBVIOUS
    <3>2. PICK f : f = [k \in 0..m |-> first]
      OBVIOUS
    <3>3. f = [k \in 0..m |-> f[k]] /\ f[0] = first
      BY <2>6, <3>2
    <3>4. IsReading(f, fields, words, sz, known, m)
      BY <2>6, <3>1, <3>3 DEF IsReading
    <3> QED BY <2>5, <3>3, <3>4
  <2>7. CASE m # 0
    <3>1. PICK k \in Nat : k = m - 1 /\ k <= n /\ k < m
      BY <2>5, <2>7
    <3>2. k \notin Bad
      BY <2>4, <2>5, <3>1
    <3>3. Good(k)
      BY <3>1, <3>2 DEF Bad
    <3>4. PICK f : f = [i \in 0..k |-> f[i]] /\ IsReading(f, fields, words, sz, known, k)
      BY <3>3
    <3>5. PICK last : last = ReadField(f[k], fields[m], words, sz)
      OBVIOUS
    <3>6. PICK g : g = [i \in 0..m |-> IF i = m THEN last ELSE f[i]]
      OBVIOUS
    <3>7. g = [i \in 0..m |-> g[i]] /\ g[m] = last /\ \A i \in 0..k : g[i] = f[i]
      BY <2>5, <3>1, <3>6
    <3>8. g[0] = [at |-> 1, v |-> Zero, known |-> known]
      <4>1. 0 \in 0..k
        BY <3>1
      <4>2. f[0] = [at |-> 1, v |-> Zero, known |-> known]
        BY <3>4 DEF IsReading
      <4>3. g[0] = f[0]
        BY <3>7, <4>1
      <4> QED BY <4>2, <4>3
    <3>9. ASSUME NEW i \in 1..m PROVE g[i] = ReadField(g[i - 1], fields[i], words, sz)
      <4>1. CASE i = m
        <5>1. g[i - 1] = f[k] /\ g[i] = last
          <6>1. i - 1 = k /\ k \in 0..k
            BY <3>1, <4>1, <2>5
          <6> QED BY <3>7, <4>1, <6>1
        <5> QED BY <3>5, <4>1, <5>1
      <4>2. CASE i # m
        <5>1. i \in 1..k /\ i \in 0..k /\ i - 1 \in 0..k
          BY <2>5, <3>1, <4>2
        <5>2. f[i] = ReadField(f[i - 1], fields[i], words, sz)
          BY <3>4, <5>1 DEF IsReading
        <5>3. g[i] = f[i] /\ g[i - 1] = f[i - 1]
          BY <3>7, <5>1
        <5> QED BY <5>2, <5>3
      <4> QED BY <4>1, <4>2
    <3>10. IsReading(g, fields, words, sz, known, m)
      BY <3>8, <3>9 DEF IsReading
    <3> QED BY <2>5, <3>7, <3>10
  <2> QED BY <2>6, <2>7
<1> HIDE DEF Good
<1>2. Good(n)
  BY <1>1
<1> QED BY <1>2 DEF Good

Reading(f, fields, words, sz, known, n) ==
  /\ IsReading(f, fields, words, sz, known, n)
  /\ ReadParcel(fields, words, sz, known) = [k \in 1..n |-> <<fields[k].v, f[k].v>>]

(* ReadParcel reads one field after the other.                             *)
LEMMA ReadingSteps ==
  ASSUME NEW n \in Nat, NEW fields, NEW words, NEW sz, NEW known,
         n = Len(fields), DOMAIN fields = 1..n
  PROVE  \E f : Reading(f, fields, words, sz, known, n)
<1>1. PICK first : first = [at |-> 1, v |-> Zero, known |-> known]
  OBVIOUS
<1>2. PICK f : f = CHOOSE g : g = [k \in 0..Len(fields) |->
                     IF k = 0 THEN [at |-> 1, v |-> Zero, known |-> known]
                     ELSE ReadField(g[k - 1], fields[k], words, sz)]
  OBVIOUS
<1>3. PICK h : h = [k \in 0..n |-> h[k]] /\ IsReading(h, fields, words, sz, known, n)
  BY ReadingEnds
<1>4. h = [k \in 0..n |-> IF k = 0 THEN [at |-> 1, v |-> Zero, known |-> known]
                          ELSE ReadField(h[k - 1], fields[k], words, sz)]
  <2>1. ASSUME NEW k \in 0..n
        PROVE h[k] = IF k = 0 THEN [at |-> 1, v |-> Zero, known |-> known]
                     ELSE ReadField(h[k - 1], fields[k], words, sz)
    <3>1. CASE k = 0
      BY <1>3, <3>1 DEF IsReading
    <3>2. CASE k # 0
      <4>1. k \in 1..n
        BY <3>2
      <4>2. h[k] = ReadField(h[k - 1], fields[k], words, sz)
        BY <1>3, <4>1 DEF IsReading
      <4> QED BY <3>2, <4>2
    <3> QED BY <3>1, <3>2
  <2> QED BY <1>3, <2>1, Zenon
<1>5. f = [k \in 0..n |-> IF k = 0 THEN [at |-> 1, v |-> Zero, known |-> known]
                          ELSE ReadField(f[k - 1], fields[k], words, sz)]
  BY <1>2, <1>4, Zenon
<1>6. ReadParcel(fields, words, sz, known) = [k \in 1..n |-> <<fields[k].v, f[k].v>>]
  <2>1. ReadParcel(fields, words, sz, known) = [k \in DOMAIN fields |-> <<fields[k].v, f[k].v>>]
    BY <1>2 DEF ReadParcel
  <2> QED BY <2>1, Zenon
<1>7. \A k \in 0..n : f[k] = IF k = 0 THEN [at |-> 1, v |-> Zero, known |-> known]
                             ELSE ReadField(f[k - 1], fields[k], words, sz)
  BY <1>5, Zenon
<1>8. IsReading(f, fields, words, sz, known, n)
  <2>1. 0 \in 0..n /\ \A k \in 1..n : k \in 0..n /\ k # 0
    OBVIOUS
  <2>2. f[0] = [at |-> 1, v |-> Zero, known |-> known]
    BY <1>7, <2>1, Zenon
  <2>3. \A k \in 1..n : f[k] = ReadField(f[k - 1], fields[k], words, sz)
    BY <1>7, <2>1, Zenon
  <2> QED BY <2>2, <2>3 DEF IsReading
<1> QED BY <1>6, <1>8 DEF Reading

(* A field whose words are all there, and no more than them, is read.      *)
Whole(words, at, w, x) ==
  /\ at + w <= Len(words) + 1
  /\ \A i \in 1..w : words[at + i - 1] = [of |-> x, nth |-> i]
  /\ at + w <= Len(words) => words[at + w].nth = 1

ReadWidth(f, sz, known) == Width(f, IF f.n \in known THEN sz[f.n] ELSE 0)

WriteWidth(f, sz) == Width(f, IF f.n = "" THEN 0 ELSE sz[f.n])

Moves(acc, next, at, x) == next = [at |-> at, v |-> x, known |-> acc.known \cup {x}]

(* A reader that is where a field begins, and knows how wide it is, gets   *)
(* its value and is where the next begins.                                 *)
LEMMA FieldReads ==
  ASSUME NEW acc, NEW f, NEW S, NEW words \in Seq(S), NEW sz, NEW w \in Nat \ {0},
         NEW at \in Nat \ {0}, NEW x, acc.at = at, ReadWidth(f, sz, acc.known) = w,
         Whole(words, at, w, x)
  PROVE  Moves(acc, ReadField(acc, f, words, sz), at + w, x)
<1>1. PICK n \in Nat : n = Len(words)
  OBVIOUS
<1>2. PICK u : u = Width(f, IF f.n \in acc.known THEN sz[f.n] ELSE 0)
  OBVIOUS
<1>3. u = w
  BY <1>2 DEF ReadWidth
<1>4. words[at] = [of |-> x, nth |-> 1]
  <2>1. 1 \in 1..w /\ at + 1 - 1 = at
    OBVIOUS
  <2>2. \A i \in 1..w : words[at + i - 1] = [of |-> x, nth |-> i]
    BY DEF Whole
  <2> QED BY <2>1, <2>2
<1>5. words[at].of = x
  BY <1>4
<1>6. ~(at + w > n + 1)
  BY <1>1 DEF Whole
<1>7. \A i \in 1..w : words[at + i - 1] = [of |-> x, nth |-> i]
  BY DEF Whole
<1>8. at + w <= n => words[at + w] # [of |-> x, nth |-> w + 1]
  <2>1. at + w <= n => words[at + w].nth = 1
    BY <1>1 DEF Whole
  <2>2. w + 1 # 1
    OBVIOUS
  <2> QED BY <2>1, <2>2
<1>9. PICK next \in Nat : next = at + w
  OBVIOUS
<1>10. acc.at + u = next /\ ~(next > n + 1)
  BY <1>3, <1>6, <1>9
<1>11. \A i \in 1..u : words[acc.at + i - 1] = [of |-> words[acc.at].of, nth |-> i]
  BY <1>3, <1>5, <1>7
<1>12. next <= n => words[next] # [of |-> words[acc.at].of, nth |-> u + 1]
  BY <1>3, <1>5, <1>8, <1>9
<1>13. ReadField(acc, f, words, sz) =
         [at |-> next, v |-> words[acc.at].of, known |-> acc.known \cup {words[acc.at].of}]
  BY <1>1, <1>2, <1>10, <1>11, <1>12, ZenonT(60) DEF ReadField
<1> QED BY <1>5, <1>9, <1>13 DEF Moves

(* The first m fields that are read are the first that were written: as    *)
(* wide, and the readers know the sizes.                                   *)
KnownAt(reads, k, known) == known \cup {reads[j].v : j \in 1..k}

Fits(reads, writes, m, sz, known) ==
  \A k \in 1..m :
    /\ reads[k].v = writes[k].v /\ reads[k].v # Zero
    /\ ReadWidth(reads[k], sz, KnownAt(reads, k - 1, known)) = WriteWidth(writes[k], sz)

IsList(s, n) == Len(s) = n /\ DOMAIN s = 1..n

Wide(writes, n, sz) == \A k \in 1..n : WriteWidth(writes[k], sz) \in Nat \ {0}

(* Where the words of a field are in the parcel.                           *)
Placed(words, writes, sz, at, n) ==
  /\ at \in [1..(n + 1) -> Nat \ {0}] /\ at[1] = 1
  /\ \A k \in 1..n : /\ at[k + 1] = at[k] + WriteWidth(writes[k], sz)
                     /\ Whole(words, at[k], WriteWidth(writes[k], sz), writes[k].v)

(* The fields of a parcel are one behind the other, each as wide as it was *)
(* written.                                                                *)
LEMMA FieldsPlaced ==
  ASSUME NEW writes, NEW sz, NEW n \in Nat \ {0}, IsList(writes, n), Wide(writes, n, sz)
  PROVE  \E S, at : /\ WriteParcel(writes, sz) \in Seq(S)
                     /\ Placed(WriteParcel(writes, sz), writes, sz, at, n)
<1>1. PICK S : S = [of: {writes[k].v : k \in 1..n}, nth: Nat]
  OBVIOUS
<1>2. PICK q : q = [k \in DOMAIN writes |-> WordsOf(writes[k], sz)]
  OBVIOUS
<1>3. \A k \in 1..n : /\ q[k] \in Seq(S) /\ Len(q[k]) = WriteWidth(writes[k], sz)
                      /\ Len(q[k]) \in Nat \ {0}
                      /\ \A i \in 1..Len(q[k]) : q[k][i] = [of |-> writes[k].v, nth |-> i]
  <2> SUFFICES ASSUME NEW k \in 1..n
               PROVE  /\ q[k] \in Seq(S) /\ Len(q[k]) = WriteWidth(writes[k], sz)
                      /\ Len(q[k]) \in Nat \ {0}
                      /\ \A i \in 1..Len(q[k]) : q[k][i] = [of |-> writes[k].v, nth |-> i]
    OBVIOUS
  <2>1. q[k] = WordsOf(writes[k], sz)
    BY <1>2 DEF IsList
  <2>2. PICK w \in Nat \ {0} : w = WriteWidth(writes[k], sz)
    BY DEF Wide
  <2>3. PICK p : p = [i \in 1..w |-> [of |-> writes[k].v, nth |-> i]]
    OBVIOUS
  <2>4. q[k] = p
    BY <2>1, <2>2, <2>3 DEF WordsOf, WriteWidth
  <2>5. \A i \in 1..w : [of |-> writes[k].v, nth |-> i] \in S
    BY <1>1
  <2>6. p \in Seq(S) /\ Len(p) = w /\ \A i \in 1..w : p[i] = [of |-> writes[k].v, nth |-> i]
    BY <2>3, <2>5
  <2> QED BY <2>2, <2>4, <2>6
<1>4. q = [k \in 1..n |-> q[k]]
  BY <1>2 DEF IsList
<1>5. q \in [1..n -> Seq(S)]
  BY <1>3, <1>4
<1>6. q \in Seq(Seq(S)) /\ Len(q) = n
  BY <1>5
<1>7. PICK f \in [1..n -> Seq(S)] : FlattenSeq(q) = f[n] /\ Flattens(f, q, n)
  BY <1>6, FlattenSteps
<1>8. PICK words \in Seq(S) : words = f[n]
  BY <1>7
<1>9. WriteParcel(writes, sz) = words
  BY <1>2, <1>7, <1>8 DEF WriteParcel
<1>10. ASSUME NEW k \in 1..n
       PROVE  /\ Len(f[k]) <= Len(words)
              /\ \A i \in 1..Len(f[k]) : words[i] = f[k][i]
  <2>1. \A m \in k..n : Begins(f[k], f[m])
    BY <1>5, <1>7, FlattenGrows
  <2>2. n \in k..n
    OBVIOUS
  <2>3. Begins(f[k], words)
    BY <1>8, <2>1, <2>2
  <2> QED BY <2>3 DEF Begins
<1>11. PICK at : at = [k \in 1..(n + 1) |-> IF k = 1 THEN 1 ELSE Len(f[k - 1]) + 1]
  OBVIOUS
<1>12. at[1] = 1 /\ \A k \in 1..n : at[k + 1] = Len(f[k]) + 1
  <2>1. 1 \in 1..(n + 1) /\ \A k \in 1..n : k + 1 \in 1..(n + 1) /\ k + 1 # 1 /\ (k + 1) - 1 = k
    OBVIOUS
  <2> QED BY <1>11, <2>1
<1>13. at \in [1..(n + 1) -> Nat \ {0}]
  <2>1. ASSUME NEW k \in 1..(n + 1), k # 1 PROVE Len(f[k - 1]) + 1 \in Nat \ {0}
    <3>1. k - 1 \in 1..n
      BY <2>1
    <3>2. f[k - 1] \in Seq(S)
      BY <3>1
    <3> QED BY <3>2
  <2> QED BY <1>11, <2>1
(* The words of a field behind those of the fields before it.              *)
<1>14. ASSUME NEW k \in 1..n
       PROVE  /\ at[k + 1] = at[k] + Len(q[k]) /\ at[k + 1] <= Len(words) + 1
              /\ \A i \in 1..Len(q[k]) : words[at[k] + i - 1] = q[k][i]
  <2>1. PICK a \in Nat \ {0} : a = at[k]
    BY <1>13
  <2>2. PICK w \in Nat \ {0} : w = Len(q[k])
    BY <1>3
  <2>3. Len(f[k]) + 1 = a + w /\ \A i \in 1..w : f[k][a + i - 1] = q[k][i]
    <3>1. CASE k = 1
      <4>1. f[k] = q[k] /\ a = 1
        BY <1>7, <1>12, <2>1, <3>1 DEF Flattens
      <4>2. \A i \in 1..w : a + i - 1 = i
        BY <4>1
      <4> QED BY <2>2, <4>1, <4>2
    <3>2. CASE k # 1
      <4>1. k \in 2..n /\ k - 1 \in 1..n /\ (k - 1) + 1 = k
        BY <3>2
      <4>2. f[k] = f[k - 1] \o q[k] /\ f[k - 1] \in Seq(S) /\ q[k] \in Seq(S)
        BY <1>3, <1>7, <4>1 DEF Flattens
      <4>3. a = Len(f[k - 1]) + 1
        BY <1>12, <2>1, <4>1
      <4>4. PICK s \in Seq(S), t \in Seq(S) : s = f[k - 1] /\ t = q[k]
        BY <4>2
      <4>5. /\ Len(s \o t) = Len(s) + Len(t) /\ Len(s) \in Nat
            /\ \A i \in 1..Len(t) : (s \o t)[Len(s) + i] = t[i]
        BY ConcatPlaces
      <4>6. PICK c : c = s \o t
        OBVIOUS
      <4>7. f[k] = c /\ a = Len(s) + 1 /\ Len(t) = w
        BY <2>2, <4>2, <4>3, <4>4, <4>6
      <4>8. Len(c) = Len(s) + w /\ \A i \in 1..w : c[Len(s) + i] = t[i]
        BY <4>5, <4>6, <4>7
      <4>9. \A i \in 1..w : a + i - 1 = Len(s) + i
        BY <4>5, <4>7
      <4>10. Len(c) + 1 = a + w /\ \A i \in 1..w : c[a + i - 1] = t[i]
        <5>1. PICK b \in Nat : b = Len(s)
          BY <4>5
        <5>2. Len(c) = b + w /\ a = b + 1
          BY <4>7, <4>8, <5>1
        <5>3. \A i \in 1..w : c[a + i - 1] = t[i]
          BY <4>8, <4>9, Zenon
        <5>4. Len(c) + 1 = a + w
          BY <5>2
        <5> QED BY <5>3, <5>4
      <4> QED BY <4>4, <4>7, <4>10
    <3> QED BY <3>1, <3>2
  <2>4. Len(f[k]) <= Len(words) /\ \A i \in 1..Len(f[k]) : words[i] = f[k][i]
    BY <1>10
  <2>5. PICK l \in Nat : l = Len(f[k])
    BY <1>7
  <2>6. \A i \in 1..w : a + i - 1 \in 1..l
    BY <2>3, <2>5
  <2>7. \A i \in 1..w : words[a + i - 1] = q[k][i]
    BY <2>3, <2>4, <2>5, <2>6
  <2>8. at[k + 1] = l + 1
    BY <1>12, <2>5
  <2>9. l <= Len(words) /\ Len(words) \in Nat
    BY <1>8, <2>4, <2>5
  <2>10. PICK b \in Nat : b = Len(words)
    BY <2>9
  <2>11. l + 1 = a + w
    BY <2>3, <2>5
  <2>12. at[k + 1] = a + w /\ at[k + 1] <= b + 1
    BY <2>8, <2>9, <2>10, <2>11
  <2> QED BY <2>1, <2>2, <2>7, <2>10, <2>12
<1>15. ASSUME NEW k \in 1..n
       PROVE  /\ at[k + 1] = at[k] + WriteWidth(writes[k], sz)
              /\ Whole(words, at[k], WriteWidth(writes[k], sz), writes[k].v)
  <2>1. PICK a \in Nat \ {0} : a = at[k]
    BY <1>13
  <2>2. PICK w \in Nat \ {0} : w = WriteWidth(writes[k], sz) /\ w = Len(q[k])
    BY <1>3
  <2>3. at[k + 1] = a + w /\ a + w <= Len(words) + 1 /\ \A i \in 1..w : words[a + i - 1] = q[k][i]
    BY <1>14, <2>1, <2>2
  <2>4. \A i \in 1..w : words[a + i - 1] = [of |-> writes[k].v, nth |-> i]
    BY <1>3, <2>2, <2>3
  <2>5. PICK l \in Nat : l = Len(words)
    BY <1>8
  <2>6. ASSUME a + w <= l PROVE words[a + w].nth = 1
    <3>1. k # n
      <4>1. SUFFICES ASSUME k = n PROVE FALSE
        OBVIOUS
      <4>2. l + 1 = a + w
        BY <1>8, <1>12, <2>3, <2>5, <4>1
      <4> QED BY <2>5, <2>6, <4>2
    <3>2. PICK j \in 1..n : j = k + 1
      BY <3>1
    <3>3. at[j] = a + w
      BY <2>3, <3>2
    <3>4. \A i \in 1..Len(q[j]) : words[(a + w) + i - 1] = q[j][i]
      BY <1>14, <3>3
    <3>5. 1 \in 1..Len(q[j]) /\ q[j][1] = [of |-> writes[j].v, nth |-> 1]
      <4>1. PICK u \in Nat \ {0} : u = Len(q[j])
        BY <1>3
      <4>2. 1 \in 1..u
        OBVIOUS
      <4>3. \A i \in 1..u : q[j][i] = [of |-> writes[j].v, nth |-> i]
        BY <1>3, <4>1
      <4> QED BY <4>1, <4>2, <4>3
    <3>6. (a + w) + 1 - 1 = a + w
      OBVIOUS
    <3>7. words[a + w] = [of |-> writes[j].v, nth |-> 1]
      BY <3>4, <3>5, <3>6
    <3> QED BY <3>7
  <2>7. Whole(words, a, w, writes[k].v)
    BY <2>3, <2>4, <2>5, <2>6 DEF Whole
  <2> QED BY <2>1, <2>2, <2>3, <2>7
<1>16. Placed(words, writes, sz, at, n)
  BY <1>12, <1>13, <1>15 DEF Placed
<1> QED BY <1>8, <1>9, <1>16

(* What was written is read back, as far as the fields fit.                *)
ReadBack(reads, words, m, sz, known) ==
  \A k \in 1..m : ReadParcel(reads, words, sz, known)[k] = <<reads[k].v, reads[k].v>>

(* By the least field that is not: every field that fits is read back.     *)
LEMMA RoundTrip ==
  ASSUME NEW reads, NEW writes, NEW sz, NEW known, NEW r \in Nat, NEW n \in Nat, NEW m \in Nat,
         IsList(reads, r), IsList(writes, n), m <= r, m <= n, Wide(writes, n, sz),
         Fits(reads, writes, m, sz, known)
  PROVE  ReadBack(reads, WriteParcel(writes, sz), m, sz, known)
<1>1. CASE m = 0
  BY <1>1 DEF ReadBack
<1>2. CASE m # 0
  <2>1. n \in Nat \ {0}
    BY <1>2
  <2>2. PICK words : words = WriteParcel(writes, sz)
    OBVIOUS
  <2>3. PICK S, at : words \in Seq(S) /\ Placed(words, writes, sz, at, n)
    BY <2>1, <2>2, FieldsPlaced
  <2>4. PICK f : Reading(f, reads, words, sz, known, r)
    BY ReadingSteps DEF IsList
  <2> DEFINE Good(k) == /\ f[k].at = at[k + 1] /\ f[k].known = KnownAt(reads, k, known)
                        /\ k # 0 => f[k].v = reads[k].v
             Bad == {k \in Nat : k <= m /\ ~Good(k)}
  <2>5. Bad = {}
    <3>1. SUFFICES ASSUME Bad # {} PROVE FALSE
      OBVIOUS
    <3>2. Bad \in SUBSET Nat
      OBVIOUS
    <3> HIDE DEF Bad
    <3>3. PICK k : k = Min(Bad)
      OBVIOUS
    <3>4. k \in Bad /\ \A j \in Bad : k <= j
      BY <3>1, <3>2, <3>3, LeastPlace
    <3>5. k \in Nat /\ k <= m /\ ~Good(k)
      BY <3>4 DEF Bad
    <3>6. CASE k = 0
      <4>1. f[0] = [at |-> 1, v |-> Zero, known |-> known]
        BY <2>4 DEF Reading, IsReading
      <4>2. at[1] = 1 /\ 0 + 1 = 1
        BY <2>3 DEF Placed
      <4>3. KnownAt(reads, 0, known) = known
        BY DEF KnownAt
      <4> QED BY <3>5, <3>6, <4>1, <4>2, <4>3
    <3>7. CASE k # 0
      <4>1. PICK j \in Nat : j = k - 1 /\ j <= m /\ j < k /\ j + 1 = k
        BY <3>5, <3>7
      <4>2. j \notin Bad
        BY <3>4, <3>5, <4>1
      <4>3. Good(j)
        BY <4>1, <4>2 DEF Bad
      <4>4. k \in 1..m /\ k \in 1..r /\ k \in 1..n
        BY <3>5, <3>7
      <4>5. f[j].at = at[k] /\ f[j].known = KnownAt(reads, k - 1, known)
        BY <4>1, <4>3
      <4>6. PICK w \in Nat \ {0} : w = WriteWidth(writes[k], sz)
        BY <4>4 DEF Wide
      <4>7. reads[k].v = writes[k].v /\ ReadWidth(reads[k], sz, f[j].known) = w
        BY <4>4, <4>5, <4>6 DEF Fits
      <4>8. PICK a \in Nat \ {0} : a = at[k]
        BY <2>3, <4>4 DEF Placed
      <4>9. at[k + 1] = a + w /\ Whole(words, a, w, writes[k].v)
        BY <2>3, <4>4, <4>6, <4>8 DEF Placed
      <4>10. PICK x : x = writes[k].v
        OBVIOUS
      <4>11. f[j].at = a /\ Whole(words, a, w, x)
        BY <4>5, <4>8, <4>9, <4>10
      <4>12. ReadField(f[j], reads[k], words, sz) =
               [at |-> a + w, v |-> x, known |-> f[j].known \cup {x}]
        <5>1. PICK acc, fld : acc = f[j] /\ fld = reads[k]
          OBVIOUS
        <5>2. acc.at = a /\ ReadWidth(fld, sz, acc.known) = w /\ Whole(words, a, w, x) /\ words \in Seq(S)
          BY <2>3, <4>7, <4>11, <5>1
        <5>3. Moves(acc, ReadField(acc, fld, words, sz), a + w, x)
          BY <5>2, FieldReads
        <5> QED BY <5>1, <5>3 DEF Moves
      <4>13. f[k] = ReadField(f[j], reads[k], words, sz)
        BY <2>4, <4>1, <4>4 DEF Reading, IsReading
      <4>14. KnownAt(reads, k, known) = KnownAt(reads, k - 1, known) \cup {reads[k].v}
        <5>1. \A i : i \in 1..k <=> i \in 1..(k - 1) \/ i = k
          BY <3>5, <3>7
        <5> QED BY <5>1 DEF KnownAt
      <4>15. f[k].at = a + w /\ f[k].v = x /\ f[k].known = f[j].known \cup {x}
        BY <4>12, <4>13
      <4>16. f[k].at = at[k + 1] /\ f[k].v = reads[k].v
        BY <4>7, <4>9, <4>10, <4>15
      <4>17. f[k].known = KnownAt(reads, k, known)
        BY <4>5, <4>7, <4>10, <4>14, <4>15
      <4> QED BY <3>5, <4>16, <4>17
    <3> QED BY <3>6, <3>7
  <2>6. ASSUME NEW k \in 1..m PROVE ReadParcel(reads, words, sz, known)[k] = <<reads[k].v, reads[k].v>>
    <3>1. k \in Nat /\ k <= m /\ k # 0 /\ k \in 1..r
      OBVIOUS
    <3> HIDE DEF Good
    <3>2. Good(k)
      BY <2>5, <3>1
    <3>3. f[k].v = reads[k].v
      BY <3>1, <3>2 DEF Good
    <3> QED BY <2>4, <3>1, <3>3 DEF Reading
  <2> QED BY <2>2, <2>6 DEF ReadBack
<1> QED BY <1>1, <1>2

(* A field that is not all there reads as zero.                            *)
LEMMA ReadsNothing ==
  ASSUME NEW reads, NEW words, NEW sz, NEW known, NEW r \in Nat, NEW S, words \in Seq(S),
         IsList(reads, r), 1 <= r,
         NEW w \in Nat, w = ReadWidth(reads[1], sz, known), w > Len(words)
  PROVE  ReadParcel(reads, words, sz, known)[1] = <<reads[1].v, Zero>>
<1>1. PICK f : Reading(f, reads, words, sz, known, r)
  <2>1. r = Len(reads) /\ DOMAIN reads = 1..r
    BY DEF IsList
  <2> QED BY <2>1, ReadingSteps
<1>2. PICK first : first = f[0]
  OBVIOUS
<1>3. first.at = 1 /\ first.known = known
  BY <1>1, <1>2 DEF Reading, IsReading
<1>4. 1 \in 1..r /\ 1 - 1 = 0
  OBVIOUS
<1>5. f[1] = ReadField(first, reads[1], words, sz)
  BY <1>1, <1>2, <1>4 DEF Reading, IsReading
<1>6. PICK u : u = Width(reads[1], IF reads[1].n \in known THEN sz[reads[1].n] ELSE 0)
  OBVIOUS
<1>7. u = w
  BY <1>6 DEF ReadWidth
<1>8. PICK l \in Nat : l = Len(words)
  OBVIOUS
<1>9. 1 + w > l + 1
  BY <1>8
<1>10. f[1].v = Zero
  <2>1. ReadField(first, reads[1], words, sz).v = IF first.at + u > l + 1 THEN Zero
          ELSE ReadField(first, reads[1], words, sz).v
    BY <1>3, <1>6, <1>8 DEF ReadField
  <2> QED BY <1>3, <1>5, <1>7, <1>9, <2>1
<1> QED BY <1>1, <1>4, <1>10 DEF Reading

-----------------------------------------------------------------------------
(* Tables in parts.                                                        *)
LEMMA Joined ==
  ASSUME NEW parts, NEW i \in DOMAIN parts, NEW c \in DOMAIN parts[i],
         \A j \in DOMAIN parts : c \in DOMAIN parts[j] => j = i
  PROVE  c \in DOMAIN Join(parts) /\ Join(parts)[c] = parts[i][c]
<1>1. c \in UNION {DOMAIN parts[j] : j \in DOMAIN parts}
  OBVIOUS
<1>2. (CHOOSE j \in DOMAIN parts : c \in DOMAIN parts[j]) = i
  OBVIOUS
<1> QED BY <1>1, <1>2 DEF Join

(* Every call of the proxy, and the part of its table that has it.         *)
LEMMA BpParts ==
  /\ DOMAIN Bp = {"SET_MEDIA_CONFIG", "SESSION_SET_CONFIG", "INIT", "LOOPBACK",
       "AUDIO_INTF_SET_META", "SESSION_SET_META", "SESSION_AUDIO_INTF_SET_META", "OPEN",
       "CLOSE", "PREPARE", "START", "STOP", "PAUSE", "RESUME", "CONNECT", "GET_BUFF_CNT",
       "READ", "WRITE", "GET_AIF_LIST_SIZE", "GET_AIF_LIST", "REG_EVENT", "REG_CB",
       "GET_TAG_MODULE_INFO_SIZE", "GET_TAG_MODULE_INFO", "SESSION_AIF_SET_PARAMS",
       "AIF_SET_PARAMS", "SESSION_SET_PARAMS", "SET_PARAMS_WITH_TAG", "EOS", "GET_SESSION_TIME",
       "SET_ECREF", "SET_CALIBRATION", "GET_PARAMS", "BUF_TSTAMP", "EVENT"}
  /\ \A c \in DOMAIN BpAgmService_config : Bp[c] = BpAgmService_config[c]
  /\ \A c \in DOMAIN BpAgmService_control : Bp[c] = BpAgmService_control[c]
  /\ \A c \in DOMAIN BpAgmService_data : Bp[c] = BpAgmService_data[c]
  /\ \A c \in DOMAIN BpAgmService_events : Bp[c] = BpAgmService_events[c]
  /\ \A c \in DOMAIN BpAgmService_params : Bp[c] = BpAgmService_params[c]
  /\ \A c \in DOMAIN BpAgmService_queries : Bp[c] = BpAgmService_queries[c]
  /\ \A c \in DOMAIN BpCallback : Bp[c] = BpCallback[c]
<1>1. PICK p : p = <<BpAgmService_config, BpAgmService_control, BpAgmService_data,
                     BpAgmService_events, BpAgmService_params, BpAgmService_queries,
                     BpCallback>>
  OBVIOUS
<1>2. DOMAIN p = 1..7 /\ p[1] = BpAgmService_config /\ p[2] = BpAgmService_control /\ p[3] =
        BpAgmService_data /\ p[4] = BpAgmService_events /\ p[5] = BpAgmService_params /\ p[6] =
        BpAgmService_queries /\ p[7] = BpCallback
  BY <1>1
<1>3. DOMAIN p[1] = {"SET_MEDIA_CONFIG", "SESSION_SET_CONFIG", "INIT", "LOOPBACK",
        "AUDIO_INTF_SET_META", "SESSION_SET_META", "SESSION_AUDIO_INTF_SET_META"}
  BY <1>2 DEF BpAgmService_config
<1>4. DOMAIN p[2] = {"OPEN", "CLOSE", "PREPARE", "START", "STOP", "PAUSE", "RESUME", "CONNECT",
        "GET_BUFF_CNT"}
  BY <1>2 DEF BpAgmService_control
<1>5. DOMAIN p[3] = {"READ", "WRITE", "GET_AIF_LIST_SIZE", "GET_AIF_LIST"}
  BY <1>2 DEF BpAgmService_data
<1>6. DOMAIN p[4] = {"REG_EVENT", "REG_CB", "GET_TAG_MODULE_INFO_SIZE", "GET_TAG_MODULE_INFO"}
  BY <1>2 DEF BpAgmService_events
<1>7. DOMAIN p[5] = {"SESSION_AIF_SET_PARAMS", "AIF_SET_PARAMS", "SESSION_SET_PARAMS",
        "SET_PARAMS_WITH_TAG"}
  BY <1>2 DEF BpAgmService_params
<1>8. DOMAIN p[6] = {"EOS", "GET_SESSION_TIME", "SET_ECREF", "SET_CALIBRATION", "GET_PARAMS",
        "BUF_TSTAMP"}
  BY <1>2 DEF BpAgmService_queries
<1>9. DOMAIN p[7] = {"EVENT"}
  BY <1>2 DEF BpCallback
<1>10. Bp = Join(p)
  BY <1>1 DEF Bp
<1>11. ASSUME NEW i \in 1..7, NEW c \in DOMAIN p[i]
       PROVE  \A j \in 1..7 : c \in DOMAIN p[j] => j = i
  BY <1>3, <1>4, <1>5, <1>6, <1>7, <1>8, <1>9
<1>12. ASSUME NEW i \in 1..7, NEW c \in DOMAIN p[i] PROVE Bp[c] = p[i][c]
  BY <1>2, <1>10, <1>11, Joined
<1>13. DOMAIN Bp = UNION {DOMAIN p[i] : i \in 1..7}
  BY <1>2, <1>10 DEF Join
<1>14. DOMAIN Bp = {"SET_MEDIA_CONFIG", "SESSION_SET_CONFIG", "INIT", "LOOPBACK",
        "AUDIO_INTF_SET_META", "SESSION_SET_META", "SESSION_AUDIO_INTF_SET_META", "OPEN",
        "CLOSE", "PREPARE", "START", "STOP", "PAUSE", "RESUME", "CONNECT", "GET_BUFF_CNT",
        "READ", "WRITE", "GET_AIF_LIST_SIZE", "GET_AIF_LIST", "REG_EVENT", "REG_CB",
        "GET_TAG_MODULE_INFO_SIZE", "GET_TAG_MODULE_INFO", "SESSION_AIF_SET_PARAMS",
        "AIF_SET_PARAMS", "SESSION_SET_PARAMS", "SET_PARAMS_WITH_TAG", "EOS",
        "GET_SESSION_TIME", "SET_ECREF", "SET_CALIBRATION", "GET_PARAMS", "BUF_TSTAMP", "EVENT"}
  BY <1>13, <1>3, <1>4, <1>5, <1>6, <1>7, <1>8, <1>9
<1> QED BY <1>2, <1>12, <1>14

(* Every case of the stub, and the part of its table that has it.          *)
LEMMA BnParts ==
  /\ DOMAIN Bn = {"OPEN", "SESSION_SET_META", "SESSION_AUDIO_INTF_SET_META", "INIT",
       "GET_BUFF_CNT", "AUDIO_INTF_SET_META", "LOOPBACK", "CLOSE", "PREPARE", "START", "STOP",
       "PAUSE", "RESUME", "CONNECT", "SET_MEDIA_CONFIG", "SESSION_SET_CONFIG", "READ", "WRITE",
       "GET_AIF_LIST_SIZE", "GET_AIF_LIST", "REG_EVENT", "REG_CB", "GET_TAG_MODULE_INFO_SIZE",
       "GET_TAG_MODULE_INFO", "SESSION_AIF_SET_PARAMS", "AIF_SET_PARAMS", "SESSION_SET_PARAMS",
       "SET_PARAMS_WITH_TAG", "SET_ECREF", "SET_CALIBRATION", "EOS", "GET_SESSION_TIME",
       "GET_PARAMS", "BUF_TSTAMP", "EVENT"}
  /\ \A c \in DOMAIN BnAgmService_meta : Bn[c] = BnAgmService_meta[c]
  /\ \A c \in DOMAIN BnAgmService_control : Bn[c] = BnAgmService_control[c]
  /\ \A c \in DOMAIN BnAgmService_config : Bn[c] = BnAgmService_config[c]
  /\ \A c \in DOMAIN BnAgmService_data : Bn[c] = BnAgmService_data[c]
  /\ \A c \in DOMAIN BnAgmService_lists : Bn[c] = BnAgmService_lists[c]
  /\ \A c \in DOMAIN BnAgmService_tags : Bn[c] = BnAgmService_tags[c]
  /\ \A c \in DOMAIN BnAgmService_params : Bn[c] = BnAgmService_params[c]
  /\ \A c \in DOMAIN BnAgmService_queries : Bn[c] = BnAgmService_queries[c]
  /\ \A c \in DOMAIN BnCallback : Bn[c] = BnCallback[c]
<1>1. PICK p : p = <<BnAgmService_meta, BnAgmService_control, BnAgmService_config,
                     BnAgmService_data, BnAgmService_lists, BnAgmService_tags,
                     BnAgmService_params, BnAgmService_queries, BnCallback>>
  OBVIOUS
<1>2. DOMAIN p = 1..9 /\ p[1] = BnAgmService_meta /\ p[2] = BnAgmService_control /\ p[3] =
        BnAgmService_config /\ p[4] = BnAgmService_data /\ p[5] = BnAgmService_lists /\ p[6] =
        BnAgmService_tags /\ p[7] = BnAgmService_params /\ p[8] = BnAgmService_queries /\ p[9] =
        BnCallback
  BY <1>1
<1>3. DOMAIN p[1] = {"OPEN", "SESSION_SET_META", "SESSION_AUDIO_INTF_SET_META", "INIT",
        "GET_BUFF_CNT", "AUDIO_INTF_SET_META"}
  BY <1>2 DEF BnAgmService_meta
<1>4. DOMAIN p[2] = {"LOOPBACK", "CLOSE", "PREPARE", "START", "STOP", "PAUSE", "RESUME",
        "CONNECT"}
  BY <1>2 DEF BnAgmService_control
<1>5. DOMAIN p[3] = {"SET_MEDIA_CONFIG", "SESSION_SET_CONFIG"}
  BY <1>2 DEF BnAgmService_config
<1>6. DOMAIN p[4] = {"READ", "WRITE"}
  BY <1>2 DEF BnAgmService_data
<1>7. DOMAIN p[5] = {"GET_AIF_LIST_SIZE", "GET_AIF_LIST", "REG_EVENT", "REG_CB"}
  BY <1>2 DEF BnAgmService_lists
<1>8. DOMAIN p[6] = {"GET_TAG_MODULE_INFO_SIZE", "GET_TAG_MODULE_INFO",
        "SESSION_AIF_SET_PARAMS", "AIF_SET_PARAMS"}
  BY <1>2 DEF BnAgmService_tags
<1>9. DOMAIN p[7] = {"SESSION_SET_PARAMS", "SET_PARAMS_WITH_TAG", "SET_ECREF",
        "SET_CALIBRATION"}
  BY <1>2 DEF BnAgmService_params
<1>10. DOMAIN p[8] = {"EOS", "GET_SESSION_TIME", "GET_PARAMS", "BUF_TSTAMP"}
  BY <1>2 DEF BnAgmService_queries
<1>11. DOMAIN p[9] = {"EVENT"}
  BY <1>2 DEF BnCallback
<1>12. Bn = Join(p)
  BY <1>1 DEF Bn
<1>13. ASSUME NEW i \in 1..9, NEW c \in DOMAIN p[i]
       PROVE  \A j \in 1..9 : c \in DOMAIN p[j] => j = i
  BY <1>3, <1>4, <1>5, <1>6, <1>7, <1>8, <1>9, <1>10, <1>11
<1>14. ASSUME NEW i \in 1..9, NEW c \in DOMAIN p[i] PROVE Bn[c] = p[i][c]
  BY <1>2, <1>12, <1>13, Joined
<1>15. DOMAIN Bn = UNION {DOMAIN p[i] : i \in 1..9}
  BY <1>2, <1>12 DEF Join
<1>16. DOMAIN Bn = {"OPEN", "SESSION_SET_META", "SESSION_AUDIO_INTF_SET_META", "INIT",
        "GET_BUFF_CNT", "AUDIO_INTF_SET_META", "LOOPBACK", "CLOSE", "PREPARE", "START", "STOP",
        "PAUSE", "RESUME", "CONNECT", "SET_MEDIA_CONFIG", "SESSION_SET_CONFIG", "READ", "WRITE",
        "GET_AIF_LIST_SIZE", "GET_AIF_LIST", "REG_EVENT", "REG_CB", "GET_TAG_MODULE_INFO_SIZE",
        "GET_TAG_MODULE_INFO", "SESSION_AIF_SET_PARAMS", "AIF_SET_PARAMS", "SESSION_SET_PARAMS",
        "SET_PARAMS_WITH_TAG", "SET_ECREF", "SET_CALIBRATION", "EOS", "GET_SESSION_TIME",
        "GET_PARAMS", "BUF_TSTAMP", "EVENT"}
  BY <1>15, <1>3, <1>4, <1>5, <1>6, <1>7, <1>8, <1>9, <1>10, <1>11
<1> QED BY <1>2, <1>14, <1>16

(* A list of fields that its reader can take off a parcel: it knows the    *)
(* size of a blob beforehand or reads it before.                           *)
SizeNames == {"size", "given", "no_size", "sizeof_session", "sizeof_media", "sizeof_buffer"}

SizesFit(sz) == \A n \in SizeNames : sz[n] \in Nat

SoundField(f, sz, known) ==
  /\ f.t \in {"u32", "bool", "i64", "raw", "binder", "blob"}
  /\ f.v # Zero /\ WriteWidth(f, sz) \in Nat \ {0}
  /\ f.t = "blob" => f.n # "" /\ f.n \in known

Sound(s, n, sz, known) ==
  /\ IsList(s, n)
  /\ n > 0 => SoundField(s[1], sz, known)
  /\ \A k \in 2..n : SoundField(s[k], sz, known \cup {s[k - 1].v})

(* Every kind of field is sound; a blob, where its size is known.          *)
LEMMA SoundFields ==
  ASSUME NEW sz, SizesFit(sz), NEW known, NEW x, x # Zero
  PROVE  /\ SoundField(U32(x), sz, known) /\ SoundField(I64(x), sz, known)
         /\ SoundField(Bool(x), sz, known) /\ SoundField(Raw(x), sz, known)
         /\ SoundField(StrongBinder(x), sz, known)
         /\ \A n \in SizeNames : n \in known => SoundField(Blob(x, n), sz, known)
<1>1. SoundField(U32(x), sz, known)
  BY DEF SoundField, U32, WriteWidth, Width
<1>2. SoundField(I64(x), sz, known)
  BY DEF SoundField, I64, WriteWidth, Width
<1>3. SoundField(Bool(x), sz, known)
  BY DEF SoundField, Bool, WriteWidth, Width
<1>4. SoundField(Raw(x), sz, known)
  BY DEF SoundField, Raw, WriteWidth, Width
<1>5. SoundField(StrongBinder(x), sz, known)
  BY DEF SoundField, StrongBinder, WriteWidth, Width
<1>6. ASSUME NEW n \in SizeNames, n \in known PROVE SoundField(Blob(x, n), sz, known)
  <2>1. n # "" /\ sz[n] \in Nat
    BY DEF SizeNames, SizesFit
  <2>2. PICK z \in Nat : z = sz[n]
    BY <2>1
  <2>3. WriteWidth(Blob(x, n), sz) = 1 + z
    BY <2>1, <2>2 DEF Blob, WriteWidth, Width
  <2>4. Blob(x, n).t = "blob" /\ Blob(x, n).v = x /\ Blob(x, n).n = n
    BY DEF Blob
  <2>5. PICK f : f = Blob(x, n)
    OBVIOUS
  <2>6. f.t = "blob" /\ f.v # Zero /\ WriteWidth(f, sz) \in Nat \ {0} /\ f.n = n
    BY <2>3, <2>4, <2>5
  <2> QED BY <1>6, <2>1, <2>5, <2>6 DEF SoundField
<1> QED BY <1>1, <1>2, <1>3, <1>4, <1>5, <1>6

LEMMA FieldValues ==
  ASSUME NEW x
  PROVE  /\ U32(x).v = x /\ I64(x).v = x /\ Bool(x).v = x /\ Raw(x).v = x
         /\ StrongBinder(x).v = x /\ \A n : Blob(x, n).v = x
BY DEF U32, I64, Bool, Raw, StrongBinder, Blob

LEMMA SoundList0 == ASSUME NEW sz, NEW known PROVE Sound(<<>>, 0, sz, known)
BY DEF Sound, IsList

LEMMA SoundList1 ==
  ASSUME NEW sz, NEW known, NEW a,
         SoundField(a, sz, known)
  PROVE  Sound(<<a>>, 1, sz, known)
<1>1. PICK s : s = <<a>>
  OBVIOUS
<1>2. IsList(s, 1) /\ s[1] = a
  BY <1>1 DEF IsList
<1>3. SoundField(s[1], sz, known)
  BY <1>2
<1>4. \A k \in 2..1 : SoundField(s[k], sz, known \cup {s[k - 1].v})
  BY <1>2
<1> QED BY <1>1, <1>2, <1>3, <1>4 DEF Sound

LEMMA SoundList2 ==
  ASSUME NEW sz, NEW known, NEW a, NEW b,
         SoundField(a, sz, known), SoundField(b, sz, known \cup {a.v})
  PROVE  Sound(<<a, b>>, 2, sz, known)
<1>1. PICK s : s = <<a, b>>
  OBVIOUS
<1>2. IsList(s, 2) /\ s[1] = a /\ s[2] = b
  BY <1>1 DEF IsList
<1>3. SoundField(s[1], sz, known)
  BY <1>2
<1>4. \A k \in 2..2 : SoundField(s[k], sz, known \cup {s[k - 1].v})
  BY <1>2
<1> QED BY <1>1, <1>2, <1>3, <1>4 DEF Sound

LEMMA SoundList3 ==
  ASSUME NEW sz, NEW known, NEW a, NEW b, NEW c,
         SoundField(a, sz, known), SoundField(b, sz, known \cup {a.v}),
         SoundField(c, sz, known \cup {b.v})
  PROVE  Sound(<<a, b, c>>, 3, sz, known)
<1>1. PICK s : s = <<a, b, c>>
  OBVIOUS
<1>2. IsList(s, 3) /\ s[1] = a /\ s[2] = b /\ s[3] = c
  BY <1>1 DEF IsList
<1>3. SoundField(s[1], sz, known)
  BY <1>2
<1>4. \A k \in 2..3 : SoundField(s[k], sz, known \cup {s[k - 1].v})
  <2> SUFFICES ASSUME NEW k \in 2..3 PROVE SoundField(s[k], sz, known \cup {s[k - 1].v})
    OBVIOUS
  <2>1. CASE k = 2
    <3>1. s[k] = b /\ s[k - 1] = a
      BY <1>2, <2>1
    <3> QED BY <3>1
  <2>2. CASE k = 3
    <3>1. s[k] = c /\ s[k - 1] = b
      BY <1>2, <2>2
    <3> QED BY <3>1
  <2> QED BY <2>1, <2>2
<1> QED BY <1>1, <1>2, <1>3, <1>4 DEF Sound

LEMMA SoundList4 ==
  ASSUME NEW sz, NEW known, NEW a, NEW b, NEW c, NEW d,
         SoundField(a, sz, known), SoundField(b, sz, known \cup {a.v}),
         SoundField(c, sz, known \cup {b.v}), SoundField(d, sz, known \cup {c.v})
  PROVE  Sound(<<a, b, c, d>>, 4, sz, known)
<1>1. PICK s : s = <<a, b, c, d>>
  OBVIOUS
<1>2. IsList(s, 4) /\ s[1] = a /\ s[2] = b /\ s[3] = c /\ s[4] = d
  BY <1>1 DEF IsList
<1>3. SoundField(s[1], sz, known)
  BY <1>2
<1>4. \A k \in 2..4 : SoundField(s[k], sz, known \cup {s[k - 1].v})
  <2> SUFFICES ASSUME NEW k \in 2..4 PROVE SoundField(s[k], sz, known \cup {s[k - 1].v})
    OBVIOUS
  <2>1. CASE k = 2
    <3>1. s[k] = b /\ s[k - 1] = a
      BY <1>2, <2>1
    <3> QED BY <3>1
  <2>2. CASE k = 3
    <3>1. s[k] = c /\ s[k - 1] = b
      BY <1>2, <2>2
    <3> QED BY <3>1
  <2>3. CASE k = 4
    <3>1. s[k] = d /\ s[k - 1] = c
      BY <1>2, <2>3
    <3> QED BY <3>1
  <2> QED BY <2>1, <2>2, <2>3
<1> QED BY <1>1, <1>2, <1>3, <1>4 DEF Sound

LEMMA SoundList5 ==
  ASSUME NEW sz, NEW known, NEW a, NEW b, NEW c, NEW d, NEW e,
         SoundField(a, sz, known), SoundField(b, sz, known \cup {a.v}),
         SoundField(c, sz, known \cup {b.v}), SoundField(d, sz, known \cup {c.v}),
         SoundField(e, sz, known \cup {d.v})
  PROVE  Sound(<<a, b, c, d, e>>, 5, sz, known)
<1>1. PICK s : s = <<a, b, c, d, e>>
  OBVIOUS
<1>2. IsList(s, 5) /\ s[1] = a /\ s[2] = b /\ s[3] = c /\ s[4] = d /\ s[5] = e
  BY <1>1 DEF IsList
<1>3. SoundField(s[1], sz, known)
  BY <1>2
<1>4. \A k \in 2..5 : SoundField(s[k], sz, known \cup {s[k - 1].v})
  <2> SUFFICES ASSUME NEW k \in 2..5 PROVE SoundField(s[k], sz, known \cup {s[k - 1].v})
    OBVIOUS
  <2>1. CASE k = 2
    <3>1. s[k] = b /\ s[k - 1] = a
      BY <1>2, <2>1
    <3> QED BY <3>1
  <2>2. CASE k = 3
    <3>1. s[k] = c /\ s[k - 1] = b
      BY <1>2, <2>2
    <3> QED BY <3>1
  <2>3. CASE k = 4
    <3>1. s[k] = d /\ s[k - 1] = c
      BY <1>2, <2>3
    <3> QED BY <3>1
  <2>4. CASE k = 5
    <3>1. s[k] = e /\ s[k - 1] = d
      BY <1>2, <2>4
    <3> QED BY <3>1
  <2> QED BY <2>1, <2>2, <2>3, <2>4
<1> QED BY <1>1, <1>2, <1>3, <1>4 DEF Sound

LEMMA SoundList7 ==
  ASSUME NEW sz, NEW known, NEW a, NEW b, NEW c, NEW d, NEW e, NEW f, NEW g,
         SoundField(a, sz, known), SoundField(b, sz, known \cup {a.v}),
         SoundField(c, sz, known \cup {b.v}), SoundField(d, sz, known \cup {c.v}),
         SoundField(e, sz, known \cup {d.v}), SoundField(f, sz, known \cup {e.v}),
         SoundField(g, sz, known \cup {f.v})
  PROVE  Sound(<<a, b, c, d, e, f, g>>, 7, sz, known)
<1>1. PICK s : s = <<a, b, c, d, e, f, g>>
  OBVIOUS
<1>2. IsList(s, 7) /\ s[1] = a /\ s[2] = b /\ s[3] = c /\ s[4] = d /\ s[5] = e /\ s[6] = f /\
      s[7] = g
  BY <1>1 DEF IsList
<1>3. SoundField(s[1], sz, known)
  BY <1>2
<1>4. \A k \in 2..7 : SoundField(s[k], sz, known \cup {s[k - 1].v})
  <2> SUFFICES ASSUME NEW k \in 2..7 PROVE SoundField(s[k], sz, known \cup {s[k - 1].v})
    OBVIOUS
  <2>1. CASE k = 2
    <3>1. s[k] = b /\ s[k - 1] = a
      BY <1>2, <2>1
    <3> QED BY <3>1
  <2>2. CASE k = 3
    <3>1. s[k] = c /\ s[k - 1] = b
      BY <1>2, <2>2
    <3> QED BY <3>1
  <2>3. CASE k = 4
    <3>1. s[k] = d /\ s[k - 1] = c
      BY <1>2, <2>3
    <3> QED BY <3>1
  <2>4. CASE k = 5
    <3>1. s[k] = e /\ s[k - 1] = d
      BY <1>2, <2>4
    <3> QED BY <3>1
  <2>5. CASE k = 6
    <3>1. s[k] = f /\ s[k - 1] = e
      BY <1>2, <2>5
    <3> QED BY <3>1
  <2>6. CASE k = 7
    <3>1. s[k] = g /\ s[k - 1] = f
      BY <1>2, <2>6
    <3> QED BY <3>1
  <2> QED BY <2>1, <2>2, <2>3, <2>4, <2>5, <2>6
<1> QED BY <1>1, <1>2, <1>3, <1>4 DEF Sound

LEMMA FieldWidths ==
  ASSUME NEW f, NEW sz, NEW known, NEW all, SoundField(f, sz, known), known \subseteq all
  PROVE  ReadWidth(f, sz, all) = WriteWidth(f, sz)
<1>1. CASE f.t = "blob"
  <2>1. f.n # "" /\ f.n \in all
    BY <1>1 DEF SoundField
  <2> QED BY <2>1 DEF ReadWidth, WriteWidth
<1>2. CASE f.t # "blob"
  <2>1. f.t \in {"u32", "bool", "i64", "raw", "binder"}
    BY <1>2 DEF SoundField
  <2> QED BY <2>1 DEF ReadWidth, WriteWidth, Width
<1> QED BY <1>1, <1>2

(* A sound list is read with the widths it is written with.                *)
LEMMA SoundReads ==
  ASSUME NEW reads, NEW r \in Nat, NEW sz, NEW known, Sound(reads, r, sz, known)
  PROVE  /\ IsList(reads, r) /\ Wide(reads, r, sz)
         /\ \A k \in 1..r : /\ reads[k].v # Zero
                            /\ ReadWidth(reads[k], sz, KnownAt(reads, k - 1, known))
                                 = WriteWidth(reads[k], sz)
<1>1. IsList(reads, r)
  BY DEF Sound
<1>2. ASSUME NEW k \in 1..r
      PROVE  \E K : SoundField(reads[k], sz, K) /\ K \subseteq KnownAt(reads, k - 1, known)
  <2>1. CASE k = 1
    <3>1. SoundField(reads[k], sz, known)
      BY <2>1 DEF Sound
    <3>2. known \subseteq KnownAt(reads, k - 1, known)
      BY DEF KnownAt
    <3> QED BY <3>1, <3>2
  <2>2. CASE k # 1
    <3>1. k \in 2..r /\ k - 1 \in 1..(k - 1)
      BY <2>2
    <3>2. PICK K : K = known \cup {reads[k - 1].v}
      OBVIOUS
    <3>3. SoundField(reads[k], sz, K)
      BY <3>1, <3>2 DEF Sound
    <3>4. K \subseteq KnownAt(reads, k - 1, known)
      BY <3>1, <3>2 DEF KnownAt
    <3> QED BY <3>3, <3>4
  <2> QED BY <2>1, <2>2
<1>3. ASSUME NEW k \in 1..r
      PROVE  /\ reads[k].v # Zero /\ WriteWidth(reads[k], sz) \in Nat \ {0}
             /\ ReadWidth(reads[k], sz, KnownAt(reads, k - 1, known)) = WriteWidth(reads[k], sz)
  <2>1. PICK K : SoundField(reads[k], sz, K) /\ K \subseteq KnownAt(reads, k - 1, known)
    BY <1>2
  <2>2. reads[k].v # Zero /\ WriteWidth(reads[k], sz) \in Nat \ {0}
    BY <2>1 DEF SoundField
  <2>3. ReadWidth(reads[k], sz, KnownAt(reads, k - 1, known)) = WriteWidth(reads[k], sz)
    BY <2>1, FieldWidths
  <2> QED BY <2>2, <2>3
<1> QED BY <1>1, <1>3 DEF Wide

(* Fields that carry the same in as many words.                            *)
Mirrors(reads, writes, m, sz) ==
  \A k \in 1..m : reads[k].v = writes[k].v /\ WriteWidth(reads[k], sz) = WriteWidth(writes[k], sz)

(* A sound reader gets the fields that mirror its own.                     *)
LEMMA ReadsAlike ==
  ASSUME NEW reads, NEW writes, NEW sz, NEW known, NEW r \in Nat, NEW n \in Nat, NEW m \in Nat,
         Sound(reads, r, sz, known), IsList(writes, n), Wide(writes, n, sz), m <= r, m <= n,
         Mirrors(reads, writes, m, sz)
  PROVE  ReadBack(reads, WriteParcel(writes, sz), m, sz, known)
<1>1. /\ IsList(reads, r)
      /\ \A k \in 1..r : /\ reads[k].v # Zero
                         /\ ReadWidth(reads[k], sz, KnownAt(reads, k - 1, known))
                              = WriteWidth(reads[k], sz)
  BY SoundReads
<1>2. Fits(reads, writes, m, sz, known)
  <2> SUFFICES ASSUME NEW k \in 1..m
               PROVE  /\ reads[k].v = writes[k].v /\ reads[k].v # Zero
                      /\ ReadWidth(reads[k], sz, KnownAt(reads, k - 1, known))
                           = WriteWidth(writes[k], sz)
    BY DEF Fits
  <2>1. k \in 1..r
    OBVIOUS
  <2> QED BY <1>1, <2>1 DEF Mirrors
<1> QED BY <1>1, <1>2, RoundTrip

LEMMA ReadsSame ==
  ASSUME NEW s, NEW n \in Nat, NEW sz, NEW known, Sound(s, n, sz, known)
  PROVE  ReadBack(s, WriteParcel(s, sz), n, sz, known)
<1>1. IsList(s, n) /\ Wide(s, n, sz)
  BY SoundReads
<1>2. Mirrors(s, s, n, sz)
  BY DEF Mirrors
<1> QED BY <1>1, <1>2, ReadsAlike

(* What the stub reads is what the proxy sends, call by call.              *)
Arrives(c, sz) ==
  \E r \in Nat : /\ IsList(Bn[c].reads, r)
                 /\ ReadBack(Bn[c].reads, WriteParcel(Bp[c].sends, sz), r, sz, {})

(* Three calls have their Boolean read as a number, one leaves an argument *)
(* unread; the others are read as they were sent.                          *)
LEMMA CallsArrive ==
  ASSUME NEW sz, SizesFit(sz), NEW c \in DOMAIN Bp
  PROVE  Arrives(c, sz)
<1>1. ASSUME NEW x, NEW n \in Nat, NEW s, s = Bp[x].sends, s = Bn[x].reads, Sound(s, n, sz, {})
      PROVE  Arrives(x, sz)
  <2>1. ReadBack(s, WriteParcel(s, sz), n, sz, {}) /\ IsList(s, n)
    BY <1>1, ReadsSame, SoundReads
  <2> QED BY <1>1, <2>1 DEF Arrives
<1>2. Arrives("SET_MEDIA_CONFIG", sz)
  <2>1. PICK s : s = <<U32("audio_intf"), U32("sizeof_media"), Blob("media_config",
                      "sizeof_media")>>
    OBVIOUS
  <2>2. s = Bp["SET_MEDIA_CONFIG"].sends
    BY <2>1, BpParts DEF BpAgmService_config, Call
  <2>3. s = Bn["SET_MEDIA_CONFIG"].reads
    BY <2>1, BnParts DEF BnAgmService_config, Case
  <2>4. Sound(s, 3, sz, {})
    BY <2>1, SoundList3, SoundFields, FieldValues DEF SizeNames, Zero
  <2> QED BY <2>2, <2>3, <2>4, <1>1
<1>3. Arrives("SESSION_SET_CONFIG", sz)
  <2>1. PICK s : s = <<I64("handle"), U32("sizeof_session"), Blob("session_config",
                      "sizeof_session"), U32("sizeof_media"), Blob("media_config",
                      "sizeof_media"), U32("sizeof_buffer"), Blob("buffer_config",
                      "sizeof_buffer")>>
    OBVIOUS
  <2>2. s = Bp["SESSION_SET_CONFIG"].sends
    BY <2>1, BpParts DEF BpAgmService_config, Call
  <2>3. s = Bn["SESSION_SET_CONFIG"].reads
    BY <2>1, BnParts DEF BnAgmService_config, Case
  <2>4. Sound(s, 7, sz, {})
    BY <2>1, SoundList7, SoundFields, FieldValues DEF SizeNames, Zero
  <2> QED BY <2>2, <2>3, <2>4, <1>1
<1>4. Arrives("INIT", sz)
  <2>1. PICK s : s = <<>>
    OBVIOUS
  <2>2. s = Bp["INIT"].sends
    BY <2>1, BpParts DEF BpAgmService_config, Call
  <2>3. s = Bn["INIT"].reads
    BY <2>1, BnParts DEF BnAgmService_meta, Case
  <2>4. Sound(s, 0, sz, {})
    BY <2>1, SoundList0
  <2> QED BY <2>2, <2>3, <2>4, <1>1
<1>5. Arrives("AUDIO_INTF_SET_META", sz)
  <2>1. PICK s : s = <<U32("audio_intf"), U32("size"), Blob("metadata", "size")>>
    OBVIOUS
  <2>2. s = Bp["AUDIO_INTF_SET_META"].sends
    BY <2>1, BpParts DEF BpAgmService_config, Call
  <2>3. s = Bn["AUDIO_INTF_SET_META"].reads
    BY <2>1, BnParts DEF BnAgmService_meta, Case
  <2>4. Sound(s, 3, sz, {})
    BY <2>1, SoundList3, SoundFields, FieldValues DEF SizeNames, Zero
  <2> QED BY <2>2, <2>3, <2>4, <1>1
<1>6. Arrives("SESSION_SET_META", sz)
  <2>1. PICK s : s = <<U32("session_id"), U32("size"), Blob("metadata", "size")>>
    OBVIOUS
  <2>2. s = Bp["SESSION_SET_META"].sends
    BY <2>1, BpParts DEF BpAgmService_config, Call
  <2>3. s = Bn["SESSION_SET_META"].reads
    BY <2>1, BnParts DEF BnAgmService_meta, Case
  <2>4. Sound(s, 3, sz, {})
    BY <2>1, SoundList3, SoundFields, FieldValues DEF SizeNames, Zero
  <2> QED BY <2>2, <2>3, <2>4, <1>1
<1>7. Arrives("SESSION_AUDIO_INTF_SET_META", sz)
  <2>1. PICK s : s = <<U32("session_id"), U32("audio_intf"), U32("size"), Blob("metadata",
                      "size")>>
    OBVIOUS
  <2>2. s = Bp["SESSION_AUDIO_INTF_SET_META"].sends
    BY <2>1, BpParts DEF BpAgmService_config, Call
  <2>3. s = Bn["SESSION_AUDIO_INTF_SET_META"].reads
    BY <2>1, BnParts DEF BnAgmService_meta, Case
  <2>4. Sound(s, 4, sz, {})
    BY <2>1, SoundList4, SoundFields, FieldValues DEF SizeNames, Zero
  <2> QED BY <2>2, <2>3, <2>4, <1>1
<1>8. Arrives("OPEN", sz)
  <2>1. PICK s : s = <<U32("session_id")>>
    OBVIOUS
  <2>2. s = Bp["OPEN"].sends
    BY <2>1, BpParts DEF BpAgmService_control, Call
  <2>3. s = Bn["OPEN"].reads
    BY <2>1, BnParts DEF BnAgmService_meta, Case
  <2>4. Sound(s, 1, sz, {})
    BY <2>1, SoundList1, SoundFields, FieldValues DEF SizeNames, Zero
  <2> QED BY <2>2, <2>3, <2>4, <1>1
<1>9. Arrives("CLOSE", sz)
  <2>1. PICK s : s = <<I64("handle")>>
    OBVIOUS
  <2>2. s = Bp["CLOSE"].sends
    BY <2>1, BpParts DEF BpAgmService_control, Call, OnHandle
  <2>3. s = Bn["CLOSE"].reads
    BY <2>1, BnParts DEF BnAgmService_control, Case, HandleCase
  <2>4. Sound(s, 1, sz, {})
    BY <2>1, SoundList1, SoundFields, FieldValues DEF SizeNames, Zero
  <2> QED BY <2>2, <2>3, <2>4, <1>1
<1>10. Arrives("PREPARE", sz)
  <2>1. PICK s : s = <<I64("handle")>>
    OBVIOUS
  <2>2. s = Bp["PREPARE"].sends
    BY <2>1, BpParts DEF BpAgmService_control, Call, OnHandle
  <2>3. s = Bn["PREPARE"].reads
    BY <2>1, BnParts DEF BnAgmService_control, Case, HandleCase
  <2>4. Sound(s, 1, sz, {})
    BY <2>1, SoundList1, SoundFields, FieldValues DEF SizeNames, Zero
  <2> QED BY <2>2, <2>3, <2>4, <1>1
<1>11. Arrives("START", sz)
  <2>1. PICK s : s = <<I64("handle")>>
    OBVIOUS
  <2>2. s = Bp["START"].sends
    BY <2>1, BpParts DEF BpAgmService_control, Call, OnHandle
  <2>3. s = Bn["START"].reads
    BY <2>1, BnParts DEF BnAgmService_control, Case, HandleCase
  <2>4. Sound(s, 1, sz, {})
    BY <2>1, SoundList1, SoundFields, FieldValues DEF SizeNames, Zero
  <2> QED BY <2>2, <2>3, <2>4, <1>1
<1>12. Arrives("STOP", sz)
  <2>1. PICK s : s = <<I64("handle")>>
    OBVIOUS
  <2>2. s = Bp["STOP"].sends
    BY <2>1, BpParts DEF BpAgmService_control, Call, OnHandle
  <2>3. s = Bn["STOP"].reads
    BY <2>1, BnParts DEF BnAgmService_control, Case, HandleCase
  <2>4. Sound(s, 1, sz, {})
    BY <2>1, SoundList1, SoundFields, FieldValues DEF SizeNames, Zero
  <2> QED BY <2>2, <2>3, <2>4, <1>1
<1>13. Arrives("PAUSE", sz)
  <2>1. PICK s : s = <<I64("handle")>>
    OBVIOUS
  <2>2. s = Bp["PAUSE"].sends
    BY <2>1, BpParts DEF BpAgmService_control, Call, OnHandle
  <2>3. s = Bn["PAUSE"].reads
    BY <2>1, BnParts DEF BnAgmService_control, Case, HandleCase
  <2>4. Sound(s, 1, sz, {})
    BY <2>1, SoundList1, SoundFields, FieldValues DEF SizeNames, Zero
  <2> QED BY <2>2, <2>3, <2>4, <1>1
<1>14. Arrives("RESUME", sz)
  <2>1. PICK s : s = <<I64("handle")>>
    OBVIOUS
  <2>2. s = Bp["RESUME"].sends
    BY <2>1, BpParts DEF BpAgmService_control, Call, OnHandle
  <2>3. s = Bn["RESUME"].reads
    BY <2>1, BnParts DEF BnAgmService_control, Case, HandleCase
  <2>4. Sound(s, 1, sz, {})
    BY <2>1, SoundList1, SoundFields, FieldValues DEF SizeNames, Zero
  <2> QED BY <2>2, <2>3, <2>4, <1>1
<1>15. Arrives("GET_BUFF_CNT", sz)
  <2>1. PICK s : s = <<I64("handle"), U32("dir")>>
    OBVIOUS
  <2>2. s = Bp["GET_BUFF_CNT"].sends
    BY <2>1, BpParts DEF BpAgmService_control, Call
  <2>3. s = Bn["GET_BUFF_CNT"].reads
    BY <2>1, BnParts DEF BnAgmService_meta, Case
  <2>4. Sound(s, 2, sz, {})
    BY <2>1, SoundList2, SoundFields, FieldValues DEF SizeNames, Zero
  <2> QED BY <2>2, <2>3, <2>4, <1>1
<1>16. Arrives("READ", sz)
  <2>1. PICK s : s = <<I64("handle"), U32("size")>>
    OBVIOUS
  <2>2. s = Bp["READ"].sends
    BY <2>1, BpParts DEF BpAgmService_data, Call
  <2>3. s = Bn["READ"].reads
    BY <2>1, BnParts DEF BnAgmService_data, Case
  <2>4. Sound(s, 2, sz, {})
    BY <2>1, SoundList2, SoundFields, FieldValues DEF SizeNames, Zero
  <2> QED BY <2>2, <2>3, <2>4, <1>1
<1>17. Arrives("WRITE", sz)
  <2>1. PICK s : s = <<I64("handle"), U32("size"), Blob("buff", "size")>>
    OBVIOUS
  <2>2. s = Bp["WRITE"].sends
    BY <2>1, BpParts DEF BpAgmService_data, Call
  <2>3. s = Bn["WRITE"].reads
    BY <2>1, BnParts DEF BnAgmService_data, Case, Allocates
  <2>4. Sound(s, 3, sz, {})
    BY <2>1, SoundList3, SoundFields, FieldValues DEF SizeNames, Zero
  <2> QED BY <2>2, <2>3, <2>4, <1>1
<1>18. Arrives("GET_AIF_LIST_SIZE", sz)
  <2>1. PICK s : s = <<U32("no_size"), I64("aif_list")>>
    OBVIOUS
  <2>2. s = Bp["GET_AIF_LIST_SIZE"].sends
    BY <2>1, BpParts DEF BpAgmService_data, Call
  <2>3. s = Bn["GET_AIF_LIST_SIZE"].reads
    BY <2>1, BnParts DEF BnAgmService_lists, Case
  <2>4. Sound(s, 2, sz, {})
    BY <2>1, SoundList2, SoundFields, FieldValues DEF SizeNames, Zero
  <2> QED BY <2>2, <2>3, <2>4, <1>1
<1>19. Arrives("REG_EVENT", sz)
  <2>1. PICK s : s = <<U32("session_id"), U32("module_instance_id"), U32("event_id"),
                      U32("payload_size"), U32("is_register"), U32("size"),
                      Blob("event_config_payload", "size")>>
    OBVIOUS
  <2>2. s = Bp["REG_EVENT"].sends
    BY <2>1, BpParts DEF BpAgmService_events, Call
  <2>3. s = Bn["REG_EVENT"].reads
    BY <2>1, BnParts DEF BnAgmService_lists, Case, Allocates
  <2>4. Sound(s, 7, sz, {})
    BY <2>1, SoundList7, SoundFields, FieldValues DEF SizeNames, Zero
  <2> QED BY <2>2, <2>3, <2>4, <1>1
<1>20. Arrives("REG_CB", sz)
  <2>1. PICK s : s = <<U32("session_id"), Raw("cb"), U32("event"), I64("client_data"),
                      StrongBinder("clbk")>>
    OBVIOUS
  <2>2. s = Bp["REG_CB"].sends
    BY <2>1, BpParts DEF BpAgmService_events, Call
  <2>3. s = Bn["REG_CB"].reads
    BY <2>1, BnParts DEF BnAgmService_lists, Case, Allocates
  <2>4. Sound(s, 5, sz, {})
    BY <2>1, SoundList5, SoundFields, FieldValues DEF SizeNames, Zero
  <2> QED BY <2>2, <2>3, <2>4, <1>1
<1>21. Arrives("GET_TAG_MODULE_INFO_SIZE", sz)
  <2>1. PICK s : s = <<I64("payload"), U32("size"), U32("session_id"), U32("aif_id")>>
    OBVIOUS
  <2>2. s = Bp["GET_TAG_MODULE_INFO_SIZE"].sends
    BY <2>1, BpParts DEF BpAgmService_events, Call
  <2>3. s = Bn["GET_TAG_MODULE_INFO_SIZE"].reads
    BY <2>1, BnParts DEF BnAgmService_tags, Case
  <2>4. Sound(s, 4, sz, {})
    BY <2>1, SoundList4, SoundFields, FieldValues DEF SizeNames, Zero
  <2> QED BY <2>2, <2>3, <2>4, <1>1
<1>22. Arrives("GET_TAG_MODULE_INFO", sz)
  <2>1. PICK s : s = <<I64("payload"), U32("size"), U32("session_id"), U32("aif_id")>>
    OBVIOUS
  <2>2. s = Bp["GET_TAG_MODULE_INFO"].sends
    BY <2>1, BpParts DEF BpAgmService_events, Call
  <2>3. s = Bn["GET_TAG_MODULE_INFO"].reads
    BY <2>1, BnParts DEF BnAgmService_tags, Case, Allocates
  <2>4. Sound(s, 4, sz, {})
    BY <2>1, SoundList4, SoundFields, FieldValues DEF SizeNames, Zero
  <2> QED BY <2>2, <2>3, <2>4, <1>1
<1>23. Arrives("SESSION_AIF_SET_PARAMS", sz)
  <2>1. PICK s : s = <<U32("session_id"), U32("aif_id"), U32("size"), Blob("payload", "size")>>
    OBVIOUS
  <2>2. s = Bp["SESSION_AIF_SET_PARAMS"].sends
    BY <2>1, BpParts DEF BpAgmService_params, Call
  <2>3. s = Bn["SESSION_AIF_SET_PARAMS"].reads
    BY <2>1, BnParts DEF BnAgmService_tags, Case, Allocates
  <2>4. Sound(s, 4, sz, {})
    BY <2>1, SoundList4, SoundFields, FieldValues DEF SizeNames, Zero
  <2> QED BY <2>2, <2>3, <2>4, <1>1
<1>24. Arrives("AIF_SET_PARAMS", sz)
  <2>1. PICK s : s = <<U32("aif_id"), U32("size"), Blob("payload", "size")>>
    OBVIOUS
  <2>2. s = Bp["AIF_SET_PARAMS"].sends
    BY <2>1, BpParts DEF BpAgmService_params, Call
  <2>3. s = Bn["AIF_SET_PARAMS"].reads
    BY <2>1, BnParts DEF BnAgmService_tags, Case, Allocates
  <2>4. Sound(s, 3, sz, {})
    BY <2>1, SoundList3, SoundFields, FieldValues DEF SizeNames, Zero
  <2> QED BY <2>2, <2>3, <2>4, <1>1
<1>25. Arrives("SESSION_SET_PARAMS", sz)
  <2>1. PICK s : s = <<U32("session_id"), U32("size"), Blob("payload", "size")>>
    OBVIOUS
  <2>2. s = Bp["SESSION_SET_PARAMS"].sends
    BY <2>1, BpParts DEF BpAgmService_params, Call
  <2>3. s = Bn["SESSION_SET_PARAMS"].reads
    BY <2>1, BnParts DEF BnAgmService_params, Case
  <2>4. Sound(s, 3, sz, {})
    BY <2>1, SoundList3, SoundFields, FieldValues DEF SizeNames, Zero
  <2> QED BY <2>2, <2>3, <2>4, <1>1
<1>26. Arrives("SET_PARAMS_WITH_TAG", sz)
  <2>1. PICK s : s = <<U32("session_id"), U32("aif_id"), U32("tag"), U32("size"), Blob("tkv",
                      "size")>>
    OBVIOUS
  <2>2. s = Bp["SET_PARAMS_WITH_TAG"].sends
    BY <2>1, BpParts DEF BpAgmService_params, Call
  <2>3. s = Bn["SET_PARAMS_WITH_TAG"].reads
    BY <2>1, BnParts DEF BnAgmService_params, Case
  <2>4. Sound(s, 5, sz, {})
    BY <2>1, SoundList5, SoundFields, FieldValues DEF SizeNames, Zero
  <2> QED BY <2>2, <2>3, <2>4, <1>1
<1>27. Arrives("EOS", sz)
  <2>1. PICK s : s = <<I64("handle")>>
    OBVIOUS
  <2>2. s = Bp["EOS"].sends
    BY <2>1, BpParts DEF BpAgmService_queries, Call, OnHandle
  <2>3. s = Bn["EOS"].reads
    BY <2>1, BnParts DEF BnAgmService_queries, Case, HandleCase
  <2>4. Sound(s, 1, sz, {})
    BY <2>1, SoundList1, SoundFields, FieldValues DEF SizeNames, Zero
  <2> QED BY <2>2, <2>3, <2>4, <1>1
<1>28. Arrives("GET_SESSION_TIME", sz)
  <2>1. PICK s : s = <<I64("handle"), I64("timestamp")>>
    OBVIOUS
  <2>2. s = Bp["GET_SESSION_TIME"].sends
    BY <2>1, BpParts DEF BpAgmService_queries, Call
  <2>3. s = Bn["GET_SESSION_TIME"].reads
    BY <2>1, BnParts DEF BnAgmService_queries, Case
  <2>4. Sound(s, 2, sz, {})
    BY <2>1, SoundList2, SoundFields, FieldValues DEF SizeNames, Zero
  <2> QED BY <2>2, <2>3, <2>4, <1>1
<1>29. Arrives("SET_CALIBRATION", sz)
  <2>1. PICK s : s = <<U32("session_id"), U32("audio_intf"), U32("size"), Blob("ckv", "size")>>
    OBVIOUS
  <2>2. s = Bp["SET_CALIBRATION"].sends
    BY <2>1, BpParts DEF BpAgmService_queries, Call
  <2>3. s = Bn["SET_CALIBRATION"].reads
    BY <2>1, BnParts DEF BnAgmService_params, Case
  <2>4. Sound(s, 4, sz, {})
    BY <2>1, SoundList4, SoundFields, FieldValues DEF SizeNames, Zero
  <2> QED BY <2>2, <2>3, <2>4, <1>1
<1>30. Arrives("GET_PARAMS", sz)
  <2>1. PICK s : s = <<U32("session_id"), U32("size"), Blob("payload", "size")>>
    OBVIOUS
  <2>2. s = Bp["GET_PARAMS"].sends
    BY <2>1, BpParts DEF BpAgmService_queries, Call
  <2>3. s = Bn["GET_PARAMS"].reads
    BY <2>1, BnParts DEF BnAgmService_queries, Case, Allocates
  <2>4. Sound(s, 3, sz, {})
    BY <2>1, SoundList3, SoundFields, FieldValues DEF SizeNames, Zero
  <2> QED BY <2>2, <2>3, <2>4, <1>1
<1>31. Arrives("BUF_TSTAMP", sz)
  <2>1. PICK s : s = <<U32("session_id")>>
    OBVIOUS
  <2>2. s = Bp["BUF_TSTAMP"].sends
    BY <2>1, BpParts DEF BpAgmService_queries, Call
  <2>3. s = Bn["BUF_TSTAMP"].reads
    BY <2>1, BnParts DEF BnAgmService_queries, Case
  <2>4. Sound(s, 1, sz, {})
    BY <2>1, SoundList1, SoundFields, FieldValues DEF SizeNames, Zero
  <2> QED BY <2>2, <2>3, <2>4, <1>1
<1>32. Arrives("EVENT", sz)
  <2>1. PICK s : s = <<U32("session_id"), U32("source_module_id"), U32("event_id"), U32("size"),
                      Blob("event_payload", "size"), I64("client_data"), Raw("cb_func")>>
    OBVIOUS
  <2>2. s = Bp["EVENT"].sends
    BY <2>1, BpParts DEF BpCallback, Call
  <2>3. s = Bn["EVENT"].reads
    BY <2>1, BnParts DEF BnCallback, Case
  <2>4. Sound(s, 7, sz, {})
    BY <2>1, SoundList7, SoundFields, FieldValues DEF SizeNames, Zero
  <2> QED BY <2>2, <2>3, <2>4, <1>1
<1>33. ASSUME NEW x, NEW y, NEW z, x # Zero, y # Zero, z # Zero, NEW k,
             Bp[k].sends = <<U32(x), U32(y), Bool(z)>>, Bn[k].reads = <<U32(x), U32(y), U32(z)>>
      PROVE  Arrives(k, sz)
  <2>1. PICK a, b : a = <<U32(x), U32(y), U32(z)>> /\ b = <<U32(x), U32(y), Bool(z)>>
    OBVIOUS
  <2>2. Sound(a, 3, sz, {}) /\ Sound(b, 3, sz, {})
    BY <1>33, <2>1, SoundList3, SoundFields
  <2>3. IsList(b, 3) /\ Wide(b, 3, sz) /\ IsList(a, 3)
    BY <2>2, SoundReads
  <2>4. WriteWidth(U32(z), sz) = WriteWidth(Bool(z), sz)
    BY DEF U32, Bool, WriteWidth, Width
  <2>5. a[1] = b[1] /\ a[2] = b[2] /\ a[3] = U32(z) /\ b[3] = Bool(z)
    BY <2>1
  <2>6. a[3].v = b[3].v /\ WriteWidth(a[3], sz) = WriteWidth(b[3], sz)
    BY <2>4, <2>5, FieldValues
  <2>7. Mirrors(a, b, 3, sz)
    BY <2>5, <2>6 DEF Mirrors
  <2>8. ReadBack(a, WriteParcel(b, sz), 3, sz, {})
    BY <2>2, <2>3, <2>7, ReadsAlike
  <2> QED BY <1>33, <2>1, <2>3, <2>8 DEF Arrives
<1>34. Arrives("LOOPBACK", sz)
  <2>1. Bp["LOOPBACK"].sends = <<U32("capture_session_id"), U32("playback_session_id"), Bool("state")>>
    BY BpParts DEF BpAgmService_config, Call
  <2>2. Bn["LOOPBACK"].reads = <<U32("capture_session_id"), U32("playback_session_id"), U32("state")>>
    BY BnParts DEF BnAgmService_control, Case
  <2>3. "capture_session_id" # Zero /\ "playback_session_id" # Zero /\ "state" # Zero
    BY DEF Zero
  <2> QED BY <2>1, <2>2, <2>3, <1>33
<1>35. Arrives("CONNECT", sz)
  <2>1. Bp["CONNECT"].sends = <<U32("session_id"), U32("audio_intf"), Bool("state")>>
    BY BpParts DEF BpAgmService_control, Call
  <2>2. Bn["CONNECT"].reads = <<U32("session_id"), U32("audio_intf"), U32("state")>>
    BY BnParts DEF BnAgmService_control, Case
  <2>3. "session_id" # Zero /\ "audio_intf" # Zero /\ "state" # Zero
    BY DEF Zero
  <2> QED BY <2>1, <2>2, <2>3, <1>33
<1>36. Arrives("SET_ECREF", sz)
  <2>1. Bp["SET_ECREF"].sends = <<U32("session_id"), U32("aif_id"), Bool("state")>>
    BY BpParts DEF BpAgmService_queries, Call
  <2>2. Bn["SET_ECREF"].reads = <<U32("session_id"), U32("aif_id"), U32("state")>>
    BY BnParts DEF BnAgmService_params, Case
  <2>3. "session_id" # Zero /\ "aif_id" # Zero /\ "state" # Zero
    BY DEF Zero
  <2> QED BY <2>1, <2>2, <2>3, <1>33
<1>37. Arrives("GET_AIF_LIST", sz)
  <2>1. PICK a, b : a = <<U32("size")>> /\ b = <<U32("size"), I64("aif_list")>>
    OBVIOUS
  <2>2. b = Bp["GET_AIF_LIST"].sends
    BY <2>1, BpParts DEF BpAgmService_data, Call
  <2>3. a = Bn["GET_AIF_LIST"].reads
    BY <2>1, BnParts DEF BnAgmService_lists, Case, Allocates
  <2>4. Sound(a, 1, sz, {}) /\ Sound(b, 2, sz, {})
    BY <2>1, SoundList1, SoundList2, SoundFields DEF Zero
  <2>5. IsList(a, 1) /\ IsList(b, 2) /\ Wide(b, 2, sz)
    BY <2>4, SoundReads
  <2>6. a[1] = b[1]
    BY <2>1
  <2>7. Mirrors(a, b, 1, sz)
    BY <2>6 DEF Mirrors
  <2>8. ReadBack(a, WriteParcel(b, sz), 1, sz, {})
    BY <2>4, <2>5, <2>7, ReadsAlike
  <2> QED BY <2>2, <2>3, <2>5, <2>8 DEF Arrives
<1> QED BY <1>2, <1>3, <1>4, <1>5, <1>6, <1>7, <1>8, <1>9, <1>10, <1>11, <1>12, <1>13, <1>14,
     <1>15, <1>16, <1>17, <1>18, <1>19, <1>20, <1>21, <1>22, <1>23, <1>24, <1>25, <1>26, <1>27,
     <1>28, <1>29, <1>30, <1>31, <1>32, <1>33, <1>34, <1>35, <1>36, <1>37, BpParts

-----------------------------------------------------------------------------
(* The calls that give back their result alone.                            *)
Plain == {"SET_MEDIA_CONFIG", "SESSION_SET_CONFIG", "INIT", "LOOPBACK", "AUDIO_INTF_SET_META",
          "SESSION_SET_META", "SESSION_AUDIO_INTF_SET_META", "CLOSE", "PREPARE", "START",
          "STOP", "PAUSE", "RESUME", "CONNECT", "GET_BUFF_CNT", "REG_EVENT", "REG_CB",
          "SESSION_AIF_SET_PARAMS", "AIF_SET_PARAMS", "SESSION_SET_PARAMS",
          "SET_PARAMS_WITH_TAG", "EOS", "SET_ECREF", "SET_CALIBRATION"}

LEMMA PlainReplies ==
  ASSUME NEW c \in Plain
  PROVE  Bp[c].takes = <<Rc>> /\ Bn[c].done = <<Rc>> /\ Bn[c].failed = <<Rc>>
<1>1. CASE c = "SET_MEDIA_CONFIG"
  <2>1. Bp["SET_MEDIA_CONFIG"].takes = <<Rc>>
    BY BpParts DEF BpAgmService_config, Call
  <2>2. Bn["SET_MEDIA_CONFIG"].done = <<Rc>> /\ Bn["SET_MEDIA_CONFIG"].failed = <<Rc>>
    BY BnParts DEF BnAgmService_config, Case
  <2> QED BY <1>1, <2>1, <2>2
<1>2. CASE c = "SESSION_SET_CONFIG"
  <2>1. Bp["SESSION_SET_CONFIG"].takes = <<Rc>>
    BY BpParts DEF BpAgmService_config, Call
  <2>2. Bn["SESSION_SET_CONFIG"].done = <<Rc>> /\ Bn["SESSION_SET_CONFIG"].failed = <<Rc>>
    BY BnParts DEF BnAgmService_config, Case
  <2> QED BY <1>2, <2>1, <2>2
<1>3. CASE c = "INIT"
  <2>1. Bp["INIT"].takes = <<Rc>>
    BY BpParts DEF BpAgmService_config, Call
  <2>2. Bn["INIT"].done = <<Rc>> /\ Bn["INIT"].failed = <<Rc>>
    BY BnParts DEF BnAgmService_meta, Case
  <2> QED BY <1>3, <2>1, <2>2
<1>4. CASE c = "LOOPBACK"
  <2>1. Bp["LOOPBACK"].takes = <<Rc>>
    BY BpParts DEF BpAgmService_config, Call
  <2>2. Bn["LOOPBACK"].done = <<Rc>> /\ Bn["LOOPBACK"].failed = <<Rc>>
    BY BnParts DEF BnAgmService_control, Case
  <2> QED BY <1>4, <2>1, <2>2
<1>5. CASE c = "AUDIO_INTF_SET_META"
  <2>1. Bp["AUDIO_INTF_SET_META"].takes = <<Rc>>
    BY BpParts DEF BpAgmService_config, Call
  <2>2. Bn["AUDIO_INTF_SET_META"].done = <<Rc>> /\ Bn["AUDIO_INTF_SET_META"].failed = <<Rc>>
    BY BnParts DEF BnAgmService_meta, Case
  <2> QED BY <1>5, <2>1, <2>2
<1>6. CASE c = "SESSION_SET_META"
  <2>1. Bp["SESSION_SET_META"].takes = <<Rc>>
    BY BpParts DEF BpAgmService_config, Call
  <2>2. Bn["SESSION_SET_META"].done = <<Rc>> /\ Bn["SESSION_SET_META"].failed = <<Rc>>
    BY BnParts DEF BnAgmService_meta, Case
  <2> QED BY <1>6, <2>1, <2>2
<1>7. CASE c = "SESSION_AUDIO_INTF_SET_META"
  <2>1. Bp["SESSION_AUDIO_INTF_SET_META"].takes = <<Rc>>
    BY BpParts DEF BpAgmService_config, Call
  <2>2. Bn["SESSION_AUDIO_INTF_SET_META"].done = <<Rc>> /\ Bn["SESSION_AUDIO_INTF_SET_META"].failed = <<Rc>>
    BY BnParts DEF BnAgmService_meta, Case
  <2> QED BY <1>7, <2>1, <2>2
<1>8. CASE c = "CLOSE"
  <2>1. Bp["CLOSE"].takes = <<Rc>>
    BY BpParts DEF BpAgmService_control, Call, OnHandle
  <2>2. Bn["CLOSE"].done = <<Rc>> /\ Bn["CLOSE"].failed = <<Rc>>
    BY BnParts DEF BnAgmService_control, Case, HandleCase
  <2> QED BY <1>8, <2>1, <2>2
<1>9. CASE c = "PREPARE"
  <2>1. Bp["PREPARE"].takes = <<Rc>>
    BY BpParts DEF BpAgmService_control, Call, OnHandle
  <2>2. Bn["PREPARE"].done = <<Rc>> /\ Bn["PREPARE"].failed = <<Rc>>
    BY BnParts DEF BnAgmService_control, Case, HandleCase
  <2> QED BY <1>9, <2>1, <2>2
<1>10. CASE c = "START"
  <2>1. Bp["START"].takes = <<Rc>>
    BY BpParts DEF BpAgmService_control, Call, OnHandle
  <2>2. Bn["START"].done = <<Rc>> /\ Bn["START"].failed = <<Rc>>
    BY BnParts DEF BnAgmService_control, Case, HandleCase
  <2> QED BY <1>10, <2>1, <2>2
<1>11. CASE c = "STOP"
  <2>1. Bp["STOP"].takes = <<Rc>>
    BY BpParts DEF BpAgmService_control, Call, OnHandle
  <2>2. Bn["STOP"].done = <<Rc>> /\ Bn["STOP"].failed = <<Rc>>
    BY BnParts DEF BnAgmService_control, Case, HandleCase
  <2> QED BY <1>11, <2>1, <2>2
<1>12. CASE c = "PAUSE"
  <2>1. Bp["PAUSE"].takes = <<Rc>>
    BY BpParts DEF BpAgmService_control, Call, OnHandle
  <2>2. Bn["PAUSE"].done = <<Rc>> /\ Bn["PAUSE"].failed = <<Rc>>
    BY BnParts DEF BnAgmService_control, Case, HandleCase
  <2> QED BY <1>12, <2>1, <2>2
<1>13. CASE c = "RESUME"
  <2>1. Bp["RESUME"].takes = <<Rc>>
    BY BpParts DEF BpAgmService_control, Call, OnHandle
  <2>2. Bn["RESUME"].done = <<Rc>> /\ Bn["RESUME"].failed = <<Rc>>
    BY BnParts DEF BnAgmService_control, Case, HandleCase
  <2> QED BY <1>13, <2>1, <2>2
<1>14. CASE c = "CONNECT"
  <2>1. Bp["CONNECT"].takes = <<Rc>>
    BY BpParts DEF BpAgmService_control, Call
  <2>2. Bn["CONNECT"].done = <<Rc>> /\ Bn["CONNECT"].failed = <<Rc>>
    BY BnParts DEF BnAgmService_control, Case
  <2> QED BY <1>14, <2>1, <2>2
<1>15. CASE c = "GET_BUFF_CNT"
  <2>1. Bp["GET_BUFF_CNT"].takes = <<Rc>>
    BY BpParts DEF BpAgmService_control, Call
  <2>2. Bn["GET_BUFF_CNT"].done = <<Rc>> /\ Bn["GET_BUFF_CNT"].failed = <<Rc>>
    BY BnParts DEF BnAgmService_meta, Case
  <2> QED BY <1>15, <2>1, <2>2
<1>16. CASE c = "REG_EVENT"
  <2>1. Bp["REG_EVENT"].takes = <<Rc>>
    BY BpParts DEF BpAgmService_events, Call
  <2>2. Bn["REG_EVENT"].done = <<Rc>> /\ Bn["REG_EVENT"].failed = <<Rc>>
    BY BnParts DEF BnAgmService_lists, Case, Allocates
  <2> QED BY <1>16, <2>1, <2>2
<1>17. CASE c = "REG_CB"
  <2>1. Bp["REG_CB"].takes = <<Rc>>
    BY BpParts DEF BpAgmService_events, Call
  <2>2. Bn["REG_CB"].done = <<Rc>> /\ Bn["REG_CB"].failed = <<Rc>>
    BY BnParts DEF BnAgmService_lists, Case, Allocates
  <2> QED BY <1>17, <2>1, <2>2
<1>18. CASE c = "SESSION_AIF_SET_PARAMS"
  <2>1. Bp["SESSION_AIF_SET_PARAMS"].takes = <<Rc>>
    BY BpParts DEF BpAgmService_params, Call
  <2>2. Bn["SESSION_AIF_SET_PARAMS"].done = <<Rc>> /\ Bn["SESSION_AIF_SET_PARAMS"].failed = <<Rc>>
    BY BnParts DEF BnAgmService_tags, Case, Allocates
  <2> QED BY <1>18, <2>1, <2>2
<1>19. CASE c = "AIF_SET_PARAMS"
  <2>1. Bp["AIF_SET_PARAMS"].takes = <<Rc>>
    BY BpParts DEF BpAgmService_params, Call
  <2>2. Bn["AIF_SET_PARAMS"].done = <<Rc>> /\ Bn["AIF_SET_PARAMS"].failed = <<Rc>>
    BY BnParts DEF BnAgmService_tags, Case, Allocates
  <2> QED BY <1>19, <2>1, <2>2
<1>20. CASE c = "SESSION_SET_PARAMS"
  <2>1. Bp["SESSION_SET_PARAMS"].takes = <<Rc>>
    BY BpParts DEF BpAgmService_params, Call
  <2>2. Bn["SESSION_SET_PARAMS"].done = <<Rc>> /\ Bn["SESSION_SET_PARAMS"].failed = <<Rc>>
    BY BnParts DEF BnAgmService_params, Case
  <2> QED BY <1>20, <2>1, <2>2
<1>21. CASE c = "SET_PARAMS_WITH_TAG"
  <2>1. Bp["SET_PARAMS_WITH_TAG"].takes = <<Rc>>
    BY BpParts DEF BpAgmService_params, Call
  <2>2. Bn["SET_PARAMS_WITH_TAG"].done = <<Rc>> /\ Bn["SET_PARAMS_WITH_TAG"].failed = <<Rc>>
    BY BnParts DEF BnAgmService_params, Case
  <2> QED BY <1>21, <2>1, <2>2
<1>22. CASE c = "EOS"
  <2>1. Bp["EOS"].takes = <<Rc>>
    BY BpParts DEF BpAgmService_queries, Call, OnHandle
  <2>2. Bn["EOS"].done = <<Rc>> /\ Bn["EOS"].failed = <<Rc>>
    BY BnParts DEF BnAgmService_queries, Case, HandleCase
  <2> QED BY <1>22, <2>1, <2>2
<1>23. CASE c = "SET_ECREF"
  <2>1. Bp["SET_ECREF"].takes = <<Rc>>
    BY BpParts DEF BpAgmService_queries, Call
  <2>2. Bn["SET_ECREF"].done = <<Rc>> /\ Bn["SET_ECREF"].failed = <<Rc>>
    BY BnParts DEF BnAgmService_params, Case
  <2> QED BY <1>23, <2>1, <2>2
<1>24. CASE c = "SET_CALIBRATION"
  <2>1. Bp["SET_CALIBRATION"].takes = <<Rc>>
    BY BpParts DEF BpAgmService_queries, Call
  <2>2. Bn["SET_CALIBRATION"].done = <<Rc>> /\ Bn["SET_CALIBRATION"].failed = <<Rc>>
    BY BnParts DEF BnAgmService_params, Case
  <2> QED BY <1>24, <2>1, <2>2
<1> QED BY <1>1, <1>2, <1>3, <1>4, <1>5, <1>6, <1>7, <1>8, <1>9, <1>10, <1>11, <1>12, <1>13,
     <1>14, <1>15, <1>16, <1>17, <1>18, <1>19, <1>20, <1>21, <1>22, <1>23, <1>24 DEF Plain

(* What the proxy makes of the reply: all of it, the result that is an     *)
(* error, or nothing where it copies from.                                 *)
AsTaken(c, out, sz) == ReadParcel(Bp[c].takes, WriteParcel(Bn[c][out], sz), sz, {"size"})

Taken(c, sz) ==
  \E r \in Nat : /\ IsList(Bp[c].takes, r)
                 /\ \A k \in 1..r : /\ Bp[c].takes[k].v # Zero
                                    /\ AsTaken(c, "done", sz)[k] = <<Bp[c].takes[k].v, Bp[c].takes[k].v>>

ToldAt(c, out, sz, k) ==
  \E r \in Nat : k \in 1..r /\ IsList(Bp[c].takes, r) /\ AsTaken(c, out, sz)[k] = <<"rc", "rc">>

ErrorTold(c, out, sz) == \E k \in Nat : ToldAt(c, out, sz, k)

Cut(c, sz) ==
  \E r \in Nat : 1 \in 1..r /\ IsList(Bp[c].takes, r) /\ Bp[c].takes[1].t = "blob"
                            /\ AsTaken(c, "nomem", sz)[1][2] = Zero

(* A reply that is written as it is taken.                                 *)
LEMMA SameReply ==
  ASSUME NEW sz, NEW c, NEW s, NEW n \in Nat, Sound(s, n, sz, {"size"}), NEW k \in 1..n,
         s[k].v = "rc", Bp[c].takes = s
  PROVE  /\ Bn[c].done = s => Taken(c, sz)
         /\ Bn[c].failed = s => ErrorTold(c, "failed", sz)
         /\ Bn[c].nomem = s => ErrorTold(c, "nomem", sz)
<1>1. ReadBack(s, WriteParcel(s, sz), n, sz, {"size"}) /\ IsList(s, n) /\ \A j \in 1..n : s[j].v # Zero
  BY ReadsSame, SoundReads
<1>2. ASSUME NEW o \in {"done", "failed", "nomem"}, Bn[c][o] = s
      PROVE  \A j \in 1..n : AsTaken(c, o, sz)[j] = <<s[j].v, s[j].v>>
  <2>1. AsTaken(c, o, sz) = ReadParcel(s, WriteParcel(s, sz), sz, {"size"})
    BY <1>2 DEF AsTaken
  <2> QED BY <1>1, <2>1 DEF ReadBack
<1>3. ASSUME Bn[c].done = s PROVE Taken(c, sz)
  BY <1>1, <1>2, <1>3 DEF Taken
<1>4. ASSUME NEW o \in {"failed", "nomem"}, Bn[c][o] = s PROVE ErrorTold(c, o, sz)
  <2>1. AsTaken(c, o, sz)[k] = <<"rc", "rc">>
    BY <1>2, <1>4
  <2>2. ToldAt(c, o, sz, k)
    BY <1>1, <2>1 DEF ToldAt
  <2> QED BY <2>2 DEF ErrorTold
<1> QED BY <1>3, <1>4

(* A reply of a value and the result.                                      *)
LEMMA ValueReply ==
  ASSUME NEW sz, SizesFit(sz), NEW c, NEW f, SoundField(f, sz, {"size"}), Bp[c].takes = <<f, Rc>>
  PROVE  /\ Bn[c].done = <<f, Rc>> => Taken(c, sz)
         /\ Bn[c].failed = <<f, Rc>> => ErrorTold(c, "failed", sz)
<1>1. PICK s : s = <<f, Rc>>
  OBVIOUS
<1>2. SoundField(Rc, sz, {"size"} \cup {f.v})
  BY SoundFields DEF Rc, Zero
<1>3. Sound(s, 2, sz, {"size"})
  BY <1>1, <1>2, SoundList2
<1>4. s[2] = Rc
  BY <1>1
<1>5. s[2].v = "rc" /\ 2 \in 1..2
  BY <1>4, FieldValues DEF Rc
<1> QED BY <1>1, <1>3, <1>5, SameReply

LEMMA PlainTaken ==
  ASSUME NEW sz, SizesFit(sz), NEW c \in Plain
  PROVE  /\ Taken(c, sz) /\ ErrorTold(c, "failed", sz)
         /\ Bn[c].nomem = <<Rc>> => ErrorTold(c, "nomem", sz)
<1>1. PICK s : s = <<Rc>>
  OBVIOUS
<1>2. SoundField(Rc, sz, {"size"})
  BY SoundFields DEF Rc, Zero
<1>3. Sound(s, 1, sz, {"size"})
  BY <1>1, <1>2, SoundList1
<1>4. s[1] = Rc
  BY <1>1
<1>5. s[1].v = "rc" /\ 1 \in 1..1
  BY <1>4, FieldValues DEF Rc
<1>6. Bp[c].takes = s /\ Bn[c].done = s /\ Bn[c].failed = s
  BY <1>1, PlainReplies
<1> QED BY <1>1, <1>3, <1>5, <1>6, SameReply

(* A list comes back whole: it was asked for with its size.                *)
GivenWhole(sz) == WriteWidth(Blob("list", "given"), sz) = WriteWidth(Blob("list", "size"), sz)

LEMMA ListReply ==
  ASSUME NEW sz, SizesFit(sz), GivenWhole(sz), NEW c, NEW x, x # Zero,
         Bp[c].takes = <<Blob(x, "size"), Rc>>, Bn[c].done = <<Blob(x, "given"), Rc>>,
         Bn[c].failed = <<Blob(x, "given"), Rc>>
  PROVE  Taken(c, sz) /\ ErrorTold(c, "failed", sz)
<1>1. PICK a, b : a = <<Blob(x, "size"), Rc>> /\ b = <<Blob(x, "given"), Rc>>
  OBVIOUS
<1>2. /\ SoundField(Blob(x, "size"), sz, {"size"})
      /\ SoundField(Blob(x, "given"), sz, {"size", "given"})
      /\ \A known : SoundField(Rc, sz, known)
  BY SoundFields DEF Rc, Zero, SizeNames
<1>3. Sound(a, 2, sz, {"size"}) /\ Sound(b, 2, sz, {"size", "given"})
  BY <1>1, <1>2, SoundList2
<1>4. IsList(a, 2) /\ IsList(b, 2) /\ Wide(b, 2, sz) /\ \A k \in 1..2 : a[k].v # Zero
  BY <1>3, SoundReads
<1>5. a[1] = Blob(x, "size") /\ b[1] = Blob(x, "given") /\ a[2] = Rc /\ b[2] = Rc
  BY <1>1
<1>6. a[1].v = b[1].v /\ a[2].v = "rc"
  BY <1>5, FieldValues, SMTT(60) DEF Rc
<1>7. WriteWidth(a[1], sz) = WriteWidth(b[1], sz)
  BY <1>5 DEF GivenWhole, WriteWidth, Width, Blob
<1>8. Mirrors(a, b, 2, sz)
  BY <1>5, <1>6, <1>7 DEF Mirrors
<1>9. ReadBack(a, WriteParcel(b, sz), 2, sz, {"size"})
  BY <1>3, <1>4, <1>8, ReadsAlike
<1>10. ASSUME NEW o \in {"done", "failed"}
       PROVE  \A k \in 1..2 : AsTaken(c, o, sz)[k] = <<a[k].v, a[k].v>>
  <2>1. Bn[c][o] = b
    BY <1>1
  <2>2. AsTaken(c, o, sz) = ReadParcel(a, WriteParcel(b, sz), sz, {"size"})
    BY <1>1, <2>1 DEF AsTaken
  <2> QED BY <1>9, <2>2 DEF ReadBack
<1>11. Bp[c].takes = a
  BY <1>1
<1>12. Taken(c, sz)
  BY <1>4, <1>10, <1>11 DEF Taken
<1>13. AsTaken(c, "failed", sz)[2] = <<"rc", "rc">> /\ 2 \in 1..2
  BY <1>6, <1>10
<1>14. ToldAt(c, "failed", sz, 2)
  BY <1>4, <1>11, <1>13 DEF ToldAt
<1> QED BY <1>12, <1>14 DEF ErrorTold

(* A read that failed is told by the first word.                           *)
LEMMA ReadReply ==
  ASSUME NEW sz, SizesFit(sz)
  PROVE  Taken("READ", sz) /\ ToldAt("READ", "failed", sz, 1) /\ ToldAt("READ", "nomem", sz, 1)
<1>1. PICK a, b : a = <<Rc, U32("given"), Blob("buff", "given")>> /\ b = <<Rc>>
  OBVIOUS
<1>2. /\ SoundField(Rc, sz, {"size"}) /\ SoundField(U32("given"), sz, {"size"} \cup {Rc.v})
      /\ SoundField(Blob("buff", "given"), sz, {"size"} \cup {U32("given").v})
  BY SoundFields, FieldValues DEF Rc, Zero, SizeNames
<1>3. Sound(a, 3, sz, {"size"}) /\ Sound(b, 1, sz, {"size"})
  BY <1>1, <1>2, SoundList3, SoundList1
<1>4. /\ IsList(a, 3) /\ IsList(b, 1) /\ Wide(b, 1, sz) /\ \A k \in 1..3 : a[k].v # Zero
      /\ ReadBack(a, WriteParcel(a, sz), 3, sz, {"size"})
  BY <1>3, SoundReads, ReadsSame
<1>5. a[1] = Rc /\ b[1] = Rc
  BY <1>1
<1>6. a[1].v = "rc"
  BY <1>5, FieldValues DEF Rc
<1>7. Mirrors(a, b, 1, sz)
  BY <1>5 DEF Mirrors
<1>8. ReadBack(a, WriteParcel(b, sz), 1, sz, {"size"})
  BY <1>3, <1>4, <1>7, ReadsAlike
<1>9. Bp["READ"].takes = a
  BY <1>1, BpParts DEF BpAgmService_data, Call
<1>10. Bn["READ"].done = a /\ Bn["READ"].failed = b /\ Bn["READ"].nomem = b
  BY <1>1, BnParts DEF BnAgmService_data, Case
<1>11. AsTaken("READ", "done", sz) = ReadParcel(a, WriteParcel(a, sz), sz, {"size"})
  BY <1>9, <1>10 DEF AsTaken
<1>12. Taken("READ", sz)
  BY <1>4, <1>9, <1>11 DEF Taken, ReadBack
<1>13. ASSUME NEW o \in {"failed", "nomem"} PROVE ToldAt("READ", o, sz, 1)
  <2>1. Bn["READ"][o] = b
    BY <1>10
  <2>2. AsTaken("READ", o, sz) = ReadParcel(a, WriteParcel(b, sz), sz, {"size"})
    BY <1>9, <2>1 DEF AsTaken
  <2>3. AsTaken("READ", o, sz)[1] = <<"rc", "rc">>
    BY <1>6, <1>8, <2>2 DEF ReadBack
  <2> QED BY <1>4, <1>9, <2>3 DEF ToldAt
<1> QED BY <1>12, <1>13

LEMMA EventReply ==
  ASSUME NEW sz
  PROVE  Taken("EVENT", sz)
<1>1. Bp["EVENT"].takes = <<>>
  BY BpParts DEF BpCallback, Call
<1>2. IsList(Bp["EVENT"].takes, 0)
  BY <1>1 DEF IsList
<1> QED BY <1>2 DEF Taken

(* The parcel with the result alone is shorter than the contents that the  *)
(* proxy copies, and so is an empty one.                                   *)
Sized(sz) == sz["size"] # 0

LEMMA CutReply ==
  ASSUME NEW sz, SizesFit(sz), Sized(sz), NEW c, NEW x, x # Zero,
         Bp[c].takes = <<Blob(x, "size"), Rc>>, Bn[c].nomem \in {<<>>, <<Rc>>}
  PROVE  Cut(c, sz)
<1>1. PICK a, b : a = <<Blob(x, "size"), Rc>> /\ b = Bn[c].nomem
  OBVIOUS
<1>2. IsList(a, 2) /\ a[1] = Blob(x, "size")
  BY <1>1 DEF IsList
<1>3. PICK z \in Nat \ {0} : z = sz["size"]
  BY DEF SizesFit, SizeNames, Sized
<1>4. ReadWidth(a[1], sz, {"size"}) = 1 + z
  BY <1>2, <1>3 DEF ReadWidth, Width, Blob
<1>5. \E S : WriteParcel(b, sz) \in Seq(S) /\ 1 + z > Len(WriteParcel(b, sz))
  <2>1. CASE b = <<>>
    <3>1. DOMAIN b = {}
      BY <2>1
    <3>2. PICK q : q = [k \in DOMAIN b |-> WordsOf(b[k], sz)]
      OBVIOUS
    <3>3. q = <<>> /\ Len(q) = 0
      BY <3>1, <3>2
    <3>4. FlattenSeq(q) = q
      BY <3>3 DEF FlattenSeq
    <3>5. WriteParcel(b, sz) = <<>>
      BY <3>2, <3>3, <3>4 DEF WriteParcel
    <3>6. <<>> \in Seq({}) /\ Len(<<>>) = 0
      OBVIOUS
    <3> QED BY <3>5, <3>6
  <2>2. CASE b = <<Rc>>
    <3>1. IsList(b, 1) /\ b[1] = Rc
      BY <2>2 DEF IsList
    <3>2. PICK p : p = WordsOf(Rc, sz)
      OBVIOUS
    <3>3. PICK S : S = [of: {"rc"}, nth: Nat]
      OBVIOUS
    <3>4. p = [i \in 1..1 |-> [of |-> "rc", nth |-> i]]
      BY <3>2 DEF WordsOf, Rc, U32, Width
    <3>5. [of |-> "rc", nth |-> 1] \in S
      BY <3>3
    <3>6. p \in Seq(S) /\ Len(p) = 1
      BY <3>4, <3>5
    <3>7. PICK q : q = [k \in DOMAIN b |-> WordsOf(b[k], sz)]
      OBVIOUS
    <3>8. q = [k \in 1..1 |-> p]
      BY <3>1, <3>2, <3>7 DEF IsList
    <3>9. q \in Seq(Seq(S)) /\ Len(q) = 1 /\ q[1] = p
      BY <3>6, <3>8
    <3>10. PICK n \in Nat \ {0} : n = 1
      OBVIOUS
    <3>11. PICK f \in [1..n -> Seq(S)] : FlattenSeq(q) = f[n] /\ Flattens(f, q, n)
      BY <3>9, <3>10, FlattenSteps
    <3>12. FlattenSeq(q) = p
      <4>1. f[1] = q[1]
        BY <3>11 DEF Flattens
      <4>2. FlattenSeq(q) = f[1]
        BY <3>10, <3>11
      <4> QED BY <3>9, <4>1, <4>2
    <3>13. WriteParcel(b, sz) = p
      BY <3>7, <3>12 DEF WriteParcel
    <3>14. 1 + z > 1
      BY <1>3
    <3>15. p \in Seq(S) /\ 1 + z > Len(p)
      BY <3>6, <3>14
    <3> QED BY <3>13, <3>15, Zenon
  <2> QED BY <1>1, <2>1, <2>2
<1>6. PICK words, S : words = WriteParcel(b, sz) /\ words \in Seq(S) /\ 1 + z > Len(words)
  BY <1>5
<1>7. ReadParcel(a, words, sz, {"size"})[1] = <<a[1].v, Zero>>
  <2>1. PICK u \in Nat : u = 1 + z
    OBVIOUS
  <2>2. u = ReadWidth(a[1], sz, {"size"}) /\ u > Len(words) /\ 2 \in Nat /\ 1 <= 2
    BY <1>4, <1>6, <2>1
  <2> QED BY <1>2, <1>6, <2>2, ReadsNothing
<1>8. AsTaken(c, "nomem", sz) = ReadParcel(a, words, sz, {"size"})
  BY <1>1, <1>6 DEF AsTaken
<1>9. a[1].t = "blob" /\ 1 \in 1..2
  BY <1>2 DEF Blob
<1> QED BY <1>1, <1>2, <1>7, <1>8, <1>9 DEF Cut


(* Every reply of a call that was done is taken as it was written, and the *)
(* error of one that failed is told.                                       *)
LEMMA CallsAnswered ==
  ASSUME NEW sz, SizesFit(sz), NEW c \in DOMAIN Bp,
         c \in {"GET_AIF_LIST", "GET_TAG_MODULE_INFO"} => GivenWhole(sz)
  PROVE  Taken(c, sz) /\ (c # "EVENT" => ErrorTold(c, "failed", sz))
<1>1. CASE c \in Plain
  BY <1>1, PlainTaken
<1>2. CASE c = "READ"
  BY <1>2, ReadReply DEF ErrorTold
<1>3. CASE c = "EVENT"
  BY <1>3, EventReply
<1>4. CASE c = "GET_AIF_LIST_SIZE"
  <2>1. PICK f : f = U32("given")
    OBVIOUS
  <2>2. SoundField(f, sz, {"size"})
    BY <2>1, SoundFields DEF Zero, SizeNames
  <2>3. Bp["GET_AIF_LIST_SIZE"].takes = <<f, Rc>>
    BY <2>1, BpParts DEF BpAgmService_data, Call
  <2>4. Bn["GET_AIF_LIST_SIZE"].done = <<f, Rc>> /\ Bn["GET_AIF_LIST_SIZE"].failed = <<f, Rc>>
    BY <2>1, BnParts DEF BnAgmService_lists, Case
  <2> QED BY <1>4, <2>2, <2>3, <2>4, ValueReply
<1>5. CASE c = "GET_TAG_MODULE_INFO_SIZE"
  <2>1. PICK f : f = U32("given")
    OBVIOUS
  <2>2. SoundField(f, sz, {"size"})
    BY <2>1, SoundFields DEF Zero, SizeNames
  <2>3. Bp["GET_TAG_MODULE_INFO_SIZE"].takes = <<f, Rc>>
    BY <2>1, BpParts DEF BpAgmService_events, Call
  <2>4. Bn["GET_TAG_MODULE_INFO_SIZE"].done = <<f, Rc>> /\ Bn["GET_TAG_MODULE_INFO_SIZE"].failed = <<f, Rc>>
    BY <2>1, BnParts DEF BnAgmService_tags, Case
  <2> QED BY <1>5, <2>2, <2>3, <2>4, ValueReply
<1>6. CASE c = "OPEN"
  <2>1. PICK f : f = I64("handle")
    OBVIOUS
  <2>2. SoundField(f, sz, {"size"})
    BY <2>1, SoundFields DEF Zero, SizeNames
  <2>3. Bp["OPEN"].takes = <<f, Rc>>
    BY <2>1, BpParts DEF BpAgmService_control, Call
  <2>4. Bn["OPEN"].done = <<f, Rc>> /\ Bn["OPEN"].failed = <<f, Rc>>
    BY <2>1, BnParts DEF BnAgmService_meta, Case
  <2> QED BY <1>6, <2>2, <2>3, <2>4, ValueReply
<1>7. CASE c = "WRITE"
  <2>1. PICK f : f = U32("given")
    OBVIOUS
  <2>2. SoundField(f, sz, {"size"})
    BY <2>1, SoundFields DEF Zero, SizeNames
  <2>3. Bp["WRITE"].takes = <<f, Rc>>
    BY <2>1, BpParts DEF BpAgmService_data, Call
  <2>4. Bn["WRITE"].done = <<f, Rc>> /\ Bn["WRITE"].failed = <<f, Rc>>
    BY <2>1, BnParts DEF BnAgmService_data, Case, Allocates
  <2> QED BY <1>7, <2>2, <2>3, <2>4, ValueReply
<1>8. CASE c = "GET_SESSION_TIME"
  <2>1. PICK f : f = I64("timestamp")
    OBVIOUS
  <2>2. SoundField(f, sz, {"size"})
    BY <2>1, SoundFields DEF Zero, SizeNames
  <2>3. Bp["GET_SESSION_TIME"].takes = <<f, Rc>>
    BY <2>1, BpParts DEF BpAgmService_queries, Call
  <2>4. Bn["GET_SESSION_TIME"].done = <<f, Rc>> /\ Bn["GET_SESSION_TIME"].failed = <<f, Rc>>
    BY <2>1, BnParts DEF BnAgmService_queries, Case
  <2> QED BY <1>8, <2>2, <2>3, <2>4, ValueReply
<1>9. CASE c = "BUF_TSTAMP"
  <2>1. PICK f : f = I64("timestamp")
    OBVIOUS
  <2>2. SoundField(f, sz, {"size"})
    BY <2>1, SoundFields DEF Zero, SizeNames
  <2>3. Bp["BUF_TSTAMP"].takes = <<f, Rc>>
    BY <2>1, BpParts DEF BpAgmService_queries, Call
  <2>4. Bn["BUF_TSTAMP"].done = <<f, Rc>> /\ Bn["BUF_TSTAMP"].failed = <<f, Rc>>
    BY <2>1, BnParts DEF BnAgmService_queries, Case
  <2> QED BY <1>9, <2>2, <2>3, <2>4, ValueReply
<1>10. CASE c = "GET_PARAMS"
  <2>1. PICK f : f = Blob("payload", "size")
    OBVIOUS
  <2>2. SoundField(f, sz, {"size"})
    BY <2>1, SoundFields DEF Zero, SizeNames
  <2>3. Bp["GET_PARAMS"].takes = <<f, Rc>>
    BY <2>1, BpParts DEF BpAgmService_queries, Call
  <2>4. Bn["GET_PARAMS"].done = <<f, Rc>> /\ Bn["GET_PARAMS"].failed = <<f, Rc>>
    BY <2>1, BnParts DEF BnAgmService_queries, Case, Allocates
  <2> QED BY <1>10, <2>2, <2>3, <2>4, ValueReply
<1>11. CASE c = "GET_AIF_LIST"
  <2>1. PICK x : x = "aif_list"
    OBVIOUS
  <2>2. x # Zero
    BY <2>1 DEF Zero
  <2>3. Bp[c].takes = <<Blob(x, "size"), Rc>>
    BY <1>11, <2>1, BpParts DEF BpAgmService_data, Call
  <2>4. Bn[c].done = <<Blob(x, "given"), Rc>> /\ Bn[c].failed = <<Blob(x, "given"), Rc>>
    BY <1>11, <2>1, BnParts DEF BnAgmService_lists, Case, Allocates
  <2> QED BY <1>11, <2>2, <2>3, <2>4, ListReply
<1>12. CASE c = "GET_TAG_MODULE_INFO"
  <2>1. PICK x : x = "payload"
    OBVIOUS
  <2>2. x # Zero
    BY <2>1 DEF Zero
  <2>3. Bp[c].takes = <<Blob(x, "size"), Rc>>
    BY <1>12, <2>1, BpParts DEF BpAgmService_events, Call
  <2>4. Bn[c].done = <<Blob(x, "given"), Rc>> /\ Bn[c].failed = <<Blob(x, "given"), Rc>>
    BY <1>12, <2>1, BnParts DEF BnAgmService_tags, Case, Allocates
  <2> QED BY <1>12, <2>2, <2>3, <2>4, ListReply
<1> QED BY <1>1, <1>2, <1>3, <1>4, <1>5, <1>6, <1>7, <1>8, <1>9, <1>10, <1>11, <1>12, BpParts
     DEF Plain

(* A stub without memory is told, or loses the error, or leaves its proxy  *)
(* nothing to copy.                                                        *)
LEMMA ShortageAnswered ==
  ASSUME NEW sz, SizesFit(sz), Sized(sz), NEW c \in AllocatingCases, c \notin LostErrors
  PROVE  ErrorTold(c, "nomem", sz) \/ Cut(c, sz)
<1>1. CASE c = "READ"
  BY <1>1, ReadReply DEF ErrorTold
<1>2. CASE c = "SESSION_SET_META"
  <2>1. Bn["SESSION_SET_META"].nomem = <<Rc>>
    BY BnParts DEF BnAgmService_meta, Case
  <2>2. "SESSION_SET_META" \in Plain
    BY DEF Plain
  <2> QED BY <1>2, <2>1, <2>2, PlainTaken
<1>3. CASE c = "SESSION_AUDIO_INTF_SET_META"
  <2>1. Bn["SESSION_AUDIO_INTF_SET_META"].nomem = <<Rc>>
    BY BnParts DEF BnAgmService_meta, Case
  <2>2. "SESSION_AUDIO_INTF_SET_META" \in Plain
    BY DEF Plain
  <2> QED BY <1>3, <2>1, <2>2, PlainTaken
<1>4. CASE c = "AUDIO_INTF_SET_META"
  <2>1. Bn["AUDIO_INTF_SET_META"].nomem = <<Rc>>
    BY BnParts DEF BnAgmService_meta, Case
  <2>2. "AUDIO_INTF_SET_META" \in Plain
    BY DEF Plain
  <2> QED BY <1>4, <2>1, <2>2, PlainTaken
<1>5. CASE c = "GET_AIF_LIST"
  <2>1. PICK x : x = "aif_list"
    OBVIOUS
  <2>2. x # Zero
    BY <2>1 DEF Zero
  <2>3. Bp[c].takes = <<Blob(x, "size"), Rc>>
    BY <1>5, <2>1, BpParts DEF BpAgmService_data, Call
  <2>4. Bn[c].nomem = <<>>
    BY <1>5, BnParts DEF BnAgmService_lists, Case, Allocates
  <2> QED BY <2>2, <2>3, <2>4, CutReply
<1>6. CASE c = "GET_TAG_MODULE_INFO"
  <2>1. PICK x : x = "payload"
    OBVIOUS
  <2>2. x # Zero
    BY <2>1 DEF Zero
  <2>3. Bp[c].takes = <<Blob(x, "size"), Rc>>
    BY <1>6, <2>1, BpParts DEF BpAgmService_events, Call
  <2>4. Bn[c].nomem = <<>>
    BY <1>6, BnParts DEF BnAgmService_tags, Case, Allocates
  <2> QED BY <2>2, <2>3, <2>4, CutReply
<1>7. CASE c = "SESSION_SET_PARAMS"
  <2>1. Bn["SESSION_SET_PARAMS"].nomem = <<Rc>>
    BY BnParts DEF BnAgmService_params, Case
  <2>2. "SESSION_SET_PARAMS" \in Plain
    BY DEF Plain
  <2> QED BY <1>7, <2>1, <2>2, PlainTaken
<1>8. CASE c = "SET_PARAMS_WITH_TAG"
  <2>1. Bn["SET_PARAMS_WITH_TAG"].nomem = <<Rc>>
    BY BnParts DEF BnAgmService_params, Case
  <2>2. "SET_PARAMS_WITH_TAG" \in Plain
    BY DEF Plain
  <2> QED BY <1>8, <2>1, <2>2, PlainTaken
<1>9. CASE c = "SET_CALIBRATION"
  <2>1. Bn["SET_CALIBRATION"].nomem = <<Rc>>
    BY BnParts DEF BnAgmService_params, Case
  <2>2. "SET_CALIBRATION" \in Plain
    BY DEF Plain
  <2> QED BY <1>9, <2>1, <2>2, PlainTaken
<1>10. CASE c = "GET_PARAMS"
  <2>1. PICK x : x = "payload"
    OBVIOUS
  <2>2. x # Zero
    BY <2>1 DEF Zero
  <2>3. Bp[c].takes = <<Blob(x, "size"), Rc>>
    BY <1>10, <2>1, BpParts DEF BpAgmService_queries, Call
  <2>4. Bn[c].nomem = <<Rc>>
    BY <1>10, BnParts DEF BnAgmService_queries, Case, Allocates
  <2> QED BY <2>2, <2>3, <2>4, CutReply
<1> QED BY <1>1, <1>2, <1>3, <1>4, <1>5, <1>6, <1>7, <1>8, <1>9, <1>10 DEF AllocatingCases,
     LostErrors

-----------------------------------------------------------------------------
(* Every method of the client, and of the server.                          *)
LEMMA ClientParts ==
  /\ DOMAIN DBusClient = {"AgmSessionDeRegisterCb", "AgmSessionRegisterCb",
       "AgmSessionRegisterForEvents", "AgmSessionAifSetCal", "AgmSessionAifSetParams",
       "AgmSessionAifGetTagModuleInfoSize", "AgmSessionAifGetTagModuleInfo",
       "AgmSessionAifConnect", "AgmSessionSetEcRef", "AgmSessionGetParams",
       "AgmSessionSetParams", "AgmGetAifInfoListSize", "AgmGetAifInfoList",
       "AgmSetParamsWithTag", "AgmSessionSetLoopback", "AgmSessionSetMetadata",
       "AgmSessionAifSetMetadata", "AgmAifSetMetadata", "AgmAifSetMediaConfig",
       "AgmGetBufferTimestamp", "AgmGetHwProcessedBufCount", "AgmSessionGetTime",
       "AgmSessionEos", "AgmSessionSetConfig", "AgmSessionWrite", "AgmSessionRead",
       "AgmSessionResume", "AgmSessionPause", "AgmSessionStop", "AgmSessionStart",
       "AgmSessionPrepare", "AgmSessionClose", "AgmSessionOpen"}
  /\ \A c \in DOMAIN client_callbacks : DBusClient[c] = client_callbacks[c]
  /\ \A c \in DOMAIN client_register : DBusClient[c] = client_register[c]
  /\ \A c \in DOMAIN client_events : DBusClient[c] = client_events[c]
  /\ \A c \in DOMAIN client_tags : DBusClient[c] = client_tags[c]
  /\ \A c \in DOMAIN client_params : DBusClient[c] = client_params[c]
  /\ \A c \in DOMAIN client_lists : DBusClient[c] = client_lists[c]
  /\ \A c \in DOMAIN client_metadata : DBusClient[c] = client_metadata[c]
  /\ \A c \in DOMAIN client_aif : DBusClient[c] = client_aif[c]
  /\ \A c \in DOMAIN client_queries : DBusClient[c] = client_queries[c]
  /\ \A c \in DOMAIN client_transfers : DBusClient[c] = client_transfers[c]
  /\ \A c \in DOMAIN client_control : DBusClient[c] = client_control[c]
  /\ \A c \in DOMAIN client_open : DBusClient[c] = client_open[c]
<1>1. PICK p : p = <<client_callbacks, client_register, client_events, client_tags,
                     client_params, client_lists, client_metadata, client_aif, client_queries,
                     client_transfers, client_control, client_open>>
  OBVIOUS
<1>2. DOMAIN p = 1..12 /\ p[1] = client_callbacks /\ p[2] = client_register /\ p[3] =
        client_events /\ p[4] = client_tags /\ p[5] = client_params /\ p[6] = client_lists /\
        p[7] = client_metadata /\ p[8] = client_aif /\ p[9] = client_queries /\ p[10] =
        client_transfers /\ p[11] = client_control /\ p[12] = client_open
  BY <1>1
<1>3. DOMAIN p[1] = {"AgmSessionDeRegisterCb"}
  BY <1>2 DEF client_callbacks
<1>4. DOMAIN p[2] = {"AgmSessionRegisterCb"}
  BY <1>2 DEF client_register
<1>5. DOMAIN p[3] = {"AgmSessionRegisterForEvents", "AgmSessionAifSetCal",
        "AgmSessionAifSetParams"}
  BY <1>2 DEF client_events
<1>6. DOMAIN p[4] = {"AgmSessionAifGetTagModuleInfoSize", "AgmSessionAifGetTagModuleInfo",
        "AgmSessionAifConnect"}
  BY <1>2 DEF client_tags
<1>7. DOMAIN p[5] = {"AgmSessionSetEcRef", "AgmSessionGetParams", "AgmSessionSetParams"}
  BY <1>2 DEF client_params
<1>8. DOMAIN p[6] = {"AgmGetAifInfoListSize", "AgmGetAifInfoList", "AgmSetParamsWithTag"}
  BY <1>2 DEF client_lists
<1>9. DOMAIN p[7] = {"AgmSessionSetLoopback", "AgmSessionSetMetadata",
        "AgmSessionAifSetMetadata"}
  BY <1>2 DEF client_metadata
<1>10. DOMAIN p[8] = {"AgmAifSetMetadata", "AgmAifSetMediaConfig", "AgmGetBufferTimestamp"}
  BY <1>2 DEF client_aif
<1>11. DOMAIN p[9] = {"AgmGetHwProcessedBufCount", "AgmSessionGetTime", "AgmSessionEos",
        "AgmSessionSetConfig"}
  BY <1>2 DEF client_queries
<1>12. DOMAIN p[10] = {"AgmSessionWrite", "AgmSessionRead"}
  BY <1>2 DEF client_transfers
<1>13. DOMAIN p[11] = {"AgmSessionResume", "AgmSessionPause", "AgmSessionStop",
        "AgmSessionStart", "AgmSessionPrepare"}
  BY <1>2 DEF client_control
<1>14. DOMAIN p[12] = {"AgmSessionClose", "AgmSessionOpen"}
  BY <1>2 DEF client_open
<1>15. DBusClient = Join(p)
  BY <1>1 DEF DBusClient
<1>16. ASSUME NEW i \in 1..12, NEW c \in DOMAIN p[i]
       PROVE  \A j \in 1..12 : c \in DOMAIN p[j] => j = i
  BY <1>3, <1>4, <1>5, <1>6, <1>7, <1>8, <1>9, <1>10, <1>11, <1>12, <1>13, <1>14
<1>17. ASSUME NEW i \in 1..12, NEW c \in DOMAIN p[i] PROVE DBusClient[c] = p[i][c]
  <2>1. DOMAIN p = 1..12
    BY <1>2
  <2> QED BY <1>15, <1>16, <1>17, <2>1, Joined, SMTT(60)
<1>18. DOMAIN DBusClient = UNION {DOMAIN p[i] : i \in 1..12}
  BY <1>2, <1>15 DEF Join
<1>19. DOMAIN DBusClient = {"AgmSessionDeRegisterCb", "AgmSessionRegisterCb",
        "AgmSessionRegisterForEvents", "AgmSessionAifSetCal", "AgmSessionAifSetParams",
        "AgmSessionAifGetTagModuleInfoSize", "AgmSessionAifGetTagModuleInfo",
        "AgmSessionAifConnect", "AgmSessionSetEcRef", "AgmSessionGetParams",
        "AgmSessionSetParams", "AgmGetAifInfoListSize", "AgmGetAifInfoList",
        "AgmSetParamsWithTag", "AgmSessionSetLoopback", "AgmSessionSetMetadata",
        "AgmSessionAifSetMetadata", "AgmAifSetMetadata", "AgmAifSetMediaConfig",
        "AgmGetBufferTimestamp", "AgmGetHwProcessedBufCount", "AgmSessionGetTime",
        "AgmSessionEos", "AgmSessionSetConfig", "AgmSessionWrite", "AgmSessionRead",
        "AgmSessionResume", "AgmSessionPause", "AgmSessionStop", "AgmSessionStart",
        "AgmSessionPrepare", "AgmSessionClose", "AgmSessionOpen"}
  BY <1>18, <1>3, <1>4, <1>5, <1>6, <1>7, <1>8, <1>9, <1>10, <1>11, <1>12, <1>13, <1>14
<1> QED BY <1>2, <1>17, <1>19

LEMMA HandlerParts ==
  /\ DOMAIN DBusServer = {"AgmSessionDeRegisterCb", "AgmSessionRegisterCb",
       "AgmSessionRegisterForEvents", "AgmSessionGetParams", "AgmSessionAifSetCal",
       "AgmSessionAifSetParams", "AgmSessionAifGetTagModuleInfoSize",
       "AgmSessionAifGetTagModuleInfo", "AgmSessionAifConnect", "AgmSessionSetEcRef",
       "AgmSessionSetParams", "AgmGetAifInfoListSize", "AgmGetAifInfoList",
       "AgmSetParamsWithTag", "AgmSessionSetLoopback", "AgmSessionSetMetadata",
       "AgmSessionAifSetMetadata", "AgmAifSetMetadata", "AgmAifSetMediaConfig",
       "AgmGetBufferTimestamp", "AgmGetHwProcessedBufCount", "AgmSessionGetTime",
       "AgmSessionSetConfig", "AgmSessionEos", "AgmSessionWrite", "AgmSessionRead",
       "AgmSessionResume", "AgmSessionPause", "AgmSessionStop", "AgmSessionStart",
       "AgmSessionPrepare", "AgmSessionOpen", "AgmSessionClose"}
  /\ \A c \in DOMAIN server_callbacks : DBusServer[c] = server_callbacks[c]
  /\ \A c \in DOMAIN server_events : DBusServer[c] = server_events[c]
  /\ \A c \in DOMAIN server_params : DBusServer[c] = server_params[c]
  /\ \A c \in DOMAIN server_tags : DBusServer[c] = server_tags[c]
  /\ \A c \in DOMAIN server_routes : DBusServer[c] = server_routes[c]
  /\ \A c \in DOMAIN server_lists : DBusServer[c] = server_lists[c]
  /\ \A c \in DOMAIN server_tagged : DBusServer[c] = server_tagged[c]
  /\ \A c \in DOMAIN server_metadata : DBusServer[c] = server_metadata[c]
  /\ \A c \in DOMAIN server_aif : DBusServer[c] = server_aif[c]
  /\ \A c \in DOMAIN server_queries : DBusServer[c] = server_queries[c]
  /\ \A c \in DOMAIN server_config : DBusServer[c] = server_config[c]
  /\ \A c \in DOMAIN server_transfers : DBusServer[c] = server_transfers[c]
  /\ \A c \in DOMAIN server_control : DBusServer[c] = server_control[c]
  /\ \A c \in DOMAIN server_open : DBusServer[c] = server_open[c]
<1>1. PICK p : p = <<server_callbacks, server_events, server_params, server_tags, server_routes,
                     server_lists, server_tagged, server_metadata, server_aif, server_queries,
                     server_config, server_transfers, server_control, server_open>>
  OBVIOUS
<1>2. DOMAIN p = 1..14 /\ p[1] = server_callbacks /\ p[2] = server_events /\ p[3] =
        server_params /\ p[4] = server_tags /\ p[5] = server_routes /\ p[6] = server_lists /\
        p[7] = server_tagged /\ p[8] = server_metadata /\ p[9] = server_aif /\ p[10] =
        server_queries /\ p[11] = server_config /\ p[12] = server_transfers /\ p[13] =
        server_control /\ p[14] = server_open
  BY <1>1
<1>3. DOMAIN p[1] = {"AgmSessionDeRegisterCb", "AgmSessionRegisterCb"}
  BY <1>2 DEF server_callbacks
<1>4. DOMAIN p[2] = {"AgmSessionRegisterForEvents", "AgmSessionGetParams"}
  BY <1>2 DEF server_events
<1>5. DOMAIN p[3] = {"AgmSessionAifSetCal", "AgmSessionAifSetParams"}
  BY <1>2 DEF server_params
<1>6. DOMAIN p[4] = {"AgmSessionAifGetTagModuleInfoSize", "AgmSessionAifGetTagModuleInfo"}
  BY <1>2 DEF server_tags
<1>7. DOMAIN p[5] = {"AgmSessionAifConnect", "AgmSessionSetEcRef"}
  BY <1>2 DEF server_routes
<1>8. DOMAIN p[6] = {"AgmSessionSetParams", "AgmGetAifInfoListSize", "AgmGetAifInfoList"}
  BY <1>2 DEF server_lists
<1>9. DOMAIN p[7] = {"AgmSetParamsWithTag", "AgmSessionSetLoopback"}
  BY <1>2 DEF server_tagged
<1>10. DOMAIN p[8] = {"AgmSessionSetMetadata", "AgmSessionAifSetMetadata"}
  BY <1>2 DEF server_metadata
<1>11. DOMAIN p[9] = {"AgmAifSetMetadata", "AgmAifSetMediaConfig"}
  BY <1>2 DEF server_aif
<1>12. DOMAIN p[10] = {"AgmGetBufferTimestamp", "AgmGetHwProcessedBufCount",
        "AgmSessionGetTime"}
  BY <1>2 DEF server_queries
<1>13. DOMAIN p[11] = {"AgmSessionSetConfig", "AgmSessionEos"}
  BY <1>2 DEF server_config
<1>14. DOMAIN p[12] = {"AgmSessionWrite", "AgmSessionRead"}
  BY <1>2 DEF server_transfers
<1>15. DOMAIN p[13] = {"AgmSessionResume", "AgmSessionPause", "AgmSessionStop",
        "AgmSessionStart", "AgmSessionPrepare"}
  BY <1>2 DEF server_control
<1>16. DOMAIN p[14] = {"AgmSessionOpen", "AgmSessionClose"}
  BY <1>2 DEF server_open
<1>17. DBusServer = Join(p)
  BY <1>1 DEF DBusServer
<1>18. ASSUME NEW i \in 1..14, NEW c \in DOMAIN p[i]
       PROVE  \A j \in 1..14 : c \in DOMAIN p[j] => j = i
  BY <1>3, <1>4, <1>5, <1>6, <1>7, <1>8, <1>9, <1>10, <1>11, <1>12, <1>13, <1>14, <1>15, <1>16
<1>19. ASSUME NEW i \in 1..14, NEW c \in DOMAIN p[i] PROVE DBusServer[c] = p[i][c]
  <2>1. DOMAIN p = 1..14
    BY <1>2
  <2> QED BY <1>17, <1>18, <1>19, <2>1, Joined, SMTT(60)
<1>20. DOMAIN DBusServer = UNION {DOMAIN p[i] : i \in 1..14}
  BY <1>2, <1>17 DEF Join
<1>21. DOMAIN DBusServer = {"AgmSessionDeRegisterCb", "AgmSessionRegisterCb",
        "AgmSessionRegisterForEvents", "AgmSessionGetParams", "AgmSessionAifSetCal",
        "AgmSessionAifSetParams", "AgmSessionAifGetTagModuleInfoSize",
        "AgmSessionAifGetTagModuleInfo", "AgmSessionAifConnect", "AgmSessionSetEcRef",
        "AgmSessionSetParams", "AgmGetAifInfoListSize", "AgmGetAifInfoList",
        "AgmSetParamsWithTag", "AgmSessionSetLoopback", "AgmSessionSetMetadata",
        "AgmSessionAifSetMetadata", "AgmAifSetMetadata", "AgmAifSetMediaConfig",
        "AgmGetBufferTimestamp", "AgmGetHwProcessedBufCount", "AgmSessionGetTime",
        "AgmSessionSetConfig", "AgmSessionEos", "AgmSessionWrite", "AgmSessionRead",
        "AgmSessionResume", "AgmSessionPause", "AgmSessionStop", "AgmSessionStart",
        "AgmSessionPrepare", "AgmSessionOpen", "AgmSessionClose"}
  BY <1>20, <1>3, <1>4, <1>5, <1>6, <1>7, <1>8, <1>9, <1>10, <1>11, <1>12, <1>13, <1>14, <1>15,
     <1>16
<1> QED BY <1>2, <1>19, <1>21

(* The handler expects what the client sends, and answers as it takes.     *)
IsOuts(s, n) == IsList(s, n) /\ \A k \in 1..n : s[k] # Zero

Agree(c) ==
  /\ DBusServer[c] = DBusClient[c]
  /\ \E n \in Nat : IsList(DBusClient[c].call.args, n)
  /\ \E n \in Nat : IsOuts(DBusClient[c].reply.args, n)

(* One method, on both sides.                                              *)
IsMethod(m, sig, ins, rsig, outs) == m = Method(sig, ins, rsig, outs)

LEMMA SameMethod ==
  ASSUME NEW c, NEW sig, NEW ins, NEW rsig, NEW outs, NEW n \in Nat, NEW m \in Nat,
         IsMethod(DBusClient[c], sig, ins, rsig, outs),
         IsMethod(DBusServer[c], sig, ins, rsig, outs), IsList(ins, n), IsOuts(outs, m)
  PROVE  Agree(c)
<1>1. DBusServer[c] = DBusClient[c]
  BY DEF IsMethod
<1>2. DBusClient[c].call.args = ins /\ DBusClient[c].reply.args = outs
  BY DEF IsMethod, Method, Message
<1> QED BY <1>1, <1>2 DEF Agree

(* Method by method.                                                       *)
LEMMA MethodsAgree ==
  ASSUME NEW c \in DOMAIN DBusClient
  PROVE  Agree(c)
<1>1. Agree("AgmSessionDeRegisterCb")
  <2>1. PICK ins, outs : ins = <<"session_id", "evt_type", "client_data">> /\ outs =
             <<"obj_path">>
    OBVIOUS
  <2>2. IsMethod(DBusClient["AgmSessionDeRegisterCb"], "uut", ins, "o", outs)
    BY <2>1, ClientParts DEF client_callbacks, IsMethod
  <2>3. IsMethod(DBusServer["AgmSessionDeRegisterCb"], "uut", ins, "o", outs)
    BY <2>1, HandlerParts DEF server_callbacks, IsMethod
  <2>4. IsList(ins, 3) /\ IsOuts(outs, 1)
    BY <2>1 DEF IsList, IsOuts, Zero
  <2> QED BY <2>2, <2>3, <2>4, SameMethod
<1>2. Agree("AgmSessionRegisterCb")
  <2>1. PICK ins, outs : ins = <<"session_id", "evt_type", "client_data">> /\ outs =
             <<"obj_path">>
    OBVIOUS
  <2>2. IsMethod(DBusClient["AgmSessionRegisterCb"], "uut", ins, "o", outs)
    BY <2>1, ClientParts DEF client_register, IsMethod
  <2>3. IsMethod(DBusServer["AgmSessionRegisterCb"], "uut", ins, "o", outs)
    BY <2>1, HandlerParts DEF server_callbacks, IsMethod
  <2>4. IsList(ins, 3) /\ IsOuts(outs, 1)
    BY <2>1 DEF IsList, IsOuts, Zero
  <2> QED BY <2>2, <2>3, <2>4, SameMethod
<1>3. Agree("AgmSessionRegisterForEvents")
  <2>1. PICK ins, outs : ins = <<"session_id", "module_instance_id", "event_id",
             "event_config_payload_size", "is_register", "event_config_payload">> /\ outs = <<>>
    OBVIOUS
  <2>2. IsMethod(DBusClient["AgmSessionRegisterForEvents"], "u(uuuyay)", ins, "", outs)
    BY <2>1, ClientParts DEF client_events, IsMethod, Void
  <2>3. IsMethod(DBusServer["AgmSessionRegisterForEvents"], "u(uuuyay)", ins, "", outs)
    BY <2>1, HandlerParts DEF server_events, IsMethod, Void
  <2>4. IsList(ins, 6) /\ IsOuts(outs, 0)
    BY <2>1 DEF IsList, IsOuts, Zero
  <2> QED BY <2>2, <2>3, <2>4, SameMethod
<1>4. Agree("AgmSessionAifSetCal")
  <2>1. PICK ins, outs : ins = <<"session_id", "aif_id", "num_ckvs", "kv">> /\ outs = <<>>
    OBVIOUS
  <2>2. IsMethod(DBusClient["AgmSessionAifSetCal"], "uuuay", ins, "", outs)
    BY <2>1, ClientParts DEF client_events, IsMethod, Void
  <2>3. IsMethod(DBusServer["AgmSessionAifSetCal"], "uuuay", ins, "", outs)
    BY <2>1, HandlerParts DEF server_params, IsMethod, Void
  <2>4. IsList(ins, 4) /\ IsOuts(outs, 0)
    BY <2>1 DEF IsList, IsOuts, Zero
  <2> QED BY <2>2, <2>3, <2>4, SameMethod
<1>5. Agree("AgmSessionAifSetParams")
  <2>1. PICK ins, outs : ins = <<"session_id", "aif_id", "size", "payload">> /\ outs = <<>>
    OBVIOUS
  <2>2. IsMethod(DBusClient["AgmSessionAifSetParams"], "uuuay", ins, "", outs)
    BY <2>1, ClientParts DEF client_events, IsMethod, Void
  <2>3. IsMethod(DBusServer["AgmSessionAifSetParams"], "uuuay", ins, "", outs)
    BY <2>1, HandlerParts DEF server_params, IsMethod, Void
  <2>4. IsList(ins, 4) /\ IsOuts(outs, 0)
    BY <2>1 DEF IsList, IsOuts, Zero
  <2> QED BY <2>2, <2>3, <2>4, SameMethod
<1>6. Agree("AgmSessionAifGetTagModuleInfoSize")
  <2>1. PICK ins, outs : ins = <<"session_id", "aif_id", "size">> /\ outs = <<"given">>
    OBVIOUS
  <2>2. IsMethod(DBusClient["AgmSessionAifGetTagModuleInfoSize"], "uuu", ins, "u", outs)
    BY <2>1, ClientParts DEF client_tags, IsMethod
  <2>3. IsMethod(DBusServer["AgmSessionAifGetTagModuleInfoSize"], "uuu", ins, "u", outs)
    BY <2>1, HandlerParts DEF server_tags, IsMethod
  <2>4. IsList(ins, 3) /\ IsOuts(outs, 1)
    BY <2>1 DEF IsList, IsOuts, Zero
  <2> QED BY <2>2, <2>3, <2>4, SameMethod
<1>7. Agree("AgmSessionAifGetTagModuleInfo")
  <2>1. PICK ins, outs : ins = <<"session_id", "aif_id", "size">> /\ outs = <<"given",
             "payload">>
    OBVIOUS
  <2>2. IsMethod(DBusClient["AgmSessionAifGetTagModuleInfo"], "uuu", ins, "uay", outs)
    BY <2>1, ClientParts DEF client_tags, IsMethod
  <2>3. IsMethod(DBusServer["AgmSessionAifGetTagModuleInfo"], "uuu", ins, "uay", outs)
    BY <2>1, HandlerParts DEF server_tags, IsMethod
  <2>4. IsList(ins, 3) /\ IsOuts(outs, 2)
    BY <2>1 DEF IsList, IsOuts, Zero
  <2> QED BY <2>2, <2>3, <2>4, SameMethod
<1>8. Agree("AgmSessionAifConnect")
  <2>1. PICK ins, outs : ins = <<"session_id", "aif_id", "state">> /\ outs = <<>>
    OBVIOUS
  <2>2. IsMethod(DBusClient["AgmSessionAifConnect"], "uub", ins, "", outs)
    BY <2>1, ClientParts DEF client_tags, IsMethod, Void
  <2>3. IsMethod(DBusServer["AgmSessionAifConnect"], "uub", ins, "", outs)
    BY <2>1, HandlerParts DEF server_routes, IsMethod, Void
  <2>4. IsList(ins, 3) /\ IsOuts(outs, 0)
    BY <2>1 DEF IsList, IsOuts, Zero
  <2> QED BY <2>2, <2>3, <2>4, SameMethod
<1>9. Agree("AgmSessionSetEcRef")
  <2>1. PICK ins, outs : ins = <<"capture_session_id", "aif_id", "state">> /\ outs = <<>>
    OBVIOUS
  <2>2. IsMethod(DBusClient["AgmSessionSetEcRef"], "uub", ins, "", outs)
    BY <2>1, ClientParts DEF client_params, IsMethod, Void
  <2>3. IsMethod(DBusServer["AgmSessionSetEcRef"], "uub", ins, "", outs)
    BY <2>1, HandlerParts DEF server_routes, IsMethod, Void
  <2>4. IsList(ins, 3) /\ IsOuts(outs, 0)
    BY <2>1 DEF IsList, IsOuts, Zero
  <2> QED BY <2>2, <2>3, <2>4, SameMethod
<1>10. Agree("AgmSessionGetParams")
  <2>1. PICK ins, outs : ins = <<"session_id", "size", "payload">> /\ outs = <<"payload">>
    OBVIOUS
  <2>2. IsMethod(DBusClient["AgmSessionGetParams"], "uuay", ins, "ay", outs)
    BY <2>1, ClientParts DEF client_params, IsMethod
  <2>3. IsMethod(DBusServer["AgmSessionGetParams"], "uuay", ins, "ay", outs)
    BY <2>1, HandlerParts DEF server_events, IsMethod
  <2>4. IsList(ins, 3) /\ IsOuts(outs, 1)
    BY <2>1 DEF IsList, IsOuts, Zero
  <2> QED BY <2>2, <2>3, <2>4, SameMethod
<1>11. Agree("AgmSessionSetParams")
  <2>1. PICK ins, outs : ins = <<"session_id", "size", "payload">> /\ outs = <<>>
    OBVIOUS
  <2>2. IsMethod(DBusClient["AgmSessionSetParams"], "uuay", ins, "", outs)
    BY <2>1, ClientParts DEF client_params, IsMethod, Void
  <2>3. IsMethod(DBusServer["AgmSessionSetParams"], "uuay", ins, "", outs)
    BY <2>1, HandlerParts DEF server_lists, IsMethod, Void
  <2>4. IsList(ins, 3) /\ IsOuts(outs, 0)
    BY <2>1 DEF IsList, IsOuts, Zero
  <2> QED BY <2>2, <2>3, <2>4, SameMethod
<1>12. Agree("AgmGetAifInfoListSize")
  <2>1. PICK ins, outs : ins = <<>> /\ outs = <<"given">>
    OBVIOUS
  <2>2. IsMethod(DBusClient["AgmGetAifInfoListSize"], "", ins, "u", outs)
    BY <2>1, ClientParts DEF client_lists, IsMethod
  <2>3. IsMethod(DBusServer["AgmGetAifInfoListSize"], "", ins, "u", outs)
    BY <2>1, HandlerParts DEF server_lists, IsMethod
  <2>4. IsList(ins, 0) /\ IsOuts(outs, 1)
    BY <2>1 DEF IsList, IsOuts, Zero
  <2> QED BY <2>2, <2>3, <2>4, SameMethod
<1>13. Agree("AgmGetAifInfoList")
  <2>1. PICK ins, outs : ins = <<"size">> /\ outs = <<"aif_list">>
    OBVIOUS
  <2>2. IsMethod(DBusClient["AgmGetAifInfoList"], "u", ins, "a(us)", outs)
    BY <2>1, ClientParts DEF client_lists, IsMethod
  <2>3. IsMethod(DBusServer["AgmGetAifInfoList"], "u", ins, "a(us)", outs)
    BY <2>1, HandlerParts DEF server_lists, IsMethod
  <2>4. IsList(ins, 1) /\ IsOuts(outs, 1)
    BY <2>1 DEF IsList, IsOuts, Zero
  <2> QED BY <2>2, <2>3, <2>4, SameMethod
<1>14. Agree("AgmSetParamsWithTag")
  <2>1. PICK ins, outs : ins = <<"session_id", "aif_id", "tag", "num_tkvs", "kv">> /\ outs =
             <<>>
    OBVIOUS
  <2>2. IsMethod(DBusClient["AgmSetParamsWithTag"], "uu(uua(uu))", ins, "", outs)
    BY <2>1, ClientParts DEF client_lists, IsMethod, Void
  <2>3. IsMethod(DBusServer["AgmSetParamsWithTag"], "uu(uua(uu))", ins, "", outs)
    BY <2>1, HandlerParts DEF server_tagged, IsMethod, Void
  <2>4. IsList(ins, 5) /\ IsOuts(outs, 0)
    BY <2>1 DEF IsList, IsOuts, Zero
  <2> QED BY <2>2, <2>3, <2>4, SameMethod
<1>15. Agree("AgmSessionSetLoopback")
  <2>1. PICK ins, outs : ins = <<"capture_session_id", "playback_session_id", "state">> /\ outs
             = <<>>
    OBVIOUS
  <2>2. IsMethod(DBusClient["AgmSessionSetLoopback"], "uub", ins, "", outs)
    BY <2>1, ClientParts DEF client_metadata, IsMethod, Void
  <2>3. IsMethod(DBusServer["AgmSessionSetLoopback"], "uub", ins, "", outs)
    BY <2>1, HandlerParts DEF server_tagged, IsMethod, Void
  <2>4. IsList(ins, 3) /\ IsOuts(outs, 0)
    BY <2>1 DEF IsList, IsOuts, Zero
  <2> QED BY <2>2, <2>3, <2>4, SameMethod
<1>16. Agree("AgmSessionSetMetadata")
  <2>1. PICK ins, outs : ins = <<"session_id", "size", "metadata">> /\ outs = <<>>
    OBVIOUS
  <2>2. IsMethod(DBusClient["AgmSessionSetMetadata"], "uuay", ins, "", outs)
    BY <2>1, ClientParts DEF client_metadata, IsMethod, Void
  <2>3. IsMethod(DBusServer["AgmSessionSetMetadata"], "uuay", ins, "", outs)
    BY <2>1, HandlerParts DEF server_metadata, IsMethod, Void
  <2>4. IsList(ins, 3) /\ IsOuts(outs, 0)
    BY <2>1 DEF IsList, IsOuts, Zero
  <2> QED BY <2>2, <2>3, <2>4, SameMethod
<1>17. Agree("AgmSessionAifSetMetadata")
  <2>1. PICK ins, outs : ins = <<"session_id", "aif_id", "size", "metadata">> /\ outs = <<>>
    OBVIOUS
  <2>2. IsMethod(DBusClient["AgmSessionAifSetMetadata"], "uuuay", ins, "", outs)
    BY <2>1, ClientParts DEF client_metadata, IsMethod, Void
  <2>3. IsMethod(DBusServer["AgmSessionAifSetMetadata"], "uuuay", ins, "", outs)
    BY <2>1, HandlerParts DEF server_metadata, IsMethod, Void
  <2>4. IsList(ins, 4) /\ IsOuts(outs, 0)
    BY <2>1 DEF IsList, IsOuts, Zero
  <2> QED BY <2>2, <2>3, <2>4, SameMethod
<1>18. Agree("AgmAifSetMetadata")
  <2>1. PICK ins, outs : ins = <<"aif_id", "size", "metadata">> /\ outs = <<>>
    OBVIOUS
  <2>2. IsMethod(DBusClient["AgmAifSetMetadata"], "uuay", ins, "", outs)
    BY <2>1, ClientParts DEF client_aif, IsMethod, Void
  <2>3. IsMethod(DBusServer["AgmAifSetMetadata"], "uuay", ins, "", outs)
    BY <2>1, HandlerParts DEF server_aif, IsMethod, Void
  <2>4. IsList(ins, 3) /\ IsOuts(outs, 0)
    BY <2>1 DEF IsList, IsOuts, Zero
  <2> QED BY <2>2, <2>3, <2>4, SameMethod
<1>19. Agree("AgmAifSetMediaConfig")
  <2>1. PICK ins, outs : ins = <<"aif_id", "rate", "channels", "format">> /\ outs = <<>>
    OBVIOUS
  <2>2. IsMethod(DBusClient["AgmAifSetMediaConfig"], "u(uui)", ins, "", outs)
    BY <2>1, ClientParts DEF client_aif, IsMethod, Void
  <2>3. IsMethod(DBusServer["AgmAifSetMediaConfig"], "u(uui)", ins, "", outs)
    BY <2>1, HandlerParts DEF server_aif, IsMethod, Void
  <2>4. IsList(ins, 4) /\ IsOuts(outs, 0)
    BY <2>1 DEF IsList, IsOuts, Zero
  <2> QED BY <2>2, <2>3, <2>4, SameMethod
<1>20. Agree("AgmGetBufferTimestamp")
  <2>1. PICK ins, outs : ins = <<"session_id">> /\ outs = <<"timestamp">>
    OBVIOUS
  <2>2. IsMethod(DBusClient["AgmGetBufferTimestamp"], "u", ins, "t", outs)
    BY <2>1, ClientParts DEF client_aif, IsMethod
  <2>3. IsMethod(DBusServer["AgmGetBufferTimestamp"], "u", ins, "t", outs)
    BY <2>1, HandlerParts DEF server_queries, IsMethod
  <2>4. IsList(ins, 1) /\ IsOuts(outs, 1)
    BY <2>1 DEF IsList, IsOuts, Zero
  <2> QED BY <2>2, <2>3, <2>4, SameMethod
<1>21. Agree("AgmGetHwProcessedBufCount")
  <2>1. PICK ins, outs : ins = <<"dir">> /\ outs = <<"buf_count">>
    OBVIOUS
  <2>2. IsMethod(DBusClient["AgmGetHwProcessedBufCount"], "u", ins, "i", outs)
    BY <2>1, ClientParts DEF client_queries, IsMethod
  <2>3. IsMethod(DBusServer["AgmGetHwProcessedBufCount"], "u", ins, "i", outs)
    BY <2>1, HandlerParts DEF server_queries, IsMethod
  <2>4. IsList(ins, 1) /\ IsOuts(outs, 1)
    BY <2>1 DEF IsList, IsOuts, Zero
  <2> QED BY <2>2, <2>3, <2>4, SameMethod
<1>22. Agree("AgmSessionGetTime")
  <2>1. PICK ins, outs : ins = <<>> /\ outs = <<"timestamp">>
    OBVIOUS
  <2>2. IsMethod(DBusClient["AgmSessionGetTime"], "", ins, "t", outs)
    BY <2>1, ClientParts DEF client_queries, IsMethod
  <2>3. IsMethod(DBusServer["AgmSessionGetTime"], "", ins, "t", outs)
    BY <2>1, HandlerParts DEF server_queries, IsMethod
  <2>4. IsList(ins, 0) /\ IsOuts(outs, 1)
    BY <2>1 DEF IsList, IsOuts, Zero
  <2> QED BY <2>2, <2>3, <2>4, SameMethod
<1>23. Agree("AgmSessionEos")
  <2>1. PICK ins, outs : ins = <<>> /\ outs = <<>>
    OBVIOUS
  <2>2. IsMethod(DBusClient["AgmSessionEos"], "", ins, "", outs)
    BY <2>1, ClientParts DEF client_queries, IsMethod, Void
  <2>3. IsMethod(DBusServer["AgmSessionEos"], "", ins, "", outs)
    BY <2>1, HandlerParts DEF server_config, IsMethod, Void
  <2>4. IsList(ins, 0) /\ IsOuts(outs, 0)
    BY <2>1 DEF IsList, IsOuts, Zero
  <2> QED BY <2>2, <2>3, <2>4, SameMethod
<1>24. Agree("AgmSessionSetConfig")
  <2>1. PICK ins, outs : ins = <<"rate", "channels", "format", "count", "size",
             "session_config">> /\ outs = <<>>
    OBVIOUS
  <2>2. IsMethod(DBusClient["AgmSessionSetConfig"], "(uuu)(uu)ay", ins, "", outs)
    BY <2>1, ClientParts DEF client_queries, IsMethod, Void
  <2>3. IsMethod(DBusServer["AgmSessionSetConfig"], "(uuu)(uu)ay", ins, "", outs)
    BY <2>1, HandlerParts DEF server_config, IsMethod, Void
  <2>4. IsList(ins, 6) /\ IsOuts(outs, 0)
    BY <2>1 DEF IsList, IsOuts, Zero
  <2> QED BY <2>2, <2>3, <2>4, SameMethod
<1>25. Agree("AgmSessionWrite")
  <2>1. PICK ins, outs : ins = <<"size", "buf">> /\ outs = <<"given">>
    OBVIOUS
  <2>2. IsMethod(DBusClient["AgmSessionWrite"], "uay", ins, "u", outs)
    BY <2>1, ClientParts DEF client_transfers, IsMethod
  <2>3. IsMethod(DBusServer["AgmSessionWrite"], "uay", ins, "u", outs)
    BY <2>1, HandlerParts DEF server_transfers, IsMethod
  <2>4. IsList(ins, 2) /\ IsOuts(outs, 1)
    BY <2>1 DEF IsList, IsOuts, Zero
  <2> QED BY <2>2, <2>3, <2>4, SameMethod
<1>26. Agree("AgmSessionRead")
  <2>1. PICK ins, outs : ins = <<"size">> /\ outs = <<"buf">>
    OBVIOUS
  <2>2. IsMethod(DBusClient["AgmSessionRead"], "u", ins, "ay", outs)
    BY <2>1, ClientParts DEF client_transfers, IsMethod
  <2>3. IsMethod(DBusServer["AgmSessionRead"], "u", ins, "ay", outs)
    BY <2>1, HandlerParts DEF server_transfers, IsMethod
  <2>4. IsList(ins, 1) /\ IsOuts(outs, 1)
    BY <2>1 DEF IsList, IsOuts, Zero
  <2> QED BY <2>2, <2>3, <2>4, SameMethod
<1>27. Agree("AgmSessionResume")
  <2>1. PICK ins, outs : ins = <<>> /\ outs = <<>>
    OBVIOUS
  <2>2. IsMethod(DBusClient["AgmSessionResume"], "", ins, "", outs)
    BY <2>1, ClientParts DEF client_control, IsMethod, Void
  <2>3. IsMethod(DBusServer["AgmSessionResume"], "", ins, "", outs)
    BY <2>1, HandlerParts DEF server_control, IsMethod, Void
  <2>4. IsList(ins, 0) /\ IsOuts(outs, 0)
    BY <2>1 DEF IsList, IsOuts, Zero
  <2> QED BY <2>2, <2>3, <2>4, SameMethod
<1>28. Agree("AgmSessionPause")
  <2>1. PICK ins, outs : ins = <<>> /\ outs = <<>>
    OBVIOUS
  <2>2. IsMethod(DBusClient["AgmSessionPause"], "", ins, "", outs)
    BY <2>1, ClientParts DEF client_control, IsMethod, Void
  <2>3. IsMethod(DBusServer["AgmSessionPause"], "", ins, "", outs)
    BY <2>1, HandlerParts DEF server_control, IsMethod, Void
  <2>4. IsList(ins, 0) /\ IsOuts(outs, 0)
    BY <2>1 DEF IsList, IsOuts, Zero
  <2> QED BY <2>2, <2>3, <2>4, SameMethod
<1>29. Agree("AgmSessionStop")
  <2>1. PICK ins, outs : ins = <<>> /\ outs = <<>>
    OBVIOUS
  <2>2. IsMethod(DBusClient["AgmSessionStop"], "", ins, "", outs)
    BY <2>1, ClientParts DEF client_control, IsMethod, Void
  <2>3. IsMethod(DBusServer["AgmSessionStop"], "", ins, "", outs)
    BY <2>1, HandlerParts DEF server_control, IsMethod, Void
  <2>4. IsList(ins, 0) /\ IsOuts(outs, 0)
    BY <2>1 DEF IsList, IsOuts, Zero
  <2> QED BY <2>2, <2>3, <2>4, SameMethod
<1>30. Agree("AgmSessionStart")
  <2>1. PICK ins, outs : ins = <<>> /\ outs = <<>>
    OBVIOUS
  <2>2. IsMethod(DBusClient["AgmSessionStart"], "", ins, "", outs)
    BY <2>1, ClientParts DEF client_control, IsMethod, Void
  <2>3. IsMethod(DBusServer["AgmSessionStart"], "", ins, "", outs)
    BY <2>1, HandlerParts DEF server_control, IsMethod, Void
  <2>4. IsList(ins, 0) /\ IsOuts(outs, 0)
    BY <2>1 DEF IsList, IsOuts, Zero
  <2> QED BY <2>2, <2>3, <2>4, SameMethod
<1>31. Agree("AgmSessionPrepare")
  <2>1. PICK ins, outs : ins = <<>> /\ outs = <<>>
    OBVIOUS
  <2>2. IsMethod(DBusClient["AgmSessionPrepare"], "", ins, "", outs)
    BY <2>1, ClientParts DEF client_control, IsMethod, Void
  <2>3. IsMethod(DBusServer["AgmSessionPrepare"], "", ins, "", outs)
    BY <2>1, HandlerParts DEF server_control, IsMethod, Void
  <2>4. IsList(ins, 0) /\ IsOuts(outs, 0)
    BY <2>1 DEF IsList, IsOuts, Zero
  <2> QED BY <2>2, <2>3, <2>4, SameMethod
<1>32. Agree("AgmSessionClose")
  <2>1. PICK ins, outs : ins = <<>> /\ outs = <<>>
    OBVIOUS
  <2>2. IsMethod(DBusClient["AgmSessionClose"], "", ins, "", outs)
    BY <2>1, ClientParts DEF client_open, IsMethod, Void
  <2>3. IsMethod(DBusServer["AgmSessionClose"], "", ins, "", outs)
    BY <2>1, HandlerParts DEF server_open, IsMethod, Void
  <2>4. IsList(ins, 0) /\ IsOuts(outs, 0)
    BY <2>1 DEF IsList, IsOuts, Zero
  <2> QED BY <2>2, <2>3, <2>4, SameMethod
<1>33. Agree("AgmSessionOpen")
  <2>1. PICK ins, outs : ins = <<"session_id">> /\ outs = <<"obj_path">>
    OBVIOUS
  <2>2. IsMethod(DBusClient["AgmSessionOpen"], "u", ins, "o", outs)
    BY <2>1, ClientParts DEF client_open, IsMethod
  <2>3. IsMethod(DBusServer["AgmSessionOpen"], "u", ins, "o", outs)
    BY <2>1, HandlerParts DEF server_open, IsMethod
  <2>4. IsList(ins, 1) /\ IsOuts(outs, 1)
    BY <2>1 DEF IsList, IsOuts, Zero
  <2> QED BY <2>2, <2>3, <2>4, SameMethod
<1> QED BY <1>1, <1>2, <1>3, <1>4, <1>5, <1>6, <1>7, <1>8, <1>9, <1>10, <1>11, <1>12, <1>13,
     <1>14, <1>15, <1>16, <1>17, <1>18, <1>19, <1>20, <1>21, <1>22, <1>23, <1>24, <1>25, <1>26,
     <1>27, <1>28, <1>29, <1>30, <1>31, <1>32, <1>33, ClientParts

-----------------------------------------------------------------------------
(* As many values as fields.                                               *)
LEMMA ReadLength ==
  ASSUME NEW fields, NEW n \in Nat, IsList(fields, n), NEW words, NEW sz, NEW known
  PROVE  IsList(ReadParcel(fields, words, sz, known), n)
<1>1. PICK f : Reading(f, fields, words, sz, known, n)
  BY ReadingSteps DEF IsList
<1>2. PICK s : s = ReadParcel(fields, words, sz, known)
  OBVIOUS
<1>3. PICK g : g = [k \in 1..n |-> <<fields[k].v, f[k].v>>]
  OBVIOUS
<1>4. DOMAIN g = 1..n /\ Len(g) = n
  BY <1>3
<1>5. s = g
  BY <1>1, <1>2, <1>3 DEF Reading
<1> QED BY <1>2, <1>4, <1>5 DEF IsList

(* What is known of a call that a client makes.                            *)
MadeCall(c) ==
  /\ c.via \in {"binder", "dbus"} /\ c.out \in {"done", "failed", "nomem"}
  /\ c.via = "dbus" => c.code \in DOMAIN DBusClient
  /\ c.via = "binder" =>
       /\ c.code \in DOMAIN Bp /\ SizesFit(SizesOf(c)) /\ Sized(SizesOf(c))
       /\ c.code \in {"GET_AIF_LIST", "GET_TAG_MODULE_INFO"} => GivenWhole(SizesOf(c))
       /\ c.out = "failed" => c.code # "EVENT"
       /\ c.out = "nomem" => c.code \in AllocatingCases

(* The sizes of a call are those the client passed.                        *)
LEMMA CallsMade ==
  ASSUME NEW c \in WireCalls
  PROVE  MadeCall(c)
<1>1. /\ c.via \in {"binder", "dbus"} /\ c.out \in {"done", "failed", "nomem"} /\ c.size \in WireSizes
      /\ c.given \in UNION {0..n : n \in WireSizes}
      /\ c.code \in (IF c.via = "binder" THEN DOMAIN Bp ELSE DOMAIN DBusClient)
      /\ c.given \in (IF c.code \in Partial THEN 0..c.size ELSE {c.size})
      /\ c.out \in Outcomes(c.via, c.code)
  BY DEF WireCalls
<1>2. c.size \in Nat \ {0} /\ c.given \in Nat
  <2>1. c.size \in Nat \ {0}
    BY <1>1, WireAssumption
  <2>2. c.given \in 0..c.size \/ c.given = c.size
    BY <1>1
  <2> QED BY <2>1, <2>2
<1>3. PICK sz : sz = SizesOf(c)
  OBVIOUS
<1>4. /\ sz["size"] = c.size /\ sz["given"] = c.given /\ sz["no_size"] = 0
      /\ sz["sizeof_session"] = 3 /\ sz["sizeof_media"] = 2 /\ sz["sizeof_buffer"] = 1
  BY <1>3 DEF SizesOf
<1>5. SizesFit(sz) /\ Sized(sz)
  BY <1>2, <1>4 DEF SizesFit, SizeNames, Sized
<1>6. ASSUME c.code \in {"GET_AIF_LIST", "GET_TAG_MODULE_INFO"} PROVE GivenWhole(sz)
  <2>1. c.code \notin Partial
    BY <1>6 DEF Partial
  <2>2. c.given = c.size
    BY <1>1, <2>1
  <2>3. sz["given"] = sz["size"]
    BY <1>4, <2>2
  <2> QED BY <2>3 DEF GivenWhole, WriteWidth, Width, Blob
<1>7. /\ c.out = "failed" => c.code # "EVENT"
      /\ c.out = "nomem" => c.code \in AllocatingCases
  BY <1>1 DEF Outcomes
<1>8. /\ c.via = "dbus" => c.code \in DOMAIN DBusClient
      /\ c.via = "binder" => c.code \in DOMAIN Bp
  BY <1>1
<1> QED BY <1>1, <1>3, <1>5, <1>6, <1>7, <1>8 DEF MadeCall

(* What is on its way belongs to the call.                                 *)
OnItsWay ==
  /\ step = "sent" /\ call.via = "binder" =>
       wire = WriteParcel(Bp[call.code].sends, SizesOf(call))
  /\ step = "sent" /\ call.via = "dbus" => wire = DBusClient[call.code].call
  /\ step = "served" /\ call.via = "binder" => wire = WriteParcel(Bn[call.code][call.out], SizesOf(call))
  /\ step = "served" /\ call.via = "dbus" =>
       \/ wire.sig \in {"error", NoReply}
       \/ call.out = "done" /\ wire = DBusClient[call.code].reply

CallsInv ==
  /\ step \in {"idle", "sent", "served", "returned"}
  /\ step # "idle" => MadeCall(call)
  /\ OnItsWay /\ ArgumentsArrive /\ NoFalseSuccess

LEMMA TransactKeeps ==
  ASSUME CallsInv, transact
  PROVE  CallsInv'
<1>1. step' = "sent" /\ call' \in WireCalls
  BY DEF transact
<1>2. MadeCall(call)'
  BY <1>1, CallsMade
<1>3. OnItsWay'
  BY <1>1 DEF transact, OnItsWay
<1>4. ArgumentsArrive' /\ NoFalseSuccess'
  BY <1>1 DEF ArgumentsArrive, NoFalseSuccess
<1> QED BY <1>1, <1>2, <1>3, <1>4 DEF CallsInv

LEMMA OnTransactKeeps ==
  ASSUME CallsInv, onTransact
  PROVE  CallsInv'
<1>1. /\ step = "sent" /\ step' = "served" /\ call.via = "binder" /\ UNCHANGED call
      /\ wire = WriteParcel(Bp[call.code].sends, SizesOf(call)) /\ MadeCall(call)
  BY DEF CallsInv, OnItsWay, onTransact
<1>2. OnItsWay'
  BY <1>1 DEF onTransact, OnItsWay
<1>3. ArgumentsArrive'
  <2>1. SUFFICES ASSUME call.out # "nomem"
                 PROVE  /\ \A i \in DOMAIN got' : got'[i][1] = got'[i][2]
                        /\ Len(got') = Len(Bn[call.code].reads)
    BY <1>1 DEF ArgumentsArrive
  <2>2. PICK c, sz, reads : c = call.code /\ sz = SizesOf(call) /\ reads = Bn[c].reads
    OBVIOUS
  <2>3. got' = ReadParcel(reads, WriteParcel(Bp[c].sends, sz), sz, {})
    BY <1>1, <2>1, <2>2 DEF onTransact
  <2>4. Arrives(c, sz)
    BY <1>1, <2>2, CallsArrive DEF MadeCall
  <2>5. PICK r \in Nat : IsList(reads, r) /\ ReadBack(reads, WriteParcel(Bp[c].sends, sz), r, sz, {})
    BY <2>2, <2>4 DEF Arrives
  <2>6. IsList(got', r)
    BY <2>3, <2>5, ReadLength
  <2>7. \A i \in 1..r : got'[i] = <<reads[i].v, reads[i].v>>
    BY <2>3, <2>5 DEF ReadBack
  <2>8. \A i \in DOMAIN got' : got'[i][1] = got'[i][2]
    BY <2>6, <2>7 DEF IsList
  <2>9. Len(got') = Len(reads)
    BY <2>5, <2>6 DEF IsList
  <2> QED BY <2>2, <2>8, <2>9
<1>4. NoFalseSuccess'
  BY <1>1 DEF NoFalseSuccess
<1> QED BY <1>1, <1>2, <1>3, <1>4 DEF CallsInv

LEMMA ReplyReadKeeps ==
  ASSUME CallsInv, reply_read
  PROVE  CallsInv'
<1>1. /\ step = "served" /\ step' = "returned" /\ call.via = "binder" /\ UNCHANGED <<call, wire, got>>
      /\ wire = WriteParcel(Bn[call.code][call.out], SizesOf(call)) /\ MadeCall(call)
  BY DEF CallsInv, OnItsWay, reply_read
<1>2. OnItsWay' /\ ArgumentsArrive'
  BY <1>1 DEF OnItsWay, ArgumentsArrive
<1>3. PICK c, sz, all : c = call.code /\ sz = SizesOf(call) /\ all = AsTaken(c, call.out, sz)
  OBVIOUS
<1>4. ret' = IF c = "READ" /\ all[1][2] = "rc" /\ call.out # "done" THEN <<all[1]>> ELSE all
  BY <1>1, <1>3 DEF reply_read, AsTaken
<1>5. c \in DOMAIN Bp /\ SizesFit(sz) /\ Sized(sz)
      /\ (c \in {"GET_AIF_LIST", "GET_TAG_MODULE_INFO"} => GivenWhole(sz))
      /\ (call.out = "failed" => c # "EVENT") /\ (call.out = "nomem" => c \in AllocatingCases)
      /\ call.out \in {"done", "failed", "nomem"}
  BY <1>1, <1>3 DEF MadeCall
<1>6. \A k, r : r \in Nat /\ IsList(Bp[c].takes, r) => IsList(all, r)
  BY <1>3, ReadLength DEF AsTaken
<1>7. ASSUME call.out = "done" PROVE NoFalseSuccess'
  <2>1. Taken(c, sz)
    BY <1>5, CallsAnswered
  <2>2. PICK r \in Nat : /\ IsList(Bp[c].takes, r)
                         /\ \A k \in 1..r : /\ Bp[c].takes[k].v # Zero
                                            /\ all[k] = <<Bp[c].takes[k].v, Bp[c].takes[k].v>>
    BY <1>3, <1>7, <2>1 DEF Taken
  <2>3. ret' = all /\ IsList(all, r)
    BY <1>4, <1>6, <1>7, <2>2
  <2>4. \A i \in DOMAIN ret' : ret'[i][2] = ret'[i][1] /\ ret'[i][2] # Zero
    BY <2>2, <2>3 DEF IsList
  <2> QED BY <1>1, <1>7, <2>4 DEF NoFalseSuccess
(* An error that is told is not taken for a success.                       *)
<1>8. ASSUME NEW k \in Nat, call.out # "done", ToldAt(c, call.out, sz, k), c = "READ" => k = 1
      PROVE  NoFalseSuccess'
  <2>1. PICK r \in Nat : k \in 1..r /\ IsList(Bp[c].takes, r) /\ all[k] = <<"rc", "rc">>
    BY <1>3, <1>8 DEF ToldAt
  <2>2. \E i \in DOMAIN ret' : ret'[i] = <<"rc", "rc">>
    <3>1. CASE c = "READ"
      <4>1. all[1] = <<"rc", "rc">>
        BY <1>8, <2>1, <3>1
      <4>2. ret' = <<all[1]>>
        BY <1>4, <1>8, <3>1, <4>1
      <4>3. 1 \in DOMAIN ret' /\ ret'[1] = all[1]
        BY <4>2
      <4> QED BY <4>1, <4>3
    <3>2. CASE c # "READ"
      <4>1. ret' = all /\ IsList(all, r)
        BY <1>4, <1>6, <2>1, <3>2
      <4> QED BY <2>1, <4>1 DEF IsList
    <3> QED BY <3>1, <3>2
  <2>3. ~Succeeded'
    BY <1>1, <1>8, <2>2 DEF Succeeded
  <2> QED BY <2>3 DEF NoFalseSuccess
<1>9. ASSUME NEW o \in {"failed", "nomem"}, call.out = o, ErrorTold(c, o, sz) PROVE NoFalseSuccess'
  <2>1. CASE c = "READ"
    BY <1>5, <1>8, <1>9, <2>1, ReadReply
  <2>2. CASE c # "READ"
    BY <1>8, <1>9, <2>2 DEF ErrorTold
  <2> QED BY <2>1, <2>2
<1>10. ASSUME call.out = "failed" PROVE NoFalseSuccess'
  BY <1>5, <1>9, <1>10, CallsAnswered
<1>11. ASSUME call.out = "nomem" PROVE NoFalseSuccess'
  <2>1. CASE c \in LostErrors
    BY <1>1, <1>3, <1>11, <2>1 DEF NoFalseSuccess
  <2>2. CASE c \notin LostErrors /\ ErrorTold(c, "nomem", sz)
    BY <1>9, <1>11, <2>2
  <2>3. CASE c # "READ" /\ Cut(c, sz)
    <3>1. PICK r \in Nat : 1 \in 1..r /\ IsList(Bp[c].takes, r) /\ Bp[c].takes[1].t = "blob" /\ all[1][2] = Zero
      BY <1>3, <1>11, <2>3 DEF Cut
    <3>2. ret' = all /\ IsList(all, r)
      BY <1>4, <1>6, <2>3, <3>1
    <3>3. 1 \in DOMAIN ret' /\ ret'[1][2] = Zero
      BY <3>1, <3>2 DEF IsList
    <3>4. Crashes'
      BY <1>1, <1>3, <3>1, <3>3 DEF Crashes
    <3> QED BY <3>4 DEF NoFalseSuccess
  <2>4. c \notin LostErrors => ErrorTold(c, "nomem", sz) \/ Cut(c, sz)
    BY <1>5, <1>11, ShortageAnswered
  <2>5. c = "READ" => ErrorTold(c, "nomem", sz)
    BY <1>5, ReadReply DEF ErrorTold
  <2> QED BY <2>1, <2>2, <2>3, <2>4, <2>5
<1>12. NoFalseSuccess'
  BY <1>5, <1>7, <1>10, <1>11
<1> QED BY <1>1, <1>2, <1>12 DEF CallsInv

LEMMA HandlerKeeps ==
  ASSUME CallsInv, server_message_handler
  PROVE  CallsInv'
<1>1. /\ step = "sent" /\ step' = "served" /\ call.via = "dbus" /\ UNCHANGED call
      /\ wire = DBusClient[call.code].call /\ MadeCall(call)
  BY DEF CallsInv, OnItsWay, server_message_handler
<1>2. PICK c, m : c = call.code /\ m = DBusServer[c]
  OBVIOUS
<1>3. Agree(c)
  BY <1>1, <1>2, MethodsAgree DEF MadeCall
<1>4. DBusClient[c] = m /\ wire = m.call
  BY <1>1, <1>2, <1>3 DEF Agree
<1>5. got' = [i \in DOMAIN m.call.args |-> <<m.call.args[i], wire.args[i]>>]
  BY <1>2, <1>4 DEF server_message_handler
<1>6. PICK n \in Nat : IsList(m.call.args, n)
  BY <1>3, <1>4 DEF Agree
<1>7. PICK args : args = m.call.args
  OBVIOUS
<1>8. got' = [i \in 1..n |-> <<args[i], args[i]>>]
  BY <1>4, <1>5, <1>6, <1>7 DEF IsList
<1>9. DOMAIN got' = 1..n /\ Len(got') = n
  BY <1>8
<1>10. \A i \in DOMAIN got' : got'[i][1] = got'[i][2]
  BY <1>8, <1>9
<1>11. Len(args) = n
  BY <1>6, <1>7 DEF IsList
<1>12. Len(got') = Len(DBusServer[call.code].call.args)
  BY <1>2, <1>7, <1>9, <1>11
<1>13. ArgumentsArrive'
  BY <1>1, <1>10, <1>12 DEF ArgumentsArrive
<1>14. wire' = IF call.out # "done" THEN Message("error", <<>>)
               ELSE IF c \in agm_dbus_remove_interface_crashes THEN Message(NoReply, <<>>)
               ELSE m.reply
  BY <1>2, <1>4 DEF server_message_handler
<1>15. \/ wire'.sig \in {"error", NoReply}
       \/ call.out = "done" /\ wire' = DBusClient[c].reply
  BY <1>4, <1>14 DEF Message
<1>16. OnItsWay'
  BY <1>1, <1>2, <1>15 DEF OnItsWay
<1>17. NoFalseSuccess'
  BY <1>1 DEF NoFalseSuccess
<1> QED BY <1>1, <1>13, <1>16, <1>17 DEF CallsInv

LEMMA ProxyCallKeeps ==
  ASSUME CallsInv, g_dbus_proxy_call_sync
  PROVE  CallsInv'
<1>1. /\ step = "served" /\ step' = "returned" /\ call.via = "dbus" /\ UNCHANGED <<call, wire, got>>
      /\ MadeCall(call)
      /\ \/ wire.sig \in {"error", NoReply}
         \/ call.out = "done" /\ wire = DBusClient[call.code].reply
  BY DEF CallsInv, OnItsWay, g_dbus_proxy_call_sync
<1>2. OnItsWay' /\ ArgumentsArrive'
  BY <1>1 DEF OnItsWay, ArgumentsArrive
<1>3. CASE wire.sig \in {"error", NoReply}
  <2>1. ret' = <<<<"rc", "rc">>>>
    BY <1>3 DEF g_dbus_proxy_call_sync
  <2>2. 1 \in DOMAIN ret' /\ ret'[1] = <<"rc", "rc">>
    BY <2>1
  <2>3. ~Succeeded'
    BY <1>1, <2>2 DEF Succeeded
  <2> QED BY <1>1, <1>2, <2>3 DEF CallsInv, NoFalseSuccess
<1>4. CASE wire.sig \notin {"error", NoReply}
  <2>1. PICK c, m, outs : c = call.code /\ m = DBusClient[c] /\ outs = m.reply.args
    OBVIOUS
  <2>2. call.out = "done" /\ wire = m.reply
    BY <1>1, <1>4, <2>1
  <2>3. PICK n \in Nat : IsOuts(outs, n)
    BY <1>1, <2>1, MethodsAgree DEF MadeCall, Agree
  <2>4. DOMAIN outs = 1..n /\ \A k \in 1..n : outs[k] # Zero
    BY <2>3 DEF IsOuts, IsList
  <2>5. PICK t : t = [i \in 1..n |-> <<outs[i], outs[i]>>]
    OBVIOUS
  <2>6. [i \in DOMAIN m.reply.args |->
           <<m.reply.args[i], IF wire.sig = m.reply.sig THEN wire.args[i] ELSE Torn>>] = t
    BY <2>1, <2>2, <2>4, <2>5
  <2>7. PICK s : s = <<<<"rc", Zero>>>>
    OBVIOUS
  <2>8. ret' = s \o t
    BY <1>4, <2>1, <2>6, <2>7 DEF g_dbus_proxy_call_sync
  <2>9. PICK S : S = {<<"rc", Zero>>} \cup {<<outs[i], outs[i]>> : i \in 1..n}
    OBVIOUS
  <2>10. t \in Seq(S)
    BY <2>5, <2>9
  <2>11. s \in Seq(S)
    BY <2>7, <2>9
  <2>12. s \o t \in Seq(S)
    BY <2>10, <2>11
  <2>13. \A i \in DOMAIN ret' : ret'[i] \in S
    BY <2>8, <2>12
  <2>14. \A x \in S : x[2] \in {x[1], Zero} /\ (x[2] = Zero => x[1] = "rc")
    BY <2>4, <2>9
  <2>15. \A i \in DOMAIN ret' : /\ ret'[i][2] \in {ret'[i][1], Zero}
                                /\ ret'[i][2] = Zero => ret'[i][1] = "rc"
    BY <2>13, <2>14
  <2>16. NoFalseSuccess'
    BY <1>1, <2>2, <2>15 DEF NoFalseSuccess
  <2> QED BY <1>1, <1>2, <2>16 DEF CallsInv
<1> QED BY <1>3, <1>4

(* CallsInv is inductive: what is on its way is what the tables say of the *)
(* call, so the two sides can be compared when it is read.                 *)
THEOREM CallsInductive == IpcCallsSpec => []CallsInv
<1>1. IpcCallsInit => CallsInv
  BY DEF IpcCallsInit, CallsInv, OnItsWay, ArgumentsArrive, NoFalseSuccess
<1>2. CallsInv /\ [IpcCallsNext]_wvars => CallsInv'
  <2> SUFFICES ASSUME CallsInv, [IpcCallsNext]_wvars PROVE CallsInv'
    OBVIOUS
  <2>1. CASE transact
    BY <2>1, TransactKeeps
  <2>2. CASE onTransact
    BY <2>2, OnTransactKeeps
  <2>3. CASE reply_read
    BY <2>3, ReplyReadKeeps
  <2>4. CASE server_message_handler
    BY <2>4, HandlerKeeps
  <2>5. CASE g_dbus_proxy_call_sync
    BY <2>5, ProxyCallKeeps
  <2>6. CASE Returned
    BY <2>6 DEF Returned, CallsInv, OnItsWay, ArgumentsArrive, NoFalseSuccess
  <2>7. CASE UNCHANGED wvars
    BY <2>7 DEF wvars, CallsInv, OnItsWay, ArgumentsArrive, NoFalseSuccess, Succeeded, Crashes
  <2> QED BY <2>1, <2>2, <2>3, <2>4, <2>5, <2>6, <2>7 DEF IpcCallsNext
<1> QED BY <1>1, <1>2, PTL DEF IpcCallsSpec

(* What the service gets for each of its parameters is what the client     *)
(* passed for it, for every call and every size, over the binder and over  *)
(* D-Bus (onTransact of ipc_proxy_server.cpp, the handlers of              *)
(* agm_server_wrapper_dbus.cpp).                                           *)
THEOREM ArgumentsReachService == IpcCallsSpec => []ArgumentsArrive
BY CallsInductive, PTL DEF CallsInv

(* A client is told of a success only if the service has done what it      *)
(* asked for, save for the calls that lose the error of an allocation      *)
(* (the cases of ipc_proxy_server.cpp that return -ENOMEM).                *)
THEOREM SuccessIsTrue == IpcCallsSpec => []NoFalseSuccess
BY CallsInductive, PTL DEF CallsInv
=============================================================================
