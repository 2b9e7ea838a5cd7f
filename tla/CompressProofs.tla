--------------------------- MODULE CompressProofs ---------------------------
(***************************************************************************)
(* The compress plugin for every fragment size, every number of fragments  *)
(* and of threads: what a drain, a close and the count of the bytes        *)
(* available can rely on, and what the client has to keep to for it.       *)
(***************************************************************************)
EXTENDS CompressPlugin, SequenceTheorems, FiniteSetTheorems, TLAPS

(* What the client keeps to, in the theorems that need it.                 *)
OneDrains == \A t, u \in Threads : "drain" \in Calls[t] /\ "drain" \in Calls[u] => t = u
OneMoves ==
  \A t, u \in Threads : Calls[t] \cap {"write", "read"} # {} /\ Calls[u] \cap {"write", "read"} # {}
                          => t = u
NeverCalls(op) == \A t \in Threads : op \notin Calls[t]

-----------------------------------------------------------------------------
(* The invariants.                                                         *)

TypeInv == TypeOK /\ Bufs(queue) <= Fragments

StopSteps == {"stop_eos", "stop_poll", "stop_session", "stop_reset"}
CloseSteps == {"close_session", "close_eos", "close_free"}
Storing(t) == pc[t] \in {"write_store", "read_store"}

(* A thread is where one of the calls it makes has taken it.               *)
CalledInv ==
  \A t \in Threads :
    /\ pc[t] \in StopSteps => "stop" \in Calls[t]
    /\ pc[t] \in {"drain_eos", "drain_wait", "drain_woken"} => "drain" \in Calls[t]
    /\ Charging(t) => Calls[t] \cap {"write", "read"} # {} /\ size[t] \in 0..Total
                      /\ total_buf_size = Total
    /\ pc[t] \in CloseSteps => ~registered

(* eos is set from the drain's command to its signal.                      *)
ArmedInv == \A t \in Threads : pc[t] \in {"drain_eos", "drain_wait"} => eos

(* A thread that closes is the last, and the callback is gone.             *)
ClosingInv ==
  /\ \A t \in Threads : pc[t] \in CloseSteps =>
       ~freed /\ cb.step = "idle" /\ \A u \in Threads \ {t} : pc[u] = "idle"
  /\ freed => ~registered /\ cb.step = "idle" /\ \A t \in Threads : pc[t] = "idle"

(* The shape of a delivery.                                                *)
DeliveryInv ==
  /\ cb.step = "eos" => cb.event = "EOS_RENDERED"
  /\ cb.step = "entry" => cb.event # "none"
  /\ cb.step = "store" => cb.event \in {"WRITE_DONE", "READ_DONE"}

(* An end of stream on its way, in the DSP, as an event or in delivery, is *)
(* the only one, and a drain waits for it.                                 *)
EosQueued == {i \in DOMAIN queue : queue[i] = "eos"}
EosRaised == {i \in DOMAIN events : events[i] = "EOS_RENDERED"}
EosDelivered == cb.event = "EOS_RENDERED" /\ cb.step \in {"entry", "eos"}

EosInv ==
  /\ EosQueued # {} \/ EosRaised # {} \/ EosDelivered => \E t \in Threads : pc[t] = "drain_wait"
  /\ \A i, j \in EosQueued : i = j
  /\ \A i, j \in EosRaised : i = j
  /\ ~(EosQueued # {} /\ EosRaised # {}) /\ ~(EosQueued # {} /\ EosDelivered)
  /\ ~(EosRaised # {} /\ EosDelivered)

(* priv->lock has one holder.                                              *)
LockInv ==
  /\ \A t, u \in Threads : Storing(t) /\ Storing(u) => t = u
  /\ \A t \in Threads : Storing(t) => cb.step \notin {"store", "eos"}

(* Before the parameters are set nothing moves; a capture stream takes no  *)
(* commands.                                                               *)
SetUpInv ==
  /\ total_buf_size = 0 => /\ bytes_avail = 0 /\ queue = <<>> /\ filled = 0 /\ events = <<>>
                           /\ cb.step = "idle" /\ cb.event = "none" /\ sess # "STARTED"
  /\ dir = "TX" => queue = <<>>
  /\ \A t \in Threads : pc[t] = "drain_eos" => total_buf_size # 0 /\ dir = "RX"

(* What was loaded under priv->lock is what is there, but for a stop.      *)
LoadedInv ==
  /\ \A t \in Threads : Storing(t) => reg[t] = bytes_avail
  /\ cb.step = "store" => cb.val = bytes_avail + FragSize

ExactInv ==
  total_buf_size # 0 /\ registered => bytes_avail = (Held + Uncharged - Uncredited) * FragSize

(* v bytes are whole fragments and pay for the transfer in hand, or for    *)
(* one of as many bytes as the client was last told.                       *)
Covers(v) ==
  /\ \E n \in Nat : v = n * FragSize
  /\ \A t \in Threads :
       /\ pc[t] \in {"write_load", "read_load"} => BufCnt(size[t]) * FragSize <= v
       /\ ~Charging(t) /\ dir = "RX" /\ "write" \in Calls[t] => Min2(size[t], total_buf_size) <= v

CoverInv ==
  /\ Covers(bytes_avail)
  /\ cb.step = "store" => Covers(cb.val)
  /\ \A t \in Threads : Storing(t) =>
       BufCnt(size[t]) * FragSize <= reg[t] /\ \E n \in Nat : reg[t] = n * FragSize

-----------------------------------------------------------------------------
(* Whole fragments.                                                        *)

LEMMA DivMod ==
  ASSUME NEW F \in Nat \ {0}, NEW b \in Int
  PROVE  b \div F \in Int /\ b % F \in 0..(F - 1) /\ b = F * (b \div F) + (b % F)
  BY Z3

LEMMA QuotientUnique ==
  ASSUME NEW F \in Nat \ {0}, NEW a \in Int, NEW b \in Int,
         NEW r \in 0..(F - 1), NEW q \in 0..(F - 1), F * a + r = F * b + q
  PROVE  a = b
<1>1. CASE a < b
  <2>1. F * (b - a) >= F /\ F * b - F * a = F * (b - a)
    BY <1>1
  <2> QED BY <2>1
<1>2. CASE b < a
  <2>1. F * (a - b) >= F /\ F * a - F * b = F * (a - b)
    BY <1>2
  <2> QED BY <2>1
<1> QED BY <1>1, <1>2

LEMMA Multiples ==
  ASSUME NEW a \in Int, NEW b \in Int
  PROVE  (a <= b <=> a * FragSize <= b * FragSize) /\ a * FragSize \in Int
  BY CompressAssumption DEF CompressAssumption

(* The number of fragments charged is the number used, the least that hold *)
(* the bytes.                                                              *)
LEMMA UsedFragments ==
  ASSUME NEW bytes \in Nat
  PROVE  /\ Used(bytes) \in Nat /\ BufCnt(bytes) = Used(bytes)
         /\ bytes <= Used(bytes) * FragSize /\ Used(bytes) * FragSize <= bytes + FragSize - 1
<1> DEFINE F == FragSize
           U == (bytes + F - 1) \div F
           r == (bytes + F - 1) % F
           V == bytes \div F
           s == bytes % F
<1>0. F \in Nat \ {0} /\ bytes + F - 1 \in Int
  BY CompressAssumption DEF CompressAssumption
<1>1. U \in Int /\ r \in 0..(F - 1) /\ bytes + F - 1 = F * U + r
  BY <1>0, DivMod
<1>2. V \in Int /\ s \in 0..(F - 1) /\ bytes = F * V + s
  BY <1>0, DivMod
<1>3. Used(bytes) = U /\ BufCnt(bytes) = V + (IF s # 0 THEN 1 ELSE 0)
  BY DEF Used, BufCnt
<1> HIDE DEF F, U, V, r, s
<1>4. U * F = F * U
  BY <1>0, <1>1
<1>5. bytes <= U * F /\ U * F <= bytes + F - 1
  BY <1>0, <1>1, <1>4
<1>6. U \in Nat
  <2>1. U < 0 => F * U <= 0 - F
    BY <1>0, <1>1
  <2> QED BY <1>0, <1>1, <2>1
<1>7. U = V + (IF s # 0 THEN 1 ELSE 0)
  <2>1. CASE s = 0
    <3>1. F * U + r = F * V + (F - 1)
      BY <1>0, <1>1, <1>2, <2>1
    <3> QED BY <1>0, <1>1, <1>2, <2>1, <3>1, QuotientUnique
  <2>2. CASE s # 0
    <3>1. F * (V + 1) = F * V + F
      BY <1>0, <1>2
    <3>2. F * U + r = F * (V + 1) + (s - 1)
      BY <1>0, <1>1, <1>2, <3>1
    <3> QED BY <1>0, <1>1, <1>2, <2>2, <3>2, QuotientUnique
  <2> QED BY <2>1, <2>2
<1> QED BY <1>3, <1>5, <1>6, <1>7 DEF F

LEMMA UsedFits ==
  ASSUME NEW bytes \in Nat, NEW n \in Nat, bytes <= n * FragSize
  PROVE  Used(bytes) <= n
<1>1. Used(bytes) \in Nat /\ Used(bytes) * FragSize <= bytes + FragSize - 1
  BY UsedFragments
<1>2. (n + 1) * FragSize = n * FragSize + FragSize /\ n * FragSize \in Nat /\ FragSize \in Nat
  BY CompressAssumption DEF CompressAssumption
<1>3. ~(n + 1 <= Used(bytes))
  <2>1. n + 1 <= Used(bytes) => (n + 1) * FragSize <= Used(bytes) * FragSize
    BY <1>1, Multiples
  <2> QED BY <1>1, <1>2, <2>1, Multiples
<1> QED BY <1>1, <1>3

-----------------------------------------------------------------------------
(* Counting in a queue.                                                    *)

Positions(q, X) == {i \in DOMAIN q : q[i] \in X}

LEMMA PositionsFinite ==
  ASSUME NEW S, NEW q \in Seq(S), NEW X
  PROVE  IsFiniteSet(Positions(q, X)) /\ Cardinality(Positions(q, X)) \in Nat
<1>1. Len(q) \in Nat /\ DOMAIN q = 1..Len(q)
  OBVIOUS
<1>2. IsFiniteSet(1..Len(q))
  BY <1>1, FS_Interval
<1>3. Positions(q, X) \in SUBSET (1..Len(q))
  BY <1>1 DEF Positions
<1> QED BY <1>2, <1>3, FS_Subset, FS_CardinalityType

LEMMA AppendCount ==
  ASSUME NEW S, NEW q \in Seq(S), NEW X, NEW e \in S
  PROVE  Cardinality(Positions(Append(q, e), X)) =
           Cardinality(Positions(q, X)) + (IF e \in X THEN 1 ELSE 0)
<1> DEFINE r == Append(q, e)
<1>1. /\ Len(q) \in Nat /\ DOMAIN q = 1..Len(q) /\ DOMAIN r = 1..(Len(q) + 1)
      /\ r[Len(q) + 1] = e /\ \A i \in 1..Len(q) : r[i] = q[i]
  BY AppendProperties, LenProperties
<1> HIDE DEF r
<1>2. Positions(r, X) = IF e \in X THEN Positions(q, X) \cup {Len(q) + 1} ELSE Positions(q, X)
  BY <1>1 DEF Positions
<1>3. Len(q) + 1 \notin Positions(q, X)
  BY <1>1 DEF Positions
<1>4. IsFiniteSet(Positions(q, X)) /\ Cardinality(Positions(q, X)) \in Nat
  BY PositionsFinite
<1>5. Cardinality(Positions(q, X) \cup {Len(q) + 1}) = Cardinality(Positions(q, X)) + 1
  BY <1>3, <1>4, FS_AddElement
<1>6. Cardinality(Positions(r, X)) = Cardinality(Positions(q, X)) + (IF e \in X THEN 1 ELSE 0)
  BY <1>2, <1>4, <1>5
<1> QED BY <1>6 DEF r

LEMMA TailCount ==
  ASSUME NEW S, NEW q \in Seq(S), NEW X, q # <<>>
  PROVE  Cardinality(Positions(Tail(q), X)) =
           Cardinality(Positions(q, X)) - (IF Head(q) \in X THEN 1 ELSE 0)
<1> DEFINE r == Tail(q)
<1>1. /\ Len(q) \in Nat /\ Len(q) # 0 /\ DOMAIN q = 1..Len(q) /\ r \in Seq(S)
      /\ DOMAIN r = 1..(Len(q) - 1) /\ \A i \in 1..(Len(q) - 1) : r[i] = q[i + 1]
      /\ Head(q) = q[1]
  BY EmptySeq, LenProperties
<1> DEFINE P == Positions(r, X)
           Q == Positions(q, X) \ {1}
           f == [i \in P |-> i + 1]
<1>2. \A i : i \in P <=> i \in 1..(Len(q) - 1) /\ q[i + 1] \in X
  BY <1>1 DEF Positions
<1>3. \A i : i \in Q <=> i \in 1..Len(q) /\ i # 1 /\ q[i] \in X
  BY <1>1 DEF Positions
<1> HIDE DEF P, Q
<1>4. f \in Injection(P, Q)
  BY <1>1, <1>2, <1>3 DEF Injection, IsInjective
<1>5. f \in Surjection(P, Q)
  <2>1. ASSUME NEW j \in Q PROVE \E i \in P : f[i] = j
    <3>1. j - 1 \in P
      BY <1>1, <1>2, <1>3, <2>1
    <3>2. f[j - 1] = j
      BY <1>1, <1>3, <3>1
    <3> QED BY <3>1, <3>2
  <2> QED BY <1>4, <2>1 DEF Surjection, Injection
<1>6. ExistsBijection(P, Q)
  BY <1>4, <1>5 DEF ExistsBijection, Bijection
<1>7. Cardinality(P) = Cardinality(Q)
  <2>1. IsFiniteSet(P)
    BY <1>1, PositionsFinite DEF P
  <2> QED BY <1>6, <2>1, FS_Bijection
<1>8. 1 \in Positions(q, X) <=> Head(q) \in X
  BY <1>1 DEF Positions
<1>9. IsFiniteSet(Positions(q, X)) /\ Cardinality(Positions(q, X)) \in Nat
  BY PositionsFinite
<1>10. Cardinality(Q) = Cardinality(Positions(q, X)) - (IF Head(q) \in X THEN 1 ELSE 0)
  <2>1. Cardinality(Q) = IF 1 \in Positions(q, X) THEN Cardinality(Positions(q, X)) - 1
                         ELSE Cardinality(Positions(q, X))
    BY <1>9, FS_RemoveElement DEF Q
  <2> QED BY <1>8, <1>9, <2>1
<1> QED BY <1>7, <1>10 DEF P, r

LEMMA ConcatCount ==
  ASSUME NEW S, NEW q \in Seq(S), NEW X, NEW e \in S, NEW n \in Nat
  PROVE  LET r == q \o [i \in 1..n |-> e] IN
         /\ r \in Seq(S)
         /\ Positions(r, X) = Positions(q, X) \cup (IF e \in X THEN (Len(q) + 1)..(Len(q) + n) ELSE {})
         /\ Cardinality(Positions(r, X)) = Cardinality(Positions(q, X)) + (IF e \in X THEN n ELSE 0)
<1> DEFINE b == [i \in 1..n |-> e]
           r == q \o b
           N == (Len(q) + 1)..(Len(q) + n)
<1>1. b \in Seq(S) /\ Len(b) = n /\ \A i \in 1..n : b[i] = e
  OBVIOUS
<1>2. Len(q) \in Nat /\ DOMAIN q = 1..Len(q)
  OBVIOUS
<1> HIDE DEF b
<1>3. /\ r \in Seq(S) /\ Len(r) = Len(q) + n
      /\ \A i \in 1..(Len(q) + n) : r[i] = IF i <= Len(q) THEN q[i] ELSE e
  <2>1. /\ r \in Seq(S) /\ Len(r) = Len(q) + n
        /\ \A i \in 1..(Len(q) + n) : r[i] = IF i <= Len(q) THEN q[i] ELSE b[i - Len(q)]
    BY <1>1, ConcatProperties
  <2>2. \A i \in 1..(Len(q) + n) : ~(i <= Len(q)) => i - Len(q) \in 1..n
    BY <1>2
  <2> QED BY <1>1, <2>1, <2>2
<1>4. DOMAIN r = 1..(Len(q) + n)
  BY <1>3, LenProperties
<1> HIDE DEF r
<1>5. Positions(r, X) = Positions(q, X) \cup (IF e \in X THEN N ELSE {})
  BY <1>2, <1>3, <1>4 DEF Positions
<1>6. Positions(q, X) \cap N = {}
  BY <1>2 DEF Positions
<1>7. IsFiniteSet(N) /\ Cardinality(N) = n
  <2>1. Len(q) + 1 \in Int /\ Len(q) + n \in Int
    BY <1>2
  <2>2. /\ IsFiniteSet(N)
        /\ Cardinality(N) = IF Len(q) + 1 > Len(q) + n THEN 0 ELSE (Len(q) + n) - (Len(q) + 1) + 1
    BY <2>1, FS_Interval
  <2> QED BY <1>2, <2>2
<1>8. IsFiniteSet(Positions(q, X)) /\ Cardinality(Positions(q, X)) \in Nat
  BY PositionsFinite
<1>9. Cardinality(Positions(q, X) \cup N) = Cardinality(Positions(q, X)) + n
  <2> HIDE DEF N
  <2>1. Cardinality(Positions(q, X) \cup N) =
          Cardinality(Positions(q, X)) + Cardinality(N) - Cardinality(Positions(q, X) \cap N)
    BY <1>7, <1>8, FS_Union
  <2>2. Cardinality(Positions(q, X) \cap N) = 0
    BY <1>6, FS_EmptySet, Zenon
  <2> QED BY <1>7, <1>8, <2>1, <2>2
<1>10. Cardinality(Positions(r, X)) = Cardinality(Positions(q, X)) + (IF e \in X THEN n ELSE 0)
  <2> HIDE DEF N
  <2>1. CASE e \in X
    <3>1. Positions(r, X) = Positions(q, X) \cup N
      BY <1>5, <2>1
    <3>2. Cardinality(Positions(r, X)) = Cardinality(Positions(q, X) \cup N)
      BY <3>1, Zenon
    <3> QED BY <1>9, <2>1, <3>2
  <2>2. CASE e \notin X
    <3>1. Positions(r, X) = Positions(q, X)
      BY <1>5, <2>2
    <3>2. Cardinality(Positions(r, X)) = Cardinality(Positions(q, X))
      BY <3>1, Zenon
    <3> QED BY <1>8, <2>2, <3>2
  <2> QED BY <2>1, <2>2
<1> QED BY <1>3, <1>5, <1>10 DEF r, b

Commands == {"buf", "eos"}

LEMMA BufsCount ==
  ASSUME NEW q \in Seq(Commands)
  PROVE  /\ Bufs(q) \in Nat /\ Bufs(Append(q, "eos")) = Bufs(q)
         /\ q # <<>> => Bufs(Tail(q)) = Bufs(q) - (IF Head(q) = "buf" THEN 1 ELSE 0)
         /\ \A n \in Nat : /\ q \o [i \in 1..n |-> "buf"] \in Seq(Commands)
                           /\ Bufs(q \o [i \in 1..n |-> "buf"]) = Bufs(q) + n
<1>1. ASSUME NEW r PROVE Bufs(r) = Cardinality(Positions(r, {"buf"}))
  <2>1. {i \in DOMAIN r : r[i] = "buf"} = Positions(r, {"buf"})
    BY DEF Positions
  <2> QED BY <2>1, Zenon DEF Bufs
<1>2. "buf" \in Commands /\ "eos" \in Commands /\ "eos" \notin {"buf"} /\ "buf" \in {"buf"}
  BY DEF Commands
<1>3. Bufs(q) \in Nat
  BY <1>1, PositionsFinite
<1>4. Bufs(Append(q, "eos")) = Bufs(q)
  <2>1. Cardinality(Positions(Append(q, "eos"), {"buf"})) = Cardinality(Positions(q, {"buf"})) + 0
    BY <1>2, AppendCount
  <2> QED BY <1>1, <1>3, <2>1
<1>5. ASSUME q # <<>> PROVE Bufs(Tail(q)) = Bufs(q) - (IF Head(q) = "buf" THEN 1 ELSE 0)
  <2>1. Cardinality(Positions(Tail(q), {"buf"})) =
          Cardinality(Positions(q, {"buf"})) - (IF Head(q) \in {"buf"} THEN 1 ELSE 0)
    BY <1>5, TailCount
  <2> QED BY <1>1, <2>1
<1>6. ASSUME NEW n \in Nat
      PROVE  /\ q \o [i \in 1..n |-> "buf"] \in Seq(Commands)
             /\ Bufs(q \o [i \in 1..n |-> "buf"]) = Bufs(q) + n
  <2>1. /\ q \o [i \in 1..n |-> "buf"] \in Seq(Commands)
        /\ Cardinality(Positions(q \o [i \in 1..n |-> "buf"], {"buf"})) =
             Cardinality(Positions(q, {"buf"})) + n
    <3>1. PICK e \in Commands : e = "buf"
      BY <1>2
    <3>2. PICK X : X = {"buf"} /\ e \in X
      BY <3>1
    <3>3. /\ q \o [i \in 1..n |-> e] \in Seq(Commands)
          /\ Cardinality(Positions(q \o [i \in 1..n |-> e], X)) =
               Cardinality(Positions(q, X)) + (IF e \in X THEN n ELSE 0)
      BY ConcatCount
    <3> QED BY <3>1, <3>2, <3>3, Zenon
  <2> QED BY <1>1, <2>1
<1> QED BY <1>3, <1>4, <1>5, <1>6

LEMMA NoBufs == Bufs(<<>>) = 0
<1>1. {i \in DOMAIN <<>> : <<>>[i] = "buf"} = {}
  OBVIOUS
<1> QED BY <1>1, FS_EmptySet, Zenon DEF Bufs

(* What the DSP accepts of a write, and delivers to a read, it has.        *)
LEMMA TransferFits ==
  ASSUME TypeInv, NEW count \in 1..Total
  PROVE  /\ Accepted(count) \in 0..count /\ Used(Accepted(count)) \in Nat
         /\ Bufs(queue) + Used(Accepted(count)) <= Fragments
         /\ Delivered(count) \in 0..count /\ Used(Delivered(count)) \in Nat
         /\ Used(Delivered(count)) <= filled
<1>0. /\ FragSize \in Nat \ {0} /\ Fragments \in Nat /\ Total \in Nat
      /\ Bufs(queue) \in Nat /\ Bufs(queue) <= Fragments /\ filled \in 0..Fragments
  BY CompressAssumption, BufsCount DEF CompressAssumption, Total, TypeInv, TypeOK, Commands
<1>1. ASSUME NEW n \in Nat
      PROVE  /\ Min2(count, n * FragSize) \in 0..count
             /\ Used(Min2(count, n * FragSize)) \in Nat /\ Used(Min2(count, n * FragSize)) <= n
  <2>1. n * FragSize \in Nat
    BY <1>0
  <2>2. Min2(count, n * FragSize) \in 0..count /\ Min2(count, n * FragSize) <= n * FragSize
    BY <1>0, <2>1 DEF Min2
  <2> QED BY <1>0, <2>2, UsedFits, UsedFragments
<1>2. Fragments - Bufs(queue) \in Nat /\ filled \in Nat
  BY <1>0
<1>3. /\ Accepted(count) \in 0..count /\ Used(Accepted(count)) \in Nat
      /\ Used(Accepted(count)) <= Fragments - Bufs(queue)
  BY <1>1, <1>2 DEF Accepted
<1>4. /\ Delivered(count) \in 0..count /\ Used(Delivered(count)) \in Nat
      /\ Used(Delivered(count)) <= filled
  BY <1>1, <1>2 DEF Delivered
<1> QED BY <1>0, <1>3, <1>4

-----------------------------------------------------------------------------
(* Signals.                                                                *)

(* A signal moves one thread that waits for it, when there is one, and no  *)
(* other.                                                                  *)
LEMMA Signals ==
  ASSUME TypeInv, NEW from \in Steps, NEW to \in Steps, NEW f \in Signalled(from, to)
  PROVE  /\ f \in [Threads -> Steps]
         /\ \A u \in Threads : f[u] = pc[u] \/ (pc[u] = from /\ f[u] = to)
         /\ (\A u \in Threads : pc[u] # from) => f = pc
         /\ (\E u \in Threads : pc[u] = from) => \E u \in Threads : pc[u] = from /\ f = [pc EXCEPT ![u] = to]
  BY DEF Signalled, TypeInv, TypeOK

(* A thread goes on while it signals a drain, or a poll.                   *)
LEMMA DrainSignals ==
  ASSUME TypeInv, NEW f \in DrainReleased
  PROVE  /\ f \in [Threads -> Steps]
         /\ \A u \in Threads :
              f[u] = pc[u] \/ (eos /\ pc[u] = "drain_wait" /\ f[u] = "drain_woken")
         /\ eos /\ (\E u \in Threads : pc[u] = "drain_wait") =>
              \E u \in Threads : pc[u] = "drain_wait" /\ f = [pc EXCEPT ![u] = "drain_woken"]
<1>1. "drain_wait" \in Steps /\ "drain_woken" \in Steps
  BY DEF Steps
<1>2. CASE eos
  BY <1>1, <1>2, Signals DEF DrainReleased
<1>3. CASE ~eos
  BY <1>3 DEF DrainReleased, TypeInv, TypeOK
<1> QED BY <1>2, <1>3

LEMMA PollSignals ==
  ASSUME TypeInv, NEW f \in PollReleased
  PROVE  /\ f \in [Threads -> Steps]
         /\ \A u \in Threads : f[u] = pc[u] \/ (pc[u] = "poll_wait" /\ f[u] = "idle")
<1>1. "poll_wait" \in Steps /\ "idle" \in Steps
  BY DEF Steps
<1> QED BY <1>1, Signals DEF PollReleased

(* How the threads of the client move in a step.                           *)
Moved(t, to) == pc' \in [Threads -> Steps] /\ pc'[t] = to /\ \A u \in Threads \ {t} : pc'[u] = pc[u]
MovedAndDrain(t, to) ==
  /\ pc' \in [Threads -> Steps] /\ pc'[t] = to
  /\ \A u \in Threads \ {t} :
       pc'[u] = pc[u] \/ (eos /\ pc[u] = "drain_wait" /\ pc'[u] = "drain_woken")
  /\ eos /\ pc[t] # "drain_wait" /\ (\E u \in Threads : pc[u] = "drain_wait") =>
       \E u \in Threads \ {t} : pc[u] = "drain_wait" /\ pc'[u] = "drain_woken"
MovedAndPoll(t, to) ==
  /\ pc' \in [Threads -> Steps] /\ pc'[t] = to
  /\ \A u \in Threads \ {t} : pc'[u] = pc[u] \/ (pc[u] = "poll_wait" /\ pc'[u] = "idle")

LEMMA Moves ==
  ASSUME TypeInv, NEW t \in Threads, NEW to \in Steps
  PROVE  /\ Goto(t, to) => Moved(t, to)
         /\ pc' \in Then(t, to, DrainReleased) => MovedAndDrain(t, to)
         /\ pc' \in Then(t, to, PollReleased) => MovedAndPoll(t, to)
<1>1. Goto(t, to) => Moved(t, to)
  BY DEF Goto, Moved, TypeInv, TypeOK
<1>2. ASSUME pc' \in Then(t, to, DrainReleased) PROVE MovedAndDrain(t, to)
  <2>1. PICK f \in DrainReleased : pc' = [f EXCEPT ![t] = to]
    BY <1>2 DEF Then
  <2> QED BY <2>1, DrainSignals DEF MovedAndDrain
<1>3. ASSUME pc' \in Then(t, to, PollReleased) PROVE MovedAndPoll(t, to)
  <2>1. PICK f \in PollReleased : pc' = [f EXCEPT ![t] = to]
    BY <1>3 DEF Then
  <2> QED BY <2>1, PollSignals DEF MovedAndPoll
<1> QED BY <1>1, <1>2, <1>3

-----------------------------------------------------------------------------
(* Types.                                                                  *)

LEMMA InitTypes == ASSUME Init PROVE TypeInv
<1>1. Total \in Nat /\ Fragments \in Nat
  BY CompressAssumption DEF CompressAssumption, Total
<1>2. TypeOK
  <2>1. pc \in [Threads -> Steps] /\ size \in [Threads -> Int] /\ reg \in [Threads -> Int]
    BY DEF Init, Steps, Unknown
  <2>2. dir \in {"RX", "TX"} /\ filled \in 0..Fragments /\ total_buf_size \in {0, Total}
    BY <1>1, CompressAssumption DEF CompressAssumption, Init
  <2>3. /\ queue \in Seq({"buf", "eos"})
        /\ events \in Seq({"WRITE_DONE", "READ_DONE", "EOS_RENDERED"})
    BY DEF Init
  <2>4. /\ eos \in BOOLEAN /\ prepared \in BOOLEAN /\ freed \in BOOLEAN
        /\ registered \in BOOLEAN /\ paused \in BOOLEAN
    BY Zenon DEF Init
  <2>5. cb \in [event: {"none", "WRITE_DONE", "READ_DONE", "EOS_RENDERED"},
                step: {"idle", "entry", "store", "eos", "poll"}, val: Int]
    BY DEF Init, NoDelivery
  <2>6. bytes_avail \in Int /\ sess \in {"OPENED", "PREPARED", "STARTED", "STOPPED", "CLOSED"}
    BY DEF Init
  <2> QED BY <2>1, <2>2, <2>3, <2>4, <2>5, <2>6 DEF TypeOK
<1> QED BY <1>1, <1>2, NoBufs DEF Init, TypeInv

LEMMA StepTypes == ASSUME TypeInv, [Next]_vars PROVE TypeInv'
<1> USE DEF privVars, threadVars, sessVars, dspVars
<1>0. /\ FragSize \in Nat \ {0} /\ Fragments \in Nat \ {0} /\ Total \in Nat
      /\ queue \in Seq(Commands) /\ TypeOK /\ Bufs(queue) \in Nat /\ Bufs(queue) <= Fragments
  BY CompressAssumption, BufsCount DEF CompressAssumption, Total, TypeInv, TypeOK, Commands
<1>1. ASSUME NEW t \in Threads, Call(t) PROVE TypeInv'
  <2>1. CASE agm_compress_set_params(t) \/ agm_compress_avail(t)
    BY <1>0, <2>1 DEF agm_compress_set_params, agm_compress_avail, TypeInv, TypeOK
  <2>2. ASSUME NEW count \in 1..Total, agm_compress_write(t, count) PROVE TypeInv'
    <3>1. /\ Accepted(count) \in 0..count /\ Used(Accepted(count)) \in Nat
          /\ Bufs(queue) + Used(Accepted(count)) <= Fragments
      BY TransferFits
    <3>2. CASE /\ queue' = queue \o [i \in 1..Used(Accepted(count)) |-> "buf"]
               /\ size' = [size EXCEPT ![t] = Accepted(count)]
               /\ Goto(t, "write_load")
      <4>1. queue' \in Seq(Commands) /\ Bufs(queue') <= Fragments
        BY <1>0, <3>1, <3>2, BufsCount
      <4>2. pc' \in [Threads -> Steps]
        BY <1>0, <3>2 DEF Goto, TypeOK, Steps
      <4>3. size' \in [Threads -> Int]
        BY <1>0, <3>1, <3>2 DEF TypeOK
      <4> QED BY <1>0, <2>2, <4>1, <4>2, <4>3 DEF agm_compress_write, TypeInv, TypeOK, Commands
    <3>3. CASE size' = [size EXCEPT ![t] = Unknown] /\ UNCHANGED <<queue, pc>>
      BY <1>0, <2>2, <3>3 DEF agm_compress_write, TypeInv, TypeOK, Unknown
    <3> QED BY <2>2, <3>2, <3>3 DEF agm_compress_write
  <2>3. ASSUME NEW count \in 1..Total, agm_compress_read(t, count) PROVE TypeInv'
    <3>1. /\ Delivered(count) \in 0..count /\ Used(Delivered(count)) \in Nat
          /\ Used(Delivered(count)) <= filled
      BY TransferFits
    <3>2. size' \in [Threads -> Int] /\ filled' \in 0..Fragments
      BY <1>0, <2>3, <3>1 DEF agm_compress_read, TypeOK
    <3> QED BY <1>0, <2>3, <3>2 DEF agm_compress_read, Goto, TypeInv, TypeOK, Steps
  <2>4. CASE agm_compress_start(t) \/ agm_compress_pause(t) \/ agm_compress_resume(t)
    BY <1>0, <2>4, ZenonT(60) DEF agm_compress_start, agm_compress_pause, agm_compress_resume, TypeInv, TypeOK
  <2>5. CASE agm_compress_stop(t) \/ agm_compress_drain(t)
    BY <1>0, <2>5 DEF agm_compress_stop, agm_compress_drain, Goto, TypeInv, TypeOK, Steps
  <2>6. CASE agm_compress_poll(t) \/ PollTimeout(t)
    <3>0. size' = [size EXCEPT ![t] = Unknown]
          /\ pc' \in {pc, [pc EXCEPT ![t] = "poll_wait"]}
      BY <2>6 DEF agm_compress_poll, PollTimeout, Goto
    <3>1. size' \in [Threads -> Int] /\ pc' \in [Threads -> Steps]
      <4>1. -1 \in Int /\ "poll_wait" \in Steps
        BY DEF Steps
      <4>2. size \in [Threads -> Int] /\ pc \in [Threads -> Steps]
        BY <1>0 DEF TypeOK
      <4> QED BY <3>0, <4>1, <4>2 DEF Unknown
    <3> QED BY <1>0, <2>6, <3>1, SMTT(60) DEF agm_compress_poll, PollTimeout, TypeInv, TypeOK
  <2>7. CASE agm_compress_close(t)
    <3>1. pc' \in [Threads -> Steps]
      BY <1>0, <2>7 DEF agm_compress_close, Goto, TypeOK, Steps
    <3> QED BY <1>0, <2>7, <3>1, ZenonT(60) DEF agm_compress_close, TypeInv, TypeOK
  <2> QED BY <1>1, <2>1, <2>2, <2>3, <2>4, <2>5, <2>6, <2>7 DEF Call
<1>2. ASSUME NEW t \in Threads, Step(t) PROVE TypeInv'
  <2>1. CASE LoadAvail(t)
    BY <1>0, <2>1 DEF LoadAvail, Goto, TypeInv, TypeOK, Steps
  <2>2. CASE ChargeAvail(t)
    <3>1. BufCnt(size[t]) * FragSize \in Int
      <4>1. size[t] \in Int
        BY <1>0 DEF TypeOK
      <4>2. size[t] \div FragSize \in Int
        BY <1>0, <4>1, DivMod
      <4>3. BufCnt(size[t]) \in Int
        BY <4>2 DEF BufCnt
      <4> QED BY <1>0, <4>3
    <3>2. bytes_avail' \in Int
      BY <1>0, <2>2, <3>1 DEF ChargeAvail, TypeOK
    <3> QED BY <1>0, <2>2, <3>2 DEF ChargeAvail, Goto, Unknown, TypeInv, TypeOK, Steps
  <2>3. CASE StopDrain(t) \/ CloseDrain(t)
    <3>1. pc' \in [Threads -> Steps]
      BY <2>3, Moves DEF StopDrain, CloseDrain, MovedAndDrain, Steps
    <3> QED BY <1>0, <2>3, <3>1, ZenonT(60) DEF StopDrain, CloseDrain, TypeInv, TypeOK
  <2>4. CASE StopPoll(t) \/ CloseFree(t)
    <3>1. pc' \in [Threads -> Steps]
      BY <2>4, Moves DEF StopPoll, CloseFree, MovedAndPoll, Steps
    <3> QED BY <1>0, <2>4, <3>1, ZenonT(60) DEF StopPoll, CloseFree, TypeInv, TypeOK
  <2>5. CASE StopSession(t) \/ CloseSession(t)
    <3>1. pc' \in [Threads -> Steps]
      BY <1>0, <2>5 DEF StopSession, CloseSession, Goto, TypeOK, Steps
    <3>2. queue' \in Seq(Commands) /\ Bufs(queue') <= Fragments /\ filled' \in 0..Fragments
      <4>1. (queue' = <<>> /\ filled' = 0) \/ UNCHANGED <<queue, filled>>
        BY <2>5 DEF StopSession, CloseSession
      <4>2. CASE queue' = <<>> /\ filled' = 0
        BY <1>0, <4>2, NoBufs
      <4>3. CASE UNCHANGED <<queue, filled>>
        BY <1>0, <4>3 DEF TypeOK
      <4> QED BY <4>1, <4>2, <4>3
    <3> QED BY <1>0, <2>5, <3>1, <3>2 DEF StopSession, CloseSession, TypeInv, TypeOK, Commands
  <2>6. CASE StopReset(t) \/ DrainReturn(t)
    <3>1. pc' \in [Threads -> Steps]
      BY <1>0, <2>6 DEF StopReset, DrainReturn, Goto, TypeOK, Steps
    <3> QED BY <1>0, <2>6, <3>1 DEF StopReset, DrainReturn, TypeInv, TypeOK
  <2>7. CASE DrainWait(t)
    <3>1. pc' \in [Threads -> Steps]
      BY <1>0, <2>7 DEF DrainWait, Goto, TypeOK, Steps
    <3>2. queue' \in {queue, Append(queue, "eos")}
      BY <2>7 DEF DrainWait
    <3>3. Append(queue, "eos") \in Seq(Commands) /\ Bufs(Append(queue, "eos")) = Bufs(queue)
      BY <1>0, BufsCount DEF Commands
    <3>4. queue' \in Seq(Commands) /\ Bufs(queue') <= Fragments
      BY <1>0, <3>2, <3>3
    <3> QED BY <1>0, <2>7, <3>1, <3>4 DEF DrainWait, TypeInv, TypeOK, Commands
  <2> QED BY <1>2, <2>1, <2>2, <2>3, <2>4, <2>5, <2>6, <2>7 DEF Step
<1>3. ASSUME NEW t \in Threads, WakeUp(t) PROVE TypeInv'
  BY <1>0, <1>3, SMTT(60) DEF WakeUp, Goto, TypeInv, TypeOK, Steps
<1>4. CASE Callback
  <2>1. CASE graph_event_cb
    <3>1. Head(events) \in {"WRITE_DONE", "READ_DONE", "EOS_RENDERED"}
          /\ Tail(events) \in Seq({"WRITE_DONE", "READ_DONE", "EOS_RENDERED"})
      BY <1>0, <2>1 DEF graph_event_cb, TypeOK
    <3> QED BY <1>0, <2>1, <3>1 DEF graph_event_cb, TypeInv, TypeOK
  <2>2. CASE agm_compress_event_cb \/ StoreAvail
    <3>1. bytes_avail + FragSize \in Int /\ cb.val \in Int
      BY <1>0 DEF TypeOK
    <3>2. cb' \in [event: {"none", "WRITE_DONE", "READ_DONE", "EOS_RENDERED"},
                  step: {"idle", "entry", "store", "eos", "poll"}, val: Int]
      <4>0. cb \in [event: {"none", "WRITE_DONE", "READ_DONE", "EOS_RENDERED"},
                   step: {"idle", "entry", "store", "eos", "poll"}, val: Int]
        BY <1>0 DEF TypeOK
      <4>1. CASE cb' = [cb EXCEPT !.step = "eos"]
        BY <4>0, <4>1
      <4>2. CASE cb' = [cb EXCEPT !.step = "store", !.val = bytes_avail + FragSize]
        BY <3>1, <4>0, <4>2
      <4>3. CASE cb' = NoDelivery
        BY <4>3 DEF NoDelivery
      <4>4. CASE cb' = [cb EXCEPT !.step = "poll", !.val = 0]
        <5>1. cb' = [event |-> cb.event, step |-> "poll", val |-> 0]
          BY <4>0, <4>4
        <5> QED BY <4>0, <5>1
      <4> QED BY <2>2, <4>1, <4>2, <4>3, <4>4 DEF agm_compress_event_cb, StoreAvail
    <3> QED BY <1>0, <2>2, <3>1, <3>2 DEF agm_compress_event_cb, StoreAvail, TypeInv, TypeOK
  <2>3. CASE EosRendered
    <3>1. pc' \in [Threads -> Steps]
      BY <2>3, DrainSignals DEF EosRendered
    <3> QED BY <1>0, <2>3, <3>1 DEF EosRendered, TypeInv, TypeOK
  <2>4. CASE SignalPoll
    <3>1. pc' \in [Threads -> Steps]
      BY <2>4, PollSignals DEF SignalPoll
    <3> QED BY <1>0, <2>4, <3>1 DEF SignalPoll, NoDelivery, TypeInv, TypeOK
  <2> QED BY <1>4, <2>1, <2>2, <2>3, <2>4 DEF Callback
<1>5. CASE Dsp
  <2>1. CASE DspConsume
    <3>1. queue' \in Seq(Commands) /\ Bufs(queue') <= Fragments
      BY <1>0, <2>1, BufsCount DEF DspConsume
    <3>2. events' \in Seq({"WRITE_DONE", "READ_DONE", "EOS_RENDERED"})
      BY <1>0, <2>1 DEF DspConsume, TypeOK
    <3> QED BY <1>0, <2>1, <3>1, <3>2 DEF DspConsume, TypeInv, TypeOK, Commands
  <2>2. CASE DspFill
    BY <1>0, <2>2 DEF DspFill, TypeInv, TypeOK
  <2> QED BY <1>5, <2>1, <2>2 DEF Dsp
<1>6. CASE UNCHANGED vars
  BY <1>6 DEF vars, TypeInv, TypeOK
<1> QED BY <1>1, <1>2, <1>3, <1>4, <1>5, <1>6 DEF Next

(* Every variable keeps its type: total_buf_size is 0 or the whole buffer, *)
(* and the fragments a capture client has not read fit in it.              *)
THEOREM CompressTypes == Spec => []TypeOK
<1>1. Init => TypeInv
  BY InitTypes
<1>2. TypeInv /\ [Next]_vars => TypeInv'
  BY StepTypes
<1>3. TypeInv => TypeOK
  BY DEF TypeInv
<1> QED BY <1>1, <1>2, <1>3, PTL DEF Spec

-----------------------------------------------------------------------------
(* Where the threads and the callback are.                                 *)

(* The callback's record after each of its steps.                          *)
LEMMA CallbackFields ==
  ASSUME TypeInv
  PROVE  /\ graph_event_cb =>
              IF registered THEN cb'.event = Head(events) /\ cb'.step = "entry" ELSE cb' = cb
         /\ agm_compress_event_cb =>
              /\ cb'.event = cb.event
              /\ IF cb.event = "EOS_RENDERED" THEN cb'.step = "eos"
                 ELSE cb'.step = "store" /\ cb'.val = bytes_avail + FragSize
         /\ StoreAvail => cb'.step \in {"poll", "idle"}
         /\ EosRendered => cb'.step = "poll"
         /\ SignalPoll => cb'.step = "idle" /\ cb'.event = "none"
<1>1. cb \in [event: {"none", "WRITE_DONE", "READ_DONE", "EOS_RENDERED"},
              step: {"idle", "entry", "store", "eos", "poll"}, val: Int]
  BY DEF TypeInv, TypeOK
<1>2. ASSUME graph_event_cb
      PROVE  IF registered THEN cb'.event = Head(events) /\ cb'.step = "entry" ELSE cb' = cb
  BY <1>2 DEF graph_event_cb
<1>3. ASSUME agm_compress_event_cb
      PROVE  /\ cb'.event = cb.event
             /\ IF cb.event = "EOS_RENDERED" THEN cb'.step = "eos"
                ELSE cb'.step = "store" /\ cb'.val = bytes_avail + FragSize
  BY <1>1, <1>3 DEF agm_compress_event_cb
<1>4. ASSUME StoreAvail PROVE cb'.step \in {"poll", "idle"}
  BY <1>1, <1>4 DEF StoreAvail, NoDelivery
<1>5. ASSUME EosRendered PROVE cb'.step = "poll"
  BY <1>1, <1>5 DEF EosRendered
<1>6. ASSUME SignalPoll PROVE cb'.step = "idle" /\ cb'.event = "none"
  BY <1>6 DEF SignalPoll, NoDelivery
<1> QED BY <1>2, <1>3, <1>4, <1>5, <1>6

(* How each step moves the threads of the client.                          *)
LEMMA CallMoves ==
  ASSUME TypeInv, NEW t \in Threads, Call(t)
  PROVE  /\ pc[t] = "idle" /\ ~freed /\ ~Closing
         /\ \/ UNCHANGED pc /\ UNCHANGED registered
            \/ /\ UNCHANGED registered
               /\ \/ Moved(t, "write_load") /\ "write" \in Calls[t]
                  \/ Moved(t, "read_load") /\ "read" \in Calls[t]
                  \/ Moved(t, "stop_eos") /\ "stop" \in Calls[t]
                  \/ Moved(t, "drain_eos") /\ "drain" \in Calls[t] /\ eos'
                  \/ Moved(t, "poll_wait")
            \/ agm_compress_close(t) /\ Moved(t, "close_session") /\ registered' = FALSE
<1> USE DEF privVars, threadVars, sessVars, dspVars
<1>0. {"write_load", "read_load", "stop_eos", "drain_eos", "poll_wait", "close_session"} \subseteq Steps
  BY DEF Steps
<1>1. CASE \/ agm_compress_set_params(t) \/ agm_compress_avail(t) \/ PollTimeout(t)
           \/ agm_compress_start(t) \/ agm_compress_pause(t) \/ agm_compress_resume(t)
  BY <1>1 DEF agm_compress_set_params, agm_compress_avail, PollTimeout,
              agm_compress_start, agm_compress_pause, agm_compress_resume, MayCall
<1>2. ASSUME NEW count \in 1..Total, agm_compress_write(t, count)
      PROVE  /\ pc[t] = "idle" /\ ~freed /\ ~Closing /\ UNCHANGED registered
             /\ UNCHANGED pc \/ (Moved(t, "write_load") /\ "write" \in Calls[t])
  BY <1>0, <1>2, Moves DEF agm_compress_write, MayCall
<1>3. ASSUME NEW count \in 1..Total, agm_compress_read(t, count)
      PROVE  /\ pc[t] = "idle" /\ ~freed /\ ~Closing /\ UNCHANGED registered
             /\ Moved(t, "read_load") /\ "read" \in Calls[t]
  BY <1>0, <1>3, Moves DEF agm_compress_read, MayCall
<1>4. CASE agm_compress_stop(t) \/ agm_compress_drain(t) \/ agm_compress_poll(t)
  BY <1>0, <1>4, Moves DEF agm_compress_stop, agm_compress_drain, agm_compress_poll, MayCall
<1>5. CASE agm_compress_close(t)
  BY <1>0, <1>5, Moves DEF agm_compress_close, MayCall
<1> QED BY <1>1, <1>2, <1>3, <1>4, <1>5 DEF Call

LEMMA StepMoves ==
  ASSUME TypeInv, NEW t \in Threads, Step(t)
  PROVE  /\ UNCHANGED registered
         /\ \/ UNCHANGED eos /\ cb' = cb /\ UNCHANGED freed
               /\ \/ pc[t] = "write_load" /\ LockFree /\ Moved(t, "write_store")
                  \/ pc[t] = "read_load" /\ LockFree /\ Moved(t, "read_store")
                  \/ pc[t] \in {"write_store", "read_store"} /\ Moved(t, "idle")
                  \/ pc[t] = "stop_session" /\ Moved(t, "stop_reset")
                  \/ pc[t] = "stop_session" /\ Moved(t, "idle")
                  \/ pc[t] = "stop_reset" /\ Moved(t, "idle")
                  \/ pc[t] = "drain_eos" /\ Moved(t, "drain_wait")
                  \/ pc[t] = "drain_eos" /\ Moved(t, "idle")
                  \/ pc[t] = "drain_woken" /\ Moved(t, "idle")
                  \/ pc[t] = "close_session" /\ Moved(t, "close_eos")
                  \/ pc[t] = "stop_poll" /\ MovedAndPoll(t, "stop_session")
            \/ /\ EosLockFree /\ eos' = FALSE /\ cb' = cb /\ UNCHANGED freed
               /\ \/ pc[t] = "stop_eos" /\ MovedAndDrain(t, "stop_poll")
                  \/ pc[t] = "close_eos" /\ MovedAndDrain(t, "close_free")
            \/ /\ UNCHANGED eos /\ cb' = cb /\ freed' = TRUE
               /\ pc[t] = "close_free" /\ MovedAndPoll(t, "idle")
<1> USE DEF privVars, threadVars, sessVars, dspVars
<1>0. {"write_store", "read_store", "idle", "stop_reset", "stop_session", "stop_poll",
       "drain_wait", "close_eos", "close_free"} \subseteq Steps
  BY DEF Steps
<1>1. CASE LoadAvail(t) \/ ChargeAvail(t)
  BY <1>0, <1>1, Moves DEF LoadAvail, ChargeAvail
<1>2. CASE StopDrain(t) \/ CloseDrain(t)
  BY <1>0, <1>2, Moves DEF StopDrain, CloseDrain
<1>3. CASE StopPoll(t) \/ CloseFree(t)
  BY <1>0, <1>3, Moves DEF StopPoll, CloseFree
<1>4. CASE StopSession(t) \/ StopReset(t)
  BY <1>0, <1>4, Moves DEF StopSession, StopReset
<1>5. CASE DrainWait(t) \/ DrainReturn(t) \/ CloseSession(t)
  BY <1>0, <1>5, Moves DEF DrainWait, DrainReturn, CloseSession
<1> QED BY <1>1, <1>2, <1>3, <1>4, <1>5 DEF Step

LEMMA OtherMoves ==
  ASSUME TypeInv
  PROVE  /\ Callback => /\ UNCHANGED <<registered, freed>>
                        /\ \/ UNCHANGED <<pc, eos>>
                           \/ EosRendered /\ EosLockFree /\ eos' = FALSE /\ pc' \in DrainReleased
                           \/ SignalPoll /\ UNCHANGED eos /\ pc' \in PollReleased
         /\ Dsp => UNCHANGED <<pc, eos, registered, freed, cb>>
         /\ \A t \in Threads : WakeUp(t) =>
              /\ Spurious /\ UNCHANGED <<eos, registered, freed, cb>>
              /\ \/ pc[t] = "drain_wait" /\ Moved(t, "drain_woken")
                 \/ pc[t] = "poll_wait" /\ Moved(t, "idle")
<1> USE DEF privVars, threadVars, sessVars, dspVars
<1>1. ASSUME Callback
      PROVE  /\ UNCHANGED <<registered, freed>>
             /\ \/ UNCHANGED <<pc, eos>>
                \/ EosRendered /\ EosLockFree /\ eos' = FALSE /\ pc' \in DrainReleased
                \/ SignalPoll /\ UNCHANGED eos /\ pc' \in PollReleased
  BY <1>1 DEF Callback, graph_event_cb, agm_compress_event_cb, StoreAvail, EosRendered, SignalPoll
<1>2. ASSUME Dsp PROVE UNCHANGED <<pc, eos, registered, freed, cb>>
  BY <1>2 DEF Dsp, DspConsume, DspFill
<1>3. ASSUME NEW t \in Threads, WakeUp(t)
      PROVE  /\ Spurious /\ UNCHANGED <<eos, registered, freed, cb>>
             /\ \/ pc[t] = "drain_wait" /\ Moved(t, "drain_woken")
                \/ pc[t] = "poll_wait" /\ Moved(t, "idle")
  <2>1. "drain_woken" \in Steps /\ "idle" \in Steps
    BY DEF Steps
  <2> QED BY <1>3, <2>1, Moves DEF WakeUp
<1> QED BY <1>1, <1>2, <1>3

(* What any step does to any one thread.                                   *)
ThreadStep(u) ==
  \/ pc'[u] = pc[u]
  \/ /\ pc[u] = "idle"
     /\ \/ pc'[u] = "write_load" /\ "write" \in Calls[u]
        \/ pc'[u] = "read_load" /\ "read" \in Calls[u]
        \/ pc'[u] = "stop_eos" /\ "stop" \in Calls[u]
        \/ pc'[u] = "drain_eos" /\ "drain" \in Calls[u]
        \/ pc'[u] = "poll_wait"
        \/ pc'[u] = "close_session" /\ registered' = FALSE
  \/ pc[u] = "write_load" /\ LockFree /\ pc'[u] = "write_store"
  \/ pc[u] = "read_load" /\ LockFree /\ pc'[u] = "read_store"
  \/ pc[u] \in {"stop_eos", "stop_poll", "stop_session"} /\ pc'[u] \in StopSteps
  \/ pc[u] = "drain_eos" /\ pc'[u] = "drain_wait"
  \/ pc[u] = "drain_wait" /\ pc'[u] = "drain_woken"
  \/ pc[u] \in CloseSteps /\ pc'[u] \in CloseSteps
  \/ pc'[u] = "idle"

LEMMA ThreadSteps ==
  ASSUME TypeInv, [Next]_vars
  PROVE  /\ registered' = registered \/ registered' = FALSE
         /\ \A u \in Threads : ThreadStep(u)
<1>1. ASSUME NEW t \in Threads, Call(t), NEW u \in Threads
      PROVE  (registered' = registered \/ registered' = FALSE) /\ ThreadStep(u)
  BY <1>1, CallMoves DEF Moved, ThreadStep
<1>2. ASSUME NEW t \in Threads, Step(t), NEW u \in Threads
      PROVE  registered' = registered /\ ThreadStep(u)
  BY <1>2, StepMoves DEF Moved, MovedAndDrain, MovedAndPoll, StopSteps, CloseSteps, ThreadStep
<1>3. ASSUME NEW t \in Threads, WakeUp(t), NEW u \in Threads
      PROVE  registered' = registered /\ ThreadStep(u)
  BY <1>3, OtherMoves DEF Moved, ThreadStep
<1>4. ASSUME Callback, NEW u \in Threads
      PROVE  registered' = registered /\ ThreadStep(u)
  BY <1>4, OtherMoves, DrainSignals, PollSignals DEF ThreadStep
<1>5. ASSUME Dsp, NEW u \in Threads PROVE registered' = registered /\ ThreadStep(u)
  BY <1>5, OtherMoves DEF ThreadStep
<1>6. ASSUME UNCHANGED vars, NEW u \in Threads PROVE registered' = registered /\ ThreadStep(u)
  BY <1>6 DEF vars, threadVars, sessVars, ThreadStep
<1>7. (\E t \in Threads : Call(t) \/ Step(t) \/ WakeUp(t)) \/ Callback \/ Dsp \/ UNCHANGED vars
  BY DEF Next
<1>8. registered' = registered \/ registered' = FALSE
  <2>1. ASSUME NEW t \in Threads, Call(t) PROVE registered' = registered \/ registered' = FALSE
    BY <1>1, <2>1
  <2>2. ASSUME NEW t \in Threads, Step(t) \/ WakeUp(t) PROVE registered' = registered
    BY <2>2, StepMoves, OtherMoves
  <2>3. Callback \/ Dsp \/ UNCHANGED vars => registered' = registered
    BY OtherMoves DEF vars, sessVars
  <2> QED BY <1>7, <2>1, <2>2, <2>3
<1> QED BY <1>1, <1>2, <1>3, <1>4, <1>5, <1>6, <1>7, <1>8

-----------------------------------------------------------------------------
(* What needs no promise of the client: who is in which call, who holds    *)
(* priv->lock, and the stream before its parameters are set.               *)

LEMMA SizeSteps ==
  ASSUME TypeInv, SetUpInv, [Next]_vars
  PROVE  /\ total_buf_size' = total_buf_size \/ (total_buf_size = 0 /\ total_buf_size' = Total)
         /\ \A u \in Threads : Charging(u)' =>
              \/ Charging(u) /\ size'[u] = size[u]
              \/ size'[u] \in 0..Total /\ total_buf_size = Total
<1> USE DEF privVars, threadVars, sessVars, dspVars
<1> DEFINE Fits ==
      /\ total_buf_size' = total_buf_size \/ (total_buf_size = 0 /\ total_buf_size' = Total)
      /\ \A u \in Threads : Charging(u)' =>
           \/ Charging(u) /\ size'[u] = size[u]
           \/ size'[u] \in 0..Total /\ total_buf_size = Total
<1>0. /\ size \in [Threads -> Int] /\ pc \in [Threads -> Steps] /\ total_buf_size \in {0, Total}
      /\ Total \in Nat \ {0}
  BY CompressAssumption DEF CompressAssumption, Total, TypeInv, TypeOK
<1>1. ASSUME UNCHANGED <<total_buf_size, size>>,
             \A u \in Threads : Charging(u)' => Charging(u)
      PROVE  Fits
  BY <1>1
<1>2. \A u \in Threads : Charging(u)' => Charging(u) \/ pc[u] = "idle"
  <2>1. \A u \in Threads : ThreadStep(u)
    BY ThreadSteps
  <2> QED BY <2>1 DEF ThreadStep, Charging, StopSteps, CloseSteps
<1>3. ASSUME NEW t \in Threads, Call(t) PROVE Fits
  <2>0. pc[t] = "idle"
    BY <1>3, CallMoves
  <2>1. CASE \/ agm_compress_set_params(t) \/ agm_compress_start(t)
             \/ agm_compress_pause(t) \/ agm_compress_resume(t)
    BY <2>1 DEF agm_compress_set_params, agm_compress_start, agm_compress_pause, agm_compress_resume,
                Charging
  <2>2. CASE agm_compress_avail(t) \/ PollTimeout(t) \/ agm_compress_poll(t)
    BY <1>0, <2>0, <2>2 DEF agm_compress_avail, PollTimeout, agm_compress_poll, Goto, Charging
  <2>3. ASSUME NEW count \in 1..Total, agm_compress_write(t, count) PROVE Fits
    <3>1. Accepted(count) \in 0..count
      BY TransferFits
    <3>2. total_buf_size = Total /\ UNCHANGED total_buf_size
      BY <1>0, <2>3 DEF agm_compress_write
    <3>3. CASE size' = [size EXCEPT ![t] = Accepted(count)] /\ Goto(t, "write_load")
      BY <1>0, <3>1, <3>2, <3>3 DEF Goto, Charging
    <3>4. CASE size' = [size EXCEPT ![t] = Unknown] /\ UNCHANGED <<queue, pc>>
      BY <1>0, <2>0, <3>2, <3>4 DEF Charging
    <3> QED BY <2>3, <3>3, <3>4 DEF agm_compress_write
  <2>4. ASSUME NEW count \in 1..Total, agm_compress_read(t, count) PROVE Fits
    <3>1. Delivered(count) \in 0..count
      BY TransferFits
    <3>2. total_buf_size = Total /\ UNCHANGED total_buf_size
      BY <1>0, <2>4 DEF agm_compress_read, SetUpInv
    <3> QED BY <1>0, <2>4, <3>1, <3>2 DEF agm_compress_read, Goto, Charging
  <2>5. CASE agm_compress_stop(t) \/ agm_compress_drain(t) \/ agm_compress_close(t)
    BY <1>0, <2>5 DEF agm_compress_stop, agm_compress_drain, agm_compress_close, Goto, Charging
  <2> QED BY <1>3, <2>1, <2>2, <2>3, <2>4, <2>5 DEF Call
<1>4. ASSUME NEW t \in Threads, Step(t) PROVE Fits
  <2>1. CASE ChargeAvail(t)
    BY <1>0, <2>1 DEF ChargeAvail, Goto, Charging
  <2>2. \A u \in Threads : Charging(u)' => Charging(u)
    BY <1>2, <1>4, StepMoves DEF Moved, MovedAndDrain, MovedAndPoll, Charging
  <2>3. CASE ~ChargeAvail(t)
    <3>1. UNCHANGED <<total_buf_size, size>>
      BY <1>4, <2>3 DEF Step, LoadAvail, StopDrain, StopPoll, StopSession, StopReset, DrainWait,
                        DrainReturn, CloseSession, CloseDrain, CloseFree
    <3> QED BY <1>1, <2>2, <3>1
  <2> QED BY <2>1, <2>3
<1>5. ASSUME NEW t \in Threads, WakeUp(t) PROVE Fits
  <2>1. \A u \in Threads : Charging(u)' => Charging(u)
    BY <1>5, OtherMoves DEF Moved, Charging
  <2> QED BY <1>1, <1>5, <2>1 DEF WakeUp
<1>6. CASE Callback \/ Dsp
  <2>1. \A u \in Threads : Charging(u)' => Charging(u)
    BY <1>6, OtherMoves, DrainSignals, PollSignals DEF Charging
  <2>2. UNCHANGED <<total_buf_size, size>>
    BY <1>6 DEF Callback, Dsp, graph_event_cb, agm_compress_event_cb, StoreAvail, EosRendered,
                SignalPoll, DspConsume, DspFill
  <2> QED BY <1>1, <2>1, <2>2
<1>7. CASE UNCHANGED vars
  BY <1>7 DEF vars, Charging
<1> QED BY <1>3, <1>4, <1>5, <1>6, <1>7 DEF Next

LEMMA StepCalled == ASSUME TypeInv, SetUpInv, CalledInv, [Next]_vars PROVE CalledInv'
<1>0. Total \in Nat \ {0}
  BY CompressAssumption DEF CompressAssumption, Total
<1>1. TypeInv'
  BY StepTypes
<1>2. SUFFICES ASSUME NEW u \in Threads
      PROVE  /\ pc'[u] \in StopSteps => "stop" \in Calls[u]
             /\ pc'[u] \in {"drain_eos", "drain_wait", "drain_woken"} => "drain" \in Calls[u]
             /\ Charging(u)' => Calls[u] \cap {"write", "read"} # {} /\ size'[u] \in 0..Total
                                /\ total_buf_size' = Total
             /\ pc'[u] \in CloseSteps => ~registered'
  BY DEF CalledInv
<1>3. ThreadStep(u) /\ (registered' = registered \/ registered' = FALSE)
  BY ThreadSteps
<1>4. /\ pc[u] \in StopSteps => "stop" \in Calls[u]
      /\ pc[u] \in {"drain_eos", "drain_wait", "drain_woken"} => "drain" \in Calls[u]
      /\ Charging(u) => Calls[u] \cap {"write", "read"} # {} /\ size[u] \in 0..Total
                         /\ total_buf_size = Total
      /\ pc[u] \in CloseSteps => ~registered
  BY DEF CalledInv
<1>5. pc'[u] \in StopSteps => "stop" \in Calls[u]
  BY <1>3, <1>4 DEF ThreadStep, StopSteps, CloseSteps
<1>6. pc'[u] \in {"drain_eos", "drain_wait", "drain_woken"} => "drain" \in Calls[u]
  BY <1>3, <1>4 DEF ThreadStep, StopSteps, CloseSteps
<1>7. Charging(u)' => Calls[u] \cap {"write", "read"} # {}
  BY <1>3, <1>4 DEF ThreadStep, StopSteps, CloseSteps, Charging
<1>8. Charging(u)' => size'[u] \in 0..Total /\ total_buf_size' = Total
  BY <1>0, <1>4, SizeSteps
<1>9. pc'[u] \in CloseSteps => pc[u] \in CloseSteps \/ registered' = FALSE
  BY <1>3 DEF ThreadStep, StopSteps, CloseSteps
<1>10. pc'[u] \in CloseSteps => ~registered'
  BY <1>3, <1>4, <1>9
<1> QED BY <1>5, <1>6, <1>7, <1>8, <1>10

LEMMA StepSetUp ==
  ASSUME TypeInv, SetUpInv, CalledInv, LockInv, DeliveryInv, [Next]_vars PROVE SetUpInv'
<1> USE DEF privVars, threadVars, sessVars, dspVars
<1>0. Total \in Nat \ {0} /\ total_buf_size \in {0, Total} /\ queue \in Seq(Commands)
      /\ pc \in [Threads -> Steps] /\ dir \in {"RX", "TX"}
  BY CompressAssumption DEF CompressAssumption, Total, TypeInv, TypeOK, Commands
<1> DEFINE Untouched ==
      /\ bytes_avail' = 0 /\ queue' = <<>> /\ filled' = 0 /\ events' = <<>>
      /\ cb'.step = "idle" /\ cb'.event = "none" /\ sess' # "STARTED"
<1>1. ASSUME NEW u \in Threads, pc'[u] = "drain_eos"
      PROVE  total_buf_size' # 0 /\ dir' = "RX"
  <2>1. dir' = dir /\ (total_buf_size # 0 => total_buf_size' # 0)
    <3>1. dir' = dir
      BY ZenonT(60) DEF Next, Call, Step, WakeUp, Callback, Dsp, vars, agm_compress_set_params,
             agm_compress_avail, agm_compress_write, agm_compress_read, agm_compress_start,
             agm_compress_pause, agm_compress_resume, agm_compress_stop, agm_compress_drain,
             agm_compress_poll, PollTimeout, agm_compress_close, LoadAvail, ChargeAvail, StopDrain,
             StopPoll, StopSession, StopReset, DrainWait, DrainReturn, CloseSession, CloseDrain,
             CloseFree, graph_event_cb, agm_compress_event_cb, StoreAvail, EosRendered, SignalPoll,
             DspConsume, DspFill
    <3> QED BY <1>0, <3>1, SizeSteps
  <2>2. CASE pc[u] = "drain_eos"
    BY <2>1, <2>2 DEF SetUpInv
  <2>3. CASE pc[u] # "drain_eos"
    <3>1. \E t \in Threads : agm_compress_drain(t)
      <4>1. ~(\E t \in Threads : Step(t) \/ WakeUp(t)) /\ ~Callback /\ ~Dsp /\ ~UNCHANGED vars
        BY <1>1, <2>3, StepMoves, OtherMoves, DrainSignals, PollSignals
           DEF Moved, MovedAndDrain, MovedAndPoll, vars
      <4>2. PICK t \in Threads : Call(t)
        BY <4>1 DEF Next
      <4>3. ASSUME NEW count \in 1..Total
            PROVE  ~agm_compress_write(t, count) /\ ~agm_compress_read(t, count)
        BY <1>0, <1>1, <2>3 DEF agm_compress_write, agm_compress_read, Goto
      <4>4. agm_compress_drain(t)
        BY <1>0, <1>1, <2>3, <4>2, <4>3
           DEF Call, agm_compress_set_params, agm_compress_avail, agm_compress_start,
               agm_compress_pause, agm_compress_resume, agm_compress_stop, agm_compress_poll,
               PollTimeout, agm_compress_close, Goto
      <4> QED BY <4>4
    <3> QED BY <2>1, <3>1 DEF agm_compress_drain, SetUpInv
  <2> QED BY <2>2, <2>3
<1>2. ASSUME total_buf_size' = 0 PROVE Untouched
  <2>0. total_buf_size = 0 /\ ~(\E u \in Threads : Charging(u) \/ pc[u] = "drain_eos")
    BY <1>0, <1>2, SizeSteps DEF SetUpInv, CalledInv
  <2>1. /\ bytes_avail = 0 /\ queue = <<>> /\ filled = 0 /\ events = <<>>
        /\ cb.step = "idle" /\ cb.event = "none" /\ sess # "STARTED"
    BY <2>0 DEF SetUpInv
  <2>2. ASSUME NEW t \in Threads, Call(t) PROVE Untouched
    <3>1. ASSUME NEW count \in 1..Total
          PROVE  ~agm_compress_write(t, count) /\ ~agm_compress_read(t, count)
      BY <2>0, <2>1 DEF agm_compress_write, agm_compress_read
    <3> QED BY <1>0, <1>2, <2>0, <2>1, <2>2, <3>1
           DEF Call, agm_compress_set_params, agm_compress_avail, agm_compress_start,
               agm_compress_pause, agm_compress_resume, agm_compress_stop, agm_compress_drain,
               agm_compress_poll, PollTimeout, agm_compress_close
  <2>3. ASSUME NEW t \in Threads, Step(t) PROVE Untouched
    BY <2>0, <2>1, <2>3
       DEF Step, LoadAvail, ChargeAvail, StopDrain, StopPoll, StopSession, StopReset, DrainWait,
           DrainReturn, CloseSession, CloseDrain, CloseFree, Charging
  <2>4. ASSUME NEW t \in Threads, WakeUp(t) PROVE Untouched
    BY <2>1, <2>4 DEF WakeUp
  <2>5. ~Callback /\ ~Dsp
    BY <2>1 DEF Callback, Dsp, graph_event_cb, agm_compress_event_cb, StoreAvail, EosRendered,
                SignalPoll, DspConsume, DspFill, Running
  <2>6. CASE UNCHANGED vars
    BY <2>1, <2>6 DEF vars
  <2> QED BY <2>2, <2>3, <2>4, <2>5, <2>6 DEF Next
<1>3. dir' = dir /\ (dir = "TX" => queue' = <<>>)
  <2>1. ASSUME NEW t \in Threads, Call(t) PROVE dir' = dir /\ (dir = "TX" => queue' = queue)
    BY <2>1
       DEF Call, agm_compress_set_params, agm_compress_avail, agm_compress_write, agm_compress_read,
           agm_compress_start, agm_compress_pause, agm_compress_resume, agm_compress_stop,
           agm_compress_drain, agm_compress_poll, PollTimeout, agm_compress_close
  <2>2. ASSUME NEW t \in Threads, Step(t)
        PROVE  dir' = dir /\ (dir = "TX" => queue' = queue \/ queue' = <<>>)
    BY <2>2
       DEF Step, LoadAvail, ChargeAvail, StopDrain, StopPoll, StopSession, StopReset, DrainWait,
           DrainReturn, CloseSession, CloseDrain, CloseFree, SetUpInv
  <2>3. ASSUME (\E t \in Threads : WakeUp(t)) \/ Callback \/ Dsp \/ UNCHANGED vars
        PROVE  dir' = dir /\ (dir = "TX" => queue' = queue)
    BY <2>3 DEF WakeUp, Callback, Dsp, graph_event_cb, agm_compress_event_cb, StoreAvail,
                EosRendered, SignalPoll, DspConsume, DspFill, SetUpInv, vars
  <2>4. dir = "TX" => queue = <<>>
    BY DEF SetUpInv
  <2> QED BY <2>1, <2>2, <2>3, <2>4 DEF Next
<1> QED BY <1>1, <1>2, <1>3 DEF SetUpInv

LEMMA StepDelivery == ASSUME TypeInv, DeliveryInv, [Next]_vars PROVE DeliveryInv'
<1> USE DEF privVars, threadVars, sessVars, dspVars
<1>1. ASSUME cb' = cb PROVE DeliveryInv'
  BY <1>1 DEF DeliveryInv
<1>2. ASSUME NEW t \in Threads, Call(t) \/ Step(t) \/ WakeUp(t) PROVE cb' = cb
  <2>1. CASE Call(t)
    BY <2>1
       DEF Call, agm_compress_set_params, agm_compress_avail, agm_compress_write, agm_compress_read,
           agm_compress_start, agm_compress_pause, agm_compress_resume, agm_compress_stop,
           agm_compress_drain, agm_compress_poll, PollTimeout, agm_compress_close
  <2>2. CASE Step(t) \/ WakeUp(t)
    BY <2>2, StepMoves, OtherMoves
  <2> QED BY <1>2, <2>1, <2>2
<1>3. CASE Callback
  <2>1. CASE graph_event_cb
    <3>1. Head(events) \in {"WRITE_DONE", "READ_DONE", "EOS_RENDERED"}
      BY <2>1 DEF graph_event_cb, TypeInv, TypeOK
    <3> QED BY <2>1, <3>1, CallbackFields DEF DeliveryInv
  <2>2. CASE agm_compress_event_cb
    <3>1. cb.event # "none" /\ cb.event \in {"none", "WRITE_DONE", "READ_DONE", "EOS_RENDERED"}
      BY <2>2 DEF agm_compress_event_cb, DeliveryInv, TypeInv, TypeOK
    <3> QED BY <2>2, <3>1, CallbackFields DEF DeliveryInv
  <2>3. CASE StoreAvail \/ EosRendered \/ SignalPoll
    BY <2>3, CallbackFields DEF DeliveryInv
  <2> QED BY <1>3, <2>1, <2>2, <2>3 DEF Callback
<1>4. CASE Dsp \/ UNCHANGED vars
  BY <1>1, <1>4, OtherMoves DEF vars
<1> QED BY <1>1, <1>2, <1>3, <1>4 DEF Next

LEMMA StepLock == ASSUME TypeInv, LockInv, [Next]_vars PROVE LockInv'
<1> USE DEF privVars, threadVars, sessVars, dspVars
<1>1. ASSUME \A u \in Threads : Storing(u)' => Storing(u),
             cb'.step \in {"store", "eos"} => cb.step \in {"store", "eos"}
      PROVE  LockInv'
  BY <1>1 DEF LockInv
<1>2. ASSUME NEW t \in Threads, Call(t) PROVE LockInv'
  <2>1. cb' = cb
    BY <1>2
       DEF Call, agm_compress_set_params, agm_compress_avail, agm_compress_write, agm_compress_read,
           agm_compress_start, agm_compress_pause, agm_compress_resume, agm_compress_stop,
           agm_compress_drain, agm_compress_poll, PollTimeout, agm_compress_close
  <2>2. \A u \in Threads : Storing(u)' => Storing(u)
    BY <1>2, CallMoves DEF Moved, Storing
  <2> QED BY <1>1, <2>1, <2>2
<1>3. ASSUME NEW t \in Threads, Step(t) PROVE LockInv'
  <2>1. cb' = cb
    BY <1>3, StepMoves
  <2>2. CASE LockFree /\ \A u \in Threads \ {t} : pc'[u] = pc[u]
    BY <2>1, <2>2 DEF LockFree, LockInv, Storing
  <2>3. CASE \A u \in Threads : Storing(u)' => Storing(u)
    BY <1>1, <2>1, <2>3
  <2> QED BY <1>3, <2>2, <2>3, StepMoves DEF Moved, MovedAndDrain, MovedAndPoll, Storing
<1>4. ASSUME NEW t \in Threads, WakeUp(t) PROVE LockInv'
  BY <1>1, <1>4, OtherMoves DEF Moved, Storing
<1>5. CASE Callback
  <2>1. \A u \in Threads : Storing(u)' => Storing(u)
    BY <1>5, OtherMoves, DrainSignals, PollSignals DEF Storing
  <2>2. CASE agm_compress_event_cb
    <3>1. \A u \in Threads : ~Storing(u)
      BY <2>2 DEF agm_compress_event_cb, LockFree, Storing
    <3> QED BY <2>1, <3>1 DEF LockInv
  <2>3. CASE graph_event_cb \/ StoreAvail \/ EosRendered \/ SignalPoll
    <3>1. cb'.step \in {"store", "eos"} => cb.step \in {"store", "eos"}
      BY <2>3, CallbackFields
    <3> QED BY <1>1, <2>1, <3>1
  <2> QED BY <1>5, <2>2, <2>3 DEF Callback
<1>6. CASE Dsp \/ UNCHANGED vars
  BY <1>1, <1>6, OtherMoves DEF vars, Storing
<1> QED BY <1>2, <1>3, <1>4, <1>5, <1>6 DEF Next

BaseInv == TypeInv /\ SetUpInv /\ CalledInv /\ DeliveryInv /\ LockInv

LEMMA InitBase == ASSUME Init PROVE BaseInv
<1>1. \A t \in Threads : pc[t] = "idle"
  BY DEF Init
<1>2. SetUpInv /\ CalledInv /\ DeliveryInv /\ LockInv
  BY <1>1 DEF Init, NoDelivery, SetUpInv, CalledInv, DeliveryInv, LockInv, Charging, Storing,
              StopSteps, CloseSteps
<1> QED BY <1>2, InitTypes DEF BaseInv

LEMMA StepBase == ASSUME BaseInv, [Next]_vars PROVE BaseInv'
BY StepTypes, StepSetUp, StepCalled, StepDelivery, StepLock DEF BaseInv

-----------------------------------------------------------------------------
(* Drains.                                                                 *)

LEMMA CallFields ==
  ASSUME TypeInv, NEW t \in Threads, Call(t)
  PROVE  cb' = cb /\ events' = events /\ freed' = freed /\ (eos' = eos \/ eos')
BY DEF Call, agm_compress_set_params, agm_compress_avail, agm_compress_write, agm_compress_read,
       agm_compress_start, agm_compress_pause, agm_compress_resume, agm_compress_stop,
       agm_compress_drain, agm_compress_poll, PollTimeout, agm_compress_close,
       privVars, threadVars, sessVars, dspVars

LEMMA OneWaits ==
  ASSUME OneDrains, CalledInv, NEW t \in Threads, NEW u \in Threads,
         pc[t] \in {"drain_eos", "drain_wait", "drain_woken"},
         pc[u] \in {"drain_eos", "drain_wait", "drain_woken"}
  PROVE  t = u
BY DEF OneDrains, CalledInv

LEMMA StepArmed == ASSUME OneDrains, BaseInv, ArmedInv, [Next]_vars PROVE ArmedInv'
<1>0. TypeInv /\ CalledInv
  BY DEF BaseInv
<1>1. ASSUME NEW t \in Threads, Call(t) PROVE ArmedInv'
  <2>1. eos' = eos \/ eos'
    BY <1>0, <1>1, CallFields
  <2>2. \A u \in Threads : pc'[u] \in {"drain_eos", "drain_wait"} =>
          pc[u] \in {"drain_eos", "drain_wait"} \/ eos'
    BY <1>0, <1>1, CallMoves DEF Moved
  <2>3. \A u \in Threads : pc[u] \in {"drain_eos", "drain_wait"} => eos
    BY DEF ArmedInv
  <2> QED BY <2>1, <2>2, <2>3 DEF ArmedInv
<1>2. ASSUME EosLockFree, NEW T \in SUBSET Threads,
             \A u \in T : pc'[u] \notin {"drain_eos", "drain_wait"},
             \A u \in Threads \ T :
               pc'[u] = pc[u] \/ (pc[u] = "drain_wait" /\ pc'[u] = "drain_woken"),
             eos /\ (\E u \in Threads : pc[u] = "drain_wait") =>
               \E u \in Threads : pc[u] = "drain_wait" /\ pc'[u] = "drain_woken"
      PROVE  \A u \in Threads : pc'[u] \notin {"drain_eos", "drain_wait"}
  BY <1>0, <1>2, OneWaits DEF ArmedInv, EosLockFree
<1>3. ASSUME NEW t \in Threads, Step(t) PROVE ArmedInv'
  <2>1. CASE eos' = eos
    BY <1>0, <1>3, <2>1, StepMoves DEF Moved, MovedAndPoll, MovedAndDrain, ArmedInv
  <2>2. CASE /\ EosLockFree
             /\ \/ pc[t] = "stop_eos" /\ MovedAndDrain(t, "stop_poll")
                \/ pc[t] = "close_eos" /\ MovedAndDrain(t, "close_free")
    <3>1. /\ pc'[t] \notin {"drain_eos", "drain_wait"}
          /\ \A u \in Threads \ {t} :
               pc'[u] = pc[u] \/ (pc[u] = "drain_wait" /\ pc'[u] = "drain_woken")
          /\ eos /\ (\E u \in Threads : pc[u] = "drain_wait") =>
               \E u \in Threads : pc[u] = "drain_wait" /\ pc'[u] = "drain_woken"
      BY <2>2 DEF MovedAndDrain
    <3>2. \A u \in Threads : pc'[u] \notin {"drain_eos", "drain_wait"}
      <4> DEFINE T == {t}
      <4>1. /\ T \in SUBSET Threads /\ \A u \in T : pc'[u] \notin {"drain_eos", "drain_wait"}
            /\ \A u \in Threads \ T :
                 pc'[u] = pc[u] \/ (pc[u] = "drain_wait" /\ pc'[u] = "drain_woken")
        BY <3>1
      <4> HIDE DEF T
      <4> QED BY <1>2, <2>2, <3>1, <4>1
    <3> QED BY <3>2 DEF ArmedInv
  <2> QED BY <1>0, <1>3, <2>1, <2>2, StepMoves
<1>4. ASSUME NEW t \in Threads, WakeUp(t) PROVE ArmedInv'
  BY <1>0, <1>4, OtherMoves DEF Moved, ArmedInv
<1>5. CASE Callback
  <2>1. CASE UNCHANGED <<pc, eos>>
    BY <2>1 DEF ArmedInv
  <2>2. CASE EosLockFree /\ pc' \in DrainReleased
    <3>1. /\ \A u \in Threads :
               pc'[u] = pc[u] \/ (pc[u] = "drain_wait" /\ pc'[u] = "drain_woken")
          /\ eos /\ (\E u \in Threads : pc[u] = "drain_wait") =>
               \E u \in Threads : pc[u] = "drain_wait" /\ pc'[u] = "drain_woken"
      <4>1. pc \in [Threads -> Steps]
        BY <1>0 DEF TypeInv, TypeOK
      <4> QED BY <1>0, <2>2, <4>1, DrainSignals
    <3>2. \A u \in Threads : pc'[u] \notin {"drain_eos", "drain_wait"}
      <4> DEFINE T == {}
      <4>1. /\ T \in SUBSET Threads /\ \A u \in T : pc'[u] \notin {"drain_eos", "drain_wait"}
            /\ \A u \in Threads \ T :
                 pc'[u] = pc[u] \/ (pc[u] = "drain_wait" /\ pc'[u] = "drain_woken")
        BY <3>1
      <4> HIDE DEF T
      <4> QED BY <1>2, <2>2, <3>1, <4>1
    <3> QED BY <3>2 DEF ArmedInv
  <2>3. CASE eos' = eos /\ pc' \in PollReleased
    BY <1>0, <2>3, PollSignals DEF ArmedInv
  <2> QED BY <1>0, <1>5, <2>1, <2>2, <2>3, OtherMoves
<1>6. CASE Dsp \/ UNCHANGED vars
  BY <1>0, <1>6, OtherMoves DEF vars, privVars, threadVars, ArmedInv
<1> QED BY <1>1, <1>3, <1>4, <1>5, <1>6 DEF Next

(* Whatever the callback, a stop and a close do, eos is set as long as a   *)
(* drain waits, so that the next of them signals it: drain_wait_cond has   *)
(* no lost wakeup, when the client drains from one thread only (the signal *)
(* of drain_wait_cond wakes one waiter, and clears eos for all).           *)
THEOREM DrainArmed == ASSUME OneDrains PROVE Spec => []WaitingDrainArmed
<1>1. Init => BaseInv /\ ArmedInv
  BY InitBase DEF Init, ArmedInv
<1>2. BaseInv /\ ArmedInv /\ [Next]_vars => (BaseInv /\ ArmedInv)'
  BY StepBase, StepArmed
<1>3. ArmedInv => WaitingDrainArmed
  BY DEF ArmedInv, WaitingDrainArmed
<1> QED BY <1>1, <1>2, <1>3, PTL DEF Spec

-----------------------------------------------------------------------------
(* Closing.                                                                *)

LEMMA StepClosing ==
  ASSUME NeverCalls("close_waiting"), BaseInv, ClosingInv, [Next]_vars PROVE ClosingInv'
<1> USE DEF privVars, threadVars, sessVars, dspVars
<1>0. TypeInv /\ CalledInv /\ pc \in [Threads -> Steps] /\ freed \in BOOLEAN
  BY DEF BaseInv, TypeInv, TypeOK
<1>1. ASSUME NEW t \in Threads, Call(t) PROVE ClosingInv'
  <2>0. ~freed' /\ cb' = cb /\ \A u \in Threads : pc[u] \notin CloseSteps
    BY <1>0, <1>1, CallMoves, CallFields DEF Closing, CloseSteps
  <2>1. CASE agm_compress_close(t) /\ Moved(t, "close_session")
    <3>1. cb.step = "idle" /\ \A u \in Threads : pc[u] = "idle"
      BY <2>1 DEF agm_compress_close, MayCall, NeverCalls
    <3> QED BY <2>0, <2>1, <3>1 DEF Moved, ClosingInv
  <2>2. CASE \A u \in Threads : pc'[u] \notin CloseSteps
    BY <2>0, <2>2 DEF ClosingInv
  <2> QED BY <1>0, <1>1, <2>0, <2>1, <2>2, CallMoves DEF Moved, CloseSteps
<1>2. ASSUME NEW t \in Threads, Step(t) PROVE ClosingInv'
  <2>0. ~freed /\ pc[t] # "idle" /\ cb' = cb
    BY <1>0, <1>2, StepMoves DEF ClosingInv
  <2>1. CASE pc[t] \in CloseSteps
    <3>1. ~registered /\ cb.step = "idle" /\ \A u \in Threads \ {t} : pc[u] = "idle"
      BY <1>0, <2>1 DEF CalledInv, ClosingInv
    <3>2. CASE /\ UNCHANGED freed
               /\ \/ pc[t] = "close_session" /\ Moved(t, "close_eos")
                  \/ pc[t] = "close_eos" /\ MovedAndDrain(t, "close_free")
      <4>1. pc'[t] \in CloseSteps /\ \A u \in Threads \ {t} : pc'[u] = "idle"
        BY <3>1, <3>2 DEF Moved, MovedAndDrain, CloseSteps
      <4>2. \A u \in Threads : pc'[u] \in CloseSteps => u = t
        BY <4>1 DEF CloseSteps
      <4> QED BY <2>0, <3>1, <3>2, <4>1, <4>2 DEF ClosingInv
    <3>3. CASE pc[t] = "close_free" /\ MovedAndPoll(t, "idle")
      <4>1. \A u \in Threads : pc'[u] = "idle"
        BY <3>1, <3>3 DEF MovedAndPoll
      <4>2. registered' = registered
        BY <1>0, <1>2, StepMoves
      <4> QED BY <2>0, <3>1, <4>1, <4>2 DEF ClosingInv, CloseSteps
    <3> QED BY <1>0, <1>2, <2>1, <3>2, <3>3, StepMoves DEF CloseSteps
  <2>2. CASE pc[t] \notin CloseSteps
    <3>1. \A u \in Threads : pc[u] \notin CloseSteps
      BY <2>0, <2>2 DEF ClosingInv
    <3>2. freed' = freed /\ \A u \in Threads : pc'[u] \notin CloseSteps
      BY <1>0, <1>2, <2>2, <3>1, StepMoves DEF Moved, MovedAndDrain, MovedAndPoll, CloseSteps
    <3> QED BY <2>0, <3>2 DEF ClosingInv
  <2> QED BY <2>1, <2>2
<1>3. ASSUME NEW t \in Threads, WakeUp(t) PROVE ClosingInv'
  <2>1. pc[t] \in {"drain_wait", "poll_wait"} /\ UNCHANGED freed
    BY <1>3 DEF WakeUp
  <2>2. ~freed /\ \A u \in Threads : pc[u] \notin CloseSteps
    BY <2>1 DEF ClosingInv, CloseSteps
  <2>3. \A u \in Threads : pc'[u] \notin CloseSteps
    BY <1>0, <1>3, <2>2, OtherMoves DEF Moved, CloseSteps
  <2> QED BY <2>1, <2>2, <2>3 DEF ClosingInv
<1>4. CASE Callback
  <2>0. UNCHANGED <<registered, freed>>
    BY <1>0, <1>4, OtherMoves
  <2>1. CASE freed \/ \E t \in Threads : pc[t] \in CloseSteps
    <3>1. cb.step = "idle" /\ ~registered
      BY <1>0, <2>1 DEF CalledInv, ClosingInv
    <3>2. graph_event_cb
      BY <1>4, <3>1 DEF Callback, agm_compress_event_cb, StoreAvail, EosRendered, SignalPoll
    <3>3. cb' = cb /\ pc' = pc
      BY <3>1, <3>2 DEF graph_event_cb
    <3> QED BY <2>0, <3>3 DEF ClosingInv
  <2>2. CASE ~freed /\ \A t \in Threads : pc[t] \notin CloseSteps
    <3>1. \A u \in Threads : pc'[u] \notin CloseSteps
      BY <1>0, <1>4, <2>2, OtherMoves, DrainSignals, PollSignals DEF CloseSteps
    <3> QED BY <2>0, <2>2, <3>1 DEF ClosingInv
  <2> QED BY <2>1, <2>2
<1>5. CASE Dsp \/ UNCHANGED vars
  BY <1>0, <1>5, OtherMoves DEF vars, ClosingInv
<1> QED BY <1>1, <1>2, <1>3, <1>4, <1>5 DEF Next

(* agm_compress_close frees priv when no callback is in progress and no    *)
(* thread has a step left that uses it, and neither comes back, when the   *)
(* client does not close to get a thread out of drain.                     *)
THEOREM FreedAtRest == ASSUME NeverCalls("close_waiting") PROVE Spec => []NothingAfterFree
<1>1. Init => BaseInv /\ ClosingInv
  BY InitBase DEF Init, ClosingInv, CloseSteps
<1>2. BaseInv /\ ClosingInv /\ [Next]_vars => (BaseInv /\ ClosingInv)'
  BY StepBase, StepClosing
<1>3. ClosingInv => NothingAfterFree
  BY DEF ClosingInv, NothingAfterFree
<1> QED BY <1>1, <1>2, <1>3, PTL DEF Spec

-----------------------------------------------------------------------------
(* The end of stream a drain has sent.                                     *)

LEMMA AppendPositions ==
  ASSUME NEW S, NEW q \in Seq(S), NEW X, NEW e \in S
  PROVE  /\ Positions(Append(q, e), X) =
              Positions(q, X) \cup (IF e \in X THEN {Len(q) + 1} ELSE {})
         /\ Len(q) + 1 \notin Positions(q, X)
<1> DEFINE r == Append(q, e)
<1>1. /\ Len(q) \in Nat /\ DOMAIN q = 1..Len(q) /\ DOMAIN r = 1..(Len(q) + 1)
      /\ r[Len(q) + 1] = e /\ \A i \in 1..Len(q) : r[i] = q[i]
  BY AppendProperties, LenProperties
<1> HIDE DEF r
<1>2. Positions(r, X) = Positions(q, X) \cup (IF e \in X THEN {Len(q) + 1} ELSE {})
  BY <1>1 DEF Positions
<1> QED BY <1>1, <1>2 DEF Positions, r

LEMMA AppendOther ==
  ASSUME NEW S, NEW q \in Seq(S), NEW X, NEW e \in S, e \notin X
  PROVE  \A i : i \in Positions(Append(q, e), X) <=> i \in Positions(q, X)
<1> DEFINE r == Append(q, e)
<1>1. /\ Len(q) \in Nat /\ DOMAIN q = 1..Len(q) /\ DOMAIN r = 1..(Len(q) + 1)
      /\ r[Len(q) + 1] = e /\ \A i \in 1..Len(q) : r[i] = q[i]
  BY AppendProperties, LenProperties
<1> HIDE DEF r
<1>2. \A i : i \in Positions(r, X) <=> i \in Positions(q, X)
  BY <1>1 DEF Positions
<1> QED BY <1>2 DEF r

LEMMA ConcatOther ==
  ASSUME NEW S, NEW q \in Seq(S), NEW X, NEW e \in S, e \notin X, NEW n \in Nat
  PROVE  \A i : i \in Positions(q \o [j \in 1..n |-> e], X) <=> i \in Positions(q, X)
<1> DEFINE b == [j \in 1..n |-> e]
           r == q \o b
<1>1. b \in Seq(S) /\ Len(b) = n /\ \A i \in 1..n : b[i] = e
  OBVIOUS
<1>2. Len(q) \in Nat /\ DOMAIN q = 1..Len(q)
  OBVIOUS
<1> HIDE DEF b
<1>3. /\ r \in Seq(S) /\ Len(r) = Len(q) + n
      /\ \A i \in 1..(Len(q) + n) : r[i] = IF i <= Len(q) THEN q[i] ELSE b[i - Len(q)]
  BY <1>1, ConcatProperties
<1>4. \A i \in 1..(Len(q) + n) : ~(i <= Len(q)) => r[i] = e
  BY <1>1, <1>2, <1>3
<1>5. DOMAIN r = 1..(Len(q) + n)
  BY <1>3, LenProperties
<1> HIDE DEF r
<1>6. \A i : i \in Positions(r, X) <=> i \in Positions(q, X)
  BY <1>2, <1>3, <1>4, <1>5 DEF Positions
<1> QED BY <1>6 DEF r, b

LEMMA TailPositions ==
  ASSUME NEW S, NEW q \in Seq(S), NEW X, q # <<>>
  PROVE  /\ \A i : i \in Positions(Tail(q), X) <=> i \in Nat \ {0} /\ i + 1 \in Positions(q, X)
         /\ 1 \in Positions(q, X) <=> Head(q) \in X
<1> DEFINE r == Tail(q)
<1>1. /\ Len(q) \in Nat /\ Len(q) # 0 /\ DOMAIN q = 1..Len(q)
      /\ DOMAIN r = 1..(Len(q) - 1) /\ \A i \in 1..(Len(q) - 1) : r[i] = q[i + 1]
      /\ Head(q) = q[1]
  BY EmptySeq, LenProperties
<1> HIDE DEF r
<1>2. \A i : i \in Positions(r, X) <=> i \in 1..(Len(q) - 1) /\ q[i + 1] \in X
  BY <1>1 DEF Positions
<1>3. \A i \in Nat \ {0} : i + 1 \in Positions(q, X) <=> i \in 1..(Len(q) - 1) /\ q[i + 1] \in X
  BY <1>1 DEF Positions
<1>4. 1 \in Positions(q, X) <=> Head(q) \in X
  BY <1>1 DEF Positions
<1>5. \A i : i \in 1..(Len(q) - 1) => i \in Nat \ {0}
  BY <1>1
<1> QED BY <1>2, <1>3, <1>4, <1>5 DEF r

Events == {"WRITE_DONE", "READ_DONE", "EOS_RENDERED"}

LEMMA EosPositions ==
  /\ EosQueued = Positions(queue, {"eos"}) /\ EosRaised = Positions(events, {"EOS_RENDERED"})
  /\ EosQueued' = Positions(queue', {"eos"}) /\ EosRaised' = Positions(events', {"EOS_RENDERED"})
BY DEF EosQueued, EosRaised, Positions

(* A step that adds no end of stream on its way, and leaves the waiting    *)
(* drain.                                                                  *)
LEMMA EosKept ==
  ASSUME EosInv, EosQueued' \subseteq EosQueued, EosRaised' \subseteq EosRaised,
         EosDelivered' => EosDelivered,
         \A u \in Threads : pc[u] = "drain_wait" => pc'[u] = "drain_wait"
  PROVE  EosInv'
<1>1. \A i, j \in EosQueued : i = j
  BY DEF EosInv
<1>2. \A i, j \in EosRaised : i = j
  BY DEF EosInv
<1> DEFINE Q == EosQueued
           R == EosRaised
           D == EosDelivered
<1>3. /\ Q # {} \/ R # {} \/ D => \E t \in Threads : pc[t] = "drain_wait"
      /\ ~(Q # {} /\ R # {}) /\ ~(Q # {} /\ D) /\ ~(R # {} /\ D)
  BY DEF EosInv
<1>4. Q' \subseteq Q /\ R' \subseteq R /\ (D' => D)
  OBVIOUS
<1>5. /\ Q' # {} \/ R' # {} \/ D' => \E t \in Threads : pc'[t] = "drain_wait"
      /\ ~(Q' # {} /\ R' # {}) /\ ~(Q' # {} /\ D') /\ ~(R' # {} /\ D')
  <2> HIDE DEF Q, R, D
  <2> QED BY <1>3, <1>4
<1> QED BY <1>1, <1>2, <1>5 DEF EosInv

LEMMA NoEos ==
  ASSUME EosQueued' = {}, EosRaised' = {}, ~EosDelivered' PROVE EosInv'
BY DEF EosInv

LEMMA StepEos ==
  ASSUME OneDrains, NeverCalls("stop"), ~Spurious,
         BaseInv, ClosingInv, EosInv, [Next]_vars
  PROVE  EosInv'
<1> USE DEF privVars, threadVars, sessVars, dspVars
<1>0. /\ TypeInv /\ CalledInv /\ DeliveryInv /\ pc \in [Threads -> Steps]
      /\ queue \in Seq(Commands) /\ events \in Seq(Events)
  BY DEF BaseInv, TypeInv, TypeOK, Commands, Events
<1>1. ASSUME NEW t \in Threads, Call(t) PROVE EosInv'
  <2>1. cb' = cb /\ events' = events
    BY <1>0, <1>1, CallFields
  <2>2. \A u \in Threads : pc[u] = "drain_wait" => pc'[u] = "drain_wait"
    BY <1>0, <1>1, CallMoves DEF Moved
  <2>3. EosQueued' = EosQueued
    <3>1. CASE queue' = queue
      BY <3>1 DEF EosQueued
    <3>2. ASSUME NEW count \in 1..Total, queue' = queue \o [i \in 1..Used(Accepted(count)) |-> "buf"]
          PROVE  EosQueued' = EosQueued
      <4>1. Used(Accepted(count)) \in Nat /\ "buf" \in Commands /\ "buf" \notin {"eos"}
        BY <1>0, TransferFits DEF Commands
      <4>2. Positions(queue', {"eos"}) = Positions(queue, {"eos"})
        <5> DEFINE X == {"eos"}
        <5>1. "buf" \notin X
          BY <4>1
        <5> HIDE DEF X
        <5>2. \A i : i \in Positions(queue', X) <=> i \in Positions(queue, X)
          BY <1>0, <3>2, <4>1, <5>1, ConcatOther
        <5> QED BY <5>2 DEF X
      <4> QED BY <4>2, EosPositions
    <3>3. queue' = queue
          \/ \E count \in 1..Total : queue' = queue \o [i \in 1..Used(Accepted(count)) |-> "buf"]
      BY <1>1
         DEF Call, agm_compress_set_params, agm_compress_avail, agm_compress_write,
             agm_compress_read, agm_compress_start, agm_compress_pause, agm_compress_resume,
             agm_compress_stop, agm_compress_drain, agm_compress_poll, PollTimeout,
             agm_compress_close
    <3> QED BY <3>1, <3>2, <3>3
  <2> QED BY <2>1, <2>2, <2>3, EosKept DEF EosRaised, EosDelivered
<1>2. ASSUME NEW t \in Threads, Step(t) PROVE EosInv'
  <2>0. cb' = cb /\ pc[t] \notin StopSteps
    BY <1>0, <1>2, StepMoves DEF CalledInv, NeverCalls
  <2>1. CASE LoadAvail(t) \/ ChargeAvail(t) \/ DrainReturn(t)
    <3>1. UNCHANGED <<queue, events>> /\ pc[t] # "drain_wait"
          /\ \A u \in Threads \ {t} : pc'[u] = pc[u]
      BY <1>0, <2>1 DEF LoadAvail, ChargeAvail, DrainReturn, Goto
    <3> QED BY <2>0, <3>1, EosKept DEF EosQueued, EosRaised, EosDelivered
  <2>2. CASE StopDrain(t) \/ StopPoll(t) \/ StopSession(t) \/ StopReset(t)
    BY <2>0, <2>2 DEF StopDrain, StopPoll, StopSession, StopReset, StopSteps
  <2>3. CASE DrainWait(t)
    <3>1. pc[t] = "drain_eos" /\ \A u \in Threads : pc[u] # "drain_wait"
      <4>1. pc[t] = "drain_eos"
        BY <2>3 DEF DrainWait
      <4>2. ASSUME NEW u \in Threads, pc[u] = "drain_wait" PROVE FALSE
        <5>1. t = u
          BY <1>0, <4>1, <4>2, OneWaits
        <5> QED BY <4>1, <4>2, <5>1
      <4> QED BY <4>1, <4>2
    <3>2. EosQueued = {} /\ EosRaised = {} /\ ~EosDelivered
      BY <3>1 DEF EosInv
    <3>3. EosRaised' = EosRaised /\ EosDelivered' = EosDelivered
      BY <2>3 DEF DrainWait, EosRaised, EosDelivered
    <3>4. CASE queue' = Append(queue, "eos") /\ Goto(t, "drain_wait")
      <4>1. pc'[t] = "drain_wait"
        BY <1>0, <3>4 DEF Goto
      <4>2. EosQueued' = {Len(queue) + 1}
        <5>1. Positions(queue', {"eos"}) = Positions(queue, {"eos"}) \cup {Len(queue) + 1}
          BY <1>0, <3>4, AppendPositions DEF Commands
        <5> QED BY <3>2, <5>1, EosPositions
      <4> QED BY <3>2, <3>3, <4>1, <4>2 DEF EosInv
    <3>5. CASE UNCHANGED queue
      <4>1. EosQueued' = EosQueued
        BY <3>5 DEF EosQueued
      <4> QED BY <3>2, <3>3, <4>1, NoEos
    <3> QED BY <2>3, <3>4, <3>5 DEF DrainWait
  <2>4. CASE CloseSession(t) \/ CloseDrain(t) \/ CloseFree(t)
    <3>1. \A u \in Threads : pc[u] # "drain_wait"
      BY <2>4 DEF CloseSession, CloseDrain, CloseFree, ClosingInv, CloseSteps
    <3>2. EosQueued = {} /\ EosRaised = {} /\ ~EosDelivered
      BY <3>1 DEF EosInv
    <3>3. EosQueued' = {}
      <4>1. queue' = queue \/ queue' = <<>>
        BY <2>4 DEF CloseSession, CloseDrain, CloseFree
      <4> QED BY <3>2, <4>1 DEF EosQueued
    <3>4. EosRaised' = EosRaised /\ EosDelivered' = EosDelivered
      BY <2>4 DEF CloseSession, CloseDrain, CloseFree, EosRaised, EosDelivered
    <3> QED BY <3>2, <3>3, <3>4, NoEos
  <2> QED BY <1>2, <2>1, <2>2, <2>3, <2>4 DEF Step
<1>3. ASSUME NEW t \in Threads, WakeUp(t) PROVE EosInv'
  BY <1>3 DEF WakeUp
<1>4. CASE Callback
  <2>1. CASE graph_event_cb
    <3>0. events # <<>> /\ events' = Tail(events) /\ UNCHANGED <<pc, queue>> /\ cb.step = "idle"
      BY <2>1 DEF graph_event_cb
    <3>1. /\ \A i : i \in EosRaised' <=> i \in Nat \ {0} /\ i + 1 \in EosRaised
          /\ 1 \in EosRaised <=> Head(events) = "EOS_RENDERED"
      BY <1>0, <3>0, TailPositions, EosPositions
    <3>2. ~EosDelivered /\ EosQueued' = EosQueued
      BY <3>0 DEF EosDelivered, EosQueued
    <3>3. \A i, j \in EosRaised' : i = j
      <4>1. \A i, j \in EosRaised : i = j
        BY DEF EosInv
      <4>2. ASSUME NEW i \in EosRaised', NEW j \in EosRaised' PROVE i = j
        <5>1. i \in Nat /\ j \in Nat /\ i + 1 = j + 1
          BY <3>1, <4>1, <4>2
        <5> QED BY <5>1
      <4> QED BY <4>2
    <3>4. EosRaised' # {} => EosRaised # {}
      BY <3>1
    <3>5. CASE EosDelivered'
      <4>1. Head(events) = "EOS_RENDERED"
        BY <1>0, <2>1, <3>2, <3>5, CallbackFields DEF EosDelivered
      <4>2. 1 \in EosRaised
        BY <3>1, <4>1
      <4>3. EosRaised' = {}
        <5>1. \A i, j \in EosRaised : i = j
          BY DEF EosInv
        <5>2. ASSUME NEW i \in EosRaised' PROVE FALSE
          <6>1. i \in Nat \ {0} /\ i + 1 = 1
            BY <3>1, <4>2, <5>1, <5>2
          <6> QED BY <6>1
        <5> QED BY <5>2
      <4>4. EosQueued = {} /\ \E t \in Threads : pc[t] = "drain_wait"
        BY <4>2 DEF EosInv
      <4> QED BY <3>0, <3>2, <4>3, <4>4 DEF EosInv
    <3>6. CASE ~EosDelivered'
      <4>1. \A i, j \in EosQueued : i = j
        BY DEF EosInv
      <4>2. /\ EosQueued # {} \/ EosRaised # {} => \E t \in Threads : pc[t] = "drain_wait"
            /\ ~(EosQueued # {} /\ EosRaised # {})
        BY DEF EosInv
      <4>3. /\ EosQueued' # {} \/ EosRaised' # {} => \E t \in Threads : pc'[t] = "drain_wait"
            /\ ~(EosQueued' # {} /\ EosRaised' # {}) /\ \A i, j \in EosQueued' : i = j
        BY <3>0, <3>2, <3>4, <4>1, <4>2
      <4> QED BY <3>3, <3>6, <4>3 DEF EosInv
    <3> QED BY <3>5, <3>6
  <2>2. CASE agm_compress_event_cb
    <3>1. EosDelivered' => EosDelivered
      BY <1>0, <2>2, CallbackFields DEF EosDelivered, agm_compress_event_cb
    <3>2. EosQueued' = EosQueued /\ EosRaised' = EosRaised /\ pc' = pc
      BY <2>2 DEF agm_compress_event_cb, EosQueued, EosRaised
    <3> QED BY <3>1, <3>2, EosKept
  <2>3. CASE EosRendered
    <3>1. EosDelivered /\ ~EosDelivered'
      BY <1>0, <2>3, CallbackFields DEF EosRendered, EosDelivered, DeliveryInv
    <3>2. EosQueued = {} /\ EosRaised = {}
      BY <3>1 DEF EosInv
    <3>3. EosQueued' = EosQueued /\ EosRaised' = EosRaised
      BY <2>3 DEF EosRendered, EosQueued, EosRaised
    <3> QED BY <3>1, <3>2, <3>3, NoEos
  <2>4. CASE StoreAvail \/ SignalPoll
    <3>1. ~EosDelivered'
      BY <1>0, <2>4, CallbackFields DEF EosDelivered
    <3>2. EosQueued' = EosQueued /\ EosRaised' = EosRaised
      BY <2>4 DEF StoreAvail, SignalPoll, EosQueued, EosRaised
    <3>3. \A u \in Threads : pc[u] = "drain_wait" => pc'[u] = "drain_wait"
      BY <1>0, <2>4, PollSignals DEF StoreAvail, SignalPoll
    <3> QED BY <3>1, <3>2, <3>3, EosKept
  <2> QED BY <1>4, <2>1, <2>2, <2>3, <2>4 DEF Callback
<1>5. CASE Dsp
  <2>1. CASE DspConsume
    <3>0. /\ queue # <<>> /\ queue' = Tail(queue) /\ UNCHANGED <<pc, cb>>
          /\ events' = Append(events, IF Head(queue) = "buf" THEN "WRITE_DONE" ELSE "EOS_RENDERED")
      BY <2>1 DEF DspConsume
    <3>1. /\ \A i : i \in EosQueued' <=> i \in Nat \ {0} /\ i + 1 \in EosQueued
          /\ 1 \in EosQueued <=> Head(queue) = "eos"
      BY <1>0, <3>0, TailPositions, EosPositions
    <3>2. Head(queue) \in Commands /\ EosDelivered' = EosDelivered
      BY <1>0, <3>0 DEF EosDelivered
    <3>3. CASE Head(queue) = "eos"
      <4>1. events' = Append(events, "EOS_RENDERED")
        BY <3>0, <3>3
      <4>2. EosRaised' = EosRaised \cup {Len(events) + 1}
        BY <1>0, <4>1, AppendPositions, EosPositions DEF Events
      <4>3. /\ EosRaised = {} /\ ~EosDelivered /\ \A i \in EosQueued : i = 1
            /\ \E t \in Threads : pc[t] = "drain_wait"
        BY <3>1, <3>3 DEF EosInv
      <4>4. EosQueued' = {}
        <5>1. ASSUME NEW i \in EosQueued' PROVE FALSE
          <6>1. i \in Nat \ {0} /\ i + 1 = 1
            BY <3>1, <4>3, <5>1
          <6> QED BY <6>1
        <5> QED BY <5>1
      <4> QED BY <3>0, <3>2, <4>2, <4>3, <4>4 DEF EosInv
    <3>4. CASE Head(queue) = "buf"
      <4>1. events' = Append(events, "WRITE_DONE")
        BY <3>0, <3>4
      <4>2. EosRaised' = EosRaised
        <5>1. "WRITE_DONE" \in Events /\ "WRITE_DONE" \notin {"EOS_RENDERED"}
          BY DEF Events
        <5>2. Positions(events', {"EOS_RENDERED"}) = Positions(events, {"EOS_RENDERED"})
          <6> DEFINE X == {"EOS_RENDERED"}
          <6>1. "WRITE_DONE" \notin X
            BY <5>1
          <6> HIDE DEF X
          <6>2. \A i : i \in Positions(events', X) <=> i \in Positions(events, X)
            BY <1>0, <4>1, <5>1, <6>1, AppendOther
          <6> QED BY <6>2 DEF X
        <5> QED BY <5>2, EosPositions
      <4>3. \A i, j \in EosQueued' : i = j
        <5>1. \A i, j \in EosQueued : i = j
          BY DEF EosInv
        <5>2. ASSUME NEW i \in EosQueued', NEW j \in EosQueued' PROVE i = j
          <6>1. i \in Nat /\ j \in Nat /\ i + 1 = j + 1
            BY <3>1, <5>1, <5>2
          <6> QED BY <6>1
        <5> QED BY <5>2
      <4>4. EosQueued' # {} => EosQueued # {}
        BY <3>1
      <4>5. /\ EosQueued # {} \/ EosRaised # {} \/ EosDelivered => \E t \in Threads : pc[t] = "drain_wait"
            /\ ~(EosQueued # {} /\ EosRaised # {}) /\ ~(EosQueued # {} /\ EosDelivered)
            /\ ~(EosRaised # {} /\ EosDelivered)
        BY DEF EosInv
      <4>6. /\ EosQueued' # {} \/ EosRaised' # {} \/ EosDelivered' =>
                 \E t \in Threads : pc'[t] = "drain_wait"
            /\ ~(EosQueued' # {} /\ EosRaised' # {}) /\ ~(EosQueued' # {} /\ EosDelivered')
            /\ ~(EosRaised' # {} /\ EosDelivered')
        BY <3>0, <3>2, <4>2, <4>4, <4>5
      <4>7. \A i, j \in EosRaised' : i = j
        BY <4>2 DEF EosInv
      <4> QED BY <4>3, <4>6, <4>7 DEF EosInv
    <3> QED BY <3>2, <3>3, <3>4 DEF Commands
  <2>2. CASE DspFill
    <3>1. events' = Append(events, "READ_DONE") /\ UNCHANGED <<pc, queue, cb>>
      BY <2>2 DEF DspFill
    <3>2. EosRaised' = EosRaised
      <4>1. "READ_DONE" \in Events /\ "READ_DONE" \notin {"EOS_RENDERED"}
        BY DEF Events
      <4>2. Positions(events', {"EOS_RENDERED"}) = Positions(events, {"EOS_RENDERED"})
        <5> DEFINE X == {"EOS_RENDERED"}
        <5>1. "READ_DONE" \notin X
          BY <4>1
        <5> HIDE DEF X
        <5>2. \A i : i \in Positions(events', X) <=> i \in Positions(events, X)
          BY <1>0, <3>1, <4>1, <5>1, AppendOther
        <5> QED BY <5>2 DEF X
      <4> QED BY <4>2, EosPositions
    <3> QED BY <3>1, <3>2, EosKept DEF EosQueued, EosDelivered
  <2> QED BY <1>5, <2>1, <2>2 DEF Dsp
<1>6. CASE UNCHANGED vars
  BY <1>6, EosKept DEF vars, EosQueued, EosRaised, EosDelivered
<1> QED BY <1>1, <1>2, <1>3, <1>4, <1>5, <1>6 DEF Next

(* agm_compress_drain returns after the end of stream it sent has been     *)
(* rendered and reported, for a client that drains from one thread, waits  *)
(* for it before it stops or closes, on a system whose condition variables *)
(* do not wake up spuriously (the wait is not in a loop).                  *)
THEOREM DrainReturnsLate ==
  ASSUME OneDrains, NeverCalls("stop"), NeverCalls("close_waiting"), ~Spurious
  PROVE  Spec => []DrainComplete
<1>1. Init => BaseInv /\ ClosingInv /\ EosInv
  <2>1. Init => EosInv
    BY DEF Init, NoDelivery, EosInv, EosQueued, EosRaised, EosDelivered
  <2> QED BY <2>1, InitBase DEF Init, ClosingInv, CloseSteps
<1>2. BaseInv /\ ClosingInv /\ EosInv /\ [Next]_vars => (BaseInv /\ ClosingInv /\ EosInv)'
  BY StepBase, StepClosing, StepEos
<1>3. BaseInv /\ EosInv => DrainComplete
  <2>1. SUFFICES ASSUME BaseInv, EosInv, NEW t \in Threads, pc[t] = "drain_woken"
                 PROVE  EosQueued = {} /\ EosRaised = {}
    BY DEF DrainComplete, EosQueued, EosRaised
  <2>2. ASSUME NEW u \in Threads, pc[u] = "drain_wait" PROVE FALSE
    <3>1. t = u
      BY <2>1, <2>2, OneWaits DEF BaseInv
    <3> QED BY <2>1, <2>2, <3>1
  <2> QED BY <2>1, <2>2 DEF EosInv
<1> QED BY <1>1, <1>2, <1>3, PTL DEF Spec

-----------------------------------------------------------------------------
(* The bytes available.                                                    *)

(* What the threads in a transfer are to be charged for, one element per   *)
(* fragment.                                                               *)
Pairs(n) == UNION {{t} \X (1..n[t]) : t \in DOMAIN n}

LEMMA PairsFinite ==
  ASSUME NEW P \in SUBSET Threads, NEW n \in [P -> 0..Fragments]
  PROVE  IsFiniteSet(Pairs(n)) /\ Cardinality(Pairs(n)) \in Nat
<1>1. Fragments \in Nat /\ IsFiniteSet(Threads)
  BY CompressAssumption DEF CompressAssumption
<1>2. IsFiniteSet(1..Fragments)
  BY <1>1, FS_Interval
<1>3. IsFiniteSet(Threads \X (1..Fragments))
  BY <1>1, <1>2, FS_Product
<1>4. Pairs(n) \in SUBSET (Threads \X (1..Fragments))
  <2>1. ASSUME NEW x \in Pairs(n) PROVE x \in Threads \X (1..Fragments)
    <3>1. PICK t \in P : x \in {t} \X (1..n[t])
      BY <2>1 DEF Pairs
    <3>2. n[t] \in 0..Fragments /\ t \in Threads
      OBVIOUS
    <3>3. 1..n[t] \subseteq 1..Fragments
      BY <1>1, <3>2
    <3> QED BY <3>1, <3>2, <3>3
  <2> QED BY <2>1
<1>5. IsFiniteSet(Pairs(n))
  BY <1>3, <1>4, FS_Subset, Zenon
<1> QED BY <1>5, FS_CardinalityType

LEMMA PairsAdd ==
  ASSUME NEW P \in SUBSET Threads, NEW n \in [P -> 0..Fragments], NEW t \in Threads \ P,
         NEW m \in [P \cup {t} -> 0..Fragments], \A u \in P : m[u] = n[u]
  PROVE  Cardinality(Pairs(m)) = Cardinality(Pairs(n)) + m[t]
<1> DEFINE N == {t} \X (1..m[t])
<1>0. m[t] \in Nat
  BY CompressAssumption DEF CompressAssumption
<1>1. Pairs(m) = Pairs(n) \cup N
  BY DEF Pairs
<1>2. Pairs(n) \cap N = {}
  BY DEF Pairs
<1>3. IsFiniteSet(Pairs(n)) /\ Cardinality(Pairs(n)) \in Nat
  BY PairsFinite
<1>4. IsFiniteSet(N) /\ Cardinality(N) = m[t]
  <2>1. IsFiniteSet({t}) /\ Cardinality({t}) = 1
    BY FS_Singleton
  <2>2. IsFiniteSet(1..m[t]) /\ Cardinality(1..m[t]) = m[t]
    <3>1. IsFiniteSet(1..m[t]) /\ Cardinality(1..m[t]) = IF 1 > m[t] THEN 0 ELSE m[t] - 1 + 1
      BY <1>0, FS_Interval
    <3> QED BY <1>0, <3>1
  <2>3. IsFiniteSet(N) /\ Cardinality(N) = Cardinality({t}) * Cardinality(1..m[t])
    BY <2>1, <2>2, FS_Product, Zenon
  <2> QED BY <1>0, <2>1, <2>2, <2>3
<1> HIDE DEF N
<1>5. Cardinality(Pairs(n) \cup N) =
        Cardinality(Pairs(n)) + Cardinality(N) - Cardinality(Pairs(n) \cap N)
  BY <1>3, <1>4, FS_Union
<1>6. Cardinality(Pairs(n) \cap N) = 0
  BY <1>2, FS_EmptySet, Zenon
<1>7. Cardinality(Pairs(m)) = Cardinality(Pairs(n) \cup N)
  BY <1>1, Zenon
<1> QED BY <1>0, <1>3, <1>4, <1>5, <1>6, <1>7

Chargers == {u \in Threads : Charging(u)}
Charges == [t \in Chargers |-> Used(size[t])]

LEMMA UnchargedPairs ==
  /\ Uncharged = Cardinality(Pairs(Charges))
  /\ Uncharged' = Cardinality(Pairs(Charges'))
<1> DEFINE A == UNION {{t} \X (1..Used(size[t])) : t \in Chargers}
<1>1. A = Pairs(Charges)
  BY DEF Pairs, Charges
<1>2. A' = Pairs(Charges')
  BY DEF Pairs, Charges, Used
<1>3. Uncharged = Cardinality(A) /\ Uncharged' = Cardinality(A')
  BY DEF Uncharged, Chargers
<1> HIDE DEF A
<1> QED BY <1>1, <1>2, <1>3, Zenon

LEMMA ChargesFit ==
  /\ CalledInv => Charges \in [Chargers -> 0..Fragments] /\ \A t \in Chargers : size[t] \in 0..Total
  /\ CalledInv' => Charges' \in [Chargers' -> 0..Fragments]
<1>1. ASSUME NEW bytes \in 0..Total PROVE Used(bytes) \in 0..Fragments
  <2>1. bytes \in Nat /\ Fragments \in Nat /\ bytes <= Fragments * FragSize
    BY CompressAssumption DEF CompressAssumption, Total
  <2> QED BY <2>1, UsedFits, UsedFragments
<1>2. ASSUME CalledInv
      PROVE  Charges \in [Chargers -> 0..Fragments] /\ \A t \in Chargers : size[t] \in 0..Total
  <2>1. \A t \in Chargers : size[t] \in 0..Total
    BY <1>2 DEF Chargers, CalledInv
  <2> QED BY <1>1, <2>1 DEF Charges
<1>3. ASSUME CalledInv' PROVE Charges' \in [Chargers' -> 0..Fragments]
  <2>1. \A t \in Chargers' : size'[t] \in 0..Total
    BY <1>3 DEF Chargers, CalledInv
  <2>2. \A t \in Chargers' : Used(size'[t]) \in 0..Fragments
    BY <1>1, <2>1
  <2> QED BY <2>2 DEF Charges, Used
<1> QED BY <1>2, <1>3

LEMMA ChargesKept ==
  ASSUME \A u \in Threads : Charging(u)' <=> Charging(u),
         \A u \in Threads : Charging(u) => size'[u] = size[u]
  PROVE  Uncharged' = Uncharged
<1>1. Chargers' = Chargers
  BY DEF Chargers
<1>2. \A t \in Chargers : Used(size'[t]) = Used(size[t])
  BY DEF Chargers
<1>3. Charges' = Charges
  BY <1>1, <1>2 DEF Charges, Used
<1> QED BY <1>3, UnchargedPairs, Zenon

LEMMA ChargesAdded ==
  ASSUME TypeInv, CalledInv, TypeInv', CalledInv', NEW t \in Threads,
         ~Charging(t), Charging(t)',
         \A u \in Threads \ {t} : (Charging(u)' <=> Charging(u)) /\ size'[u] = size[u]
  PROVE  /\ Uncharged' = Uncharged + Used(size'[t])
         /\ Uncharged \in Nat /\ Used(size'[t]) \in Nat
<1>1. /\ Charges \in [Chargers -> 0..Fragments] /\ Chargers \in SUBSET Threads
      /\ t \in Threads \ Chargers /\ Chargers' = Chargers \cup {t}
  BY ChargesFit DEF Chargers
<1>2. Charges' \in [Chargers \cup {t} -> 0..Fragments]
  <2>1. Charges' \in [Chargers' -> 0..Fragments]
    BY ChargesFit
  <2> QED BY <1>1, <2>1
<1>3. \A u \in Chargers : Charges'[u] = Charges[u]
  BY <1>1 DEF Charges, Used
<1>4. Charges'[t] = Used(size'[t])
  BY <1>1 DEF Charges, Used
<1>5. Cardinality(Pairs(Charges')) = Cardinality(Pairs(Charges)) + Charges'[t]
  BY <1>1, <1>2, <1>3, PairsAdd
<1>6. Cardinality(Pairs(Charges)) \in Nat /\ Charges'[t] \in Nat
  BY <1>1, <1>2, PairsFinite, CompressAssumption DEF CompressAssumption
<1> QED BY <1>4, <1>5, <1>6, UnchargedPairs

LEMMA ChargesRemoved ==
  ASSUME TypeInv, CalledInv, TypeInv', CalledInv', NEW t \in Threads,
         Charging(t), ~Charging(t)',
         \A u \in Threads \ {t} : (Charging(u)' <=> Charging(u)) /\ size'[u] = size[u]
  PROVE  /\ Uncharged = Uncharged' + Used(size[t])
         /\ Uncharged' \in Nat /\ Used(size[t]) \in Nat
<1>1. /\ Charges \in [Chargers -> 0..Fragments] /\ Chargers \in SUBSET Threads
      /\ Chargers' \in SUBSET Threads
      /\ t \in Threads \ Chargers' /\ Chargers = Chargers' \cup {t}
  BY ChargesFit DEF Chargers
<1>2. Charges' \in [Chargers' -> 0..Fragments]
  BY ChargesFit
<1>3. \A u \in Chargers' : Charges[u] = Charges'[u]
  BY <1>1 DEF Charges, Used
<1>4. Charges[t] = Used(size[t])
  BY <1>1 DEF Charges
<1>5. Cardinality(Pairs(Charges)) = Cardinality(Pairs(Charges')) + Charges[t]
  <2>1. Charges \in [Chargers' \cup {t} -> 0..Fragments]
    BY <1>1
  <2> DEFINE P == Chargers'
             n == Charges'
             m == Charges
  <2>2. /\ P \in SUBSET Threads /\ n \in [P -> 0..Fragments] /\ t \in Threads \ P
        /\ m \in [P \cup {t} -> 0..Fragments] /\ \A u \in P : m[u] = n[u]
    BY <1>1, <1>2, <1>3, <2>1
  <2> HIDE DEF P, n, m
  <2>3. Cardinality(Pairs(m)) = Cardinality(Pairs(n)) + m[t]
    BY <2>2, PairsAdd
  <2> QED BY <2>3 DEF n, m
<1>6. Cardinality(Pairs(Charges')) \in Nat /\ Charges[t] \in Nat
  BY <1>1, <1>2, PairsFinite, CompressAssumption DEF CompressAssumption
<1> QED BY <1>4, <1>5, <1>6, UnchargedPairs

(* What bytes_avail has to be credited for.                                *)
Credits == {"WRITE_DONE", "READ_DONE"}
InHand == cb.event \in Credits /\ cb.step \in {"entry", "store"}

LEMMA UncreditedCount ==
  /\ events \in Seq(Events) =>
       Uncredited = Cardinality(Positions(events, Credits)) + (IF InHand THEN 1 ELSE 0)
  /\ events' \in Seq(Events) =>
       Uncredited' = Cardinality(Positions(events', Credits)) + (IF InHand' THEN 1 ELSE 0)
<1>1. ASSUME events \in Seq(Events)
      PROVE  {i \in DOMAIN events : events[i] # "EOS_RENDERED"} = Positions(events, Credits)
  <2>1. \A i \in DOMAIN events : events[i] \in Events
    BY <1>1
  <2> QED BY <2>1 DEF Positions, Credits, Events
<1>2. ASSUME events' \in Seq(Events)
      PROVE  {i \in DOMAIN events' : events'[i] # "EOS_RENDERED"} = Positions(events', Credits)
  <2>1. \A i \in DOMAIN events' : events'[i] \in Events
    BY <1>2
  <2> QED BY <2>1 DEF Positions, Credits, Events
<1>3. ASSUME events \in Seq(Events)
      PROVE  Cardinality({i \in DOMAIN events : events[i] # "EOS_RENDERED"}) =
               Cardinality(Positions(events, Credits))
  BY <1>1, <1>3, Zenon
<1>4. ASSUME events' \in Seq(Events)
      PROVE  Cardinality({i \in DOMAIN events' : events'[i] # "EOS_RENDERED"}) =
               Cardinality(Positions(events', Credits))
  BY <1>2, <1>4, Zenon
<1>5. ASSUME events \in Seq(Events)
      PROVE  Uncredited = Cardinality(Positions(events, Credits)) + (IF InHand THEN 1 ELSE 0)
  BY <1>3, <1>5, Zenon DEF Uncredited, InHand, Credits
<1>6. ASSUME events' \in Seq(Events)
      PROVE  Uncredited' = Cardinality(Positions(events', Credits)) + (IF InHand' THEN 1 ELSE 0)
  BY <1>4, <1>6, Zenon DEF Uncredited, InHand, Credits
<1> QED BY <1>5, <1>6

LEMMA UncreditedKept ==
  ASSUME events' = events, cb' = cb PROVE Uncredited' = Uncredited
BY Zenon DEF Uncredited

LEMMA StepLoaded ==
  ASSUME NeverCalls("stop"), BaseInv, LoadedInv, [Next]_vars PROVE LoadedInv'
<1> USE DEF privVars, threadVars, sessVars, dspVars
<1>0. /\ TypeInv /\ SetUpInv /\ CalledInv /\ LockInv /\ Total \in Nat \ {0}
      /\ pc \in [Threads -> Steps] /\ reg \in [Threads -> Int]
  BY CompressAssumption DEF CompressAssumption, Total, BaseInv, TypeInv, TypeOK
<1>1. ASSUME NEW t \in Threads, Call(t) PROVE LoadedInv'
  <2>1. cb' = cb /\ \A u \in Threads : Storing(u)' => Storing(u)
    BY <1>0, <1>1, CallFields, CallMoves DEF Moved, Storing
  <2>2. CASE agm_compress_set_params(t)
    <3>1. total_buf_size = 0
      BY <2>2 DEF agm_compress_set_params
    <3>2. cb.step = "idle" /\ \A u \in Threads : ~Storing(u)
      BY <1>0, <3>1 DEF SetUpInv, CalledInv, Charging, Storing
    <3> QED BY <2>1, <3>2 DEF LoadedInv
  <2>3. CASE ~agm_compress_set_params(t)
    <3>1. UNCHANGED <<bytes_avail, reg>>
      BY <1>1, <2>3 DEF Call, agm_compress_avail, agm_compress_write, agm_compress_read,
             agm_compress_start, agm_compress_pause, agm_compress_resume, agm_compress_stop,
             agm_compress_drain, agm_compress_poll, PollTimeout, agm_compress_close
    <3> QED BY <2>1, <3>1 DEF LoadedInv
  <2> QED BY <2>2, <2>3
<1>2. ASSUME NEW t \in Threads, Step(t) PROVE LoadedInv'
  <2>0. cb' = cb /\ pc[t] \notin StopSteps
    BY <1>0, <1>2, StepMoves DEF CalledInv, NeverCalls
  <2>1. CASE LoadAvail(t)
    <3>1. /\ reg'[t] = bytes_avail /\ bytes_avail' = bytes_avail
          /\ \A u \in Threads \ {t} : reg'[u] = reg[u] /\ pc'[u] = pc[u]
      BY <1>0, <2>1 DEF LoadAvail, Goto
    <3> QED BY <2>0, <3>1 DEF LoadedInv, Storing
  <2>2. CASE ChargeAvail(t)
    <3>1. Storing(t) /\ ~Storing(t)' /\ \A u \in Threads \ {t} : pc'[u] = pc[u]
      BY <1>0, <2>2 DEF ChargeAvail, Goto, Storing
    <3>2. cb.step # "store" /\ \A u \in Threads : ~Storing(u)'
      BY <1>0, <3>1 DEF LockInv, Storing
    <3> QED BY <2>0, <3>2 DEF LoadedInv
  <2>3. CASE StopDrain(t) \/ StopPoll(t) \/ StopSession(t) \/ StopReset(t)
    BY <2>0, <2>3 DEF StopDrain, StopPoll, StopSession, StopReset, StopSteps
  <2>4. CASE DrainWait(t) \/ DrainReturn(t) \/ CloseSession(t) \/ CloseDrain(t) \/ CloseFree(t)
    <3>1. UNCHANGED <<bytes_avail, reg>> /\ pc[t] \notin {"write_load", "read_load"}
      BY <2>4 DEF DrainWait, DrainReturn, CloseSession, CloseDrain, CloseFree
    <3>2. \A u \in Threads : Storing(u)' => Storing(u)
      BY <1>0, <1>2, <3>1, StepMoves DEF Moved, MovedAndDrain, MovedAndPoll, Storing
    <3> QED BY <2>0, <3>1, <3>2 DEF LoadedInv
  <2> QED BY <1>2, <2>1, <2>2, <2>3, <2>4 DEF Step
<1>3. ASSUME NEW t \in Threads, WakeUp(t) PROVE LoadedInv'
  <2>1. UNCHANGED <<bytes_avail, reg, cb>> /\ \A u \in Threads : Storing(u)' => Storing(u)
    BY <1>0, <1>3, OtherMoves DEF WakeUp, Moved, Storing
  <2> QED BY <2>1 DEF LoadedInv
<1>4. CASE Callback
  <2>1. reg' = reg /\ \A u \in Threads : Storing(u)' => Storing(u)
    <3>1. reg' = reg
      BY <1>4 DEF Callback, graph_event_cb, agm_compress_event_cb, StoreAvail, EosRendered, SignalPoll
    <3> QED BY <1>0, <1>4, <3>1, OtherMoves, DrainSignals, PollSignals DEF Storing
  <2>2. CASE StoreAvail
    <3>1. cb'.step # "store" /\ \A u \in Threads : ~Storing(u)
      BY <1>0, <2>2, CallbackFields DEF StoreAvail, LockInv
    <3> QED BY <2>1, <3>1 DEF LoadedInv
  <2>3. CASE agm_compress_event_cb
    <3>1. bytes_avail' = bytes_avail /\ (cb'.step = "store" => cb'.val = bytes_avail + FragSize)
      BY <1>0, <2>3, CallbackFields DEF agm_compress_event_cb
    <3> QED BY <2>1, <3>1 DEF LoadedInv
  <2>4. CASE graph_event_cb \/ EosRendered \/ SignalPoll
    <3>1. bytes_avail' = bytes_avail /\ cb'.step # "store"
      BY <1>0, <2>4, CallbackFields DEF graph_event_cb, EosRendered, SignalPoll
    <3> QED BY <2>1, <3>1 DEF LoadedInv
  <2> QED BY <1>4, <2>2, <2>3, <2>4 DEF Callback
<1>5. CASE Dsp \/ UNCHANGED vars
  <2>1. UNCHANGED <<bytes_avail, reg, cb, pc>>
    BY <1>5 DEF vars, Dsp, DspConsume, DspFill
  <2> QED BY <2>1 DEF LoadedInv, Storing
<1> QED BY <1>1, <1>2, <1>3, <1>4, <1>5 DEF Next

(* bytes_avail moves by as many fragments as the DSP's side of it.         *)
LEMMA ExactKept ==
  ASSUME ExactInv, total_buf_size' = total_buf_size, registered' = registered,
         NEW h \in Int, NEW u \in Int, NEW c \in Int, NEW d \in Int, h - u + c = d,
         TypeInv, Held \in Int, Uncharged \in Int, Uncredited \in Int,
         Held' = Held + h, Uncharged' = Uncharged - u, Uncredited' = Uncredited - c,
         bytes_avail' = bytes_avail + d * FragSize
  PROVE  ExactInv'
<1>1. SUFFICES ASSUME total_buf_size # 0, registered
               PROVE  bytes_avail' = (Held' + Uncharged' - Uncredited') * FragSize
  BY DEF ExactInv
<1>2. bytes_avail = (Held + Uncharged - Uncredited) * FragSize
  BY <1>1 DEF ExactInv
<1> DEFINE x == Held + Uncharged - Uncredited
<1>3. x \in Int /\ FragSize \in Int /\ Held' + Uncharged' - Uncredited' = x + d
  BY CompressAssumption DEF CompressAssumption
<1> HIDE DEF x
<1>4. (x + d) * FragSize = x * FragSize + d * FragSize
  BY <1>3
<1> QED BY <1>2, <1>3, <1>4 DEF x

LEMMA Counts ==
  ASSUME TypeInv, CalledInv
  PROVE  Held \in Int /\ Uncharged \in Nat /\ Uncredited \in Nat
<1>1. Held \in Int
  <2>1. queue \in Seq(Commands) /\ filled \in Int /\ Fragments \in Int
    BY CompressAssumption DEF CompressAssumption, TypeInv, TypeOK, Commands
  <2>2. Bufs(queue) \in Nat
    BY <2>1, BufsCount
  <2> QED BY <2>1, <2>2 DEF Held
<1>2. Uncharged \in Nat
  <2>1. Chargers \in SUBSET Threads /\ Charges \in [Chargers -> 0..Fragments]
    BY ChargesFit DEF Chargers
  <2> QED BY <2>1, PairsFinite, UnchargedPairs
<1>3. Uncredited \in Nat
  <2>1. events \in Seq(Events)
    BY DEF TypeInv, TypeOK, Events
  <2> QED BY <2>1, UncreditedCount, PositionsFinite
<1> QED BY <1>1, <1>2, <1>3

(* A step that leaves the three counts and bytes_avail.                    *)
LEMMA ExactSame ==
  ASSUME ExactInv, TypeInv, CalledInv, total_buf_size' = total_buf_size, registered' = registered,
         bytes_avail' = bytes_avail, Held' = Held, Uncredited' = Uncredited,
         \A u \in Threads : Charging(u)' <=> Charging(u),
         \A u \in Threads : Charging(u) => size'[u] = size[u]
  PROVE  ExactInv'
<1>1. Uncharged' = Uncharged
  BY ChargesKept
<1> QED BY <1>1 DEF ExactInv

LEMMA CallExact ==
  ASSUME NeverCalls("stop"), BaseInv, BaseInv', ExactInv, NEW t \in Threads, Call(t)
  PROVE  ExactInv'
<1> USE DEF privVars, threadVars, sessVars, dspVars
<1>0. /\ TypeInv /\ TypeInv' /\ SetUpInv /\ CalledInv /\ CalledInv' /\ Total \in Nat \ {0}
      /\ FragSize \in Nat \ {0} /\ Fragments \in Nat
      /\ pc \in [Threads -> Steps] /\ size \in [Threads -> Int]
      /\ queue \in Seq(Commands) /\ filled \in Int /\ bytes_avail \in Int
      /\ Total = Fragments * FragSize
  BY CompressAssumption DEF CompressAssumption, Total, BaseInv, TypeInv, TypeOK, Commands
<1>1. Held \in Int /\ Uncharged \in Nat /\ Uncredited \in Nat
  BY <1>0, Counts
<1>2. pc[t] = "idle" /\ ~Charging(t)
  BY <1>0, CallMoves DEF Charging
<1>3. CASE agm_compress_set_params(t)
  <2>1. total_buf_size = 0
    BY <1>3 DEF agm_compress_set_params
  <2>2. queue = <<>> /\ filled = 0 /\ events = <<>> /\ cb.step = "idle"
    BY <1>0, <2>1 DEF SetUpInv
  <2>3. \A u \in Threads : ~Charging(u) /\ ~Charging(u)'
    BY <1>0, <1>3, <2>1 DEF CalledInv, Charging, agm_compress_set_params
  <2>4. Uncharged' = 0
    <3>1. Chargers' = {}
      BY <2>3 DEF Chargers
    <3>2. Pairs(Charges') = {}
      BY <3>1 DEF Pairs, Charges
    <3> QED BY <3>2, UnchargedPairs, FS_EmptySet, Zenon
  <2>5. Uncredited' = 0
    <3>0. events' \in Seq(Events)
      BY <1>0 DEF TypeInv, TypeOK, Events
    <3>1. events' = <<>> /\ ~InHand'
      BY <1>3, <2>2 DEF agm_compress_set_params, InHand
    <3>2. Positions(events', Credits) = {}
      BY <3>1 DEF Positions
    <3>3. Cardinality(Positions(events', Credits)) = 0
      BY <3>2, FS_EmptySet, Zenon
    <3> QED BY <3>0, <3>1, <3>3, UncreditedCount
  <2>6. Held' = IF dir = "RX" THEN Fragments ELSE 0
    <3>1. Bufs(queue') = 0 /\ filled' = 0 /\ dir' = dir
      BY <1>3, <2>2, NoBufs DEF agm_compress_set_params
    <3> QED BY <1>0, <3>1 DEF Held
  <2> QED BY <1>0, <1>3, <2>4, <2>5, <2>6 DEF ExactInv, agm_compress_set_params
<1>4. CASE agm_compress_avail(t) \/ PollTimeout(t) \/ agm_compress_poll(t)
  <2>1. /\ UNCHANGED <<total_buf_size, registered, bytes_avail, dir, queue, filled, events, cb>>
        /\ \A u \in Threads \ {t} : size'[u] = size[u] /\ pc'[u] = pc[u]
        /\ pc'[t] \in {"idle", "poll_wait"}
    BY <1>0, <1>2, <1>4 DEF agm_compress_avail, PollTimeout, agm_compress_poll, Goto
  <2>2. /\ \A u \in Threads : Charging(u)' <=> Charging(u)
        /\ \A u \in Threads : Charging(u) => size'[u] = size[u]
    BY <1>2, <2>1 DEF Charging
  <2>3. Held' = Held /\ Uncredited' = Uncredited
    BY <2>1, UncreditedKept DEF Held, Bufs
  <2> QED BY <1>0, <2>1, <2>2, <2>3, ExactSame
<1>5. CASE \/ agm_compress_start(t) \/ agm_compress_pause(t) \/ agm_compress_resume(t)
           \/ agm_compress_drain(t)
  <2>1. /\ UNCHANGED <<total_buf_size, registered, bytes_avail, dir, queue, filled, events, cb, size>>
        /\ \A u \in Threads \ {t} : pc'[u] = pc[u]
        /\ pc'[t] \in {"idle", "drain_eos"}
    BY <1>0, <1>2, <1>5
       DEF agm_compress_start, agm_compress_pause, agm_compress_resume, agm_compress_drain, Goto
  <2>2. \A u \in Threads : Charging(u)' <=> Charging(u)
    BY <1>2, <2>1 DEF Charging
  <2>3. Held' = Held /\ Uncredited' = Uncredited
    BY <2>1, UncreditedKept DEF Held, Bufs
  <2> QED BY <1>0, <2>1, <2>2, <2>3, ExactSame
<1>6. CASE agm_compress_stop(t)
  BY <1>6 DEF agm_compress_stop, MayCall, NeverCalls
<1>7. CASE agm_compress_close(t)
  BY <1>7 DEF agm_compress_close, ExactInv
<1>8. ASSUME NEW count \in 1..Total, agm_compress_write(t, count) PROVE ExactInv'
  <2>0. /\ UNCHANGED <<total_buf_size, registered, bytes_avail, dir, filled, events, cb>> /\ dir = "RX"
    BY <1>8 DEF agm_compress_write
  <2>1. Uncredited' = Uncredited
    BY <2>0, UncreditedKept
  <2>2. CASE /\ queue' = queue \o [i \in 1..Used(Accepted(count)) |-> "buf"]
             /\ size' = [size EXCEPT ![t] = Accepted(count)]
             /\ Goto(t, "write_load")
    <3> DEFINE n == Used(Accepted(count))
    <3>1. n \in Nat
      BY <1>0, TransferFits
    <3>2. Held' = Held - n
      <4>1. Bufs(queue') = Bufs(queue) + n /\ Bufs(queue) \in Nat
        BY <1>0, <2>2, <3>1, BufsCount
      <4> QED BY <1>0, <2>0, <3>1, <4>1 DEF Held
    <3>3. Uncharged' = Uncharged + n
      <4>1. /\ Charging(t)' /\ size'[t] = Accepted(count)
            /\ \A u \in Threads \ {t} : (Charging(u)' <=> Charging(u)) /\ size'[u] = size[u]
        BY <1>0, <2>2 DEF Goto, Charging
      <4> QED BY <1>0, <1>2, <4>1, ChargesAdded
    <3> HIDE DEF n
    <3> QED BY <1>0, <1>1, <2>0, <2>1, <3>1, <3>2, <3>3 DEF ExactInv
  <2>3. CASE size' = [size EXCEPT ![t] = Unknown] /\ UNCHANGED <<queue, pc>>
    <3>1. /\ \A u \in Threads : Charging(u)' <=> Charging(u)
          /\ \A u \in Threads : Charging(u) => size'[u] = size[u]
      BY <1>0, <1>2, <2>3 DEF Charging
    <3>2. Held' = Held
      BY <2>0, <2>3 DEF Held, Bufs
    <3> QED BY <1>0, <2>0, <2>1, <3>1, <3>2, ExactSame
  <2> QED BY <1>8, <2>2, <2>3 DEF agm_compress_write
<1>9. ASSUME NEW count \in 1..Total, agm_compress_read(t, count) PROVE ExactInv'
  <2> DEFINE n == Used(Delivered(count))
  <2>0. /\ UNCHANGED <<total_buf_size, registered, bytes_avail, dir, queue, events, cb>> /\ dir = "TX"
        /\ filled' = filled - n
    BY <1>9 DEF agm_compress_read
  <2>1. Uncredited' = Uncredited
    BY <2>0, UncreditedKept
  <2>2. n \in Nat
    BY <1>0, TransferFits
  <2>3. Held' = Held - n
    BY <1>0, <2>0, <2>2 DEF Held
  <2>4. Uncharged' = Uncharged + n
    <3>1. /\ Charging(t)' /\ size'[t] = Delivered(count)
          /\ \A u \in Threads \ {t} : (Charging(u)' <=> Charging(u)) /\ size'[u] = size[u]
      BY <1>0, <1>9 DEF agm_compress_read, Goto, Charging
    <3> QED BY <1>0, <1>2, <3>1, ChargesAdded
  <2> HIDE DEF n
  <2> QED BY <1>0, <1>1, <2>0, <2>1, <2>2, <2>3, <2>4 DEF ExactInv
<1> QED BY <1>3, <1>4, <1>5, <1>6, <1>7, <1>8, <1>9 DEF Call

LEMMA StepExact ==
  ASSUME NeverCalls("stop"), BaseInv, BaseInv', LoadedInv, ExactInv, [Next]_vars PROVE ExactInv'
<1> USE DEF privVars, threadVars, sessVars, dspVars
<1>0. /\ TypeInv /\ TypeInv' /\ SetUpInv /\ CalledInv /\ CalledInv' /\ DeliveryInv /\ LockInv
      /\ FragSize \in Nat \ {0} /\ Fragments \in Nat
      /\ pc \in [Threads -> Steps] /\ size \in [Threads -> Int] /\ reg \in [Threads -> Int]
      /\ queue \in Seq(Commands) /\ filled \in Int /\ bytes_avail \in Int
      /\ events \in Seq(Events) /\ events' \in Seq(Events) /\ dir \in {"RX", "TX"}
      /\ cb.event \in {"none", "WRITE_DONE", "READ_DONE", "EOS_RENDERED"}
  BY CompressAssumption DEF CompressAssumption, BaseInv, TypeInv, TypeOK, Commands, Events
<1>1. /\ Held \in Int /\ Uncharged \in Nat /\ Uncredited \in Nat
      /\ Cardinality(Positions(events, Credits)) \in Nat
  BY <1>0, Counts, PositionsFinite
<1>2. ASSUME NEW t \in Threads, Step(t) PROVE ExactInv'
  <2>0. pc[t] \notin StopSteps
    BY <1>0 DEF CalledInv, NeverCalls
  <2>1. CASE LoadAvail(t) \/ DrainWait(t) \/ DrainReturn(t)
    <3>1. /\ UNCHANGED <<total_buf_size, registered, bytes_avail, dir, filled, events, cb, size>>
          /\ queue' = queue \/ queue' = Append(queue, "eos")
      BY <2>1 DEF LoadAvail, DrainWait, DrainReturn
    <3>2. \A u \in Threads : Charging(u)' <=> Charging(u)
      BY <1>0, <2>1 DEF LoadAvail, DrainWait, DrainReturn, Goto, Charging
    <3>3. Held' = Held
      <4>1. Bufs(queue') = Bufs(queue)
        BY <1>0, <3>1, BufsCount
      <4> QED BY <3>1, <4>1 DEF Held
    <3>4. Uncredited' = Uncredited
      BY <3>1, UncreditedKept
    <3> QED BY <1>0, <3>1, <3>2, <3>3, <3>4, ExactSame
  <2>2. CASE ChargeAvail(t)
    <3>1. /\ UNCHANGED <<total_buf_size, registered, dir, queue, filled, events, cb>>
          /\ bytes_avail' = reg[t] - BufCnt(size[t]) * FragSize /\ Storing(t)
      BY <2>2 DEF ChargeAvail, Storing
    <3>2. /\ Charging(t) /\ ~Charging(t)'
          /\ \A u \in Threads \ {t} : (Charging(u)' <=> Charging(u)) /\ size'[u] = size[u]
      BY <1>0, <2>2 DEF ChargeAvail, Goto, Charging
    <3> DEFINE n == Used(size[t])
    <3>3. Uncharged' = Uncharged - n /\ n \in Nat
      <4>1. Uncharged = Uncharged' + n /\ Uncharged' \in Nat /\ n \in Nat
        BY <1>0, <3>2, ChargesRemoved
      <4> QED BY <4>1
    <3>4. bytes_avail' = bytes_avail - n * FragSize
      <4>1. size[t] \in Nat /\ reg[t] = bytes_avail
        BY <1>0, <3>1, <3>2 DEF CalledInv, LoadedInv
      <4>2. BufCnt(size[t]) = n
        BY <4>1, UsedFragments
      <4> QED BY <3>1, <4>1, <4>2
    <3>5. Held' = Held /\ Uncredited' = Uncredited
      BY <3>1, UncreditedKept DEF Held, Bufs
    <3> HIDE DEF n
    <3>6. SUFFICES ASSUME total_buf_size # 0, registered
                   PROVE  bytes_avail' = (Held' + Uncharged' - Uncredited') * FragSize
      BY <3>1 DEF ExactInv
    <3> DEFINE x == Held + Uncharged - Uncredited
    <3>7. bytes_avail = x * FragSize /\ x \in Int /\ Held' + Uncharged' - Uncredited' = x - n
      BY <1>1, <3>3, <3>5, <3>6 DEF ExactInv
    <3> HIDE DEF x
    <3>8. (x - n) * FragSize = x * FragSize - n * FragSize
      BY <1>0, <3>3, <3>7
    <3> QED BY <3>4, <3>7, <3>8
  <2>3. CASE StopDrain(t) \/ StopPoll(t) \/ StopSession(t) \/ StopReset(t)
    BY <2>0, <2>3 DEF StopDrain, StopPoll, StopSession, StopReset, StopSteps
  <2>4. CASE CloseSession(t) \/ CloseDrain(t) \/ CloseFree(t)
    <3>1. ~registered /\ registered' = registered
      BY <1>0, <2>4 DEF CloseSession, CloseDrain, CloseFree, CalledInv, CloseSteps
    <3> QED BY <3>1 DEF ExactInv
  <2> QED BY <1>2, <2>1, <2>2, <2>3, <2>4 DEF Step
<1>3. ASSUME NEW t \in Threads, WakeUp(t) PROVE ExactInv'
  <2>1. UNCHANGED <<total_buf_size, registered, bytes_avail, dir, queue, filled, events, cb, size>>
        /\ \A u \in Threads : Charging(u)' <=> Charging(u)
    BY <1>0, <1>3, OtherMoves DEF WakeUp, Moved, Charging
  <2>2. Held' = Held /\ Uncredited' = Uncredited
    BY <2>1, UncreditedKept DEF Held, Bufs
  <2> QED BY <1>0, <2>1, <2>2, ExactSame
<1>4. CASE Callback
  <2>0. UNCHANGED <<total_buf_size, registered, dir, queue, filled, size>>
    BY <1>4 DEF Callback, graph_event_cb, agm_compress_event_cb, StoreAvail, EosRendered, SignalPoll
  <2>1. Held' = Held /\ \A u \in Threads : Charging(u)' <=> Charging(u)
    BY <1>0, <1>4, <2>0, OtherMoves, DrainSignals, PollSignals, ZenonT(60) DEF Held, Bufs, Charging
  <2>2. CASE graph_event_cb /\ registered
    <3>1. /\ events # <<>> /\ events' = Tail(events) /\ bytes_avail' = bytes_avail
          /\ cb.step = "idle" /\ cb'.event = Head(events) /\ cb'.step = "entry"
      BY <1>0, <2>2, CallbackFields DEF graph_event_cb
    <3>2. Cardinality(Positions(events', Credits)) =
            Cardinality(Positions(events, Credits)) - (IF Head(events) \in Credits THEN 1 ELSE 0)
      BY <1>0, <3>1, TailCount
    <3>3. ~InHand /\ (InHand' <=> Head(events) \in Credits)
      BY <3>1 DEF InHand
    <3>4. Uncredited' = Uncredited
      BY <1>0, <1>1, <3>2, <3>3, UncreditedCount
    <3> QED BY <1>0, <2>0, <2>1, <3>1, <3>4, ExactSame
  <2>3. CASE graph_event_cb /\ ~registered
    BY <2>0, <2>3 DEF ExactInv
  <2>4. CASE agm_compress_event_cb
    <3>1. events' = events /\ bytes_avail' = bytes_avail
      BY <2>4 DEF agm_compress_event_cb
    <3>2. InHand' <=> InHand
      BY <1>0, <2>4, CallbackFields DEF agm_compress_event_cb, InHand, Credits, DeliveryInv
    <3>3. Uncredited' = Uncredited
      BY <1>0, <1>1, <3>1, <3>2, UncreditedCount
    <3> QED BY <1>0, <2>0, <2>1, <3>1, <3>3, ExactSame
  <2>5. CASE StoreAvail
    <3>1. events' = events /\ bytes_avail' = bytes_avail + FragSize
      BY <2>5 DEF StoreAvail, LoadedInv
    <3>2. InHand /\ ~InHand'
      BY <1>0, <2>5, CallbackFields DEF StoreAvail, InHand, Credits, DeliveryInv
    <3>3. Uncredited' = Uncredited - 1
      BY <1>0, <1>1, <3>1, <3>2, UncreditedCount
    <3>4. Uncharged' = Uncharged
      BY <2>0, <2>1, ChargesKept
    <3>5. bytes_avail' = bytes_avail + 1 * FragSize
      BY <1>0, <3>1
    <3> QED BY <1>0, <1>1, <2>0, <2>1, <3>3, <3>4, <3>5, ExactKept
  <2>6. CASE EosRendered \/ SignalPoll
    <3>1. events' = events /\ bytes_avail' = bytes_avail
      BY <2>6 DEF EosRendered, SignalPoll
    <3>2. ~InHand /\ ~InHand'
      BY <1>0, <2>6, CallbackFields DEF EosRendered, SignalPoll, InHand
    <3>3. Uncredited' = Uncredited
      BY <1>0, <1>1, <3>1, <3>2, UncreditedCount
    <3> QED BY <1>0, <2>0, <2>1, <3>1, <3>3, ExactSame
  <2> QED BY <1>4, <2>2, <2>3, <2>4, <2>5, <2>6 DEF Callback
<1>5. CASE Dsp
  <2>0. UNCHANGED <<total_buf_size, registered, bytes_avail, dir, size, pc, cb>>
    BY <1>5 DEF Dsp, DspConsume, DspFill
  <2>1. Uncharged' = Uncharged /\ (InHand' <=> InHand)
    BY <2>0, ChargesKept DEF Charging, InHand
  <2>2. CASE DspConsume
    <3>0. /\ queue # <<>> /\ queue' = Tail(queue) /\ dir = "RX" /\ dir' = "RX"
          /\ events' = Append(events, IF Head(queue) = "buf" THEN "WRITE_DONE" ELSE "EOS_RENDERED")
      BY <1>0, <2>0, <2>2 DEF DspConsume, SetUpInv
    <3> DEFINE h == IF Head(queue) = "buf" THEN 1 ELSE 0
               e == IF Head(queue) = "buf" THEN "WRITE_DONE" ELSE "EOS_RENDERED"
    <3>1. Held' = Held + h
      <4>1. Bufs(queue') = Bufs(queue) - h /\ Bufs(queue) \in Nat
        BY <1>0, <3>0, BufsCount
      <4> QED BY <1>0, <3>0, <4>1 DEF Held
    <3>2. Uncredited' = Uncredited + h
      <4>1. e \in Events /\ (e \in Credits <=> Head(queue) = "buf")
        BY DEF Events, Credits
      <4>2. Cardinality(Positions(events', Credits)) =
              Cardinality(Positions(events, Credits)) + (IF e \in Credits THEN 1 ELSE 0)
        BY <1>0, <3>0, <4>1, AppendCount
      <4>3. Cardinality(Positions(events', Credits)) = Cardinality(Positions(events, Credits)) + h
        BY <4>1, <4>2
      <4> QED BY <1>0, <1>1, <2>1, <4>3, UncreditedCount
    <3>3. h \in {0, 1} /\ bytes_avail' = bytes_avail + 0 * FragSize
      BY <1>0, <2>0
    <3> HIDE DEF h
    <3>4. Uncredited' = Uncredited - (0 - h) /\ Uncharged' = Uncharged - 0
      BY <1>1, <2>1, <3>2, <3>3
    <3>5. 0 - h \in Int /\ h - 0 + (0 - h) = 0 /\ h \in Int
      BY <3>3
    <3> QED BY <1>0, <1>1, <2>0, <3>1, <3>3, <3>4, <3>5, ExactKept
  <2>3. CASE DspFill
    <3>1. filled' = filled + 1 /\ events' = Append(events, "READ_DONE") /\ dir = "TX"
      BY <2>3 DEF DspFill
    <3>2. Held' = Held + 1
      BY <2>0, <3>1 DEF Held
    <3>3. Uncredited' = Uncredited + 1
      <4>1. "READ_DONE" \in Events /\ "READ_DONE" \in Credits
        BY DEF Events, Credits
      <4>2. Cardinality(Positions(events', Credits)) = Cardinality(Positions(events, Credits)) + 1
        BY <1>0, <3>1, <4>1, AppendCount
      <4> QED BY <1>0, <1>1, <2>1, <4>2, UncreditedCount
    <3>4. /\ Uncredited' = Uncredited - (0 - 1) /\ Uncharged' = Uncharged - 0
          /\ bytes_avail' = bytes_avail + 0 * FragSize
      BY <1>0, <1>1, <2>0, <2>1, <3>3
    <3> QED BY <1>0, <1>1, <2>0, <3>2, <3>4, ExactKept
  <2> QED BY <1>5, <2>2, <2>3 DEF Dsp
<1>6. CASE UNCHANGED vars
  <2>1. Held' = Held /\ Uncredited' = Uncredited
    BY <1>6, UncreditedKept DEF vars, Held, Bufs
  <2> QED BY <1>0, <1>6, <2>1, ExactSame DEF vars, Charging
<1>7. ASSUME NEW t \in Threads, Call(t) PROVE ExactInv'
  BY <1>7, CallExact
<1> QED BY <1>2, <1>3, <1>4, <1>5, <1>6, <1>7 DEF Next

(* Whatever the order in which threads transfer, the DSP consumes or fills *)
(* and the callback runs, bytes_avail is the fragments the DSP has room    *)
(* for (or holds), those taken and not charged yet, less those returned    *)
(* and not credited yet, for a client that does not stop its stream (stop  *)
(* resets bytes_avail without the lock).                                   *)
THEOREM AvailIsExact == ASSUME NeverCalls("stop") PROVE Spec => []AvailExact
<1>1. Init => BaseInv /\ LoadedInv /\ ExactInv
  <2>1. Init => LoadedInv /\ ExactInv
    BY DEF Init, NoDelivery, LoadedInv, ExactInv, Storing
  <2> QED BY <2>1, InitBase
<1>2. BaseInv /\ LoadedInv /\ ExactInv /\ [Next]_vars => (BaseInv /\ LoadedInv /\ ExactInv)'
  BY StepBase, StepLoaded, StepExact
<1>3. ExactInv => AvailExact
  BY DEF ExactInv, AvailExact
<1> QED BY <1>1, <1>2, <1>3, PTL DEF Spec

-----------------------------------------------------------------------------
(* A charge never finds too little.                                        *)

(* Covers, of the state after the step.                                    *)
CoversNext(v) ==
  /\ \E n \in Nat : v = n * FragSize
  /\ \A t \in Threads :
       /\ pc'[t] \in {"write_load", "read_load"} => BufCnt(size'[t]) * FragSize <= v
       /\ ~Charging(t)' /\ dir' = "RX" /\ "write" \in Calls[t] =>
            Min2(size'[t], total_buf_size') <= v

LEMMA CoverNext ==
  CoverInv' <=> /\ CoversNext(bytes_avail')
                /\ cb'.step = "store" => CoversNext(cb'.val)
                /\ \A t \in Threads : Storing(t)' =>
                     BufCnt(size'[t]) * FragSize <= reg'[t] /\ \E n \in Nat : reg'[t] = n * FragSize
<1>1. Covers(bytes_avail)' <=> CoversNext(bytes_avail')
  BY DEF Covers, CoversNext, BufCnt, Min2
<1>2. Covers(cb.val)' <=> CoversNext(cb'.val)
  BY DEF Covers, CoversNext, BufCnt, Min2
<1> QED BY <1>1, <1>2 DEF CoverInv, BufCnt

(* Whole fragments that are at least some bytes are at least the fragments *)
(* the bytes use.                                                          *)
LEMMA FragmentsCover ==
  ASSUME NEW bytes \in Nat, NEW v, \E n \in Nat : v = n * FragSize, bytes <= v
  PROVE  BufCnt(bytes) * FragSize <= v
<1>1. PICK n \in Nat : v = n * FragSize
  OBVIOUS
<1>2. Used(bytes) <= n /\ Used(bytes) \in Nat /\ BufCnt(bytes) = Used(bytes)
  BY <1>1, UsedFits, UsedFragments
<1> QED BY <1>1, <1>2, Multiples

LEMMA MultipleOf ==
  ASSUME NEW v, \E n \in Nat : v = n * FragSize
  PROVE  v \in Nat /\ \E n \in Nat : v + FragSize = n * FragSize
<1>0. FragSize \in Nat
  BY CompressAssumption DEF CompressAssumption
<1>1. PICK n \in Nat : v = n * FragSize
  OBVIOUS
<1>2. n * FragSize \in Nat /\ (n + 1) * FragSize = n * FragSize + FragSize
  BY <1>0
<1> QED BY <1>1, <1>2

(* Threads that stay where they are, as far as their bytes go, or have     *)
(* none in hand, are covered still.                                        *)
LEMMA CoversKept ==
  ASSUME NEW v, Covers(v), dir' = dir, total_buf_size' = total_buf_size,
         total_buf_size \in Nat,
         \A u \in Threads : pc'[u] \in {"write_load", "read_load"} =>
           pc[u] \in {"write_load", "read_load"} /\ size'[u] = size[u],
         \A u \in Threads : ~Charging(u)' /\ "write" \in Calls[u] =>
           size'[u] = Unknown \/ (~Charging(u) /\ size'[u] = size[u])
  PROVE  CoversNext(v)
<1>1. v \in Nat
  BY MultipleOf DEF Covers
<1>2. \A u \in Threads : pc'[u] \in {"write_load", "read_load"} => BufCnt(size'[u]) * FragSize <= v
  BY DEF Covers
<1>3. ASSUME NEW u \in Threads, ~Charging(u)', dir' = "RX", "write" \in Calls[u]
      PROVE  Min2(size'[u], total_buf_size') <= v
  <2>1. CASE size'[u] = Unknown
    BY <1>1, <2>1 DEF Min2, Unknown
  <2>2. CASE ~Charging(u) /\ size'[u] = size[u]
    BY <1>3, <2>2 DEF Covers
  <2> QED BY <1>3, <2>1, <2>2
<1> QED BY <1>2, <1>3 DEF CoversNext, Covers

LEMMA CoverKept ==
  ASSUME CoverInv, dir' = dir, total_buf_size' = total_buf_size, total_buf_size \in Nat,
         bytes_avail' = bytes_avail, reg' = reg,
         cb'.step = "store" => cb' = cb,
         \A u \in Threads : pc'[u] \in {"write_load", "read_load"} =>
           pc[u] \in {"write_load", "read_load"} /\ size'[u] = size[u],
         \A u \in Threads : Storing(u)' => Storing(u) /\ size'[u] = size[u],
         \A u \in Threads : ~Charging(u)' /\ "write" \in Calls[u] =>
           size'[u] = Unknown \/ (~Charging(u) /\ size'[u] = size[u])
  PROVE  CoverInv'
<1>1. CoversNext(bytes_avail')
  <2>1. Covers(bytes_avail)
    BY DEF CoverInv
  <2>2. CoversNext(bytes_avail)
    BY <2>1, CoversKept
  <2> QED BY <2>2 DEF CoversNext
<1>2. ASSUME cb'.step = "store" PROVE CoversNext(cb'.val)
  <2>1. Covers(cb.val) /\ cb'.val = cb.val
    BY <1>2 DEF CoverInv
  <2>2. CoversNext(cb.val)
    BY <2>1, CoversKept
  <2> QED BY <2>1, <2>2 DEF CoversNext
<1>3. ASSUME NEW t \in Threads, Storing(t)'
      PROVE  BufCnt(size'[t]) * FragSize <= reg'[t] /\ \E n \in Nat : reg'[t] = n * FragSize
  BY <1>3 DEF CoverInv
<1> QED BY <1>1, <1>2, <1>3, CoverNext

LEMMA CallCover ==
  ASSUME OneMoves, BaseInv, CoverInv, dir = "TX" => LoadedInv, NEW t \in Threads, Call(t)
  PROVE  CoverInv'
<1> USE DEF privVars, threadVars, sessVars, dspVars
<1>0. /\ TypeInv /\ SetUpInv /\ CalledInv /\ DeliveryInv /\ LockInv
      /\ FragSize \in Nat \ {0} /\ Fragments \in Nat /\ Total \in Nat \ {0} /\ total_buf_size \in {0, Total}
      /\ pc \in [Threads -> Steps] /\ size \in [Threads -> Int] /\ bytes_avail \in Int
      /\ dir \in {"RX", "TX"} /\ Total = Fragments * FragSize
  BY CompressAssumption DEF CompressAssumption, Total, BaseInv, TypeInv, TypeOK
<1>1. pc[t] = "idle" /\ ~Charging(t) /\ ~Storing(t)
  BY <1>0, CallMoves DEF Charging, Storing
<1>2. Covers(bytes_avail) /\ bytes_avail \in Nat
  BY MultipleOf DEF CoverInv, Covers
<1>3. CASE agm_compress_set_params(t)
  <2>1. total_buf_size = 0 /\ UNCHANGED <<pc, size, dir, cb>> /\ total_buf_size' = Total
        /\ bytes_avail' = IF dir = "RX" THEN Total ELSE 0
    BY <1>3 DEF agm_compress_set_params
  <2>2. cb'.step = "idle" /\ \A u \in Threads : ~Charging(u) /\ ~Charging(u)'
    BY <1>0, <2>1 DEF SetUpInv, CalledInv, Charging
  <2>3. \A u \in Threads : ~Storing(u)' /\ pc'[u] \notin {"write_load", "read_load"}
    BY <2>2 DEF Charging, Storing
  <2>4. \E n \in Nat : bytes_avail' = n * FragSize
    <3>1. 0 = 0 * FragSize
      BY <1>0
    <3> QED BY <1>0, <2>1, <3>1
  <2>5. \A u \in Threads : dir' = "RX" => Min2(size'[u], total_buf_size') <= bytes_avail'
    BY <1>0, <2>1 DEF Min2
  <2>6. CoversNext(bytes_avail')
    BY <2>3, <2>4, <2>5 DEF CoversNext
  <2> QED BY <2>2, <2>3, <2>6, CoverNext
<1>4. CASE agm_compress_avail(t)
  <2>1. /\ UNCHANGED <<pc, dir, cb, total_buf_size, bytes_avail>> /\ LockFree
        /\ size'[t] = bytes_avail /\ \A u \in Threads \ {t} : size'[u] = size[u]
    BY <1>0, <1>4 DEF agm_compress_avail
  <2>2. cb'.step # "store" /\ \A u \in Threads : ~Storing(u)'
    BY <2>1 DEF LockFree, Storing
  <2>3. CoversNext(bytes_avail')
    <3>1. ASSUME NEW u \in Threads
          PROVE  /\ pc'[u] \in {"write_load", "read_load"} =>
                      BufCnt(size'[u]) * FragSize <= bytes_avail
                 /\ ~Charging(u)' /\ dir' = "RX" /\ "write" \in Calls[u] =>
                      Min2(size'[u], total_buf_size') <= bytes_avail
      <4>1. CASE u = t
        BY <1>0, <1>1, <1>2, <2>1, <4>1 DEF Charging, Min2
      <4>2. CASE u # t
        BY <1>2, <2>1, <4>2 DEF Covers, Charging
      <4> QED BY <4>1, <4>2
    <3> QED BY <1>2, <2>1, <3>1 DEF CoversNext, Covers
  <2> QED BY <2>2, <2>3, CoverNext
<1>5. CASE PollTimeout(t) \/ agm_compress_poll(t)
  <2>1. /\ UNCHANGED <<dir, cb, total_buf_size, bytes_avail, reg>>
        /\ size'[t] = Unknown /\ pc'[t] \in {"idle", "poll_wait"}
        /\ \A u \in Threads \ {t} : size'[u] = size[u] /\ pc'[u] = pc[u]
    BY <1>0, <1>1, <1>5 DEF PollTimeout, agm_compress_poll, Goto
  <2> QED BY <1>0, <1>1, <2>1, CoverKept DEF Charging, Storing
<1>6. CASE \/ agm_compress_start(t) \/ agm_compress_pause(t) \/ agm_compress_resume(t)
           \/ agm_compress_drain(t) \/ agm_compress_stop(t) \/ agm_compress_close(t)
  <2>1. UNCHANGED <<dir, cb, total_buf_size, bytes_avail, reg, size>>
    BY <1>6 DEF agm_compress_start, agm_compress_pause, agm_compress_resume, agm_compress_drain,
                agm_compress_stop, agm_compress_close
  <2>2. /\ pc'[t] \in {"idle", "drain_eos", "stop_eos", "close_session"}
        /\ \A u \in Threads \ {t} : pc'[u] = pc[u]
    BY <1>0, <1>1, <1>6
       DEF agm_compress_start, agm_compress_pause, agm_compress_resume, agm_compress_drain,
           agm_compress_stop, agm_compress_close, Goto
  <2> QED BY <1>0, <1>1, <2>1, <2>2, CoverKept DEF Charging, Storing
<1>7. ASSUME NEW bytes \in Nat, Calls[t] \cap {"write", "read"} # {},
             UNCHANGED <<dir, cb, total_buf_size, bytes_avail>>,
             size' = [size EXCEPT ![t] = bytes], pc'[t] \in {"write_load", "read_load"},
             \A u \in Threads \ {t} : pc'[u] = pc[u],
             bytes <= bytes_avail, cb.step = "store" => bytes <= cb.val
      PROVE  CoverInv'
  <2>1. \A u \in Threads \ {t} : ~Charging(u) /\ "write" \notin Calls[u]
    BY <1>0, <1>7 DEF OneMoves, CalledInv
  <2>2. \A u \in Threads : ~Storing(u)'
    BY <1>7, <2>1 DEF Storing, Charging
  <2>3. ASSUME NEW v, \E n \in Nat : v = n * FragSize, bytes <= v PROVE CoversNext(v)
    <3>1. BufCnt(bytes) * FragSize <= v
      BY <2>3, FragmentsCover
    <3>2. size'[t] = bytes /\ Charging(t)'
      BY <1>0, <1>7 DEF Charging
    <3> QED BY <1>7, <2>1, <2>3, <3>1, <3>2 DEF CoversNext, Charging
  <2>4. CoversNext(bytes_avail)
    BY <1>2, <1>7, <2>3 DEF Covers
  <2>5. cb.step = "store" => CoversNext(cb.val)
    BY <1>7, <2>3 DEF CoverInv, Covers
  <2>6. CoversNext(bytes_avail') /\ (cb'.step = "store" => CoversNext(cb'.val))
    BY <1>7, <2>4, <2>5 DEF CoversNext
  <2> QED BY <2>2, <2>6, CoverNext
<1>8. ASSUME NEW count \in 1..Total, agm_compress_write(t, count) PROVE CoverInv'
  <2>1. /\ dir = "RX" /\ count <= size[t] /\ count <= total_buf_size /\ "write" \in Calls[t]
        /\ UNCHANGED <<dir, cb, total_buf_size, bytes_avail, reg>>
    BY <1>8 DEF agm_compress_write, MayCall
  <2>2. CASE size' = [size EXCEPT ![t] = Accepted(count)] /\ Goto(t, "write_load")
    <3>1. Accepted(count) \in Nat /\ Accepted(count) <= count /\ count \in Nat
      <4>1. Accepted(count) \in 0..count
        BY <1>0, TransferFits
      <4> QED BY <4>1
    <3>2. ASSUME NEW v, Covers(v) PROVE Accepted(count) <= v
      <4>1. Min2(size[t], total_buf_size) <= v /\ v \in Nat
        BY <1>1, <2>1, <3>2, MultipleOf DEF Covers
      <4> QED BY <1>0, <2>1, <3>1, <4>1 DEF Min2
    <3>3. Accepted(count) <= bytes_avail /\ (cb.step = "store" => Accepted(count) <= cb.val)
      BY <1>2, <3>2 DEF CoverInv
    <3>4. pc'[t] = "write_load" /\ \A u \in Threads \ {t} : pc'[u] = pc[u]
      BY <1>0, <2>2 DEF Goto
    <3> QED BY <1>7, <2>1, <2>2, <3>1, <3>3, <3>4
  <2>3. CASE size' = [size EXCEPT ![t] = Unknown] /\ UNCHANGED <<queue, pc>>
    <3>1. size'[t] = Unknown /\ \A u \in Threads \ {t} : size'[u] = size[u]
      BY <1>0, <2>3
    <3> QED BY <1>0, <1>1, <2>1, <2>3, <3>1, CoverKept DEF Charging, Storing
  <2> QED BY <1>8, <2>2, <2>3 DEF agm_compress_write
<1>9. ASSUME NEW count \in 1..Total, agm_compress_read(t, count) PROVE CoverInv'
  <2>1. /\ dir = "TX" /\ count <= bytes_avail /\ "read" \in Calls[t]
        /\ UNCHANGED <<dir, cb, total_buf_size, bytes_avail>>
        /\ size' = [size EXCEPT ![t] = Delivered(count)]
        /\ pc'[t] = "read_load" /\ \A u \in Threads \ {t} : pc'[u] = pc[u]
    BY <1>0, <1>2, <1>9 DEF agm_compress_read, MayCall, Goto
  <2>2. Delivered(count) \in Nat /\ Delivered(count) <= bytes_avail
    <3>1. Delivered(count) \in 0..count
      BY <1>0, TransferFits
    <3> QED BY <1>0, <2>1, <3>1
  <2>3. cb.step = "store" => Delivered(count) <= cb.val
    BY <1>0, <1>2, <2>1, <2>2 DEF LoadedInv
  <2> QED BY <1>7, <2>1, <2>2, <2>3
<1> QED BY <1>3, <1>4, <1>5, <1>6, <1>8, <1>9 DEF Call

LEMMA StepCover ==
  ASSUME OneMoves, BaseInv, CoverInv, dir = "TX" => LoadedInv, [Next]_vars PROVE CoverInv'
<1> USE DEF privVars, threadVars, sessVars, dspVars
<1>0. /\ TypeInv /\ CalledInv /\ LockInv
      /\ FragSize \in Nat \ {0} /\ Fragments \in Nat /\ Total \in Nat /\ total_buf_size \in {0, Total}
      /\ pc \in [Threads -> Steps] /\ size \in [Threads -> Int] /\ reg \in [Threads -> Int]
      /\ Total = Fragments * FragSize
  BY CompressAssumption DEF CompressAssumption, Total, BaseInv, TypeInv, TypeOK
<1>1. Covers(bytes_avail) /\ bytes_avail \in Nat
  BY MultipleOf DEF CoverInv, Covers
<1>2. ASSUME NEW t \in Threads, Call(t) PROVE CoverInv'
  BY <1>2, CallCover
<1>3. ASSUME NEW t \in Threads, Step(t) PROVE CoverInv'
  <2>0. cb' = cb
    BY <1>0, <1>3, StepMoves
  <2>1. CASE LoadAvail(t)
    <3>1. /\ UNCHANGED <<dir, total_buf_size, bytes_avail, size>> /\ LockFree
          /\ pc[t] \in {"write_load", "read_load"} /\ pc'[t] \in {"write_store", "read_store"}
          /\ reg'[t] = bytes_avail /\ \A u \in Threads \ {t} : pc'[u] = pc[u] /\ reg'[u] = reg[u]
      BY <1>0, <2>1 DEF LoadAvail, Goto
    <3>2. cb'.step # "store" /\ \A u \in Threads : Storing(u)' => u = t
      BY <2>0, <3>1 DEF LockFree, Storing
    <3>3. BufCnt(size'[t]) * FragSize <= reg'[t] /\ \E n \in Nat : reg'[t] = n * FragSize
      BY <1>1, <3>1 DEF Covers
    <3>4. CoversNext(bytes_avail)
      <4>1. /\ total_buf_size \in Nat
            /\ \A u \in Threads : pc'[u] \in {"write_load", "read_load"} =>
                 pc[u] \in {"write_load", "read_load"} /\ size'[u] = size[u]
        BY <1>0, <3>1
      <4>2. \A u \in Threads : ~Charging(u)' => ~Charging(u) /\ size'[u] = size[u]
        BY <3>1 DEF Charging
      <4> QED BY <1>1, <3>1, <4>1, <4>2, CoversKept
    <3>5. CoversNext(bytes_avail')
      BY <3>1, <3>4 DEF CoversNext
    <3> QED BY <3>2, <3>3, <3>5, CoverNext
  <2>2. CASE ChargeAvail(t)
    <3>1. /\ UNCHANGED <<dir, total_buf_size>> /\ Storing(t) /\ Charging(t)
          /\ bytes_avail' = reg[t] - BufCnt(size[t]) * FragSize
          /\ pc'[t] = "idle" /\ size'[t] = Unknown /\ \A u \in Threads \ {t} : pc'[u] = pc[u]
      BY <1>0, <2>2 DEF ChargeAvail, Goto, Storing, Charging
    <3>2. \A u \in Threads \ {t} : ~Charging(u) /\ "write" \notin Calls[u]
      BY <1>0, <3>1 DEF OneMoves, CalledInv
    <3>3. cb'.step # "store" /\ \A u \in Threads : ~Storing(u)'
      BY <1>0, <2>0, <3>1, <3>2 DEF LockInv, Storing, Charging
    <3>4. \E n \in Nat : bytes_avail' = n * FragSize
      <4>1. PICK n \in Nat : reg[t] = n * FragSize
        BY <3>1 DEF CoverInv
      <4>2. BufCnt(size[t]) * FragSize <= reg[t]
        BY <3>1 DEF CoverInv
      <4>3. size[t] \in Nat
        BY <1>0, <3>1 DEF CalledInv
      <4> DEFINE m == BufCnt(size[t])
      <4>4. m \in Nat
        BY <4>3, UsedFragments
      <4>5. bytes_avail' = n * FragSize - m * FragSize /\ m * FragSize <= n * FragSize
        BY <3>1, <4>1, <4>2
      <4> HIDE DEF m
      <4>6. m <= n
        BY <4>4, <4>5, Multiples
      <4>7. n - m \in Nat /\ (n - m) * FragSize = n * FragSize - m * FragSize
        BY <1>0, <4>4, <4>6
      <4> QED BY <4>5, <4>7
    <3>5. bytes_avail' \in Nat
      BY <3>4, MultipleOf
    <3>6. Min2(size'[t], total_buf_size') <= bytes_avail'
      BY <1>0, <3>1, <3>5 DEF Min2, Unknown
    <3>7. CoversNext(bytes_avail')
      BY <3>1, <3>2, <3>4, <3>6 DEF CoversNext, Charging
    <3> QED BY <3>3, <3>7, CoverNext
  <2>3. CASE StopReset(t)
    <3>1. /\ UNCHANGED <<dir, total_buf_size, size, reg>> /\ pc[t] = "stop_reset"
          /\ bytes_avail' = total_buf_size
          /\ pc'[t] = "idle" /\ \A u \in Threads \ {t} : pc'[u] = pc[u]
      BY <1>0, <2>3 DEF StopReset, Goto
    <3>2. \E n \in Nat : total_buf_size = n * FragSize
      <4>1. 0 = 0 * FragSize
        BY <1>0
      <4> QED BY <1>0, <4>1
    <3>3. ASSUME NEW u \in Threads
          PROVE  /\ pc'[u] \in {"write_load", "read_load"} =>
                      BufCnt(size'[u]) * FragSize <= total_buf_size
                 /\ Min2(size'[u], total_buf_size') <= total_buf_size
      <4>1. ASSUME pc'[u] \in {"write_load", "read_load"}
            PROVE  BufCnt(size'[u]) * FragSize <= total_buf_size
        <5>1. Charging(u)
          BY <3>1, <4>1 DEF Charging
        <5>2. size[u] \in 0..Total /\ total_buf_size = Total
          BY <1>0, <5>1 DEF CalledInv
        <5>3. size[u] \in Nat /\ size[u] <= total_buf_size
          BY <1>0, <5>2
        <5> QED BY <3>1, <3>2, <5>3, FragmentsCover
      <4>2. Min2(size'[u], total_buf_size') <= total_buf_size
        BY <1>0, <3>1 DEF Min2
      <4> QED BY <4>1, <4>2
    <3>4. CoversNext(bytes_avail')
      BY <3>1, <3>2, <3>3 DEF CoversNext
    <3>5. ASSUME cb'.step = "store" PROVE CoversNext(cb'.val)
      <4>1. Covers(cb.val)
        BY <2>0, <3>5 DEF CoverInv
      <4>2. /\ total_buf_size \in Nat
            /\ \A u \in Threads : pc'[u] \in {"write_load", "read_load"} =>
                 pc[u] \in {"write_load", "read_load"} /\ size'[u] = size[u]
        BY <1>0, <3>1
      <4>3. \A u \in Threads : ~Charging(u)' => ~Charging(u) /\ size'[u] = size[u]
        BY <3>1 DEF Charging
      <4>4. CoversNext(cb.val)
        BY <3>1, <4>1, <4>2, <4>3, CoversKept
      <4> QED BY <2>0, <4>4 DEF CoversNext
    <3>6. \A u \in Threads : Storing(u)' => Storing(u)
      BY <3>1 DEF Storing
    <3> QED BY <3>1, <3>4, <3>5, <3>6, CoverNext DEF CoverInv
  <2>4. CASE \/ StopDrain(t) \/ StopPoll(t) \/ StopSession(t) \/ DrainWait(t) \/ DrainReturn(t)
             \/ CloseSession(t) \/ CloseDrain(t) \/ CloseFree(t)
    <3>1. /\ UNCHANGED <<dir, total_buf_size, bytes_avail, size, reg>>
          /\ pc[t] \notin {"write_load", "read_load"} /\ ~Storing(t)
      BY <2>4 DEF StopDrain, StopPoll, StopSession, DrainWait, DrainReturn, CloseSession,
                  CloseDrain, CloseFree, Storing
    <3>2. \A u \in Threads : /\ Charging(u)' => Charging(u) /\ pc'[u] = pc[u]
                             /\ Charging(u) => Charging(u)'
      BY <1>0, <1>3, <3>1, StepMoves DEF Moved, MovedAndDrain, MovedAndPoll, Charging, Storing
    <3> QED BY <1>0, <2>0, <3>1, <3>2, CoverKept DEF Charging, Storing
  <2> QED BY <1>3, <2>1, <2>2, <2>3, <2>4 DEF Step
<1>4. ASSUME NEW t \in Threads, WakeUp(t) PROVE CoverInv'
  <2>1. /\ UNCHANGED <<dir, total_buf_size, bytes_avail, size, reg, cb>>
        /\ \A u \in Threads : /\ Charging(u)' => Charging(u) /\ pc'[u] = pc[u]
                              /\ Charging(u) => Charging(u)'
    BY <1>0, <1>4, OtherMoves DEF WakeUp, Moved, Charging
  <2> QED BY <1>0, <2>1, CoverKept DEF Charging, Storing
<1>5. CASE Callback
  <2>0. UNCHANGED <<dir, total_buf_size, size, reg>>
    BY <1>5 DEF Callback, graph_event_cb, agm_compress_event_cb, StoreAvail, EosRendered, SignalPoll
  <2>1. \A u \in Threads : /\ Charging(u)' => Charging(u) /\ pc'[u] = pc[u]
                           /\ Charging(u) => Charging(u)'
    BY <1>0, <1>5, OtherMoves, DrainSignals, PollSignals DEF Charging
  <2>2. ASSUME NEW v, Covers(v) PROVE CoversNext(v)
    BY <1>0, <2>0, <2>1, <2>2, CoversKept DEF Charging
  <2>3. CASE agm_compress_event_cb
    <3>1. bytes_avail' = bytes_avail /\ (cb'.step = "store" => cb'.val = bytes_avail + FragSize)
      BY <1>0, <2>3, CallbackFields DEF agm_compress_event_cb
    <3>2. Covers(bytes_avail + FragSize)
      <4>1. \E n \in Nat : bytes_avail + FragSize = n * FragSize
        BY <1>1, MultipleOf DEF Covers
      <4>2. ASSUME NEW x \in Int, x <= bytes_avail PROVE x <= bytes_avail + FragSize
        BY <1>0, <1>1, <4>2
      <4>3. \A u \in Threads : Charging(u) => BufCnt(size[u]) * FragSize \in Int
        <5>1. ASSUME NEW u \in Threads, Charging(u) PROVE BufCnt(size[u]) * FragSize \in Int
          <6>1. size[u] \in Nat
            BY <1>0, <5>1 DEF CalledInv
          <6> QED BY <1>0, <6>1, UsedFragments
        <5> QED BY <5>1
      <4>4. \A u \in Threads : Min2(size[u], total_buf_size) \in Int
        BY <1>0 DEF Min2
      <4> QED BY <1>1, <4>1, <4>2, <4>3, <4>4 DEF Covers, Charging
    <3>3. CoversNext(bytes_avail) /\ CoversNext(bytes_avail + FragSize)
      BY <1>1, <2>2, <3>2
    <3>4. CoversNext(bytes_avail') /\ (cb'.step = "store" => CoversNext(cb'.val))
      BY <3>1, <3>3 DEF CoversNext
    <3> QED BY <2>0, <2>1, <3>4, CoverNext DEF CoverInv, Storing, Charging
  <2>4. CASE StoreAvail
    <3>1. bytes_avail' = cb.val /\ cb'.step # "store" /\ cb.step = "store"
      BY <1>0, <2>4, CallbackFields DEF StoreAvail
    <3>2. CoversNext(cb.val)
      BY <2>2, <3>1 DEF CoverInv
    <3>3. CoversNext(bytes_avail')
      BY <3>1, <3>2 DEF CoversNext
    <3> QED BY <2>0, <2>1, <3>1, <3>3, CoverNext DEF CoverInv, Storing, Charging
  <2>5. CASE graph_event_cb \/ EosRendered \/ SignalPoll
    <3>1. bytes_avail' = bytes_avail /\ cb'.step # "store"
      BY <1>0, <2>5, CallbackFields DEF graph_event_cb, EosRendered, SignalPoll
    <3> QED BY <1>0, <2>0, <2>1, <3>1, CoverKept DEF Charging, Storing
  <2> QED BY <1>5, <2>3, <2>4, <2>5 DEF Callback
<1>6. CASE Dsp \/ UNCHANGED vars
  <2>1. UNCHANGED <<dir, total_buf_size, bytes_avail, size, reg, cb, pc>>
    BY <1>6 DEF vars, Dsp, DspConsume, DspFill
  <2> QED BY <1>0, <2>1, CoverKept DEF Charging, Storing
<1> QED BY <1>2, <1>3, <1>4, <1>5, <1>6 DEF Next

(* bytes_avail never becomes negative, so that agm_compress_write does not *)
(* report -EINVAL for bytes the DSP has taken: for a client that transfers *)
(* from one thread, even one that stops a playback stream from another     *)
(* while it writes; a capture client must not stop the stream while it     *)
(* reads.                                                                  *)
THEOREM AvailStaysPositive ==
  ASSUME OneMoves, Dirs \subseteq {"RX"} \/ NeverCalls("stop")
  PROVE  Spec => []AvailNonNegative
<1> DEFINE Inv == /\ BaseInv /\ CoverInv /\ dir \in Dirs
                  /\ NeverCalls("stop") => LoadedInv
<1>1. Init => Inv
  <2>1. ASSUME Init PROVE LoadedInv /\ dir \in Dirs
    BY <2>1 DEF Init, NoDelivery, LoadedInv, Storing
  <2>2. ASSUME Init PROVE CoverInv
    <3>1. 0 = 0 * FragSize /\ FragSize \in Nat
      BY CompressAssumption DEF CompressAssumption
    <3>2. Covers(0)
      BY <2>2, <3>1 DEF Init, Covers, Min2, Unknown
    <3> QED BY <2>2, <3>2 DEF Init, NoDelivery, CoverInv, Storing
  <2> QED BY <2>1, <2>2, InitBase
<1>2. Inv /\ [Next]_vars => Inv'
  <2>1. SUFFICES ASSUME Inv, [Next]_vars PROVE Inv'
    OBVIOUS
  <2>2. BaseInv'
    BY <2>1, StepBase
  <2>3. dir' = dir
    BY <2>1, ZenonT(60) DEF Next, Call, Step, WakeUp, Callback, Dsp, vars, agm_compress_set_params,
             agm_compress_avail, agm_compress_write, agm_compress_read, agm_compress_start,
             agm_compress_pause, agm_compress_resume, agm_compress_stop, agm_compress_drain,
             agm_compress_poll, PollTimeout, agm_compress_close, LoadAvail, ChargeAvail, StopDrain,
             StopPoll, StopSession, StopReset, DrainWait, DrainReturn, CloseSession, CloseDrain,
             CloseFree, graph_event_cb, agm_compress_event_cb, StoreAvail, EosRendered, SignalPoll,
             DspConsume, DspFill, privVars, threadVars, sessVars, dspVars
  <2>4. NeverCalls("stop") => LoadedInv'
    BY <2>1, StepLoaded
  <2>5. CoverInv'
    <3>1. dir = "TX" => LoadedInv
      BY <2>1
    <3> QED BY <2>1, <3>1, StepCover
  <2> QED BY <2>1, <2>2, <2>3, <2>4, <2>5
<1>3. Inv => AvailNonNegative
  BY MultipleOf DEF CoverInv, Covers, AvailNonNegative
<1> QED BY <1>1, <1>2, <1>3, PTL DEF Spec
=============================================================================
