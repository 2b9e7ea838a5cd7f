---------------------------- MODULE PluginProofs ----------------------------
(***************************************************************************)
(* Proofs about what the tinyalsa plugins share with other threads and     *)
(* with one another: the two lists of events of the mixer plugin, which    *)
(* its callback fills and its client empties, and the list of sound cards  *)
(* with its references; about the position of a mapped stream, which the   *)
(* DSP publishes and the PCM plugin follows; and about the tables through  *)
(* which the controls of the mixer find what their names say.              *)
(***************************************************************************)
EXTENDS PcmPlugin, MixerPlugin, SndCardParser, ListFacts

-----------------------------------------------------------------------------
(* How often a session is in a list.                                       *)
Places(q, s) == {i \in DOMAIN q : q[i] = s}

LEMMA CountIsNat ==
  ASSUME NEW S, NEW q \in Seq(S), NEW s
  PROVE  /\ IsFiniteSet(Places(q, s)) /\ Count(q, s) \in Nat
         /\ Count(q, s) = Cardinality(Places(q, s))
<1>1. IsFiniteSet(1..Len(q)) /\ Places(q, s) \in SUBSET (1..Len(q))
  BY FS_Interval DEF Places
<1>2. IsFiniteSet(Places(q, s))
  BY <1>1, FS_Subset
<1>3. Count(q, s) = Cardinality(Places(q, s))
  BY DEF Count, Places
<1> QED BY <1>2, <1>3, FS_CardinalityType

LEMMA CountNone ==
  ASSUME NEW s
  PROVE  Count(<<>>, s) = 0
<1>1. {i \in DOMAIN <<>> : <<>>[i] = s} = {}
  OBVIOUS
<1> QED BY <1>1, FS_EmptySet DEF Count

LEMMA CountAppend ==
  ASSUME NEW S, NEW q \in Seq(S), NEW x \in S, NEW s
  PROVE  /\ Append(q, x) \in Seq(S)
         /\ Count(Append(q, x), s) = Count(q, s) + (IF x = s THEN 1 ELSE 0)
<1> DEFINE n == Len(q) + 1
           r == Append(q, x)
<1>1. /\ r \in Seq(S) /\ DOMAIN r = 1..n /\ DOMAIN q = 1..(n - 1) /\ n \in Nat \ {0}
      /\ r[n] = x /\ \A i \in 1..(n - 1) : r[i] = q[i]
  OBVIOUS
<1>2. Count(q, s) \in Nat /\ Count(q, s) = Cardinality(Places(q, s)) /\ IsFiniteSet(Places(q, s))
  BY CountIsNat
<1>3. Count(r, s) = Cardinality(Places(r, s))
  BY <1>1, CountIsNat
<1> HIDE DEF r, n
<1>4. CASE x = s
  <2>1. /\ Places(r, s) \subseteq 1..n /\ Places(q, s) \cup {n} \subseteq 1..n
        /\ n \notin Places(q, s)
    BY <1>1 DEF Places
  <2>2. \A i \in 1..n : i \in Places(r, s) <=> i \in Places(q, s) \cup {n}
    <3>1. \A i \in 1..(n - 1) : i \in Places(r, s) <=> i \in Places(q, s)
      BY <1>1 DEF Places
    <3>2. n \in Places(r, s)
      BY <1>1, <1>4 DEF Places
    <3> QED BY <1>1, <2>1, <3>1, <3>2
  <2>5. Places(r, s) = Places(q, s) \cup {n}
    BY <2>1, <2>2
  <2>3. Cardinality(Places(r, s)) = Cardinality(Places(q, s)) + 1
    BY <1>2, <2>1, <2>5, FS_AddElement
  <2> QED BY <1>1, <1>2, <1>3, <1>4, <2>3 DEF r
<1>5. CASE x # s
  <2>1. \A i : i \in Places(r, s) <=> i \in Places(q, s)
    BY <1>1, <1>5 DEF Places
  <2>2. Places(r, s) = Places(q, s)
    BY <2>1
  <2> QED BY <1>1, <1>2, <1>3, <1>5, <2>2 DEF r
<1> QED BY <1>4, <1>5

LEMMA CountRemoved ==
  ASSUME NEW S, NEW q \in Seq(S), NEW k \in 1..Len(q), NEW r \in Seq(S), NEW s,
         Len(r) = Len(q) - 1,
         \A i \in 1..(Len(q) - 1) : r[i] = IF i < k THEN q[i] ELSE q[i + 1]
  PROVE  Count(r, s) = Count(q, s) - (IF q[k] = s THEN 1 ELSE 0)
<1> DEFINE A == Places(q, s) \ {k}
           B == Places(r, s)
           f == [i \in B |-> IF i < k THEN i ELSE i + 1]
<1>1. /\ Count(q, s) \in Nat /\ Count(q, s) = Cardinality(Places(q, s)) /\ IsFiniteSet(Places(q, s))
      /\ Count(r, s) = Cardinality(B) /\ IsFiniteSet(B)
  BY CountIsNat
<1>2. \A i : i \in B <=> i \in 1..(Len(q) - 1) /\ s = IF i < k THEN q[i] ELSE q[i + 1]
  BY DEF Places
<1>3. \A i : i \in A <=> i \in 1..Len(q) /\ q[i] = s /\ i # k
  BY DEF Places
<1>4. f \in Bijection(B, A)
  <2>0. Len(q) \in Nat
    OBVIOUS
  <2> HIDE DEF A, B
  <2>1. f \in [B -> A]
    BY <1>2, <1>3, <2>0
  <2>2. \A i, j \in B : f[i] = f[j] => i = j
    BY <1>2, <2>0
  <2>3. \A j \in A : \E i \in B : f[i] = j
    <3>1. TAKE j \in A
    <3>2. CASE j < k
      BY <1>2, <1>3, <2>0, <3>2
    <3>3. CASE j > k
      <4>1. j \in 1..Len(q) /\ q[j] = s
        BY <1>3
      <4>2. j - 1 \in 1..(Len(q) - 1) /\ ~(j - 1 < k) /\ (j - 1) + 1 = j
        BY <2>0, <3>3, <4>1
      <4>3. j - 1 \in B
        BY <1>2, <4>1, <4>2
      <4> QED BY <4>2, <4>3
    <3> QED BY <1>3, <2>0, <3>2, <3>3
  <2> QED BY <2>1, <2>2, <2>3 DEF Bijection, Injection, Surjection, IsInjective
<1>5. Cardinality(A) = Cardinality(B)
  <2> HIDE DEF A, B, f
  <2> QED BY <1>1, <1>4, FS_Bijection DEF ExistsBijection
<1>6. Cardinality(A) = IF k \in Places(q, s) THEN Cardinality(Places(q, s)) - 1
                       ELSE Cardinality(Places(q, s))
  BY <1>1, FS_RemoveElement
<1>7. k \in Places(q, s) <=> q[k] = s
  BY DEF Places
<1> QED BY <1>1, <1>5, <1>6, <1>7

LEMMA CountTail ==
  ASSUME NEW S, NEW q \in Seq(S), q # <<>>, NEW s
  PROVE  /\ Tail(q) \in Seq(S) /\ Head(q) \in S
         /\ Count(Tail(q), s) = Count(q, s) - (IF Head(q) = s THEN 1 ELSE 0)
<1>1. /\ Tail(q) \in Seq(S) /\ Len(Tail(q)) = Len(q) - 1 /\ Head(q) = q[1] /\ 1 \in 1..Len(q)
      /\ Head(q) \in S
      /\ \A i \in 1..(Len(q) - 1) : Tail(q)[i] = q[i + 1]
  OBVIOUS
<1>2. PICK r \in Seq(S) : r = Tail(q)
  BY <1>1
<1>3. /\ Len(r) = Len(q) - 1
      /\ \A i \in 1..(Len(q) - 1) : r[i] = IF i < 1 THEN q[i] ELSE q[i + 1]
  BY <1>1, <1>2
<1>4. Count(r, s) = Count(q, s) - (IF q[1] = s THEN 1 ELSE 0)
  BY <1>1, <1>3, CountRemoved
<1> QED BY <1>1, <1>2, <1>4

LEMMA CountRemoveFirst ==
  ASSUME NEW S, NEW q \in Seq(S), NEW e, NEW s
  PROVE  /\ RemoveFirst(q, e) \in Seq(S)
         /\ s # e => Count(RemoveFirst(q, e), s) = Count(q, s)
         /\ Count(q, e) > 0 => Count(RemoveFirst(q, e), e) = Count(q, e) - 1
<1>1. CASE ~\E i \in 1..Len(q) : q[i] = e
  <2>1. Places(q, e) = {} /\ RemoveFirst(q, e) = q
    BY <1>1 DEF Places, RemoveFirst
  <2>2. Count(q, e) = 0
    BY <2>1, CountIsNat, FS_EmptySet
  <2> QED BY <2>1, <2>2
<1>2. CASE \E i \in 1..Len(q) : q[i] = e
  <2> DEFINE I == {i \in 1..Len(q) : q[i] = e}
             k == Min(I)
  <2>1. k \in 1..Len(q) /\ q[k] = e
    <3>1. I \in SUBSET Nat /\ I # {}
      BY <1>2
    <3> HIDE DEF k
    <3>2. k \in I
      BY <3>1, LeastPlace DEF k
    <3> QED BY <3>2
  <2>2. SelectInSeq(q, LAMBDA v : v = e) = k
    BY <1>2 DEF SelectInSeq
  <2>3. RemoveFirst(q, e) = RemoveAt(q, k)
    BY <1>2, <2>2 DEF RemoveFirst
  <2> HIDE DEF k
  <2>4. /\ RemoveAt(q, k) \in Seq(S) /\ Len(RemoveAt(q, k)) = Len(q) - 1
        /\ \A i \in 1..(Len(q) - 1) : RemoveAt(q, k)[i] = IF i < k THEN q[i] ELSE q[i + 1]
    BY <2>1, RemovedAt
  <2>5. PICK r \in Seq(S) : r = RemoveAt(q, k)
    BY <2>4
  <2>6. \A x : Count(r, x) = Count(q, x) - (IF q[k] = x THEN 1 ELSE 0)
    <3>1. /\ Len(r) = Len(q) - 1
          /\ \A i \in 1..(Len(q) - 1) : r[i] = IF i < k THEN q[i] ELSE q[i + 1]
      BY <2>4, <2>5
    <3>2. PICK m \in 1..Len(q) : m = k
      BY <2>1
    <3>3. /\ Len(r) = Len(q) - 1
          /\ \A i \in 1..(Len(q) - 1) : r[i] = IF i < m THEN q[i] ELSE q[i + 1]
      BY <3>1, <3>2
    <3> TAKE x
    <3>4. Count(r, x) = Count(q, x) - (IF q[m] = x THEN 1 ELSE 0)
      BY <3>3, CountRemoved, SMTT(60)
    <3> QED BY <3>2, <3>4
  <2>7. Count(q, s) \in Nat
    BY CountIsNat
  <2> QED BY <2>1, <2>3, <2>5, <2>6, <2>7
<1> QED BY <1>1, <1>2

-----------------------------------------------------------------------------
(* The events of the mixer plugin.                                         *)

(* A list, of whatever it holds.                                           *)
IsList(q) == q \in Seq(ToSet(q))

LEMMA ListOf ==
  ASSUME NEW S, NEW q \in Seq(S)
  PROVE  IsList(q)
<1>1. q \in [1..Len(q) -> ToSet(q)] /\ Len(q) \in Nat
  BY DEF ToSet
<1> QED BY <1>1, SeqDef DEF IsList

LEMMA ListNone == IsList(<<>>)
<1>1. <<>> \in Seq({})
  OBVIOUS
<1> QED BY <1>1, ListOf

LEMMA ListCount ==
  ASSUME NEW q, IsList(q), NEW s
  PROVE  Count(q, s) \in Nat
<1> QED BY CountIsNat DEF IsList

LEMMA ListAppend ==
  ASSUME NEW q, IsList(q), NEW x
  PROVE  /\ IsList(Append(q, x))
         /\ \A s : Count(Append(q, x), s) = Count(q, s) + (IF x = s THEN 1 ELSE 0)
<1> DEFINE S == ToSet(q) \cup {x}
<1>1. q \in Seq(S) /\ x \in S
  <2>1. q \in [1..Len(q) -> S] /\ Len(q) \in Nat
    BY DEF IsList
  <2> QED BY <2>1, SeqDef
<1> HIDE DEF S
<1>2. \A s : /\ Append(q, x) \in Seq(S)
             /\ Count(Append(q, x), s) = Count(q, s) + (IF x = s THEN 1 ELSE 0)
  BY <1>1, CountAppend
<1> QED BY <1>2, ListOf

LEMMA ListTail ==
  ASSUME NEW q, IsList(q), q # <<>>
  PROVE  /\ IsList(Tail(q))
         /\ \A s : Count(Tail(q), s) = Count(q, s) - (IF Head(q) = s THEN 1 ELSE 0)
<1>1. \A s : /\ Tail(q) \in Seq(ToSet(q))
             /\ Count(Tail(q), s) = Count(q, s) - (IF Head(q) = s THEN 1 ELSE 0)
  BY CountTail DEF IsList
<1> QED BY <1>1, ListOf

LEMMA ListRemove ==
  ASSUME NEW q, IsList(q), NEW e
  PROVE  /\ IsList(RemoveFirst(q, e))
         /\ \A s : s # e => Count(RemoveFirst(q, e), s) = Count(q, s)
         /\ Count(q, e) > 0 => Count(RemoveFirst(q, e), e) = Count(q, e) - 1
<1>1. \A s : /\ RemoveFirst(q, e) \in Seq(ToSet(q))
             /\ s # e => Count(RemoveFirst(q, e), s) = Count(q, s)
             /\ Count(q, e) > 0 => Count(RemoveFirst(q, e), e) = Count(q, e) - 1
  BY CountRemoveFirst DEF IsList
<1> QED BY <1>1, ListOf

(* A callback runs for a session that is registered.                       *)
CbFits ==
  cb = Idle \/ \E s \in registered : \E at \in {"params", "queue"} : cb = [at |-> at, session |-> s]

(* The parameters of an event are in their list before the event is, while *)
(* it is, and until the client that read it fetches them.                  *)
Behind(s) ==
  Count(events, s) + (IF s \in fetch THEN 1 ELSE 0)
    + (IF cb.at = "queue" /\ cb.session = s THEN 1 ELSE 0) <= Count(params, s)

MixerInv ==
  /\ IsList(params) /\ IsList(events)
  /\ CbFits
  /\ \A a, b \in fetch : a = b
  /\ amp = "null" => registered = {} /\ fetch = {}
  /\ amp = "freed" => registered = {}
  /\ torn \/ \A s \in registered : Behind(s)

LEMMA MixerStarts == MixerInit => MixerInv
<1> SUFFICES ASSUME MixerInit PROVE MixerInv
  OBVIOUS
<1> QED BY ListNone DEF MixerInit, MixerInv, CbFits

LEMMA MixerOpens ==
  ASSUME MixerInv, agm_mixer_plugin_open
  PROVE  MixerInv'
<1>1. /\ amp = "null" /\ params' = <<>> /\ events' = <<>>
      /\ UNCHANGED <<fetch, cb, torn>>
      /\ amp' = "open" \/ UNCHANGED <<amp, registered>>
  BY DEF agm_mixer_plugin_open
<1>2. registered = {} /\ fetch = {} /\ cb = Idle
  BY <1>1 DEF MixerInv, CbFits
<1>3. \A s : Behind(s)'
  BY <1>1, <1>2, CountNone DEF Behind, Idle
<1> QED BY <1>1, <1>2, <1>3, ListNone DEF MixerInv, CbFits

LEMMA MixerEvents ==
  ASSUME MixerInv, EventsNext
  PROVE  MixerInv'
<1>0. \A s : Count(params, s) \in Nat /\ Count(events, s) \in Nat
  BY ListCount DEF MixerInv
<1>1. CASE amp_event_cb
  <2>1. PICK s \in registered : cb' = [at |-> "params", session |-> s]
    BY <1>1 DEF amp_event_cb
  <2>2. UNCHANGED <<amp, registered, params, events, fetch, torn>> /\ cb = Idle
    BY <1>1 DEF amp_event_cb
  <2>3. \A x : Behind(x)' <=> Behind(x)
    BY <2>1, <2>2 DEF Behind, Idle
  <2> QED BY <2>1, <2>2, <2>3 DEF MixerInv, CbFits
<1>2. CASE amp_add_event_params
  <2>1. /\ cb.at = "params" /\ params' = Append(params, cb.session)
        /\ cb' = [cb EXCEPT !.at = "queue"]
        /\ UNCHANGED <<amp, registered, events, fetch, torn>>
    BY <1>2 DEF amp_add_event_params
  <2>2. PICK s \in registered : cb = [at |-> "params", session |-> s]
    BY <2>1 DEF MixerInv, CbFits, Idle
  <2>3. cb' = [at |-> "queue", session |-> s]
    BY <2>1, <2>2
  <2>4. IsList(params)' /\ \A x : Count(params, x)' = Count(params, x) + (IF s = x THEN 1 ELSE 0)
    BY <2>1, <2>2, ListAppend DEF MixerInv
  <2>5. \A x : Count(events, x)' = Count(events, x)
    BY <2>1
  <2>6. \A x : Behind(x) => Behind(x)'
    BY <1>0, <2>1, <2>2, <2>3, <2>4, <2>5 DEF Behind
  <2> QED BY <2>1, <2>3, <2>4, <2>6 DEF MixerInv, CbFits
<1>3. CASE amp_event_cb_queues
  <2>1. /\ cb.at = "queue" /\ cb' = Idle
        /\ events' = Append(events, cb.session) \/ UNCHANGED events
        /\ UNCHANGED <<amp, registered, params, fetch, torn>>
    BY <1>3 DEF amp_event_cb_queues
  <2>2. PICK s \in registered : cb = [at |-> "queue", session |-> s]
    BY <2>1 DEF MixerInv, CbFits, Idle
  <2>3. /\ IsList(events)'
        /\ \A x : /\ Count(events, x)' \in Nat
                  /\ Count(events, x)' <= Count(events, x) + (IF s = x THEN 1 ELSE 0)
    <3>1. CASE events' = Append(events, cb.session)
      <4>1. IsList(events)' /\ \A x : Count(events, x)' = Count(events, x) + (IF s = x THEN 1 ELSE 0)
        BY <2>2, <3>1, ListAppend DEF MixerInv
      <4> QED BY <1>0, <4>1
    <3>2. CASE UNCHANGED events
      <4>1. IsList(events)' /\ \A x : Count(events, x)' = Count(events, x)
        BY <3>2 DEF MixerInv
      <4> QED BY <1>0, <4>1
    <3> QED BY <2>1, <3>1, <3>2
  <2>4. \A x : Count(params, x)' = Count(params, x)
    BY <2>1
  <2>5. \A x : Behind(x) => Behind(x)'
    BY <1>0, <2>1, <2>2, <2>3, <2>4 DEF Behind, Idle
  <2> QED BY <2>1, <2>3, <2>5 DEF MixerInv, CbFits
<1>4. CASE amp_subscribe_events
  <2>1. UNCHANGED <<amp, registered, cb>> /\ amp = "open"
    BY <1>4 DEF amp_subscribe_events
  <2>2. CASE subscribed
    <3>1. params' = <<>> /\ events' = <<>> /\ fetch' = {} /\ torn' = (torn \/ cb.at = "queue")
      BY <1>4, <2>2 DEF amp_subscribe_events
    <3>2. torn' \/ \A s : Behind(s)'
      <4>1. CASE cb.at = "queue"
        BY <3>1, <4>1, Zenon
      <4>2. CASE cb.at # "queue"
        <5>1. cb'.at # "queue"
          BY <2>1, <4>2
        <5>2. \A s : Count(events, s)' = 0 /\ Count(params, s)' = 0 /\ s \notin fetch'
          BY <3>1, CountNone
        <5> QED BY <5>1, <5>2 DEF Behind
      <4> QED BY <4>1, <4>2
    <3> QED BY <2>1, <3>1, <3>2, ListNone DEF MixerInv, CbFits
  <2>3. CASE ~subscribed
    <3>1. UNCHANGED <<params, events, fetch, torn>>
      BY <1>4, <2>3 DEF amp_subscribe_events
    <3> QED BY <2>1, <3>1 DEF MixerInv, CbFits, Behind
  <2> QED BY <2>2, <2>3
<1>5. CASE amp_read_event
  <2>1. /\ events # <<>> /\ fetch = {} /\ fetch' = {Head(events)} /\ events' = Tail(events)
        /\ UNCHANGED <<amp, registered, params, cb, torn>> /\ amp = "open"
    BY <1>5 DEF amp_read_event
  <2>2. /\ IsList(events)'
        /\ \A x : Count(events, x)' = Count(events, x) - (IF Head(events) = x THEN 1 ELSE 0)
    BY <2>1, ListTail DEF MixerInv
  <2>3. \A x : Count(params, x)' = Count(params, x)
    BY <2>1
  <2>4. \A x : Behind(x) => Behind(x)'
    BY <1>0, <2>1, <2>2, <2>3 DEF Behind
  <2> QED BY <2>1, <2>2, <2>4 DEF MixerInv, CbFits
<1>6. CASE amp_pcm_event_get
  <2>1. PICK s \in fetch : params' = RemoveFirst(params, s)
    BY <1>6 DEF amp_pcm_event_get
  <2>2. /\ fetch' = {} /\ UNCHANGED <<amp, registered, events, cb, torn>> /\ amp = "open"
        /\ fetch = {s}
    BY <1>6, <2>1 DEF amp_pcm_event_get, MixerInv
  <2>3. /\ IsList(params)'
        /\ \A x : x # s => Count(params, x)' = Count(params, x)
        /\ Count(params, s) > 0 => Count(params, s)' = Count(params, s) - 1
    BY <2>1, ListRemove DEF MixerInv
  <2>4. \A x : Count(events, x)' = Count(events, x)
    BY <2>2
  <2>5. \A x : Behind(x) => Behind(x)'
    BY <1>0, <2>2, <2>3, <2>4 DEF Behind
  <2> QED BY <2>2, <2>3, <2>5 DEF MixerInv, CbFits
<1> QED BY <1>1, <1>2, <1>3, <1>4, <1>5, <1>6 DEF EventsNext

LEMMA MixerCloses ==
  ASSUME MixerInv, CloseNext
  PROVE  MixerInv'
<1>1. CASE amp_close
  BY <1>1 DEF amp_close, event_vars, MixerInv, CbFits, Behind
<1>2. CASE amp_register_event_callback
  <2>1. /\ amp = "closing" /\ cb = Idle /\ registered' \subseteq registered
        /\ UNCHANGED <<amp, params, events, fetch, cb, torn>>
    BY <1>2 DEF amp_register_event_callback
  <2> QED BY <2>1 DEF MixerInv, CbFits, Behind
<1>3. CASE amp_close_frees
  <2>1. /\ registered = {} /\ registered' = {} /\ amp' = "freed"
        /\ params' = <<>> /\ events' = <<>> /\ UNCHANGED <<fetch, cb, torn>>
    BY <1>3 DEF amp_close_frees
  <2> QED BY <2>1, ListNone DEF MixerInv, CbFits
<1> QED BY <1>1, <1>2, <1>3 DEF CloseNext

LEMMA MixerSteps == MixerInv /\ [MixerNext]_mvars => MixerInv'
<1> SUFFICES ASSUME MixerInv, [MixerNext]_mvars PROVE MixerInv'
  OBVIOUS
<1>1. CASE ControlsNext \/ UNCHANGED mvars
  <2>1. UNCHANGED event_vars /\ UNCHANGED amp
    BY <1>1 DEF ControlsNext, ControlPut, amp_pcm_mtd_control_put, amp_pcm_get_param_put,
                amp_pcm_get_param_get, mvars, event_vars
  <2> QED BY <2>1 DEF event_vars, MixerInv, CbFits, Behind
<1> QED BY <1>1, MixerOpens, MixerEvents, MixerCloses DEF MixerNext

(* The callback of the service never runs on a plugin that is freed,       *)
(* however closing it and the events of its sessions interleave: closing   *)
(* takes each session off the service before it frees (amp_close).         *)
THEOREM CallbackNeverLate == MixerSpec => []CallbackSeesLivePlugin
<1>1. MixerInv => CallbackSeesLivePlugin
  BY DEF MixerInv, CbFits, CallbackSeesLivePlugin, Idle
<1> QED BY <1>1, MixerStarts, MixerSteps, PTL DEF MixerSpec

(* Whatever sessions have events, and whenever the client reads and        *)
(* fetches them, an event that is read has its parameters in their list,   *)
(* unless an unsubscription came between the two appends of a callback     *)
(* (amp_event_cb, amp_subscribe_events).                                   *)
THEOREM ParamsComeFirst == MixerSpec => []ParamsBehindEvent
<1>1. MixerInv => ParamsBehindEvent
  <2> SUFFICES ASSUME MixerInv, ~torn, NEW s \in registered
               PROVE  Count(events, s) + (IF s \in fetch THEN 1 ELSE 0) <= Count(params, s)
    BY DEF ParamsBehindEvent
  <2>1. Behind(s) /\ Count(params, s) \in Nat /\ Count(events, s) \in Nat
    BY ListCount DEF MixerInv
  <2> QED BY <2>1 DEF Behind
<1> QED BY <1>1, MixerStarts, MixerSteps, PTL DEF MixerSpec

-----------------------------------------------------------------------------
(***************************************************************************)
(* The tables of the mixer.  A table of names has ZERO first and then, for *)
(* each back end or node it takes, what the list of the service or of the  *)
(* card says of it.                                                        *)
(***************************************************************************)
IsPicked(r, I, n) ==
  /\ DOMAIN r = 1..n /\ \A j \in 1..n : r[j] \in I
  /\ \A j, k \in 1..n : r[j] = r[k] => j = k

LEMMA PlacesKept ==
  ASSUME NEW S, NEW q \in Seq(S), NEW I \in SUBSET DOMAIN q
  PROVE  \E n \in Nat : IsPicked(Kept([i \in DOMAIN q |-> i], I), I, n)
<1>1. PICK all : all = [i \in DOMAIN q |-> i]
  OBVIOUS
<1>2. DOMAIN q = 1..Len(q) /\ Len(q) \in Nat
  BY LenProperties
<1>3. all \in Seq(Nat) /\ DOMAIN all = DOMAIN q
  BY <1>1, <1>2
<1>4. PICK n \in Nat : n = Cardinality(I)
  BY <1>3, KeptPlaces
<1>5. PICK r : r = Kept(all, I)
  OBVIOUS
<1>6. DOMAIN r = 1..n
  BY <1>3, <1>4, <1>5, KeptPlaces
<1>7. PICK places \in [1..n -> I] : TakenFrom(places, r, all, I, n)
  BY <1>3, <1>4, <1>5, KeptPlaces
<1>8. \A j \in 1..n : r[j] = places[j]
  BY <1>1, <1>7 DEF TakenFrom
<1>9. IsPicked(r, I, n)
  BY <1>6, <1>7, <1>8 DEF IsPicked, TakenFrom
<1> QED BY <1>1, <1>5, <1>9

HasFirst(s, z, m, n) ==
  /\ Len(s) = n + 1 /\ s[1] = z
  /\ \A i \in 2..Len(s) : i - 1 \in 1..n /\ s[i] = m[i - 1]

IsArray(m, n) == m = [i \in 1..n |-> m[i]]

LEMMA FirstOfAll ==
  ASSUME NEW z, NEW n \in Nat, NEW m, IsArray(m, n)
  PROVE  HasFirst(<<z>> \o m, z, m, n)
<1>1. PICK S : S = {z} \cup {m[i] : i \in 1..n}
  OBVIOUS
<1>2. m \in Seq(S) /\ Len(m) = n
  BY <1>1 DEF IsArray
<1>3. PICK a : a = <<z>>
  OBVIOUS
<1>4. a \in Seq(S)
  BY <1>1, <1>3
<1>5. PICK la \in Nat : la = Len(a)
  BY <1>4
<1>6. la = 1 /\ a[1] = z
  BY <1>3, <1>5
<1>7. PICK c : c = a \o m
  OBVIOUS
<1>8. Len(c) = la + n /\ \A i \in 1..la : c[i] = a[i]
  BY <1>2, <1>4, <1>5, <1>7, ConcatPlaces
<1>9. \A i \in 1..n : c[la + i] = m[i]
  BY <1>2, <1>4, <1>5, <1>7, ConcatPlaces
<1>10. Len(c) = n + 1 /\ c[1] = z /\ \A i \in 1..n : c[1 + i] = m[i]
  BY <1>6, <1>8, <1>9
<1>11. ASSUME NEW i \in 2..(n + 1) PROVE i - 1 \in 1..n /\ c[i] = m[i - 1]
  <2>1. i - 1 \in 1..n /\ i = 1 + (i - 1)
    OBVIOUS
  <2> QED BY <1>10, <2>1
<1>12. HasFirst(c, z, m, n)
  BY <1>10, <1>11 DEF HasFirst
<1> QED BY <1>3, <1>7, <1>12

BeNamed(be, aifs, d) ==
  /\ Len(be) \in Nat \ {0} /\ be[1] = ZERO
  /\ \A i \in 2..Len(be) : /\ aifs[be[i].idx + 1].name = be[i].name
                           /\ aifs[be[i].idx + 1].dir = d

LEMMA BackendsNamed ==
  ASSUME NEW k \in CardSet, NEW d
  PROVE  BeNamed(amp_copy_be_names_from_aif_list(k.aifs, d), k.aifs, d)
<1>1. PICK aifs : aifs = k.aifs
  OBVIOUS
<1>2. aifs \in Seq(ToSet(aifs))
  BY <1>1, MixerAssumption DEF IsCard
<1>3. PICK I : I = {i \in DOMAIN aifs : aifs[i].dir = d}
  OBVIOUS
<1>4. PICK r : r = Kept([i \in DOMAIN aifs |-> i], I)
  OBVIOUS
<1>5. PICK n \in Nat : IsPicked(r, I, n)
  BY <1>2, <1>3, <1>4, PlacesKept
<1>6. PICK m : m = [j \in 1..n |-> [name |-> aifs[r[j]].name, idx |-> r[j] - 1]]
  OBVIOUS
<1>7. PICK be : be = <<ZERO>> \o m
  OBVIOUS
<1>8. amp_copy_be_names_from_aif_list(aifs, d) = be
  BY <1>3, <1>4, <1>5, <1>6, <1>7 DEF amp_copy_be_names_from_aif_list, IsPicked
<1>9. HasFirst(be, ZERO, m, n)
  BY <1>6, <1>7, FirstOfAll DEF IsArray
<1>10. \A j \in 1..n : /\ aifs[m[j].idx + 1].name = m[j].name
                       /\ aifs[m[j].idx + 1].dir = d
  <2> SUFFICES ASSUME NEW j \in 1..n
               PROVE  aifs[m[j].idx + 1].name = m[j].name /\ aifs[m[j].idx + 1].dir = d
    OBVIOUS
  <2>1. PICK p : p = r[j]
    OBVIOUS
  <2>2. p \in Nat /\ aifs[p].dir = d
    BY <1>2, <1>3, <1>5, <2>1 DEF IsPicked
  <2>3. m[j].idx = p - 1 /\ m[j].name = aifs[p].name
    BY <1>6, <2>1
  <2>4. m[j].idx + 1 = p
    BY <2>2, <2>3
  <2> QED BY <2>2, <2>3, <2>4
<1> QED BY <1>1, <1>8, <1>9, <1>10 DEF HasFirst, BeNamed

IsNode(nodes, id, name) == (CHOOSE n \in ToSet(nodes) : n.id = id).name = name

PcmNamed(adi, nodes) ==
  /\ Len(adi) \in Nat \ {0} /\ adi[1] = ZERO
  /\ \A i \in 2..Len(adi) : IsNode(nodes, adi[i].idx, adi[i].name)
  /\ \A i, j \in 2..Len(adi) : adi[i].idx = adi[j].idx => i = j

LEMMA PcmsNamed ==
  ASSUME NEW k \in CardSet, NEW d
  PROVE  PcmNamed(amp_create_pcm_info_from_card(k.nodes, d), k.nodes)
<1>1. PICK nodes : nodes = k.nodes
  OBVIOUS
<1>2. /\ nodes \in Seq(ToSet(nodes))
      /\ \A i, j \in DOMAIN nodes : nodes[i].id = nodes[j].id => i = j
  BY <1>1, MixerAssumption DEF IsCard
<1>3. PICK I : I = {i \in DOMAIN nodes : Values(nodes, Attr(d))[i] # 0}
  OBVIOUS
<1>4. PICK r : r = Kept([i \in DOMAIN nodes |-> i], I)
  OBVIOUS
<1>5. PICK n \in Nat : IsPicked(r, I, n)
  BY <1>2, <1>3, <1>4, PlacesKept
<1>6. PICK m : m = [j \in 1..n |-> [name |-> nodes[r[j]].name, idx |-> nodes[r[j]].id]]
  OBVIOUS
<1>7. PICK adi : adi = <<ZERO>> \o m
  OBVIOUS
<1>8. amp_create_pcm_info_from_card(nodes, d) = adi
  BY <1>3, <1>4, <1>5, <1>6, <1>7 DEF amp_create_pcm_info_from_card, IsPicked
<1>9. HasFirst(adi, ZERO, m, n)
  BY <1>6, <1>7, FirstOfAll DEF IsArray
<1>10. \A j \in 1..n : r[j] \in DOMAIN nodes /\ m[j].idx = nodes[r[j]].id /\ m[j].name = nodes[r[j]].name
  BY <1>3, <1>5, <1>6 DEF IsPicked
<1>11. \A j \in 1..n : IsNode(nodes, m[j].idx, m[j].name)
  <2> SUFFICES ASSUME NEW j \in 1..n PROVE IsNode(nodes, m[j].idx, m[j].name)
    OBVIOUS
  <2>1. PICK p \in DOMAIN nodes : m[j].idx = nodes[p].id /\ m[j].name = nodes[p].name
    BY <1>10
  <2>2. nodes[p] \in ToSet(nodes) /\ \A x \in ToSet(nodes) : x.id = nodes[p].id => x = nodes[p]
    BY <1>2 DEF ToSet
  <2>3. (CHOOSE x \in ToSet(nodes) : x.id = nodes[p].id) = nodes[p]
    BY <2>2
  <2> QED BY <2>1, <2>3 DEF IsNode
<1>12. \A i, j \in 1..n : m[i].idx = m[j].idx => i = j
  BY <1>2, <1>5, <1>10 DEF IsPicked
<1>13. \A i, j \in 2..Len(adi) : adi[i].idx = adi[j].idx => i = j
  <2> SUFFICES ASSUME NEW i \in 2..Len(adi), NEW j \in 2..Len(adi), adi[i].idx = adi[j].idx
               PROVE  i = j
    OBVIOUS
  <2>1. i - 1 = j - 1
    BY <1>9, <1>12 DEF HasFirst
  <2> QED BY <1>9, <2>1 DEF HasFirst
<1>14. \A i \in 2..Len(adi) : IsNode(nodes, adi[i].idx, adi[i].name)
  BY <1>9, <1>11 DEF HasFirst
<1> QED BY <1>1, <1>8, <1>9, <1>13, <1>14 DEF HasFirst, PcmNamed

-----------------------------------------------------------------------------
(* What the controls are.                                                  *)
CtlOf(adi, names, dir, i, n) ==
  [name |-> adi[i + 1].name, ext |-> names[n], dir |-> dir,
   pval |-> IF names[n] = "control" THEN i ELSE adi[i + 1].idx]

CtlsOf(adi, names, dir) ==
  UNION {{CtlOf(adi, names, dir, i, n) : n \in DOMAIN names} : i \in 1..Len(adi) - 1}

LEMMA FlattenElems ==
  ASSUME NEW S, NEW q \in Seq(Seq(S))
  PROVE  FlattenSeq(q) \in Seq(S)
<1>1. CASE q = <<>>
  BY <1>1 DEF FlattenSeq
<1>2. CASE q # <<>>
  <2>1. PICK n \in Nat \ {0} : n = Len(q)
    BY <1>2
  <2>2. PICK f \in [1..n -> Seq(S)] : FlattenSeq(q) = f[n]
    BY <2>1, FlattenSteps, ZenonT(60)
  <2> QED BY <2>2
<1> QED BY <1>1, <1>2

LEMMA FormElems ==
  ASSUME NEW adi, Len(adi) \in Nat \ {0}, NEW names, NEW m \in Nat, DOMAIN names = 1..m, NEW dir
  PROVE  Form(adi, names, dir) \in Seq(CtlsOf(adi, names, dir))
<1> DEFINE Ctl(i, n) == CtlOf(adi, names, dir, i, n)
<1>1. PICK S : S = CtlsOf(adi, names, dir)
  OBVIOUS
<1>2. \A i \in 1..Len(adi) - 1 : \A n \in 1..m : Ctl(i, n) \in S
  BY <1>1 DEF CtlsOf
<1>3. PICK q : q = [i \in 1..Len(adi) - 1 |-> [n \in DOMAIN names |-> Ctl(i, n)]]
  OBVIOUS
<1>4. Form(adi, names, dir) = FlattenSeq(q)
  BY <1>3, Zenon DEF Form, CtlOf
<1> HIDE DEF Ctl
<1>5. \A i \in 1..Len(adi) - 1 : [n \in 1..m |-> Ctl(i, n)] \in Seq(S)
  BY <1>2
<1>6. q \in Seq(Seq(S))
  BY <1>3, <1>5
<1>7. FlattenSeq(q) \in Seq(S)
  BY <1>6, FlattenElems
<1> QED BY <1>1, <1>4, <1>7

BeExts == {"rate ch fmt", "be metadata", "be setParam"}

InTable(c, adi) == \E k \in 2..Len(adi) : c.name = adi[k].name /\ c.pval = adi[k].idx

(* A control goes with one of the devices of its direction.                *)
CtlFits(c, be, pcm) ==
  /\ c.dir \in Dirs
  /\ c.ext \in BeExts => InTable(c, be)
  /\ c.ext = "control" => c.pval \in 1..Len(pcm) - 1
  /\ c.ext \notin BeExts /\ c.ext # "control" => InTable(c, pcm)

LEMMA CtlOfTable ==
  ASSUME NEW adi, Len(adi) \in Nat \ {0}, NEW names, NEW dir, NEW c \in CtlsOf(adi, names, dir)
  PROVE  /\ c.dir = dir /\ \E n \in DOMAIN names : c.ext = names[n]
         /\ c.ext = "control" => c.pval \in 1..Len(adi) - 1
         /\ c.ext # "control" => InTable(c, adi)
<1>1. PICK i \in 1..Len(adi) - 1, n \in DOMAIN names :
        c = CtlOf(adi, names, dir, i, n)
  BY Zenon DEF CtlsOf
<1>2. c.dir = dir /\ c.ext = names[n] /\ c.name = adi[i + 1].name
  BY <1>1 DEF CtlOf
<1>3. c.ext = "control" => c.pval = i
  BY <1>1 DEF CtlOf
<1>4. c.ext # "control" => c.pval = adi[i + 1].idx
  BY <1>1 DEF CtlOf
<1>5. i + 1 \in 2..Len(adi)
  OBVIOUS
<1>6. c.ext # "control" => InTable(c, adi)
  BY <1>2, <1>4, <1>5 DEF InTable
<1> QED BY <1>2, <1>3, <1>6

LEMMA BeNames == DOMAIN be_ctl_names = 1..3 /\ \A n \in 1..3 : be_ctl_names[n] \in BeExts
BY DEF be_ctl_names, BeExts

LEMMA PcmNames ==
  /\ DOMAIN pcm_ctl_names = 1..11 /\ \A n \in 1..11 : pcm_ctl_names[n] \notin BeExts
  /\ DOMAIN pcm_tx_ctl_names = 1..3 /\ \A n \in 1..3 : pcm_tx_ctl_names[n] \notin BeExts
  /\ DOMAIN pcm_rx_ctl_names = 1..1 /\ \A n \in 1..1 : pcm_rx_ctl_names[n] \notin BeExts
<1>1. DOMAIN pcm_ctl_names = 1..11 /\ \A n \in 1..11 : pcm_ctl_names[n] \notin BeExts
  BY DEF pcm_ctl_names, BeExts
<1>2. DOMAIN pcm_tx_ctl_names = 1..3 /\ \A n \in 1..3 : pcm_tx_ctl_names[n] \notin BeExts
  BY DEF pcm_tx_ctl_names, BeExts
<1>3. DOMAIN pcm_rx_ctl_names = 1..1 /\ \A n \in 1..1 : pcm_rx_ctl_names[n] \notin BeExts
  BY DEF pcm_rx_ctl_names, BeExts
<1> QED BY <1>1, <1>2, <1>3

LEMMA CtlsInto ==
  ASSUME NEW adi, Len(adi) \in Nat \ {0}, NEW names, NEW m \in Nat, DOMAIN names = 1..m, NEW dir,
         NEW S, CtlsOf(adi, names, dir) \subseteq S
  PROVE  Form(adi, names, dir) \in Seq(S)
<1>1. PICK T, r : T = CtlsOf(adi, names, dir) /\ r = Form(adi, names, dir)
  OBVIOUS
<1>2. r \in Seq(T)
  BY <1>1, FormElems
<1>3. r \in Seq(S)
  BY <1>1, <1>2
<1> QED BY <1>1, <1>3

HasTables(be, pcm) == \A d \in Dirs : Len(be[d]) \in Nat \ {0} /\ Len(pcm[d]) \in Nat \ {0}

AreControls(all, be, pcm) == all = amp_form_be_ctls(be) \o amp_form_pcm_ctls(pcm)

(* Every control that open forms fits the tables.                          *)
LEMMA ControlsFit ==
  ASSUME NEW be, NEW pcm, HasTables(be, pcm), NEW all, AreControls(all, be, pcm)
  PROVE  \A i \in DOMAIN all : CtlFits(all[i], be[all[i].dir], pcm[all[i].dir])
<1>1. PICK U : U = (UNION {CtlsOf(be[d], be_ctl_names, d) : d \in Dirs})
                   \cup (UNION {CtlsOf(pcm[d], pcm_ctl_names, d) : d \in Dirs})
                   \cup CtlsOf(pcm["RX"], pcm_rx_ctl_names, "RX")
                   \cup CtlsOf(pcm["TX"], pcm_tx_ctl_names, "TX")
  OBVIOUS
<1>2. "RX" \in Dirs /\ "TX" \in Dirs
  BY DEF Dirs
<1>3. ASSUME NEW c \in U PROVE CtlFits(c, be[c.dir], pcm[c.dir])
  <2>1. ASSUME NEW d \in Dirs, c \in CtlsOf(be[d], be_ctl_names, d)
        PROVE  CtlFits(c, be[c.dir], pcm[c.dir])
    <3>1. c.dir = d /\ c.ext \in BeExts
      BY <2>1, CtlOfTable, BeNames DEF HasTables
    <3>2. c.ext # "control"
      BY <3>1 DEF BeExts
    <3>3. InTable(c, be[d])
      BY <2>1, <3>2, CtlOfTable DEF HasTables
    <3> QED BY <3>1, <3>2, <3>3 DEF CtlFits
  <2>2. ASSUME NEW d \in Dirs, NEW names,
               names \in {pcm_ctl_names, pcm_tx_ctl_names, pcm_rx_ctl_names},
               c \in CtlsOf(pcm[d], names, d)
        PROVE  CtlFits(c, be[c.dir], pcm[c.dir])
    <3>1. c.dir = d /\ \E n \in DOMAIN names : c.ext = names[n]
      BY <2>2, CtlOfTable DEF HasTables
    <3>2. c.ext \notin BeExts
      BY <2>2, <3>1, PcmNames
    <3>3. /\ c.ext = "control" => c.pval \in 1..Len(pcm[d]) - 1
          /\ c.ext # "control" => InTable(c, pcm[d])
      BY <2>2, CtlOfTable DEF HasTables
    <3> QED BY <3>1, <3>2, <3>3 DEF CtlFits
  <2>3. \/ \E d \in Dirs : c \in CtlsOf(be[d], be_ctl_names, d)
        \/ \E d \in Dirs : c \in CtlsOf(pcm[d], pcm_ctl_names, d)
        \/ c \in CtlsOf(pcm["RX"], pcm_rx_ctl_names, "RX")
        \/ c \in CtlsOf(pcm["TX"], pcm_tx_ctl_names, "TX")
    BY <1>1, <1>3, Zenon
  <2> QED BY <1>2, <2>1, <2>2, <2>3, Zenon
<1>4. \A d \in Dirs : Form(be[d], be_ctl_names, d) \in Seq(U)
  <2> SUFFICES ASSUME NEW d \in Dirs PROVE Form(be[d], be_ctl_names, d) \in Seq(U)
    OBVIOUS
  <2>1. CtlsOf(be[d], be_ctl_names, d) \subseteq U
    BY <1>1, Zenon
  <2> QED BY <2>1, CtlsInto, BeNames DEF HasTables
<1>5. \A d \in Dirs : Form(pcm[d], pcm_ctl_names, d) \in Seq(U)
  <2> SUFFICES ASSUME NEW d \in Dirs PROVE Form(pcm[d], pcm_ctl_names, d) \in Seq(U)
    OBVIOUS
  <2>1. CtlsOf(pcm[d], pcm_ctl_names, d) \subseteq U
    BY <1>1, Zenon
  <2> QED BY <2>1, CtlsInto, PcmNames DEF HasTables
<1>6. Form(pcm["RX"], pcm_rx_ctl_names, "RX") \in Seq(U)
  <2>1. CtlsOf(pcm["RX"], pcm_rx_ctl_names, "RX") \subseteq U
    BY <1>1, Zenon
  <2> QED BY <1>2, <2>1, CtlsInto, PcmNames DEF HasTables
<1>7. Form(pcm["TX"], pcm_tx_ctl_names, "TX") \in Seq(U)
  <2>1. CtlsOf(pcm["TX"], pcm_tx_ctl_names, "TX") \subseteq U
    BY <1>1, Zenon
  <2> QED BY <1>2, <2>1, CtlsInto, PcmNames DEF HasTables
<1>8. PICK f1, f2 : f1 = amp_form_be_ctls(be) /\ f2 = amp_form_pcm_ctls(pcm)
  OBVIOUS
<1>9. f1 \in Seq(U)
  BY <1>2, <1>4, <1>8 DEF amp_form_be_ctls
<1>10. f2 \in Seq(U)
  BY <1>2, <1>5, <1>6, <1>7, <1>8 DEF amp_form_pcm_ctls
<1>11. all \in Seq(U)
  BY <1>8, <1>9, <1>10 DEF AreControls
<1> QED BY <1>3, <1>11

-----------------------------------------------------------------------------
(* The tables, and what "control" selected, are what the names say.        *)
Named ==
  \A d \in Dirs : BeNamed(be_devs[d], card.aifs, d) /\ PcmNamed(pcm_devs[d], card.nodes)

Fitting == \A i \in DOMAIN ctls : CtlFits(ctls[i], be_devs[ctls[i].dir], pcm_devs[ctls[i].dir])

Selects(d, k) ==
  /\ pcm_mtd_ctl[d][k - 1] \in 0..Len(be_devs[d]) - 1
  /\ chosen[d][pcm_devs[d][k].idx] = be_devs[d][pcm_mtd_ctl[d][k - 1] + 1].name

Selecting ==
  /\ DOMAIN pcm_mtd_ctl = Dirs /\ DOMAIN chosen = Dirs
  /\ \A d \in Dirs : /\ DOMAIN pcm_mtd_ctl[d] = 1..Len(pcm_devs[d]) - 1
                     /\ DOMAIN chosen[d] = Ids(pcm_devs[d])
                     /\ \A k \in 2..Len(pcm_devs[d]) : Selects(d, k)

(* What a request of control c, put to the text txt, is about.             *)
Reaches(a, c, txt) ==
  a.op # "none" =>
    /\ "session" \in DOMAIN a => NodeOf(a.session).name = c.name
    /\ c.ext \in {"connect", "disconnect"} \/ a.op = "ec_ref_on" => AifOf(a.aif).name = txt
    /\ a.op = "loopback_on" => NodeOf(a.playback).name = txt
    /\ c.ext \in {"rate ch fmt", "be metadata", "be setParam"} => AifOf(a.aif).name = c.name
    /\ \/ a.op \in {"aif_set_metadata", "aif_set_params", "set_params_with_tag",
                    "get_tag_module_info"}
       \/ a.op = "set_cal" /\ chosen[c.dir][a.session] # "ZERO" =>
         AifOf(a.aif).name = chosen[c.dir][a.session] /\ AifOf(a.aif).dir = c.dir
    /\ a.op \in {"set_metadata", "set_params"} => chosen[c.dir][a.session] = "ZERO"

LEMMA ReachesIs == CallsReachNamed <=> Reaches(call.asks, call.ctl, call.text)
BY Zenon DEF CallsReachNamed, Reaches

(* What is selected for a PCM is what its "control" named.                 *)
LEMMA SelectedIsChosen ==
  ASSUME Named, Selecting, NEW c, CtlFits(c, be_devs[c.dir], pcm_devs[c.dir]),
         c.ext \notin BeExts, c.ext # "control"
  PROVE  /\ NodeOf(c.pval).name = c.name
         /\ amp_pcm_get_control_value(c) = 0 => chosen[c.dir][c.pval] = "ZERO"
         /\ amp_pcm_get_control_value(c) # 0 =>
              /\ AifOf(Selected(c)).name = chosen[c.dir][c.pval]
              /\ AifOf(Selected(c)).dir = c.dir
<1>1. PICK d \in Dirs : d = c.dir
  BY DEF CtlFits
<1>2. PICK be, adi : be = be_devs[d] /\ adi = pcm_devs[d]
  OBVIOUS
<1>3. BeNamed(be, card.aifs, d) /\ PcmNamed(adi, card.nodes)
  BY <1>2 DEF Named
<1>4. PICK k \in 2..Len(adi) : c.name = adi[k].name /\ c.pval = adi[k].idx
  BY <1>1, <1>2 DEF CtlFits, InTable
<1>5. NodeOf(c.pval).name = c.name
  BY <1>3, <1>4 DEF PcmNamed, IsNode, NodeOf
<1>6. PICK found : found = {i \in 2..Len(adi) : adi[i].idx = c.pval}
  OBVIOUS
<1>7. found = {k}
  BY <1>3, <1>4, <1>6 DEF PcmNamed
<1>8. k \in Nat /\ (CHOOSE i \in found : \A j \in found : i <= j) = k
  BY <1>7
<1>9. PICK v : v = pcm_mtd_ctl[d][k - 1]
  OBVIOUS
<1>10. amp_pcm_get_control_value(c) = v
  <2>1. amp_pcm_get_control_value(c) =
          pcm_mtd_ctl[d][(CHOOSE i \in found : \A j \in found : i <= j) - 1]
    BY <1>1, <1>2, <1>6, Zenon DEF amp_pcm_get_control_value
  <2> QED BY <1>8, <1>9, <2>1
<1>11. v \in 0..Len(be) - 1 /\ chosen[d][c.pval] = be[v + 1].name
  BY <1>2, <1>4, <1>9 DEF Selecting, Selects
<1>12. v = 0 => chosen[d][c.pval] = "ZERO"
  BY <1>3, <1>11 DEF BeNamed, ZERO
<1>13. ASSUME v # 0
       PROVE  AifOf(Selected(c)).name = chosen[d][c.pval] /\ AifOf(Selected(c)).dir = d
  <2>1. v + 1 \in 2..Len(be)
    BY <1>3, <1>11, <1>13 DEF BeNamed
  <2>2. Selected(c) = be[v + 1].idx
    BY <1>1, <1>2, <1>10 DEF Selected
  <2> QED BY <1>3, <1>11, <2>1, <2>2 DEF BeNamed, AifOf
<1> QED BY <1>1, <1>5, <1>10, <1>12, <1>13

(* A back end that a text names is the one that the service gave that      *)
(* name.                                                                   *)
LEMMA TextIsBackend ==
  ASSUME Named, NEW d \in Dirs, NEW v \in 0..Len(be_devs[d]) - 1, v # 0
  PROVE  AifOf(be_devs[d][v + 1].idx).name = be_devs[d][v + 1].name
<1>1. PICK be : be = be_devs[d]
  OBVIOUS
<1>2. BeNamed(be, card.aifs, d)
  BY <1>1 DEF Named
<1>3. v + 1 \in 2..Len(be)
  BY <1>1, <1>2 DEF BeNamed
<1> QED BY <1>1, <1>2, <1>3 DEF BeNamed, AifOf

LEMMA TextIsPcm ==
  ASSUME Named, NEW d \in Dirs, NEW v \in 0..Len(pcm_devs[d]) - 1, v # 0
  PROVE  NodeOf(pcm_devs[d][v + 1].idx).name = pcm_devs[d][v + 1].name
<1>1. PICK adi : adi = pcm_devs[d]
  OBVIOUS
<1>2. PcmNamed(adi, card.nodes)
  BY <1>1 DEF Named
<1>3. v + 1 \in 2..Len(adi)
  BY <1>1, <1>2 DEF PcmNamed
<1> QED BY <1>1, <1>2, <1>3 DEF PcmNamed, IsNode, NodeOf

LEMMA BackendOfControl ==
  ASSUME Named, NEW c, CtlFits(c, be_devs[c.dir], pcm_devs[c.dir]), c.ext \in BeExts
  PROVE  AifOf(c.pval).name = c.name
<1>1. PICK d \in Dirs : d = c.dir
  BY DEF CtlFits
<1>2. PICK be : be = be_devs[d]
  OBVIOUS
<1>3. BeNamed(be, card.aifs, d)
  BY <1>2 DEF Named
<1>4. PICK k \in 2..Len(be) : c.name = be[k].name /\ c.pval = be[k].idx
  BY <1>1, <1>2 DEF CtlFits, InTable
<1> QED BY <1>3, <1>4 DEF BeNamed, AifOf

(* The requests of the controls whose value names a device.                *)
LEMMA NamingReaches ==
  ASSUME Named, Selecting, NEW c, CtlFits(c, be_devs[c.dir], pcm_devs[c.dir]),
         c.ext \in {"connect", "disconnect", "loopback", "echoReference"},
         NEW v \in 0..Len(Texts(c)) - 1
  PROVE  Reaches(CallOf(c, v), c, Texts(c)[v + 1].name)
<1>1. c.dir \in Dirs /\ "RX" \in Dirs
  BY DEF CtlFits, Dirs
<1>2. c.ext \notin BeExts /\ c.ext # "control"
  BY DEF BeExts
<1>3. NodeOf(c.pval).name = c.name
  BY <1>2, SelectedIsChosen
<1>4. PICK a : a = CallOf(c, v)
  OBVIOUS
<1>5. PICK txt : txt = Texts(c)[v + 1].name
  OBVIOUS
<1>6. CASE c.ext \in {"connect", "disconnect"}
  <2>1. a = amp_pcm_aif_connect_put(c, v) /\ Texts(c) = be_devs[c.dir]
    BY <1>4, <1>6 DEF CallOf, Texts
  <2>2. CASE v = 0
    <3>1. a = Nothing
      BY <2>1, <2>2 DEF amp_pcm_aif_connect_put
    <3>2. a.op = "none"
      BY <3>1 DEF Nothing
    <3> QED BY <1>4, <1>5, <3>2 DEF Reaches
  <2>3. CASE v # 0
    <3>1. /\ a.op \in {"aif_connect", "aif_disconnect"} /\ a.session = c.pval
          /\ a.aif = be_devs[c.dir][v + 1].idx
      BY <2>1, <2>3 DEF amp_pcm_aif_connect_put, OnBackend
    <3>2. AifOf(a.aif).name = txt
      BY <1>1, <1>5, <2>1, <2>3, <3>1, TextIsBackend
    <3>3. c.ext \notin {"rate ch fmt", "be metadata", "be setParam"}
      BY <1>6
    <3> QED BY <1>3, <1>4, <1>5, <3>1, <3>2, <3>3 DEF Reaches
  <2> QED BY <2>2, <2>3
<1>7. CASE c.ext = "loopback"
  <2>1. a = amp_pcm_loopback_put(c, v) /\ Texts(c) = pcm_devs["RX"]
    BY <1>4, <1>7 DEF CallOf, Texts
  <2>2. /\ a.op = (IF v = 0 THEN "loopback_off" ELSE "loopback_on") /\ a.session = c.pval
        /\ a.playback = (IF v = 0 THEN 0 ELSE pcm_devs["RX"][v + 1].idx)
    BY <2>1 DEF amp_pcm_loopback_put
  <2>3. v # 0 => NodeOf(a.playback).name = txt
    BY <1>1, <1>5, <2>1, <2>2, TextIsPcm
  <2> QED BY <1>3, <1>4, <1>5, <1>7, <2>2, <2>3 DEF Reaches
<1>8. CASE c.ext = "echoReference"
  <2>1. a = amp_pcm_echoref_put(c, v) /\ Texts(c) = be_devs["RX"]
    BY <1>4, <1>8 DEF CallOf, Texts
  <2>2. /\ a.op = (IF v = 0 THEN "ec_ref_off" ELSE "ec_ref_on") /\ a.session = c.pval
        /\ a.aif = be_devs["RX"][v + 1].idx
    BY <2>1 DEF amp_pcm_echoref_put, OnBackend
  <2>3. v # 0 => AifOf(a.aif).name = txt
    BY <1>1, <1>5, <2>1, <2>2, TextIsBackend
  <2> QED BY <1>3, <1>4, <1>5, <1>8, <2>2, <2>3 DEF Reaches
<1> QED BY <1>6, <1>7, <1>8

(* The requests that go to the back end selected for the PCM.              *)
LEMMA SelectingReaches ==
  ASSUME Named, Selecting, NEW c, CtlFits(c, be_devs[c.dir], pcm_devs[c.dir]),
         c.ext \in {"metadata", "setParam", "setParamTag", "setCalibration", "getTaggedInfo"},
         NEW v, NEW txt
  PROVE  Reaches(CallOf(c, v), c, txt)
<1>1. c.ext \notin BeExts /\ c.ext # "control" /\ c.ext \notin {"connect", "disconnect"}
  BY DEF BeExts
<1>2. PICK x, sel : x = amp_pcm_get_control_value(c) /\ sel = Selected(c)
  OBVIOUS
<1>3. /\ NodeOf(c.pval).name = c.name
      /\ x = 0 => chosen[c.dir][c.pval] = "ZERO"
      /\ x # 0 => AifOf(sel).name = chosen[c.dir][c.pval] /\ AifOf(sel).dir = c.dir
  BY <1>1, <1>2, SelectedIsChosen
<1>4. PICK a : a = CallOf(c, v)
  OBVIOUS
<1>5. CASE c.ext = "metadata"
  <2>1. a = amp_pcm_metadata_put(c)
    BY <1>4, <1>5 DEF CallOf
  <2>2. /\ a.session = c.pval
        /\ x = 0 => a.op = "set_metadata"
        /\ x # 0 => a.op = "aif_set_metadata" /\ a.aif = sel
    BY <1>2, <2>1 DEF amp_pcm_metadata_put, OnSession, OnBackend
  <2> QED BY <1>3, <1>4, <1>5, <2>2 DEF Reaches
<1>6. CASE c.ext \in {"setParam", "setParamTag"}
  <2>1. a = amp_pcm_set_param_put(c)
    BY <1>4, <1>6 DEF CallOf
  <2>2. CASE x = 0 /\ c.ext = "setParamTag"
    <3>1. a = Nothing
      BY <1>2, <2>1, <2>2 DEF amp_pcm_set_param_put
    <3>2. a.op = "none"
      BY <3>1 DEF Nothing
    <3> QED BY <1>4, <3>2 DEF Reaches
  <2>3. CASE x # 0 \/ c.ext # "setParamTag"
    <3>1. /\ a.session = c.pval
          /\ x = 0 => a.op = "set_params"
          /\ x # 0 => a.op \in {"set_params_with_tag", "aif_set_params"} /\ a.aif = sel
      BY <1>2, <2>1, <2>3 DEF amp_pcm_set_param_put, OnSession, OnBackend
    <3> QED BY <1>3, <1>4, <1>6, <3>1 DEF Reaches
  <2> QED BY <2>2, <2>3
<1>7. CASE c.ext = "setCalibration"
  <2>1. a = amp_pcm_calibration_put(c)
    BY <1>4, <1>7 DEF CallOf
  <2>2. a.session = c.pval /\ a.op = "set_cal" /\ a.aif = sel
    BY <1>2, <2>1 DEF amp_pcm_calibration_put, OnBackend
  <2> QED BY <1>3, <1>4, <1>7, <2>2 DEF Reaches
<1>8. CASE c.ext = "getTaggedInfo"
  <2>1. a = amp_pcm_tag_info_get(c)
    BY <1>4, <1>8 DEF CallOf
  <2>2. CASE x = 0
    <3>1. a = Nothing
      BY <1>2, <2>1, <2>2 DEF amp_pcm_tag_info_get
    <3>2. a.op = "none"
      BY <3>1 DEF Nothing
    <3> QED BY <1>4, <3>2 DEF Reaches
  <2>3. CASE x # 0
    <3>1. a.session = c.pval /\ a.op = "get_tag_module_info" /\ a.aif = sel
      BY <1>2, <2>1, <2>3 DEF amp_pcm_tag_info_get, OnBackend
    <3> QED BY <1>3, <1>4, <1>8, <2>3, <3>1 DEF Reaches
  <2> QED BY <2>2, <2>3
<1> QED BY <1>5, <1>6, <1>7, <1>8

LEMMA RequestReaches ==
  ASSUME Named, Selecting, NEW c, CtlFits(c, be_devs[c.dir], pcm_devs[c.dir]),
         c.ext \notin {"control", "getParam"}, NEW v \in 0..Len(Texts(c)) - 1
  PROVE  Reaches(CallOf(c, v), c, Texts(c)[v + 1].name)
<1>1. PICK a, txt : a = CallOf(c, v) /\ txt = Texts(c)[v + 1].name
  OBVIOUS
<1>2. CASE c.ext \in {"connect", "disconnect", "loopback", "echoReference"}
  BY <1>2, NamingReaches
<1>3. CASE c.ext \in {"metadata", "setParam", "setParamTag", "setCalibration", "getTaggedInfo"}
  BY <1>3, SelectingReaches
<1>4. CASE c.ext \in BeExts
  <2>1. a = amp_be_put(c)
    BY <1>1, <1>4 DEF CallOf, BeExts
  <2>2. a.op = c.ext /\ a.aif = c.pval /\ "session" \notin DOMAIN a
    BY <2>1 DEF amp_be_put
  <2>3. AifOf(a.aif).name = c.name
    BY <1>4, <2>2, BackendOfControl
  <2> QED BY <1>1, <1>4, <2>2, <2>3 DEF Reaches, BeExts
<1>5. CASE c.ext \in {"event", "getBufInfo", "bufTimestamp"}
  <2>1. NodeOf(c.pval).name = c.name
    BY <1>5, SelectedIsChosen DEF BeExts
  <2>2. a.op \in {"register_for_events", "get_buf_info", "get_buffer_timestamp"} /\ a.session = c.pval
    BY <1>1, <1>5 DEF CallOf, OnSession
  <2> QED BY <1>1, <1>5, <2>1, <2>2 DEF Reaches
<1>6. CASE /\ c.ext \notin {"connect", "disconnect", "loopback", "echoReference"}
           /\ c.ext \notin {"metadata", "setParam", "setParamTag", "setCalibration", "getTaggedInfo"}
           /\ c.ext \notin BeExts
           /\ c.ext \notin {"event", "getBufInfo", "bufTimestamp"}
  <2>1. a = Nothing
    BY <1>1, <1>6 DEF CallOf, BeExts
  <2>2. a.op = "none"
    BY <2>1 DEF Nothing
  <2> QED BY <1>1, <2>2 DEF Reaches
<1> QED BY <1>2, <1>3, <1>4, <1>5, <1>6

MixTables == card \in CardSet /\ Named /\ Fitting /\ Selecting /\ CallsReachNamed

LEMMA SilentReaches == ASSUME call' = NoCall PROVE CallsReachNamed'
BY DEF CallsReachNamed, NoCall, Nothing

LEMMA TablesStart == MixerInit => MixTables
<1> SUFFICES ASSUME MixerInit PROVE MixTables
  OBVIOUS
<1>1. card \in CardSet
  BY DEF MixerInit
<1>2. \A d \in Dirs : Len(be_devs[d]) = 1 /\ be_devs[d][1] = ZERO /\ Len(pcm_devs[d]) = 1 /\ pcm_devs[d][1] = ZERO
  BY DEF MixerInit
<1>3. Named
  BY <1>2 DEF Named, BeNamed, PcmNamed
<1>4. Fitting
  BY DEF MixerInit, Fitting
<1>5. Selecting
  <2>1. DOMAIN pcm_mtd_ctl = Dirs /\ DOMAIN chosen = Dirs
    BY DEF MixerInit
  <2>2. \A d \in Dirs : DOMAIN pcm_mtd_ctl[d] = {} /\ DOMAIN chosen[d] = {}
    BY DEF MixerInit
  <2>3. \A d \in Dirs : 1..Len(pcm_devs[d]) - 1 = {} /\ 2..Len(pcm_devs[d]) = {} /\ Ids(pcm_devs[d]) = {}
    <3>1. 1..1 - 1 = {} /\ 2..1 = {}
      OBVIOUS
    <3>2. \A d \in Dirs : 1..Len(pcm_devs[d]) - 1 = {} /\ 2..Len(pcm_devs[d]) = {}
      BY <1>2, <3>1, Zenon
    <3> QED BY <3>2, Zenon DEF Ids
  <2> QED BY <2>1, <2>2, <2>3 DEF Selecting
<1>6. CallsReachNamed
  BY DEF MixerInit, CallsReachNamed, NoCall, Nothing
<1> QED BY <1>1, <1>3, <1>4, <1>5, <1>6 DEF MixTables

LEMMA TablesKept == ASSUME MixTables, UNCHANGED ctl_vars PROVE MixTables'
<1>1. UNCHANGED <<card, be_devs, pcm_devs, ctls, pcm_mtd_ctl, call, chosen>>
  BY DEF ctl_vars
<1>2. Named' /\ Fitting'
  BY <1>1 DEF MixTables, Named, Fitting
<1>3. Selecting'
  BY <1>1 DEF MixTables, Selecting, Selects
<1>4. CallsReachNamed'
  BY <1>1 DEF MixTables, CallsReachNamed, NodeOf, AifOf
<1> QED BY <1>1, <1>2, <1>3, <1>4 DEF MixTables

LEMMA TablesOpen == ASSUME MixTables, agm_mixer_plugin_open PROVE MixTables'
<1>1. card' = card /\ card \in CardSet /\ CallsReachNamed'
  BY SilentReaches DEF MixTables, agm_mixer_plugin_open
<1>2. CASE UNCHANGED <<be_devs, pcm_devs, ctls, pcm_mtd_ctl, chosen, amp, registered>>
  <2>1. Named' /\ Fitting'
    BY <1>1, <1>2 DEF MixTables, Named, Fitting
  <2>2. Selecting'
    BY <1>2 DEF MixTables, Selecting, Selects
  <2> QED BY <1>1, <2>1, <2>2 DEF MixTables
<1>3. CASE /\ be_devs' = [d \in Dirs |-> amp_copy_be_names_from_aif_list(card.aifs, d)]
           /\ pcm_devs' = [d \in Dirs |-> amp_create_pcm_info_from_card(card.nodes, d)]
           /\ ctls' = amp_form_be_ctls(be_devs') \o amp_form_pcm_ctls(pcm_devs')
           /\ pcm_mtd_ctl' = [d \in Dirs |-> [i \in 1..Len(pcm_devs'[d]) - 1 |-> 0]]
           /\ chosen' = [d \in Dirs |-> [c \in Ids(pcm_devs'[d]) |-> "ZERO"]]
  <2>1. \A d \in Dirs : BeNamed(be_devs'[d], card.aifs, d)
    BY <1>1, <1>3, BackendsNamed
  <2>2. \A d \in Dirs : PcmNamed(pcm_devs'[d], card.nodes)
    BY <1>1, <1>3, PcmsNamed
  <2>3. Named'
    BY <1>1, <2>1, <2>2 DEF Named
  <2>4. HasTables(be_devs', pcm_devs')
    BY <2>1, <2>2 DEF HasTables, BeNamed, PcmNamed
  <2>5. Fitting'
    <3>1. AreControls(ctls', be_devs', pcm_devs')
      BY <1>3 DEF AreControls
    <3> QED BY <2>4, <3>1, ControlsFit DEF Fitting
  <2>6. Selecting'
    <3>1. DOMAIN pcm_mtd_ctl' = Dirs /\ DOMAIN chosen' = Dirs
      BY <1>3
    <3>2. ASSUME NEW d \in Dirs
          PROVE  /\ DOMAIN pcm_mtd_ctl'[d] = 1..Len(pcm_devs'[d]) - 1
                 /\ DOMAIN chosen'[d] = Ids(pcm_devs'[d])
                 /\ \A k \in 2..Len(pcm_devs'[d]) : Selects(d, k)'
      <4>1. PICK adi, be : adi = pcm_devs'[d] /\ be = be_devs'[d]
        OBVIOUS
      <4>2. Len(adi) \in Nat \ {0} /\ Len(be) \in Nat \ {0} /\ be[1].name = "ZERO"
        BY <2>1, <2>2, <4>1 DEF BeNamed, PcmNamed, ZERO
      <4>3. /\ pcm_mtd_ctl'[d] = [i \in 1..Len(adi) - 1 |-> 0]
            /\ chosen'[d] = [c \in Ids(adi) |-> "ZERO"]
        BY <1>3, <4>1
      <4>4. ASSUME NEW k \in 2..Len(adi) PROVE Selects(d, k)'
        <5>1. k - 1 \in 1..Len(adi) - 1 /\ adi[k].idx \in Ids(adi)
          BY <4>2 DEF Ids
        <5>2. pcm_mtd_ctl'[d][k - 1] = 0 /\ chosen'[d][adi[k].idx] = "ZERO"
          BY <4>3, <5>1
        <5> QED BY <4>1, <4>2, <5>2 DEF Selects
      <4> QED BY <4>1, <4>3, <4>4
    <3> QED BY <3>1, <3>2 DEF Selecting
  <2> QED BY <1>1, <2>3, <2>5, <2>6 DEF MixTables
<1> QED BY <1>2, <1>3 DEF agm_mixer_plugin_open

LEMMA TablesPut == ASSUME MixTables, ControlPut PROVE MixTables'
<1>1. UNCHANGED <<card, be_devs, pcm_devs, ctls, pcm_mtd_ctl, chosen>>
  BY DEF ControlPut
<1>2. Named' /\ Fitting'
  BY <1>1 DEF MixTables, Named, Fitting
<1>3. Selecting'
  BY <1>1 DEF MixTables, Selecting, Selects
<1>4. PICK i \in DOMAIN ctls, v \in Int :
        /\ v \in 0..Len(Texts(ctls[i])) - 1 /\ ctls[i].ext \notin {"control", "getParam"}
        /\ call' = [asks |-> CallOf(ctls[i], v), ctl |-> ctls[i], text |-> Texts(ctls[i])[v + 1].name]
  <2>1. PICK i \in DOMAIN ctls : \E v \in 0..Len(Texts(ctls[i])) - 1 :
          /\ ctls[i].ext \notin {"control", "getParam"}
          /\ call' = [asks |-> CallOf(ctls[i], v), ctl |-> ctls[i],
                      text |-> Texts(ctls[i])[v + 1].name]
    BY Zenon DEF ControlPut
  <2>2. PICK v \in 0..Len(Texts(ctls[i])) - 1 :
          /\ ctls[i].ext \notin {"control", "getParam"}
          /\ call' = [asks |-> CallOf(ctls[i], v), ctl |-> ctls[i],
                      text |-> Texts(ctls[i])[v + 1].name]
    BY <2>1
  <2>3. v \in Int
    OBVIOUS
  <2> QED BY <2>2, <2>3
<1>5. PICK c, a, txt : c = ctls[i] /\ a = CallOf(c, v) /\ txt = Texts(c)[v + 1].name
  OBVIOUS
<1>6. Reaches(a, c, txt)
  BY <1>4, <1>5, RequestReaches DEF MixTables, Fitting
<1>7. call'.asks = a /\ call'.ctl = c /\ call'.text = txt
  BY <1>4, <1>5
<1>8. CallsReachNamed'
  BY <1>1, <1>6, <1>7 DEF Reaches, CallsReachNamed, NodeOf, AifOf
<1> QED BY <1>1, <1>2, <1>3, <1>8 DEF MixTables

LEMMA TablesSelect == ASSUME MixTables, amp_pcm_mtd_control_put PROVE MixTables'
<1>1. UNCHANGED <<card, be_devs, pcm_devs, ctls>> /\ CallsReachNamed'
  BY SilentReaches DEF amp_pcm_mtd_control_put
<1>2. Named' /\ Fitting'
  BY <1>1 DEF MixTables, Named, Fitting
<1>3. PICK i \in DOMAIN ctls :
        /\ ctls[i].ext = "control"
        /\ \E v \in 0..Len(Texts(ctls[i])) - 1 :
             /\ pcm_mtd_ctl' = [pcm_mtd_ctl EXCEPT ![ctls[i].dir][ctls[i].pval] = v]
             /\ chosen' = [chosen EXCEPT ![ctls[i].dir][pcm_devs[ctls[i].dir][ctls[i].pval + 1].idx] =
                                           Texts(ctls[i])[v + 1].name]
  BY Zenon DEF amp_pcm_mtd_control_put
<1>4. PICK c, e, p : c = ctls[i] /\ e = c.dir /\ p = c.pval
  OBVIOUS
<1>5. e \in Dirs /\ p \in 1..Len(pcm_devs[e]) - 1
  BY <1>3, <1>4 DEF MixTables, Fitting, CtlFits
<1>6. Texts(c) = be_devs[e]
  BY <1>3, <1>4 DEF Texts
<1>7. PICK v \in 0..Len(be_devs[e]) - 1 :
        /\ pcm_mtd_ctl' = [pcm_mtd_ctl EXCEPT ![e][p] = v]
        /\ chosen' = [chosen EXCEPT ![e][pcm_devs[e][p + 1].idx] = be_devs[e][v + 1].name]
  BY <1>3, <1>4, <1>6
<1>8. PICK id : id = pcm_devs[e][p + 1].idx
  OBVIOUS
<1>9. \A d \in Dirs : PcmNamed(pcm_devs[d], card.nodes)
  BY DEF MixTables, Named
<1>10. p + 1 \in 2..Len(pcm_devs[e]) /\ id \in Ids(pcm_devs[e])
  BY <1>5, <1>8, <1>9 DEF PcmNamed, Ids
<1>11. /\ DOMAIN pcm_mtd_ctl = Dirs /\ DOMAIN chosen = Dirs
       /\ DOMAIN pcm_mtd_ctl[e] = 1..Len(pcm_devs[e]) - 1 /\ DOMAIN chosen[e] = Ids(pcm_devs[e])
  BY <1>5 DEF MixTables, Selecting
<1>12. /\ DOMAIN pcm_mtd_ctl' = Dirs /\ DOMAIN chosen' = Dirs
       /\ DOMAIN pcm_mtd_ctl'[e] = DOMAIN pcm_mtd_ctl[e] /\ DOMAIN chosen'[e] = DOMAIN chosen[e]
       /\ \A d \in Dirs : d # e => pcm_mtd_ctl'[d] = pcm_mtd_ctl[d] /\ chosen'[d] = chosen[d]
  BY <1>5, <1>7, <1>11
<1>13. /\ pcm_mtd_ctl'[e][p] = v
       /\ \A j \in DOMAIN pcm_mtd_ctl[e] : j # p => pcm_mtd_ctl'[e][j] = pcm_mtd_ctl[e][j]
  BY <1>5, <1>7, <1>11
<1>14. /\ chosen'[e][id] = be_devs[e][v + 1].name
       /\ \A j \in DOMAIN chosen[e] : j # id => chosen'[e][j] = chosen[e][j]
  BY <1>5, <1>7, <1>8, <1>10, <1>11
<1>15. ASSUME NEW d \in Dirs, NEW k \in 2..Len(pcm_devs[d]) PROVE Selects(d, k)'
  <2>1. Selects(d, k)
    BY DEF MixTables, Selecting
  <2>2. CASE d # e
    BY <1>1, <1>12, <2>1, <2>2 DEF Selects
  <2>3. CASE d = e /\ k = p + 1
    <3>1. k - 1 = p
      BY <1>5, <2>3
    <3> QED BY <1>1, <1>7, <1>8, <1>13, <1>14, <2>3, <3>1 DEF Selects
  <2>4. CASE d = e /\ k # p + 1
    <3>1. k - 1 \in DOMAIN pcm_mtd_ctl[e] /\ k - 1 # p
      BY <1>5, <1>9, <1>11, <2>4 DEF PcmNamed
    <3>2. pcm_devs[e][k].idx # id
      BY <1>8, <1>9, <1>10, <2>4 DEF PcmNamed
    <3>3. pcm_devs[e][k].idx \in DOMAIN chosen[e]
      BY <1>11, <2>4 DEF Ids
    <3>4. pcm_mtd_ctl'[e][k - 1] = pcm_mtd_ctl[e][k - 1]
      BY <1>13, <3>1
    <3>5. chosen'[e][pcm_devs[e][k].idx] = chosen[e][pcm_devs[e][k].idx]
      BY <1>14, <3>2, <3>3
    <3> QED BY <1>1, <2>1, <2>4, <3>4, <3>5 DEF Selects
  <2> QED BY <2>2, <2>3, <2>4
<1>16. Selecting'
  <2>1. \A d \in Dirs : /\ DOMAIN pcm_mtd_ctl'[d] = 1..Len(pcm_devs[d]) - 1
                        /\ DOMAIN chosen'[d] = Ids(pcm_devs[d])
    BY <1>11, <1>12 DEF MixTables, Selecting
  <2> QED BY <1>1, <1>12, <1>15, <2>1 DEF Selecting
<1> QED BY <1>1, <1>2, <1>16 DEF MixTables

LEMMA TablesCached ==
  ASSUME MixTables, amp_pcm_get_param_put \/ amp_pcm_get_param_get
  PROVE  MixTables'
<1>1. UNCHANGED <<card, be_devs, pcm_devs, ctls, pcm_mtd_ctl, chosen>>
  BY DEF amp_pcm_get_param_put, amp_pcm_get_param_get
<1>2. Named' /\ Fitting'
  BY <1>1 DEF MixTables, Named, Fitting
<1>3. Selecting'
  BY <1>1 DEF MixTables, Selecting, Selects
<1>4. CASE amp_pcm_get_param_put
  BY <1>1, <1>2, <1>3, <1>4, SilentReaches DEF MixTables, amp_pcm_get_param_put
<1>5. CASE amp_pcm_get_param_get
  <2>1. PICK i \in DOMAIN ctls :
          /\ ctls[i].ext = "getParam"
          /\ call' = [asks |-> [op |-> "get_params", session |-> ctls[i].pval,
                                asked |-> get_param[ctls[i].dir]],
                      ctl |-> ctls[i]]
    BY <1>5, Zenon DEF amp_pcm_get_param_get
  <2>2. PICK c, a : c = ctls[i] /\ a = call'.asks
    OBVIOUS
  <2>3. a.op = "get_params" /\ a.session = c.pval /\ call'.ctl = c /\ c.ext = "getParam"
    BY <2>1, <2>2
  <2>4. CtlFits(c, be_devs[c.dir], pcm_devs[c.dir])
    BY <2>2 DEF MixTables, Fitting
  <2>5. c.ext \notin BeExts /\ c.ext # "control"
    BY <2>3 DEF BeExts
  <2>6. NodeOf(c.pval).name = c.name
    BY <2>4, <2>5, SelectedIsChosen DEF MixTables
  <2>7. CallsReachNamed'
    BY <1>1, <2>2, <2>3, <2>6 DEF CallsReachNamed, NodeOf
  <2> QED BY <1>1, <1>2, <1>3, <2>7 DEF MixTables
<1> QED BY <1>4, <1>5

LEMMA TablesStep == MixTables /\ [MixerNext]_mvars => MixTables'
<1> SUFFICES ASSUME MixTables, [MixerNext]_mvars PROVE MixTables'
  OBVIOUS
<1>1. CASE agm_mixer_plugin_open
  BY <1>1, TablesOpen
<1>2. CASE ControlsNext
  BY <1>2, TablesPut, TablesSelect, TablesCached DEF ControlsNext
<1>3. CASE EventsNext
  <2>1. UNCHANGED ctl_vars
    BY <1>3 DEF EventsNext, amp_event_cb, amp_add_event_params, amp_event_cb_queues,
                amp_subscribe_events, amp_read_event, amp_pcm_event_get
  <2> QED BY <2>1, TablesKept
<1>4. CASE CloseNext
  <2>1. UNCHANGED ctl_vars
    BY <1>4 DEF CloseNext, amp_close, amp_register_event_callback, amp_close_frees
  <2> QED BY <2>1, TablesKept
<1>5. CASE UNCHANGED mvars
  <2>1. UNCHANGED ctl_vars
    BY <1>5 DEF mvars, ctl_vars
  <2> QED BY <2>1, TablesKept
<1> QED BY <1>1, <1>2, <1>3, <1>4, <1>5 DEF MixerNext

(* Whatever back ends the service lists and nodes the card has, and        *)
(* whatever was put to the controls before, what a control asks of the     *)
(* service is about the PCM in its name and the back end that its value,   *)
(* or the "control" of that PCM, names (amp_form_pcm_ctls,                 *)
(* amp_pcm_get_control_value and the put and get functions).               *)
THEOREM ControlsReachNamed == MixerSpec => []CallsReachNamed
<1>1. MixTables => CallsReachNamed
  BY DEF MixTables
<1> QED BY <1>1, TablesStart, TablesStep, PTL DEF MixerSpec

(* A mixer that could not be opened or is closed holds nothing of what its *)
(* open allocated, but the list of back ends after a failed open, has no   *)
(* callback registered, and has no event in its lists                      *)
(* (agm_mixer_plugin_open, amp_close).                                     *)
THEOREM ClosedMixerIsFree == MixerSpec => []ClosedMixerHoldsNothing
<1>1. MixerInit => ClosedMixerHoldsNothing
  BY DEF MixerInit, ClosedMixerHoldsNothing
<1>2. MixerInv /\ ClosedMixerHoldsNothing /\ [MixerNext]_mvars => ClosedMixerHoldsNothing'
  <2> SUFFICES ASSUME MixerInv, ClosedMixerHoldsNothing, [MixerNext]_mvars
               PROVE  ClosedMixerHoldsNothing'
    OBVIOUS
  <2>1. CASE agm_mixer_plugin_open
    BY <2>1 DEF agm_mixer_plugin_open, ClosedMixerHoldsNothing
  <2>2. CASE ControlsNext \/ UNCHANGED mvars
    <3>1. UNCHANGED <<amp, owns, registered, params, events>>
      BY <2>2 DEF ControlsNext, ControlPut, amp_pcm_mtd_control_put, amp_pcm_get_param_put,
                  amp_pcm_get_param_get, mvars, event_vars
    <3> QED BY <3>1 DEF ClosedMixerHoldsNothing
  <2>3. CASE EventsNext
    <3>1. UNCHANGED <<amp, owns, registered>>
      BY <2>3 DEF EventsNext, amp_event_cb, amp_add_event_params, amp_event_cb_queues,
                  amp_subscribe_events, amp_read_event, amp_pcm_event_get
    <3>2. CASE amp = "freed"
      <4>1. registered = {} /\ cb = Idle
        BY <3>2 DEF MixerInv, CbFits
      <4>2. UNCHANGED <<params, events>>
        BY <2>3, <3>2, <4>1 DEF EventsNext, amp_event_cb, amp_add_event_params,
           amp_event_cb_queues, amp_subscribe_events, amp_read_event, amp_pcm_event_get, Idle
      <4> QED BY <3>1, <4>2 DEF ClosedMixerHoldsNothing
    <3> QED BY <3>1, <3>2 DEF ClosedMixerHoldsNothing
  <2>4. CASE CloseNext
    BY <2>4 DEF CloseNext, amp_close, amp_register_event_callback, amp_close_frees,
                ClosedMixerHoldsNothing
  <2> QED BY <2>1, <2>2, <2>3, <2>4 DEF MixerNext
<1> QED BY <1>1, <1>2, MixerStarts, MixerSteps, PTL DEF MixerSpec

-----------------------------------------------------------------------------
(* The sizes of the tables.                                                *)
LEMMA FlattenLength ==
  ASSUME NEW S, NEW q \in Seq(Seq(S)), NEW m \in Nat, \A i \in 1..Len(q) : Len(q[i]) = m
  PROVE  FlattenSeq(q) \in Seq(S) /\ Len(FlattenSeq(q)) = Len(q) * m
<1>1. CASE q = <<>>
  <2>1. FlattenSeq(q) = <<>>
    BY <1>1 DEF FlattenSeq
  <2>2. Len(q) * m = 0
    BY <1>1
  <2> QED BY <2>1, <2>2
<1>2. CASE q # <<>>
  <2>1. PICK n \in Nat \ {0} : n = Len(q)
    BY <1>2
  <2>2. PICK f \in [1..n -> Seq(S)] : FlattenSeq(q) = f[n] /\ Flattens(f, q, n)
    BY <2>1, FlattenSteps
  <2>3. \A i \in 1..n : f[i] \in Seq(S) /\ q[i] \in Seq(S) /\ Len(q[i]) = m
    BY <2>1, <2>2
  <2>4. ASSUME NEW i \in 2..n PROVE Len(f[i]) = Len(f[i - 1]) + m
    <3>1. PICK a, b : a = f[i - 1] /\ b = q[i]
      OBVIOUS
    <3>2. a \in Seq(S) /\ b \in Seq(S)
      BY <2>3, <3>1
    <3>3. Len(a \o b) = Len(a) + Len(b)
      BY <3>2
    <3>4. f[i] = a \o b
      BY <2>2, <3>1 DEF Flattens
    <3>5. Len(b) = m
      BY <2>3, <3>1
    <3> QED BY <3>1, <3>3, <3>4, <3>5
  <2>5. Len(f[1]) = m
    BY <2>2, <2>3 DEF Flattens
  <2>6. \A i \in 1..n : Len(f[i]) \in Nat
    BY <2>3
  <2> DEFINE Bad == {i \in 1..n : Len(f[i]) # i * m}
  <2>7. Bad = {}
    <3> SUFFICES ASSUME Bad # {} PROVE FALSE
      OBVIOUS
    <3>1. Bad \in SUBSET Nat
      OBVIOUS
    <3>2. PICK i \in Bad : \A j \in Bad : i <= j
      <4> HIDE DEF Bad
      <4> QED BY <3>1, LeastPlace
    <3>3. i \in 1..n /\ Len(f[i]) # i * m
      OBVIOUS
    <3>4. i # 1
      BY <2>5, <3>3
    <3>5. i \in 2..n /\ i - 1 \in 1..n
      BY <3>3, <3>4
    <3>6. i - 1 \notin Bad
      <4>1. ~(i <= i - 1)
        BY <3>3
      <4> HIDE DEF Bad
      <4> QED BY <3>2, <4>1
    <3>7. Len(f[i - 1]) = (i - 1) * m
      BY <3>5, <3>6
    <3>8. (i - 1) * m + m = i * m
      BY <3>5
    <3> QED BY <2>4, <3>3, <3>5, <3>7, <3>8
  <2>8. Len(f[n]) = n * m
    <3>1. n \in 1..n
      OBVIOUS
    <3>2. n \notin Bad
      BY <2>7, Zenon
    <3> QED BY <3>1, <3>2, Zenon
  <2> QED BY <2>1, <2>2, <2>3, <2>8
<1> QED BY <1>1, <1>2

LEMMA FormLength ==
  ASSUME NEW adi, Len(adi) \in Nat \ {0}, NEW names, NEW m \in Nat, DOMAIN names = 1..m, NEW dir
  PROVE  Len(Form(adi, names, dir)) = (Len(adi) - 1) * m
<1> DEFINE Ctl(i, n) == CtlOf(adi, names, dir, i, n)
<1>1. PICK S : S = CtlsOf(adi, names, dir)
  OBVIOUS
<1>2. \A i \in 1..Len(adi) - 1 : \A n \in 1..m : Ctl(i, n) \in S
  BY <1>1 DEF CtlsOf
<1>3. PICK q : q = [i \in 1..Len(adi) - 1 |-> [n \in 1..m |-> Ctl(i, n)]]
  OBVIOUS
<1>4. Form(adi, names, dir) = FlattenSeq(q)
  BY <1>3, Zenon DEF Form, CtlOf
<1> HIDE DEF Ctl
<1>5. \A i \in 1..Len(adi) - 1 : /\ [n \in 1..m |-> Ctl(i, n)] \in Seq(S)
                                 /\ Len([n \in 1..m |-> Ctl(i, n)]) = m
  BY <1>2
<1>6. q \in Seq(Seq(S)) /\ Len(q) = Len(adi) - 1 /\ \A i \in 1..Len(q) : Len(q[i]) = m
  BY <1>3, <1>5
<1> QED BY <1>4, <1>6, FlattenLength

(* An attribute of a node says yes or no.                                  *)
BitAttrs ==
  \A k \in CardSet : \A i \in DOMAIN k.nodes :
    \A a \in DOMAIN k.nodes[i].props : k.nodes[i].props[a] \in {0, 1}

LEMMA ValuesAreBits ==
  ASSUME BitAttrs, NEW k \in CardSet, NEW attr, NEW i \in DOMAIN k.nodes
  PROVE  Values(k.nodes, attr)[i] \in {0, 1}
<1>1. PICK nodes : nodes = k.nodes
  OBVIOUS
<1>2. nodes \in Seq(ToSet(nodes))
  BY <1>1, MixerAssumption DEF IsCard
<1>3. DOMAIN nodes = 1..Len(nodes) /\ Len(nodes) \in Nat
  BY <1>2, LenProperties
<1>4. PICK given : given = {j \in 1..i : attr \in DOMAIN nodes[j].props}
  OBVIOUS
<1>5. Values(nodes, attr)[i] = IF given = {} THEN 0 ELSE nodes[Max(given)].props[attr]
  BY <1>1, <1>4, Zenon DEF Values
<1>6. CASE given = {}
  BY <1>1, <1>5, <1>6
<1>7. CASE given # {}
  <2>1. i \in 1..Len(nodes)
    BY <1>1, <1>3
  <2>2. given \in SUBSET (1..i) /\ i \in Nat
    BY <1>4, <2>1
  <2>3. PICK j : j = Max(given)
    OBVIOUS
  <2>4. j \in given
    BY <1>7, <2>2, <2>3, GreatestPlace
  <2>5. j \in DOMAIN nodes /\ attr \in DOMAIN nodes[j].props
    BY <1>3, <1>4, <2>1, <2>4
  <2>6. nodes[j].props[attr] \in {0, 1}
    BY <1>1, <2>5 DEF BitAttrs
  <2> QED BY <1>1, <1>5, <1>7, <2>3, <2>6
<1> QED BY <1>6, <1>7

LEMMA NodesFit ==
  ASSUME BitAttrs, NEW k \in CardSet, NEW d
  PROVE  Len(amp_create_pcm_info_from_card(k.nodes, d)) = amp_get_pcm_info(k.nodes, d) + 1
<1>1. PICK nodes : nodes = k.nodes
  OBVIOUS
<1>2. nodes \in Seq(ToSet(nodes))
  BY <1>1, MixerAssumption DEF IsCard
<1>3. PICK I : I = {i \in DOMAIN nodes : Values(nodes, Attr(d))[i] # 0}
  OBVIOUS
<1>4. I = {i \in DOMAIN nodes : Values(nodes, Attr(d))[i] = 1}
  BY <1>1, <1>3, ValuesAreBits
<1>5. PICK all : all = [i \in DOMAIN nodes |-> i]
  OBVIOUS
<1>6. all \in Seq(Nat) /\ I \in SUBSET DOMAIN all
  BY <1>2, <1>3, <1>5
<1>7. PICK n \in Nat : n = Cardinality(I)
  BY <1>6, KeptPlaces
<1>8. PICK r : r = Kept(all, I)
  OBVIOUS
<1>9. DOMAIN r = 1..n
  BY <1>6, <1>7, <1>8, KeptPlaces
<1>10. PICK m : m = [j \in 1..n |-> [name |-> nodes[r[j]].name, idx |-> nodes[r[j]].id]]
  OBVIOUS
<1>11. PICK adi : adi = <<ZERO>> \o m
  OBVIOUS
<1>12. amp_create_pcm_info_from_card(nodes, d) = adi
  BY <1>3, <1>5, <1>8, <1>9, <1>10, <1>11 DEF amp_create_pcm_info_from_card
<1>13. HasFirst(adi, ZERO, m, n)
  BY <1>10, <1>11, FirstOfAll DEF IsArray
<1>14. amp_get_pcm_info(nodes, d) = n
  BY <1>4, <1>7, Zenon DEF amp_get_pcm_info
<1> QED BY <1>1, <1>12, <1>13, <1>14 DEF HasFirst

LEMMA CountsFit ==
  ASSUME NEW be, NEW pcm, HasTables(be, pcm)
  PROVE  /\ Len(amp_form_be_ctls(be)) = amp_get_be_ctl_count(be)
         /\ Len(amp_form_pcm_ctls(pcm)) = amp_get_pcm_ctl_count(pcm)
<1>1. PICK S : S = (UNION {CtlsOf(be[d], be_ctl_names, d) : d \in Dirs})
                   \cup (UNION {CtlsOf(pcm[d], pcm_ctl_names, d) : d \in Dirs})
                   \cup CtlsOf(pcm["RX"], pcm_rx_ctl_names, "RX")
                   \cup CtlsOf(pcm["TX"], pcm_tx_ctl_names, "TX")
  OBVIOUS
<1>2. "RX" \in Dirs /\ "TX" \in Dirs
  BY DEF Dirs
<1>3. PICK br, bt, pr, pt : /\ br = Len(be["RX"]) - 1 /\ bt = Len(be["TX"]) - 1
                            /\ pr = Len(pcm["RX"]) - 1 /\ pt = Len(pcm["TX"]) - 1
  OBVIOUS
<1>4. br \in Nat /\ bt \in Nat /\ pr \in Nat /\ pt \in Nat
  BY <1>2, <1>3 DEF HasTables
<1>5. PICK f1, f2 : /\ f1 = Form(be["RX"], be_ctl_names, "RX")
                    /\ f2 = Form(be["TX"], be_ctl_names, "TX")
  OBVIOUS
<1>6. f1 \in Seq(S) /\ f2 \in Seq(S)
  <2>1. CtlsOf(be["RX"], be_ctl_names, "RX") \subseteq S
    BY <1>1, <1>2, Zenon
  <2>2. CtlsOf(be["TX"], be_ctl_names, "TX") \subseteq S
    BY <1>1, <1>2, Zenon
  <2>3. Len(be["RX"]) \in Nat \ {0} /\ Len(be["TX"]) \in Nat \ {0}
    BY <1>2 DEF HasTables
  <2>4. f1 \in Seq(S)
    BY <1>5, <2>1, <2>3, CtlsInto, BeNames
  <2>5. f2 \in Seq(S)
    BY <1>5, <2>2, <2>3, CtlsInto, BeNames
  <2> QED BY <2>4, <2>5
<1>7. Len(f1) = br * 3 /\ Len(f2) = bt * 3
  BY <1>2, <1>3, <1>5, FormLength, BeNames DEF HasTables
<1>8. Len(be_ctl_names) = 3 /\ Len(pcm_ctl_names) = 11 /\ Len(pcm_tx_ctl_names) = 3
      /\ Len(pcm_rx_ctl_names) = 1
  BY DEF be_ctl_names, pcm_ctl_names, pcm_tx_ctl_names, pcm_rx_ctl_names
<1>9. Len(amp_form_be_ctls(be)) = amp_get_be_ctl_count(be)
  <2>1. Len(f1 \o f2) = br * 3 + bt * 3
    BY <1>6, <1>7
  <2>2. amp_form_be_ctls(be) = f1 \o f2
    BY <1>5 DEF amp_form_be_ctls
  <2>3. amp_get_be_ctl_count(be) = br * 3 + bt * 3
    BY <1>3, <1>8 DEF amp_get_be_ctl_count
  <2> QED BY <2>1, <2>2, <2>3
<1>10. PICK g1, g2, g3, g4 : /\ g1 = Form(pcm["RX"], pcm_ctl_names, "RX")
                             /\ g2 = Form(pcm["RX"], pcm_rx_ctl_names, "RX")
                             /\ g3 = Form(pcm["TX"], pcm_ctl_names, "TX")
                             /\ g4 = Form(pcm["TX"], pcm_tx_ctl_names, "TX")
  OBVIOUS
<1>11. g1 \in Seq(S) /\ g2 \in Seq(S) /\ g3 \in Seq(S) /\ g4 \in Seq(S)
  <2>1. CtlsOf(pcm["RX"], pcm_ctl_names, "RX") \subseteq S
    BY <1>1, <1>2, Zenon
  <2>2. CtlsOf(pcm["RX"], pcm_rx_ctl_names, "RX") \subseteq S
    BY <1>1, Zenon
  <2>3. CtlsOf(pcm["TX"], pcm_ctl_names, "TX") \subseteq S
    BY <1>1, <1>2, Zenon
  <2>4. CtlsOf(pcm["TX"], pcm_tx_ctl_names, "TX") \subseteq S
    BY <1>1, Zenon
  <2>5. Len(pcm["RX"]) \in Nat \ {0} /\ Len(pcm["TX"]) \in Nat \ {0}
    BY <1>2 DEF HasTables
  <2>6. g1 \in Seq(S)
    BY <1>10, <2>1, <2>5, CtlsInto, PcmNames
  <2>7. g2 \in Seq(S)
    BY <1>10, <2>2, <2>5, CtlsInto, PcmNames
  <2>8. g3 \in Seq(S)
    BY <1>10, <2>3, <2>5, CtlsInto, PcmNames
  <2>9. g4 \in Seq(S)
    BY <1>10, <2>4, <2>5, CtlsInto, PcmNames
  <2> QED BY <2>6, <2>7, <2>8, <2>9
<1>12. Len(g1) = pr * 11 /\ Len(g2) = pr * 1 /\ Len(g3) = pt * 11 /\ Len(g4) = pt * 3
  <2>1. Len(pcm["RX"]) \in Nat \ {0} /\ Len(pcm["TX"]) \in Nat \ {0}
    BY <1>2 DEF HasTables
  <2>2. Len(g1) = pr * 11
    BY <1>3, <1>10, <2>1, FormLength, PcmNames
  <2>3. Len(g2) = pr * 1
    BY <1>3, <1>10, <2>1, FormLength, PcmNames
  <2>4. Len(g3) = pt * 11
    BY <1>3, <1>10, <2>1, FormLength, PcmNames
  <2>5. Len(g4) = pt * 3
    BY <1>3, <1>10, <2>1, FormLength, PcmNames
  <2> QED BY <2>2, <2>3, <2>4, <2>5
<1>13. Len(amp_form_pcm_ctls(pcm)) = amp_get_pcm_ctl_count(pcm)
  <2>1. PICK h2 : h2 = g1 \o g2
    OBVIOUS
  <2>2. h2 \in Seq(S) /\ Len(h2) = Len(g1) + Len(g2)
    BY <1>11, <2>1
  <2>3. PICK h3 : h3 = h2 \o g3
    OBVIOUS
  <2>4. h3 \in Seq(S) /\ Len(h3) = Len(h2) + Len(g3)
    <3>1. h2 \in Seq(S)
      BY <2>2
    <3>2. g3 \in Seq(S)
      BY <1>11
    <3> QED BY <2>3, <3>1, <3>2
  <2>5. Len(h3 \o g4) = Len(h3) + Len(g4)
    <3>1. h3 \in Seq(S)
      BY <2>4
    <3>2. g4 \in Seq(S)
      BY <1>11
    <3> QED BY <3>1, <3>2
  <2>6. amp_form_pcm_ctls(pcm) = h3 \o g4
    BY <1>10, <2>1, <2>3, Zenon DEF amp_form_pcm_ctls
  <2>7. amp_get_pcm_ctl_count(pcm) = pr * 12 + pt * 14
    BY <1>3, <1>8 DEF amp_get_pcm_ctl_count
  <2> QED BY <1>4, <1>12, <2>2, <2>4, <2>5, <2>6, <2>7
<1> QED BY <1>9, <1>13

(* The tables of the mixer are filled to their end and no further,         *)
(* whatever the card and the back ends are, as long as the attributes of   *)
(* the nodes are 0 or 1: they are counted where they are 1 and taken where *)
(* they are not 0 (amp_get_pcm_info, amp_create_pcm_info_from_card), and   *)
(* the controls are counted and formed by different functions              *)
(* (amp_get_be_ctl_count, amp_get_pcm_ctl_count, amp_form_be_ctls,         *)
(* amp_form_pcm_ctls).                                                     *)
THEOREM TablesAreFilled ==
  ASSUME BitAttrs
  PROVE  MixerSpec => []TablesFit
<1> DEFINE Sized == amp # "null" => \A d \in Dirs : Len(pcm_devs[d]) = amp_get_pcm_info(card.nodes, d) + 1
<1>1. MixerInit => Sized
  BY DEF MixerInit
<1>2. MixTables /\ Sized /\ [MixerNext]_mvars => Sized'
  <2> SUFFICES ASSUME MixTables, Sized, [MixerNext]_mvars PROVE Sized'
    OBVIOUS
  <2>1. CASE agm_mixer_plugin_open
    <3>1. card' = card /\ card \in CardSet
      BY <2>1 DEF MixTables, agm_mixer_plugin_open
    <3>2. \/ amp' = "null"
          \/ pcm_devs' = [d \in Dirs |-> amp_create_pcm_info_from_card(card.nodes, d)]
      BY <2>1 DEF agm_mixer_plugin_open
    <3>3. \A d \in Dirs : Len(amp_create_pcm_info_from_card(card.nodes, d)) = amp_get_pcm_info(card.nodes, d) + 1
      BY <3>1, NodesFit
    <3> QED BY <3>1, <3>2, <3>3
  <2>2. CASE ControlsNext \/ EventsNext \/ CloseNext \/ UNCHANGED mvars
    <3>1. UNCHANGED <<card, pcm_devs>> /\ (amp = "null" => amp' = "null")
      <4>1. CASE ControlsNext \/ UNCHANGED mvars
        BY <4>1 DEF ControlsNext, ControlPut, amp_pcm_mtd_control_put, amp_pcm_get_param_put,
                    amp_pcm_get_param_get, mvars
      <4>2. CASE EventsNext
        BY <4>2 DEF EventsNext, amp_event_cb, amp_add_event_params, amp_event_cb_queues,
                    amp_subscribe_events, amp_read_event, amp_pcm_event_get, ctl_vars
      <4>3. CASE CloseNext
        BY <4>3 DEF CloseNext, amp_close, amp_register_event_callback, amp_close_frees, ctl_vars
      <4> QED BY <2>2, <4>1, <4>2, <4>3
    <3> QED BY <3>1
  <2> QED BY <2>1, <2>2 DEF MixerNext
<1>3. MixTables /\ Sized => TablesFit
  <2> SUFFICES ASSUME MixTables, Sized, amp = "open" PROVE TablesFit
    BY DEF TablesFit
  <2>1. HasTables(be_devs, pcm_devs)
    BY DEF MixTables, Named, BeNamed, PcmNamed, HasTables
  <2>2. /\ Len(amp_form_be_ctls(be_devs)) = amp_get_be_ctl_count(be_devs)
        /\ Len(amp_form_pcm_ctls(pcm_devs)) = amp_get_pcm_ctl_count(pcm_devs)
    BY <2>1, CountsFit
  <2> QED BY <2>2 DEF TablesFit
<1> HIDE DEF Sized
<1> QED BY <1>1, <1>2, <1>3, TablesStart, TablesStep, PTL DEF MixerSpec

-----------------------------------------------------------------------------
(* The list of sound cards.                                                *)
CardDefs == {Parse(d, k) : d \in Docs, k \in Keys}

CardRec == [def: CardDefs, key: Keys, refcnt: Nat, serial: Nat]

HandleRec == [client: Clients, key: Keys, get: Nat, serial: Nat]

Holders(x) == {h \in handles : h.serial = x}

ListFits ==
  /\ doc \in Docs /\ gets \in Nat
  /\ snd_card_list \in Seq(CardRec)
  /\ \A i \in 1..Len(snd_card_list) : snd_card_list[i].serial <= gets
  /\ \A i, j \in 1..Len(snd_card_list) : snd_card_list[i].serial = snd_card_list[j].serial => i = j

HandlesFit ==
  /\ handles \subseteq HandleRec /\ IsFiniteSet(handles)
  /\ \A h \in handles : h.get < gets
  /\ \A h \in handles : \E i \in 1..Len(snd_card_list) : snd_card_list[i].serial = h.serial

RefsFit ==
  \A i \in 1..Len(snd_card_list) : \A x :
    snd_card_list[i].serial = x => snd_card_list[i].refcnt = Cardinality(Holders(x))

(* Serial numbers tell the cards apart, also from those freed, and the     *)
(* count of a card is the number of handles that name it.                  *)
CardsInv == ListFits /\ HandlesFit /\ RefsFit

LEMMA HoldersFinite ==
  ASSUME IsFiniteSet(handles), NEW x
  PROVE  IsFiniteSet(Holders(x)) /\ Cardinality(Holders(x)) \in Nat
<1>1. Holders(x) \in SUBSET handles
  BY DEF Holders
<1> QED BY <1>1, FS_Subset, FS_CardinalityType

LEMMA OneMoreHolds ==
  ASSUME IsFiniteSet(handles), NEW h, h \notin handles, handles' = handles \cup {h}
  PROVE  /\ IsFiniteSet(handles)'
         /\ \A x : Cardinality(Holders(x))' = Cardinality(Holders(x)) + (IF x = h.serial THEN 1 ELSE 0)
<1>1. IsFiniteSet(handles)'
  BY FS_AddElement
<1>2. ASSUME NEW x
      PROVE  Cardinality(Holders(x))' = Cardinality(Holders(x)) + (IF x = h.serial THEN 1 ELSE 0)
  <2>1. IsFiniteSet(Holders(x)) /\ Cardinality(Holders(x)) \in Nat
    BY HoldersFinite
  <2>2. CASE x = h.serial
    <3>1. Holders(x)' = Holders(x) \cup {h} /\ h \notin Holders(x)
      BY <2>2 DEF Holders
    <3>2. Cardinality(Holders(x) \cup {h}) = Cardinality(Holders(x)) + 1
      BY <2>1, <3>1, FS_AddElement
    <3> QED BY <2>2, <3>1, <3>2
  <2>3. CASE x # h.serial
    <3>1. Holders(x)' = Holders(x)
      BY <2>3 DEF Holders
    <3> QED BY <2>1, <2>3, <3>1
  <2> QED BY <2>2, <2>3
<1> QED BY <1>1, <1>2

LEMMA OneLessHolds ==
  ASSUME IsFiniteSet(handles), NEW h \in handles, handles' = handles \ {h}
  PROVE  /\ IsFiniteSet(handles)'
         /\ \A x : Cardinality(Holders(x))' = Cardinality(Holders(x)) - (IF x = h.serial THEN 1 ELSE 0)
         /\ Cardinality(Holders(h.serial)) = 1 => \A k \in handles' : k.serial # h.serial
<1>1. IsFiniteSet(handles)'
  BY FS_RemoveElement
<1>2. ASSUME NEW x
      PROVE  Cardinality(Holders(x))' = Cardinality(Holders(x)) - (IF x = h.serial THEN 1 ELSE 0)
  <2>1. IsFiniteSet(Holders(x)) /\ Cardinality(Holders(x)) \in Nat
    BY HoldersFinite
  <2>2. CASE x = h.serial
    <3>1. Holders(x)' = Holders(x) \ {h} /\ h \in Holders(x)
      BY <2>2 DEF Holders
    <3>2. Cardinality(Holders(x) \ {h}) = Cardinality(Holders(x)) - 1
      BY <2>1, <3>1, FS_RemoveElement
    <3> QED BY <2>2, <3>1, <3>2
  <2>3. CASE x # h.serial
    <3>1. Holders(x)' = Holders(x)
      BY <2>3 DEF Holders
    <3> QED BY <2>1, <2>3, <3>1
  <2> QED BY <2>2, <2>3
<1>3. ASSUME Cardinality(Holders(h.serial)) = 1
      PROVE  \A k \in handles' : k.serial # h.serial
  <2> DEFINE H == Holders(h.serial)
  <2>1. IsFiniteSet(H) /\ h \in H
    BY HoldersFinite DEF Holders
  <2>2. IsFiniteSet(H \ {h}) /\ Cardinality(H \ {h}) = 0
    <3> HIDE DEF H
    <3>1. Cardinality(H) = 1
      BY <1>3 DEF H
    <3> QED BY <2>1, <3>1, FS_RemoveElement
  <2>3. H \ {h} = {}
    <3> HIDE DEF H
    <3> QED BY <2>2, FS_EmptySet
  <2> QED BY <2>3 DEF Holders
<1> QED BY <1>1, <1>2, <1>3

LEMMA CardsStart == CardsInit => CardsInv
<1> SUFFICES ASSUME CardsInit PROVE CardsInv
  OBVIOUS
<1>1. doc \in Docs /\ snd_card_list = <<>> /\ handles = {} /\ gets = 0
  BY DEF CardsInit
<1>2. IsFiniteSet(handles)
  BY <1>1, FS_EmptySet
<1>3. snd_card_list \in Seq(CardRec) /\ Len(snd_card_list) = 0
  BY <1>1
<1> QED BY <1>1, <1>2, <1>3 DEF CardsInv, ListFits, HandlesFit, RefsFit

(* A card is taken: one of the list, or one of the file.                   *)
LEMMA CardTaken ==
  ASSUME CardsInv, "xml" \notin FailingCards, NEW client \in Clients, NEW key \in Keys,
         snd_card_def_get_card(client, key)
  PROVE  CardsInv'
<1> DEFINE n == Len(snd_card_list)
           found == {i \in DOMAIN snd_card_list : Matches(snd_card_list[i], key)}
           new(x) == [client |-> client, key |-> key, get |-> gets, serial |-> x]
<1>0. /\ gets' = gets + 1 /\ doc' = doc /\ doc \in Docs /\ gets \in Nat
      /\ n \in Nat /\ DOMAIN snd_card_list = 1..n
      /\ \A i \in 1..n : snd_card_list[i] \in CardRec
      /\ IsFiniteSet(handles) /\ handles \subseteq HandleRec
  BY DEF snd_card_def_get_card, CardsInv, ListFits, HandlesFit
<1>1. ASSUME NEW x \in Nat
      PROVE  new(x) \notin handles /\ new(x) \in HandleRec /\ new(x).serial = x /\ new(x).get = gets
  BY <1>0 DEF CardsInv, HandlesFit, HandleRec
<1>2. \A i \in 1..n : snd_card_list[i].serial \in Nat /\ snd_card_list[i].refcnt \in Nat
  BY <1>0 DEF CardRec
<1>3. ASSUME found # {},
             snd_card_list' = [snd_card_list EXCEPT ![Min(found)].refcnt = @ + 1],
             handles' = handles \cup {new(snd_card_list[Min(found)].serial)}
      PROVE  CardsInv'
  <2>1. PICK m \in 1..n : m = Min(found)
    <3>1. found \in SUBSET Nat /\ found \subseteq 1..n
      BY <1>0
    <3> HIDE DEF found
    <3> QED BY <1>3, <3>1, LeastPlace
  <2>2. snd_card_list' = [snd_card_list EXCEPT ![m].refcnt = @ + 1]
    BY <1>3, <2>1
  <2>3. PICK x \in Nat : x = snd_card_list[m].serial
    BY <1>2
  <2>4. PICK h \in HandleRec : h = new(x)
    BY <1>1
  <2>5. h \notin handles /\ h.serial = x /\ h.get = gets /\ handles' = handles \cup {h}
    BY <1>1, <1>3, <2>1, <2>3, <2>4
  <2> HIDE DEF found, new
  <2>6. /\ snd_card_list' \in Seq(CardRec) /\ Len(snd_card_list') = n
        /\ \A i \in 1..n : snd_card_list'[i].serial = snd_card_list[i].serial
        /\ \A i \in 1..n : snd_card_list'[i].refcnt = snd_card_list[i].refcnt + (IF i = m THEN 1 ELSE 0)
    <3>0. PICK c \in CardRec : c = snd_card_list[m]
      BY <1>0
    <3>1. PICK r : r = [c EXCEPT !.refcnt = @ + 1]
      OBVIOUS
    <3>2. /\ r \in CardRec
          /\ r.serial = snd_card_list[m].serial /\ r.refcnt = snd_card_list[m].refcnt + 1
      BY <3>0, <3>1 DEF CardRec
    <3>3. snd_card_list' = [snd_card_list EXCEPT ![m] = r]
      BY <2>2, <3>0, <3>1
    <3>4. snd_card_list \in Seq(CardRec)
      BY DEF CardsInv, ListFits
    <3>5. snd_card_list' \in Seq(CardRec) /\ Len(snd_card_list') = n
      BY <3>2, <3>3, <3>4
    <3>6. \A i \in 1..n : snd_card_list'[i] = IF i = m THEN r ELSE snd_card_list[i]
      BY <1>0, <3>3
    <3>7. ASSUME NEW i \in 1..n
          PROVE  /\ snd_card_list'[i].serial = snd_card_list[i].serial
                 /\ snd_card_list'[i].refcnt = snd_card_list[i].refcnt + (IF i = m THEN 1 ELSE 0)
      <4>1. CASE i = m
        BY <3>2, <3>6, <4>1
      <4>2. CASE i # m
        BY <1>2, <3>6, <4>2
      <4> QED BY <4>1, <4>2
    <3> QED BY <3>5, <3>7
  <2>7. /\ IsFiniteSet(handles)'
        /\ \A y : Cardinality(Holders(y))' = Cardinality(Holders(y)) + (IF y = h.serial THEN 1 ELSE 0)
    BY <1>0, <2>5, OneMoreHolds
  <2>8. ListFits'
    BY <1>0, <1>2, <2>6 DEF CardsInv, ListFits
  <2>9. HandlesFit'
    <3>1. \A k \in handles' : k.get < gets'
      <4>1. \A k \in handles : k.get < gets /\ k.get \in Nat
        BY <1>0 DEF CardsInv, HandlesFit, HandleRec
      <4> QED BY <1>0, <2>5, <4>1
    <3>2. \A k \in handles' : \E i \in 1..n : snd_card_list[i].serial = k.serial
      BY <2>3, <2>5 DEF CardsInv, HandlesFit
    <3> QED BY <1>0, <2>5, <2>6, <2>7, <3>1, <3>2 DEF HandlesFit
  <2>10. RefsFit'
    <3>1. ASSUME NEW i \in 1..n, NEW y, snd_card_list'[i].serial = y
          PROVE  snd_card_list'[i].refcnt = Cardinality(Holders(y))'
      <4>1. snd_card_list[i].serial = y /\ snd_card_list[i].refcnt = Cardinality(Holders(y))
        BY <2>6, <3>1 DEF CardsInv, RefsFit
      <4>2. i = m <=> y = x
        BY <2>3, <4>1 DEF CardsInv, ListFits
      <4> QED BY <2>5, <2>6, <2>7, <4>1, <4>2
    <3> QED BY <2>6, <3>1 DEF RefsFit
  <2> QED BY <2>8, <2>9, <2>10 DEF CardsInv
<1>4. ASSUME snd_card_list' = Append(snd_card_list, [def |-> Parse(doc, key), key |-> key,
                                                     refcnt |-> 1, serial |-> gets + 1]),
             handles' = handles \cup {new(gets + 1)}
      PROVE  CardsInv'
  <2>1. PICK r : r = [def |-> Parse(doc, key), key |-> key, refcnt |-> 1, serial |-> gets + 1]
    OBVIOUS
  <2>2. r \in CardRec /\ r.serial = gets + 1 /\ r.refcnt = 1
    <3>1. PICK d : d = Parse(doc, key)
      OBVIOUS
    <3>2. d \in CardDefs
      BY <1>0, <3>1 DEF CardDefs
    <3>3. r = [def |-> d, key |-> key, refcnt |-> 1, serial |-> gets + 1]
      BY <2>1, <3>1
    <3> QED BY <1>0, <3>2, <3>3 DEF CardRec
  <2>3. PICK h \in HandleRec : h = new(gets + 1)
    <3>1. gets + 1 \in Nat
      BY <1>0
    <3> HIDE DEF new
    <3> QED BY <1>1, <3>1
  <2>4. h \notin handles /\ h.serial = gets + 1 /\ h.get = gets /\ handles' = handles \cup {h}
    BY <1>0, <1>1, <1>4, <2>3
  <2>5. /\ snd_card_list' \in Seq(CardRec) /\ Len(snd_card_list') = n + 1
        /\ snd_card_list'[n + 1] = r /\ \A i \in 1..n : snd_card_list'[i] = snd_card_list[i]
    <3>1. snd_card_list' = Append(snd_card_list, r) /\ snd_card_list \in Seq(CardRec)
      BY <1>4, <2>1 DEF CardsInv, ListFits
    <3> QED BY <2>2, <3>1
  <2>6. /\ IsFiniteSet(handles)'
        /\ \A y : Cardinality(Holders(y))' = Cardinality(Holders(y)) + (IF y = h.serial THEN 1 ELSE 0)
    BY <1>0, <2>4, OneMoreHolds
  <2> HIDE DEF found, new
  <2>7. \A i \in 1..n : snd_card_list[i].serial <= gets
    BY DEF CardsInv, ListFits
  <2>8. ListFits'
    <3>1. \A i \in 1..(n + 1) : i \in 1..n \/ i = n + 1
      BY <1>0
    <3>2. \A i \in 1..(n + 1) : snd_card_list'[i].serial <= gets'
      BY <1>0, <1>2, <2>2, <2>5, <2>7, <3>1
    <3>3. \A i \in 1..n : snd_card_list'[i].serial # gets + 1 /\ snd_card_list'[n + 1].serial = gets + 1
      BY <1>0, <1>2, <2>2, <2>5, <2>7
    <3>4. \A i, j \in 1..n : snd_card_list'[i].serial = snd_card_list'[j].serial => i = j
      BY <2>5 DEF CardsInv, ListFits
    <3>5. \A i, j \in 1..(n + 1) : snd_card_list'[i].serial = snd_card_list'[j].serial => i = j
      BY <3>1, <3>3, <3>4
    <3> QED BY <1>0, <2>5, <3>2, <3>5 DEF ListFits
  <2>9. HandlesFit'
    <3>1. \A k \in handles' : k.get < gets'
      <4>1. \A k \in handles : k.get < gets /\ k.get \in Nat
        BY <1>0 DEF CardsInv, HandlesFit, HandleRec
      <4> QED BY <1>0, <2>4, <4>1
    <3>2. \A k \in handles : \E i \in 1..(n + 1) : snd_card_list'[i].serial = k.serial
      <4>1. \A k \in handles : \E i \in 1..n : snd_card_list[i].serial = k.serial
        BY DEF CardsInv, HandlesFit
      <4> QED BY <1>0, <2>5, <4>1
    <3>3. n + 1 \in 1..(n + 1) /\ snd_card_list'[n + 1].serial = h.serial
      BY <1>0, <2>2, <2>4, <2>5
    <3> QED BY <1>0, <2>4, <2>5, <2>6, <3>1, <3>2, <3>3 DEF HandlesFit
  <2>10. RefsFit'
    <3>1. ASSUME NEW i \in 1..n, NEW y, snd_card_list'[i].serial = y
          PROVE  snd_card_list'[i].refcnt = Cardinality(Holders(y))'
      <4>1. snd_card_list[i].serial = y /\ snd_card_list[i].refcnt = Cardinality(Holders(y))
        BY <2>5, <3>1 DEF CardsInv, RefsFit
      <4>2. y # h.serial /\ snd_card_list[i].refcnt \in Nat
        BY <1>0, <1>2, <2>4, <2>7, <4>1
      <4> QED BY <2>5, <2>6, <4>1, <4>2
    <3>2. ASSUME NEW y, y = gets + 1
          PROVE  Cardinality(Holders(y))' = 1
      <4>1. \A k \in handles : k.serial # gets + 1
        BY <1>0, <1>2, <2>7 DEF CardsInv, HandlesFit
      <4>2. Holders(y) = {}
        BY <3>2, <4>1 DEF Holders
      <4>3. Cardinality(Holders(y)) = 0
        BY <4>2, FS_EmptySet
      <4> QED BY <2>4, <2>6, <3>2, <4>3
    <3>3. \A i \in 1..(n + 1) : i \in 1..n \/ i = n + 1
      BY <1>0
    <3> QED BY <2>2, <2>5, <3>1, <3>2, <3>3 DEF RefsFit
  <2> QED BY <2>8, <2>9, <2>10 DEF CardsInv
<1>5. ASSUME UNCHANGED <<snd_card_list, handles>>
      PROVE  CardsInv'
  <2>1. ListFits'
    BY <1>0, <1>2, <1>5 DEF CardsInv, ListFits
  <2>2. \A k \in handles : k.get < gets /\ k.get \in Nat
    BY <1>0 DEF CardsInv, HandlesFit, HandleRec
  <2>3. HandlesFit'
    BY <1>0, <1>5, <2>2 DEF CardsInv, HandlesFit
  <2> QED BY <1>5, <2>1, <2>3 DEF CardsInv, RefsFit, Holders
<1> QED BY <1>3, <1>4, <1>5 DEF snd_card_def_get_card

(* A card is given back.                                                   *)
LEMMA CardReturned ==
  ASSUME CardsInv, NEW client, NEW h \in handles, snd_card_def_put_card(client, h)
  PROVE  CardsInv'
<1> DEFINE n == Len(snd_card_list)
<1>0. /\ handles' = handles \ {h} /\ UNCHANGED <<doc, gets>> /\ doc \in Docs /\ gets \in Nat
      /\ n \in Nat /\ snd_card_list \in Seq(CardRec)
      /\ \A i \in 1..n : snd_card_list[i] \in CardRec
      /\ IsFiniteSet(handles) /\ handles \subseteq HandleRec
  BY DEF snd_card_def_put_card, CardsInv, ListFits, HandlesFit
<1>1. \A i \in 1..n : snd_card_list[i].serial \in Nat /\ snd_card_list[i].refcnt \in Nat
  BY <1>0 DEF CardRec
<1>2. PICK m \in 1..n : snd_card_list[m].serial = h.serial
  BY DEF CardsInv, HandlesFit
<1>3. \A i \in 1..n : snd_card_list[i].serial = h.serial <=> i = m
  BY <1>2 DEF CardsInv, ListFits
<1>4. SelectInSeq(snd_card_list, LAMBDA c : c.serial = h.serial) = m
  <2>1. {i \in 1..n : snd_card_list[i].serial = h.serial} = {m}
    BY <1>3
  <2>2. Min({m}) = m
    BY DEF Min
  <2> QED BY <2>1, <2>2 DEF SelectInSeq
<1>5. snd_card_list' = IF snd_card_list[m].refcnt = 1 THEN RemoveAt(snd_card_list, m)
                       ELSE [snd_card_list EXCEPT ![m].refcnt = @ - 1]
  <2> DEFINE place == SelectInSeq(snd_card_list, LAMBDA c : c.serial = h.serial)
  <2>1. snd_card_list' = IF place = 0 THEN snd_card_list
                         ELSE IF snd_card_list[place].refcnt = 1 THEN RemoveAt(snd_card_list, place)
                         ELSE [snd_card_list EXCEPT ![place].refcnt = @ - 1]
    BY Zenon DEF snd_card_def_put_card
  <2>2. place = m /\ m # 0
    BY <1>4
  <2> HIDE DEF place
  <2> QED BY <2>1, <2>2
<1>6. /\ IsFiniteSet(handles)'
      /\ \A x : Cardinality(Holders(x))' = Cardinality(Holders(x)) - (IF x = h.serial THEN 1 ELSE 0)
      /\ Cardinality(Holders(h.serial)) = 1 => \A k \in handles' : k.serial # h.serial
  BY <1>0, OneLessHolds
<1>7. /\ \A k \in handles' : k \in handles /\ k \in HandleRec /\ k.get < gets
      /\ \A k \in handles' : \E i \in 1..n : snd_card_list[i].serial = k.serial
  BY <1>0 DEF CardsInv, HandlesFit
<1>8. \A i \in 1..n : snd_card_list[i].serial <= gets
  BY DEF CardsInv, ListFits
<1>9. \A i, j \in 1..n : snd_card_list[i].serial = snd_card_list[j].serial => i = j
  BY DEF CardsInv, ListFits
<1>10. \A i \in 1..n : \A x :
         snd_card_list[i].serial = x => snd_card_list[i].refcnt = Cardinality(Holders(x))
  BY DEF CardsInv, RefsFit
<1>11. CASE snd_card_list[m].refcnt = 1
  <2>1. \A k \in handles' : k.serial # h.serial
    BY <1>2, <1>6, <1>10, <1>11
  <2> DEFINE old(i) == IF i < m THEN i ELSE i + 1
  <2>2. /\ snd_card_list' \in Seq(CardRec) /\ Len(snd_card_list') = n - 1
        /\ \A i \in 1..(n - 1) : snd_card_list'[i] = snd_card_list[old(i)]
    <3>1. /\ RemoveAt(snd_card_list, m) \in Seq(CardRec) /\ Len(RemoveAt(snd_card_list, m)) = n - 1
          /\ \A i \in 1..(n - 1) :
               RemoveAt(snd_card_list, m)[i] = IF i < m THEN snd_card_list[i] ELSE snd_card_list[i + 1]
      BY <1>0, RemovedAt
    <3>2. snd_card_list' = RemoveAt(snd_card_list, m)
      BY <1>5, <1>11
    <3> QED BY <3>1, <3>2
  <2>3. /\ \A i \in 1..(n - 1) : old(i) \in 1..n /\ old(i) # m
        /\ \A i, j \in 1..(n - 1) : old(i) = old(j) => i = j
    BY <1>0
  <2>4. \A i \in 1..n : i # m => \E j \in 1..(n - 1) : old(j) = i
    <3> TAKE i \in 1..n
    <3>1. CASE i < m
      BY <1>0, <3>1
    <3>2. CASE i > m
      <4>1. i - 1 \in 1..(n - 1) /\ old(i - 1) = i
        BY <1>0, <3>2
      <4> QED BY <4>1
    <3> QED BY <1>0, <3>1, <3>2
  <2> HIDE DEF old
  <2>5. ListFits'
    BY <1>0, <1>8, <1>9, <2>2, <2>3, SMTT(60) DEF ListFits
  <2>6. HandlesFit'
    <3>1. ASSUME NEW k \in handles'
          PROVE  \E j \in 1..(n - 1) : snd_card_list'[j].serial = k.serial
      <4>1. PICK i \in 1..n : snd_card_list[i].serial = k.serial
        BY <1>7
      <4>2. i # m
        BY <1>2, <2>1, <4>1
      <4>3. PICK j \in 1..(n - 1) : old(j) = i
        BY <2>4, <4>2
      <4> QED BY <2>2, <4>1, <4>3
    <3> QED BY <1>0, <1>6, <1>7, <2>2, <3>1 DEF HandlesFit
  <2>7. RefsFit'
    <3>1. ASSUME NEW j \in 1..(n - 1), NEW x, snd_card_list'[j].serial = x
          PROVE  snd_card_list'[j].refcnt = Cardinality(Holders(x))'
      <4>1. PICK i \in 1..n : i = old(j) /\ i # m
        BY <2>3
      <4>2. /\ snd_card_list'[j] = snd_card_list[i] /\ snd_card_list[i].serial = x
            /\ snd_card_list[i].refcnt = Cardinality(Holders(x)) /\ snd_card_list[i].refcnt \in Nat
        BY <1>1, <1>10, <2>2, <3>1, <4>1
      <4>3. x # h.serial
        BY <1>3, <4>1, <4>2
      <4> QED BY <1>6, <4>2, <4>3
    <3> QED BY <2>2, <3>1 DEF RefsFit
  <2> QED BY <2>5, <2>6, <2>7 DEF CardsInv
<1>12. CASE snd_card_list[m].refcnt # 1
  <2>1. PICK c \in CardRec : c = snd_card_list[m]
    BY <1>0
  <2>2. c.refcnt - 1 \in Nat /\ c.serial = h.serial
    <3>1. h \in Holders(h.serial) /\ IsFiniteSet(Holders(h.serial))
      BY <1>0, HoldersFinite DEF Holders
    <3>2. Cardinality(Holders(h.serial)) # 0
      BY <3>1, FS_EmptySet
    <3>3. c.refcnt = Cardinality(Holders(h.serial)) /\ c.refcnt \in Nat
      BY <1>1, <1>2, <1>10, <2>1
    <3> QED BY <1>2, <2>1, <3>2, <3>3
  <2>3. PICK r : r = [c EXCEPT !.refcnt = @ - 1]
    OBVIOUS
  <2>4. r \in CardRec /\ r.serial = c.serial /\ r.refcnt = c.refcnt - 1
    BY <2>2, <2>3 DEF CardRec
  <2>5. snd_card_list' = [snd_card_list EXCEPT ![m] = r]
    BY <1>5, <1>12, <2>1, <2>3
  <2>6. /\ snd_card_list' \in Seq(CardRec) /\ Len(snd_card_list') = n
        /\ \A i \in 1..n : snd_card_list'[i] = IF i = m THEN r ELSE snd_card_list[i]
    BY <1>0, <2>4, <2>5
  <2>7. \A i \in 1..n : snd_card_list'[i].serial = snd_card_list[i].serial
    BY <2>1, <2>4, <2>6
  <2>8. ListFits'
    BY <1>0, <1>8, <1>9, <2>6, <2>7 DEF ListFits
  <2>9. HandlesFit'
    BY <1>0, <1>6, <1>7, <2>6, <2>7 DEF HandlesFit
  <2>10. RefsFit'
    <3>1. ASSUME NEW i \in 1..n, NEW x, snd_card_list'[i].serial = x
          PROVE  snd_card_list'[i].refcnt = Cardinality(Holders(x))'
      <4>1. /\ snd_card_list[i].serial = x /\ snd_card_list[i].refcnt = Cardinality(Holders(x))
            /\ snd_card_list[i].refcnt \in Nat
        BY <1>1, <1>10, <2>7, <3>1
      <4>2. CASE i = m
        <5>1. x = h.serial /\ snd_card_list'[i].refcnt = snd_card_list[i].refcnt - 1
          BY <1>3, <2>1, <2>4, <2>6, <4>1, <4>2
        <5> QED BY <1>6, <4>1, <5>1
      <4>3. CASE i # m
        <5>1. x # h.serial /\ snd_card_list'[i] = snd_card_list[i]
          BY <1>3, <2>6, <4>1, <4>3
        <5> QED BY <1>6, <4>1, <5>1
      <4> QED BY <4>2, <4>3
    <3> QED BY <2>6, <3>1 DEF RefsFit
  <2> QED BY <2>8, <2>9, <2>10 DEF CardsInv
<1> QED BY <1>11, <1>12

LEMMA CardsSteps ==
  ASSUME "xml" \notin FailingCards
  PROVE  CardsInv /\ [CardsNext]_cvars => CardsInv'
<1> SUFFICES ASSUME CardsInv, [CardsNext]_cvars PROVE CardsInv'
  OBVIOUS
<1>1. CASE UNCHANGED cvars
  BY <1>1 DEF cvars, CardsInv, ListFits, HandlesFit, RefsFit, Holders
<1>2. CASE CardsNext
  BY <1>2, CardTaken, CardReturned DEF CardsNext
<1> QED BY <1>1, <1>2

(* Where the parser reports no error, a card that a client holds is never  *)
(* freed, and counts as many references as there are handles of it, for    *)
(* any number of cards, clients and calls (snd_card_def_get_card,          *)
(* snd_card_def_put_card).                                                 *)
THEOREM CardsStayHeld ==
  ASSUME "xml" \notin FailingCards
  PROVE  CardsSpec => []HeldCardsStay
<1>1. CardsInv => HeldCardsStay
  <2> SUFFICES ASSUME CardsInv PROVE HeldCardsStay
    OBVIOUS
  <2>1. DOMAIN snd_card_list = 1..Len(snd_card_list)
    BY DEF CardsInv, ListFits
  <2>2. \A i \in 1..Len(snd_card_list) :
          snd_card_list[i].refcnt = Cardinality(Holders(snd_card_list[i].serial))
    BY DEF CardsInv, RefsFit
  <2> QED BY <2>1, <2>2 DEF CardsInv, HandlesFit, HeldCardsStay, Holders
<1> QED BY <1>1, CardsStart, CardsSteps, PTL DEF CardsSpec

-----------------------------------------------------------------------------
(* The PCM plugin.  The boundary doubles the buffer until there is no room *)
(* for one more: what the loop computes exists, because it only looks      *)
(* upwards, and it is a multiple of the buffer.                            *)
LEMMA DoublingEnds ==
  ASSUME NEW t \in Nat \ {0}, NEW m \in Nat, t <= m
  PROVE  \E f : f = [b \in t..m |-> IF b * 2 <= m - t THEN f[b * 2] ELSE b]
<1> DEFINE Sol(f, a) == \A b \in a..m : f[b] = IF b * 2 <= m - t THEN f[b * 2] ELSE b
           Good(a) == \E f \in [a..m -> Nat] : Sol(f, a)
           Bad == {n \in Nat : n <= m - t /\ ~Good(m - n)}
<1>1. Bad = {}
  <2>1. SUFFICES ASSUME Bad # {} PROVE FALSE
    OBVIOUS
  <2>2. Bad \in SUBSET Nat
    OBVIOUS
  <2> HIDE DEF Bad
  <2>3. PICK n : n = Min(Bad)
    OBVIOUS
  <2>4. n \in Bad /\ \A k \in Bad : n <= k
    BY <2>1, <2>2, <2>3, LeastPlace
  <2>5. n \in Nat /\ n <= m - t /\ ~Good(m - n)
    BY <2>4 DEF Bad
  <2>6. PICK a \in Nat : a = m - n /\ a >= t
    BY <2>5
  <2>7. \E f \in [(a + 1)..m -> Nat] : Sol(f, a + 1)
    <3>1. CASE n = 0
      <4>1. (a + 1)..m = {} /\ a = m
        BY <2>6, <3>1
      <4>2. [b \in (a + 1)..m |-> 0] \in [(a + 1)..m -> Nat] /\ Sol([b \in (a + 1)..m |-> 0], a + 1)
        BY <4>1
      <4> QED BY <4>2
    <3>2. CASE n # 0
      <4>1. n - 1 \in Nat /\ n - 1 <= m - t /\ ~(n - 1 \in Bad)
        BY <2>4, <2>5, <3>2
      <4>2. Good(m - (n - 1)) /\ m - (n - 1) = a + 1
        BY <4>1, <2>5, <2>6 DEF Bad
      <4>3. PICK c : c = m - (n - 1)
        OBVIOUS
      <4>4. Good(c) /\ c = a + 1
        BY <4>2, <4>3
      <4> QED BY <4>4
    <3> QED BY <3>1, <3>2
  <2>8. PICK f \in [(a + 1)..m -> Nat] : Sol(f, a + 1)
    BY <2>7
  <2> DEFINE g == [b \in a..m |-> IF b = a THEN (IF a * 2 <= m - t THEN f[a * 2] ELSE a) ELSE f[b]]
  <2>9. g \in [a..m -> Nat]
    <3>1. a * 2 <= m - t => a * 2 \in (a + 1)..m
      BY <2>6
    <3>2. ASSUME NEW b \in a..m, b # a PROVE b \in (a + 1)..m
      BY <2>6, <3>2
    <3> QED BY <2>8, <3>1, <3>2
  <2>10. Sol(g, a)
    <3> SUFFICES ASSUME NEW b \in a..m
                 PROVE  g[b] = IF b * 2 <= m - t THEN g[b * 2] ELSE b
      OBVIOUS
    <3>1. b * 2 <= m - t => b * 2 \in a..m /\ b * 2 # a
      BY <2>6
    <3>2. b * 2 <= m - t => g[b * 2] = f[b * 2]
      BY <3>1
    <3>3. CASE b = a
      BY <3>2, <3>3
    <3>4. CASE b # a
      <4>1. b \in (a + 1)..m
        BY <2>6, <3>4
      <4>2. f[b] = IF b * 2 <= m - t THEN f[b * 2] ELSE b
        BY <2>8, <4>1
      <4> QED BY <3>2, <3>4, <4>2
    <3> QED BY <3>3, <3>4
  <2> HIDE DEF g
  <2>11. Good(a)
    BY <2>9, <2>10
  <2>12. PICK c : c = m - n
    OBVIOUS
  <2>13. ~Good(c) /\ c = a
    BY <2>5, <2>6, <2>12
  <2> QED BY <2>11, <2>13
<1>2. Good(t)
  <2>1. PICK n \in Nat : n = m - t
    OBVIOUS
  <2>2. PICK c : c = m - n
    OBVIOUS
  <2>3. c = t /\ n <= m - t
    BY <2>1, <2>2
  <2> HIDE DEF Good
  <2>4. Good(c)
    BY <1>1, <2>2, <2>3
  <2> QED BY <2>3, <2>4
<1>3. PICK f \in [t..m -> Nat] : Sol(f, t)
  BY <1>2
<1>4. f = [b \in t..m |-> IF b * 2 <= m - t THEN f[b * 2] ELSE b]
  BY <1>3
<1> QED BY <1>4
LEMMA BoundaryFits ==
  ASSUME NEW t \in Nat \ {0}, MaxFrames \in Nat, 5 * t <= MaxFrames
  PROVE  \E k \in Nat : k >= 4 /\ Boundary(t) = k * t
<1>1. PICK m \in Nat : m = MaxFrames
  OBVIOUS
<1>2. PICK f : f = CHOOSE h : h = [b \in t..m |-> IF b * 2 <= m - t THEN h[b * 2] ELSE b]
  OBVIOUS
<1>3. f = [b \in t..m |-> IF b * 2 <= m - t THEN f[b * 2] ELSE b]
  <2>1. \E g : g = [b \in t..m |-> IF b * 2 <= m - t THEN g[b * 2] ELSE b]
    <3>1. t <= m
      BY <1>1
    <3> QED BY <3>1, DoublingEnds
  <2> QED BY <1>2, <2>1, Zenon
<1>4. Boundary(t) = f[t]
  BY <1>1, <1>2, ZenonT(60) DEF Boundary
<1>5. \A b \in t..m : f[b] = IF b * 2 <= m - t THEN f[b * 2] ELSE b
  BY <1>3, Zenon
<1>6. f[t] = f[t * 4]
  <2>1. t \in t..m /\ t * 2 \in t..m /\ t * 2 <= m - t /\ (t * 2) * 2 <= m - t /\ t * 4 = (t * 2) * 2
    BY <1>1
  <2> QED BY <1>5, <2>1
<1> DEFINE Up == {b \in t..m : (\E k \in Nat : k >= 4 /\ b = k * t) /\ b >= 4 * t
                                /\ ~(\E k \in Nat : k >= 4 /\ f[b] = k * t)}
           Back == {n \in Nat : n <= m /\ m - n \in Up}
<1>7. Back = {}
  <2>1. SUFFICES ASSUME Back # {} PROVE FALSE
    OBVIOUS
  <2>2. Back \in SUBSET Nat
    OBVIOUS
  <2> HIDE DEF Back
  <2>3. PICK n : n = Min(Back)
    OBVIOUS
  <2>4. n \in Back /\ \A k \in Back : n <= k
    BY <2>1, <2>2, <2>3, LeastPlace
  <2>5. PICK b : b = m - n
    OBVIOUS
  <2>6. n \in Nat /\ n <= m /\ b \in Up
    BY <2>4, <2>5 DEF Back
  <2>7. b \in t..m /\ b >= 4 * t /\ ~(\E k \in Nat : k >= 4 /\ f[b] = k * t)
    BY <2>6
  <2>8. PICK k \in Nat : k >= 4 /\ b = k * t
    BY <2>6
  <2>9. b * 2 <= m - t /\ f[b] = f[b * 2]
    BY <1>5, <2>7, <2>8
  <2>10. PICK c : c = b * 2
    OBVIOUS
  <2>11. c \in t..m /\ c >= 4 * t /\ c > b
    BY <2>7, <2>9, <2>10
  <2>12. k * 2 \in Nat /\ k * 2 >= 4 /\ c = (k * 2) * t
    BY <2>8, <2>10
  <2>13. c \in Up
    BY <2>7, <2>9, <2>10, <2>11, <2>12
  <2>14. PICK d : d = m - c
    OBVIOUS
  <2>15. d \in Nat /\ d <= m /\ m - d = c /\ d < n
    BY <2>5, <2>6, <2>7, <2>11, <2>14
  <2> HIDE DEF Up
  <2>16. d \in Back
    BY <2>13, <2>15 DEF Back
  <2> QED BY <2>4, <2>6, <2>15, <2>16
<1>8. t * 4 \in t..m /\ t * 4 = 4 * t
  BY <1>1
<1>9. \E k \in Nat : k >= 4 /\ f[t * 4] = k * t
  <2>1. SUFFICES ASSUME ~(\E k \in Nat : k >= 4 /\ f[t * 4] = k * t) PROVE FALSE
    OBVIOUS
  <2>2. t * 4 \in Up
    BY <1>8, <2>1
  <2>3. PICK d : d = m - t * 4
    OBVIOUS
  <2>4. d \in Nat /\ d <= m /\ m - d = t * 4
    BY <1>8, <2>3
  <2> HIDE DEF Up
  <2>5. d \in Back
    BY <2>2, <2>4
  <2> HIDE DEF Back
  <2> QED BY <1>7, <2>5
<1> QED BY <1>4, <1>6, <1>9

-----------------------------------------------------------------------------
(* Arithmetic that the solver does not find by itself.                     *)
LEMMA Quotient ==
  ASSUME NEW x \in Nat, NEW d \in Nat \ {0}
  PROVE  /\ (x * d) \div d = x
         /\ (x \div d) \in Nat /\ (x % d) \in Nat /\ (x % d) < d
         /\ x = (x \div d) * d + (x % d)
<1>1. ASSUME NEW y \in Nat
      PROVE  /\ (y \div d) \in Nat /\ (y % d) \in Nat /\ (y % d) < d
             /\ y = (y \div d) * d + (y % d)
  <2>1. (y \div d) \in Nat
    OBVIOUS
  <2>2. (y % d) \in 0..(d - 1)
    OBVIOUS
  <2>3. y = d * (y \div d) + (y % d)
    OBVIOUS
  <2> QED BY <2>1, <2>2, <2>3
<1>2. x * d \in Nat
  OBVIOUS
<1>3. PICK y \in Nat : y = x * d
  BY <1>2
<1>4. PICK q \in Nat : q = y \div d
  BY <1>1
<1>5. PICK r \in Nat : r = y % d
  BY <1>1
<1>6. x * d = q * d + r /\ r < d
  BY <1>1, <1>3, <1>4, <1>5
<1>7. x = q
  <2>1. ASSUME x < q PROVE FALSE
    <3>1. q = x + (q - x) /\ q - x >= 1 /\ q * d = x * d + (q - x) * d /\ (q - x) * d >= d
      BY <2>1
    <3> QED BY <1>6, <3>1
  <2>2. ASSUME x > q PROVE FALSE
    <3>1. x = q + (x - q) /\ x - q >= 1 /\ x * d = q * d + (x - q) * d /\ (x - q) * d >= d
      BY <2>2
    <3> QED BY <1>6, <3>1
  <2> QED BY <2>1, <2>2
<1> QED BY <1>1, <1>3, <1>4, <1>7

LEMMA WholePeriods ==
  ASSUME NEW x \in Nat, NEW d \in Nat \ {0}, NEW q \in Nat, q * d <= x
  PROVE  q * d <= (x \div d) * d
<1>1. PICK y \in Nat : y = x \div d
  BY Quotient
<1>2. PICK r \in Nat : r = x % d /\ r < d /\ x = y * d + r
  BY <1>1, Quotient
<1>3. q <= y
  <2>1. SUFFICES ASSUME q > y PROVE FALSE
    OBVIOUS
  <2>2. q = y + (q - y) /\ q - y >= 1 /\ q * d = y * d + (q - y) * d /\ (q - y) * d >= d
    BY <2>1
  <2> QED BY <1>2, <2>2
<1>4. y = q + (y - q) /\ y - q \in Nat /\ y * d = q * d + (y - q) * d /\ (y - q) * d \in Nat
  BY <1>3
<1> QED BY <1>1, <1>4

LEMMA NextBuffer ==
  ASSUME NEW t \in Nat \ {0}, NEW b \in Nat, NEW k \in Nat, b * t < k * t
  PROVE  b * t + t <= k * t /\ b * t + t = (b + 1) * t
<1>1. b < k
  <2>1. SUFFICES ASSUME b >= k PROVE FALSE
    OBVIOUS
  <2>2. b = k + (b - k) /\ b - k \in Nat /\ b * t = k * t + (b - k) * t /\ (b - k) * t \in Nat
    BY <2>1
  <2> QED BY <2>2
<1>2. k = b + 1 + (k - b - 1) /\ k - b - 1 \in Nat
      /\ k * t = b * t + t + (k - b - 1) * t /\ (k - b - 1) * t \in Nat
  BY <1>1
<1> QED BY <1>2

(* Bytes and frames are exact inverses of one another.                     *)
FrameBytes == hw.channels * (agm_format_to_bits(hw.format) \div 8)

LEMMA HwTypes ==
  ASSUME hw \in HwParams
  PROVE  /\ hw.period \in Nat \ {0} /\ hw.periods \in Nat \ {0} /\ hw.channels \in Nat \ {0}
         /\ total_size_frames \in Nat \ {0} /\ period_size \in Nat \ {0}
         /\ period_size <= total_size_frames
         /\ FrameBytes \in Nat \ {0}
<1>1. hw.period \in Nat \ {0} /\ hw.periods \in Nat \ {0} /\ hw.channels \in Nat \ {0}
  BY PcmAssumption
<1>2. ASSUME NEW a \in Nat \ {0}, NEW b \in Nat \ {0} PROVE a * b \in Nat \ {0} /\ a <= a * b
  <2>1. a * b = a + a * (b - 1) /\ b - 1 \in Nat /\ a * (b - 1) \in Nat
    OBVIOUS
  <2> QED BY <2>1
<1>3. (agm_format_to_bits(hw.format) \div 8) \in Nat \ {0}
  BY DEF agm_format_to_bits
<1>4. PICK w \in Nat \ {0} : w = agm_format_to_bits(hw.format) \div 8
  BY <1>3
<1>5. FrameBytes = hw.channels * w
  BY <1>4 DEF FrameBytes
<1>6. FrameBytes \in Nat \ {0}
  BY <1>1, <1>2, <1>5
<1> QED BY <1>1, <1>2, <1>6 DEF total_size_frames, period_size

LEMMA FramesAndBytes ==
  ASSUME hw \in HwParams, NEW x \in Nat
  PROVE  /\ agm_pcm_frames_to_bytes(hw, x) = x * FrameBytes
         /\ x * FrameBytes \in Nat
         /\ agm_pcm_bytes_to_frames(x * FrameBytes, hw) = x
<1>1. PICK c \in Nat \ {0} : c = hw.channels
  BY HwTypes
<1>2. PICK w \in Nat \ {0} : w = agm_format_to_bits(hw.format) \div 8
                              /\ agm_format_to_bits(hw.format) = w * 8
  BY DEF agm_format_to_bits
<1>3. PICK f \in Nat \ {0} : f = FrameBytes
  BY HwTypes
<1>4. f = c * w
  BY <1>1, <1>2, <1>3 DEF FrameBytes
<1>5. agm_pcm_frames_to_bytes(hw, x) = x * f
  <2>1. agm_pcm_frames_to_bytes(hw, x) = (x * c) * w
    BY <1>1, <1>2 DEF agm_pcm_frames_to_bytes
  <2> QED BY <1>4, <2>1
<1>6. x * f \in Nat
  OBVIOUS
<1>7. agm_pcm_bytes_to_frames(x * f, hw) = x
  <2>1. agm_pcm_bytes_to_frames(x * f, hw) = ((x * f) * 8) \div (c * (w * 8))
    BY <1>1, <1>2 DEF agm_pcm_bytes_to_frames
  <2>2. c * (w * 8) = f * 8
    BY <1>4
  <2>3. (x * f) * 8 = x * (f * 8)
    OBVIOUS
  <2>4. PICK d \in Nat \ {0} : d = f * 8
    OBVIOUS
  <2>5. (x * d) \div d = x
    BY Quotient
  <2> QED BY <2>1, <2>2, <2>3, <2>4, <2>5
<1> QED BY <1>3, <1>5, <1>6, <1>7

-----------------------------------------------------------------------------
(* What the plugin knows of a stream that it follows: where its pointers   *)
(* are in the buffer, how far the DSP and the client are from them, and    *)
(* that the client's is off by a whole boundary at most.                   *)
Pos == [hw_ptr: Nat, hw_ptr_base: Nat, appl_ptr: Nat, boundary: Nat]

Room(g) == IF Has("in") THEN 0 - g ELSE total_size_frames - g

InBuffer(p, t) ==
  LET ahead == p.hw_ptr - p.hw_ptr_base + t
  IN IF ahead < total_size_frames THEN ahead ELSE ahead - total_size_frames

Follows(p, i, t, g) ==
  /\ p \in Pos /\ t \in Nat /\ t < total_size_frames /\ g \in Int
  /\ p.boundary = Boundary(total_size_frames)
  /\ p.hw_ptr_base < p.boundary
  /\ \E b \in 0..p.hw_ptr_base : p.hw_ptr_base = b * total_size_frames
  /\ p.hw_ptr < p.hw_ptr_base + total_size_frames
  /\ \E q \in 0..p.hw_ptr : p.hw_ptr = p.hw_ptr_base + q * period_size
  /\ p.appl_ptr < p.boundary
  /\ i = InBuffer(p, t) * FrameBytes
  /\ Room(g) >= 0 /\ Room(g) + t <= 2 * total_size_frames
  /\ p.appl_ptr - p.hw_ptr - g \in {0 - p.boundary, 0, p.boundary}

PcmInv ==
  /\ plugin \in {"null", "open", "configured", "mapped", "unmapped"}
  /\ mode \in Modes /\ hw \in HwParams
  /\ plugin \in {"open", "configured"} => index = 0 /\ truth = 0 /\ gap = 0
  /\ plugin = "open" => pos = NoPos
  /\ plugin = "configured" =>
       pos \in {NoPos, [NoPos EXCEPT !.boundary = Boundary(total_size_frames)]}
  /\ poll # "no" => Tracked
  /\ Tracked => Follows(pos, index, truth, gap)

(* The buffer, its boundary, and the pointers of a followed stream.        *)
LEMMA TotalAndBoundary ==
  ASSUME hw \in HwParams
  PROVE  \E k \in Nat : k >= 4 /\ Boundary(total_size_frames) = k * total_size_frames
                         /\ k * total_size_frames \in Nat
                         /\ k * total_size_frames >= 4 * total_size_frames
<1>1. PICK n \in Nat \ {0} : n = total_size_frames
  BY HwTypes
<1>2. 5 * n <= MaxFrames /\ MaxFrames \in Nat
  BY <1>1, PcmAssumption DEF total_size_frames
<1>3. PICK k \in Nat : k >= 4 /\ Boundary(n) = k * n
  BY <1>2, BoundaryFits
<1>4. k * n = 4 * n + (k - 4) * n /\ k - 4 \in Nat /\ (k - 4) * n \in Nat
  BY <1>3
<1> QED BY <1>1, <1>3, <1>4

(* What the plugin says is available is what is.                           *)
LEMMA AvailIsRoom ==
  ASSUME hw \in HwParams, mode \in Modes, NEW p, NEW i, NEW t, NEW g, Follows(p, i, t, g)
  PROVE  /\ mode \cap {"in", "out"} # {} =>
              agm_pcm_get_avail(p, total_size_frames) = Room(g)
         /\ mode \cap {"in", "out"} = {} => agm_pcm_get_avail(p, total_size_frames) = 0
<1>1. PICK n \in Nat \ {0} : n = total_size_frames
  BY HwTypes
<1>2. PICK H \in Nat : H = p.hw_ptr
  BY DEF Follows, Pos
<1>3. PICK B \in Nat : B = p.hw_ptr_base
  BY DEF Follows, Pos
<1>4. PICK A \in Nat : A = p.appl_ptr
  BY DEF Follows, Pos
<1>5. PICK K \in Nat : K = p.boundary
  BY DEF Follows, Pos
<1>6. PICK k \in Nat : K = k * n /\ k * n >= 4 * n
  BY <1>1, <1>5, TotalAndBoundary DEF Follows
<1>7. PICK b \in Nat : B = b * n
  BY <1>1, <1>3 DEF Follows
<1>8. H < B + n /\ B < K /\ A < K /\ A - H - g \in {0 - K, 0, K} /\ g \in Int /\ K >= 4 * n
  BY <1>1, <1>2, <1>3, <1>4, <1>5, <1>6 DEF Follows
<1>9. B + n <= K
  BY <1>6, <1>7, <1>8, NextBuffer
<1>10. Room(g) >= 0 /\ Room(g) <= 2 * n
  BY <1>1 DEF Follows, Room
<1>11. ~({"in", "out"} \subseteq mode)
  BY PcmAssumption
<1>12. CASE Has("out")
  <2>1. Room(g) = n - g /\ ~Has("in")
    BY <1>1, <1>11, <1>12 DEF Room, Has
  <2>2. agm_pcm_get_avail(p, n) =
          IF H + n - A >= K THEN H + n - A - K ELSE IF H + n - A < 0 THEN H + n - A + K ELSE H + n - A
    BY <1>2, <1>4, <1>5, <1>12 DEF agm_pcm_get_avail
  <2>3. agm_pcm_get_avail(p, n) = n - g
    BY <1>8, <1>9, <1>10, <2>1, <2>2
  <2>4. mode \cap {"in", "out"} # {}
    BY <1>12 DEF Has
  <2> QED BY <1>1, <2>1, <2>3, <2>4
<1>13. CASE ~Has("out") /\ Has("in")
  <2>1. Room(g) = 0 - g
    BY <1>13 DEF Room
  <2>2. agm_pcm_get_avail(p, n) = IF H - A < 0 THEN H - A + K ELSE H - A
    BY <1>2, <1>4, <1>5, <1>13 DEF agm_pcm_get_avail
  <2>3. agm_pcm_get_avail(p, n) = 0 - g
    BY <1>8, <1>9, <1>10, <2>1, <2>2
  <2>4. mode \cap {"in", "out"} # {}
    BY <1>13 DEF Has
  <2> QED BY <1>1, <2>1, <2>3, <2>4
<1>14. CASE ~Has("out") /\ ~Has("in")
  <2>1. agm_pcm_get_avail(p, n) = 0
    BY <1>14 DEF agm_pcm_get_avail
  <2>2. mode \cap {"in", "out"} = {}
    BY <1>14 DEF Has
  <2> QED BY <1>1, <2>1, <2>2
<1> QED BY <1>12, <1>13, <1>14

(* A stream that is mapped starts at zero.                                 *)
LEMMA FollowsAtFirst ==
  ASSUME hw \in HwParams
  PROVE  Follows([NoPos EXCEPT !.boundary = Boundary(total_size_frames)], 0, 0, 0)
<1>1. PICK n \in Nat \ {0} : n = total_size_frames
  BY HwTypes
<1>2. PICK k \in Nat : Boundary(n) = k * n /\ k * n >= 4 * n /\ k * n \in Nat
  BY <1>1, TotalAndBoundary
<1>3. PICK p : p = [NoPos EXCEPT !.boundary = Boundary(n)]
  OBVIOUS
<1>4. /\ p \in Pos /\ p.hw_ptr = 0 /\ p.hw_ptr_base = 0 /\ p.appl_ptr = 0
      /\ p.boundary = Boundary(n) /\ p.boundary > 0
  BY <1>2, <1>3 DEF NoPos, Pos
<1>5. PICK z \in Nat : z = 0
  OBVIOUS
<1>6. z = InBuffer(p, z) * FrameBytes
  <2>1. InBuffer(p, z) = 0 /\ 0 * FrameBytes = 0
    BY <1>1, <1>4, <1>5, HwTypes DEF InBuffer
  <2> QED BY <1>5, <2>1
<1>7. Room(z) >= 0 /\ Room(z) + z <= 2 * n /\ z \in Int
  BY <1>1, <1>5 DEF Room
<1>8. Follows(p, z, z, z)
  <2>1. /\ \E b \in 0..p.hw_ptr_base : p.hw_ptr_base = b * n
        /\ \E q \in 0..p.hw_ptr : p.hw_ptr = p.hw_ptr_base + q * period_size
    <3>1. (\E b \in 0..0 : 0 = b * n) /\ (\E q \in 0..0 : 0 = 0 + q * period_size)
      BY HwTypes
    <3> QED BY <1>4, <3>1
  <2>2. p.appl_ptr - p.hw_ptr - z = 0
    BY <1>4, <1>5
  <2>3. /\ p.hw_ptr < p.hw_ptr_base + n /\ p.appl_ptr < p.boundary
        /\ p.hw_ptr_base < p.boundary /\ z < n
    BY <1>2, <1>4, <1>5
  <2> QED BY <1>1, <1>4, <1>6, <1>7, <2>1, <2>2, <2>3 DEF Follows
<1> QED BY <1>1, <1>3, <1>5, <1>8

(* The DSP moves by a frame.                                               *)
LEMMA FollowsDsp ==
  ASSUME hw \in HwParams, NEW p, NEW i, NEW t, NEW g, Follows(p, i, t, g),
         t + 1 < total_size_frames, Room(g) + t + 1 <= 2 * total_size_frames
  PROVE  Follows(p, (i + agm_pcm_frames_to_bytes(hw, 1))
                      % agm_pcm_frames_to_bytes(hw, total_size_frames), t + 1, g)
<1>1. PICK n \in Nat \ {0} : n = total_size_frames
  BY HwTypes
<1>2. PICK F \in Nat \ {0} : F = FrameBytes
  BY HwTypes
<1>3. PICK a \in Nat : a = p.hw_ptr - p.hw_ptr_base /\ a < n
  <2>1. PICK q \in Nat : p.hw_ptr = p.hw_ptr_base + q * period_size
    BY DEF Follows, Pos
  <2>2. q * period_size \in Nat
    BY HwTypes
  <2> QED BY <1>1, <2>1, <2>2 DEF Follows, Pos
<1>4. t \in Nat /\ t + 1 < n
  BY <1>1 DEF Follows
<1>5. PICK x \in Nat : x = InBuffer(p, t) /\ x < n
  BY <1>1, <1>3, <1>4 DEF InBuffer
<1>6. InBuffer(p, t + 1) = IF x + 1 = n THEN 0 ELSE x + 1
  <2>1. x = IF a + t < n THEN a + t ELSE a + t - n
    BY <1>1, <1>3, <1>4, <1>5 DEF InBuffer
  <2>2. InBuffer(p, t + 1) = IF a + t + 1 < n THEN a + t + 1 ELSE a + t + 1 - n
    BY <1>1, <1>3, <1>4 DEF InBuffer
  <2> QED BY <1>3, <1>4, <2>1, <2>2
<1>7. i = x * F /\ agm_pcm_frames_to_bytes(hw, 1) = F /\ agm_pcm_frames_to_bytes(hw, n) = n * F
  <2>1. agm_pcm_frames_to_bytes(hw, 1) = 1 * F /\ agm_pcm_frames_to_bytes(hw, n) = n * F
    BY <1>2, FramesAndBytes
  <2> QED BY <1>2, <1>5, <2>1 DEF Follows
<1>8. PICK y \in Nat : y = (x + 1) * F /\ y = i + F
  BY <1>7
<1>9. y % (n * F) = InBuffer(p, t + 1) * F
  <2>1. CASE x + 1 = n
    <3>1. PICK d \in Nat \ {0} : d = n * F
      OBVIOUS
    <3>2. y = d /\ d % d = 0
      BY <1>8, <2>1, <3>1
    <3>3. InBuffer(p, t + 1) = 0 /\ 0 * F = 0
      BY <1>6, <2>1
    <3> QED BY <3>1, <3>2, <3>3
  <2>2. CASE x + 1 < n
    <3>1. PICK d \in Nat : d = (n - (x + 1)) * F
      BY <2>2
    <3>2. n * F = y + d /\ d >= F
      <4>1. n - (x + 1) >= 1 /\ (n - (x + 1)) * F = F + (n - (x + 1) - 1) * F
            /\ n - (x + 1) - 1 \in Nat /\ (n - (x + 1) - 1) * F \in Nat
        BY <2>2
      <4>2. n * F = (x + 1) * F + (n - (x + 1)) * F
        BY <2>2
      <4> QED BY <1>8, <3>1, <4>1, <4>2
    <3>3. PICK m \in Nat \ {0} : m = n * F
      OBVIOUS
    <3>4. y < m
      BY <3>2, <3>3
    <3>5. y % m = y
      BY <3>4
    <3> QED BY <1>6, <1>8, <2>2, <3>3, <3>5
  <2> QED BY <1>5, <2>1, <2>2
<1>10. t + 1 \in Nat /\ Room(g) + (t + 1) <= 2 * n
  BY <1>1, <1>4 DEF Room, Follows
<1>11. PICK j : j = (i + agm_pcm_frames_to_bytes(hw, 1)) % agm_pcm_frames_to_bytes(hw, n)
  OBVIOUS
<1>12. j = InBuffer(p, t + 1) * FrameBytes
  BY <1>2, <1>7, <1>8, <1>9, <1>11
<1>13. Follows(p, j, t + 1, g)
  BY <1>1, <1>4, <1>10, <1>12 DEF Follows
<1> QED BY <1>1, <1>11, <1>13

(* The plugin takes over the position that the DSP has published.          *)
LEMMA FollowsLook ==
  ASSUME hw \in HwParams, NEW p, NEW i, NEW t, NEW g, Follows(p, i, t, g)
  PROVE  LET left == agm_pcm_bytes_to_frames(i, hw) % period_size
         IN Follows(agm_pcm_plugin_update_hw_ptr(p, i, total_size_frames), i, left,
                    g - (t - left))
<1>1. PICK n \in Nat \ {0} : n = total_size_frames
  BY HwTypes
<1>2. PICK F \in Nat \ {0} : F = FrameBytes
  BY HwTypes
<1>3. PICK P \in Nat \ {0} : P = period_size /\ P <= n
  BY <1>1, HwTypes
<1>4. PICK H \in Nat : H = p.hw_ptr
  BY DEF Follows, Pos
<1>5. PICK B \in Nat : B = p.hw_ptr_base
  BY DEF Follows, Pos
<1>6. PICK A \in Nat : A = p.appl_ptr
  BY DEF Follows, Pos
<1>7. PICK K \in Nat : K = p.boundary
  BY DEF Follows, Pos
<1>8. PICK k \in Nat : K = k * n /\ k * n >= 4 * n
  BY <1>1, <1>7, TotalAndBoundary DEF Follows
<1>9. PICK b \in Nat : B = b * n
  BY <1>1, <1>5 DEF Follows
<1>10. H < B + n /\ B < K /\ A < K /\ A - H - g \in {0 - K, 0, K} /\ g \in Int /\ K >= 4 * n
       /\ t \in Nat /\ t < n
  BY <1>1, <1>4, <1>5, <1>6, <1>7, <1>8 DEF Follows
<1>11. B + n <= K /\ B + n = (b + 1) * n
  BY <1>8, <1>9, <1>10, NextBuffer
<1>12. PICK q \in Nat : H = B + q * P
  BY <1>3, <1>4, <1>5 DEF Follows
<1>13. PICK a \in Nat : a = q * P /\ H = B + a /\ a < n
  BY <1>10, <1>12
<1>14. PICK x \in Nat : x = InBuffer(p, t) /\ x < n /\ x = IF a + t < n THEN a + t ELSE a + t - n
  BY <1>1, <1>4, <1>5, <1>10, <1>13 DEF InBuffer
<1>15. i = x * F /\ agm_pcm_bytes_to_frames(i, hw) = x
  <2>1. i = x * F
    BY <1>2, <1>14 DEF Follows
  <2> QED BY <1>2, <2>1, FramesAndBytes
<1>16. PICK s \in Nat : s = x \div P
  BY Quotient
<1>17. PICK left \in Nat : left = x % P /\ left < P /\ x = s * P + left
  BY <1>16, Quotient
<1>18. PICK at \in Nat : at = s * P
  BY <1>16
<1>19. x = at + left /\ at <= x
  BY <1>17, <1>18
<1>20. a + t < n => at >= a
  <2>1. SUFFICES ASSUME a + t < n PROVE at >= a
    OBVIOUS
  <2>2. q * P <= x
    BY <1>10, <1>13, <1>14, <2>1
  <2> QED BY <1>13, <1>16, <1>18, <2>2, WholePeriods
<1>21. a + t >= n => at < a
  BY <1>10, <1>13, <1>14, <1>19
<1>22. PICK base \in Nat : base = IF B + at >= H THEN B ELSE IF B + n >= K THEN 0 ELSE B + n
  OBVIOUS
<1>23. PICK p2 : p2 = agm_pcm_plugin_update_hw_ptr(p, i, n)
  OBVIOUS
<1>24. p2 = [p EXCEPT !.hw_ptr_base = base, !.hw_ptr = base + at]
  BY <1>3, <1>4, <1>5, <1>7, <1>15, <1>16, <1>18, <1>22, <1>23 DEF agm_pcm_plugin_update_hw_ptr
<1>25. p \in Pos
  BY DEF Follows
<1>26. /\ p2 \in Pos /\ p2.hw_ptr = base + at /\ p2.hw_ptr_base = base
       /\ p2.appl_ptr = A /\ p2.boundary = K
  <2>1. PICK h2 \in Nat : h2 = base + at
    OBVIOUS
  <2>2. p2 = [p EXCEPT !.hw_ptr_base = base, !.hw_ptr = h2]
    BY <1>24, <2>1
  <2> QED BY <1>6, <1>7, <1>25, <2>1, <2>2 DEF Pos
<1>27. base < K /\ (\E c \in 0..base : base = c * n)
  <2>1. CASE base = B
    <3>1. b <= b * n
      <4>1. b * n = b + b * (n - 1) /\ n - 1 \in Nat /\ b * (n - 1) \in Nat
        OBVIOUS
      <4> QED BY <4>1
    <3> QED BY <1>9, <1>10, <2>1, <3>1
  <2>2. CASE base = 0
    <3>1. 0 = 0 * n
      OBVIOUS
    <3> QED BY <1>10, <2>2, <3>1
  <2>3. CASE base = B + n /\ B + n < K
    <3>1. b + 1 <= (b + 1) * n
      <4>1. (b + 1) * n = b + 1 + (b + 1) * (n - 1) /\ n - 1 \in Nat /\ (b + 1) * (n - 1) \in Nat
        OBVIOUS
      <4> QED BY <4>1
    <3>2. PICK c \in Nat : c = b + 1
      OBVIOUS
    <3>3. c \in 0..base /\ base = c * n
      BY <1>11, <2>3, <3>1, <3>2
    <3> QED BY <2>3, <3>3
  <2> QED BY <1>22, <2>1, <2>2, <2>3
<1>28. base + at < base + n
  BY <1>14, <1>19
<1>29. \E c \in 0..(base + at) : base + at = base + c * P
  <2>1. s <= s * P
    <3>1. s * P = s + s * (P - 1) /\ P - 1 \in Nat /\ s * (P - 1) \in Nat
      OBVIOUS
    <3> QED BY <3>1
  <2> QED BY <1>18, <2>1
<1>30. InBuffer(p2, left) = x
  BY <1>1, <1>14, <1>19, <1>26 DEF InBuffer
<1>31. PICK g2 \in Int : g2 = g - (t - left)
  BY <1>10
<1>32. left <= t
  BY <1>10, <1>13, <1>14, <1>19, <1>20
<1>33. Room(g2) >= 0 /\ Room(g2) + left <= 2 * n
  BY <1>1, <1>10, <1>31, <1>32 DEF Room, Follows
<1>34. A - (base + at) - g2 \in {0 - K, 0, K}
  <2>1. g2 >= 0 - 2 * n /\ g2 <= n
    BY <1>1, <1>10, <1>33 DEF Room
  <2>2. CASE a + t < n
    <3>1. base = B /\ at + left = a + t
      BY <1>13, <1>14, <1>19, <1>20, <1>22, <2>2
    <3>2. A - (base + at) - g2 = A - H - g
      BY <1>10, <1>13, <1>31, <3>1
    <3> QED BY <1>10, <3>2
  <2>3. CASE a + t >= n
    <3>1. at + left = a + t - n /\ at < a
      BY <1>13, <1>14, <1>19, <1>21, <2>3
    <3>2. CASE B + n < K
      <4>1. base = B + n
        BY <1>13, <1>22, <3>1, <3>2
      <4>2. A - (base + at) - g2 = A - H - g
        BY <1>10, <1>13, <1>31, <3>1, <4>1
      <4> QED BY <1>10, <4>2
    <3>3. CASE B + n >= K
      <4>1. base = 0 /\ B + n = K
        BY <1>11, <1>13, <1>22, <3>1, <3>3
      <4>2. A - (base + at) - g2 = A - H - g + K
        BY <1>10, <1>13, <1>31, <3>1, <4>1
      <4>3. A - (base + at) - g2 < 2 * K
        BY <1>10, <2>1, <4>1
      <4> QED BY <1>10, <4>2, <4>3
    <3> QED BY <3>2, <3>3
  <2> QED BY <1>10, <1>13, <2>2, <2>3
<1>35. i = InBuffer(p2, left) * FrameBytes
  BY <1>2, <1>15, <1>30
<1>36. p2.boundary = Boundary(n) /\ p2.appl_ptr < p2.boundary
  BY <1>1, <1>7, <1>10, <1>26 DEF Follows
<1>37. Follows(p2, i, left, g2)
  <2>1. /\ \E c \in 0..p2.hw_ptr_base : p2.hw_ptr_base = c * n
        /\ p2.hw_ptr_base < p2.boundary
    BY <1>26, <1>27
  <2>2. \E c \in 0..p2.hw_ptr : p2.hw_ptr = p2.hw_ptr_base + c * P
    BY <1>26, <1>29
  <2>3. p2.hw_ptr < p2.hw_ptr_base + n /\ left < n
    BY <1>3, <1>17, <1>26, <1>28
  <2>4. p2.appl_ptr - p2.hw_ptr - g2 \in {0 - p2.boundary, 0, p2.boundary}
    BY <1>26, <1>34
  <2> QED BY <1>1, <1>3, <1>26, <1>33, <1>35, <1>36, <2>1, <2>2, <2>3, <2>4 DEF Follows
<1> QED BY <1>1, <1>3, <1>15, <1>17, <1>23, <1>31, <1>37

(* The client moves its pointer by what it has transferred.                *)
LEMMA FollowsTransfer ==
  ASSUME hw \in HwParams, mode \in Modes, NEW p, NEW i, NEW t, NEW g, Follows(p, i, t, g),
         NEW d \in 1..agm_pcm_get_avail(p, total_size_frames)
  PROVE  Follows([p EXCEPT !.appl_ptr = (@ + d) % p.boundary], i, t, g + d)
<1>1. PICK n \in Nat \ {0} : n = total_size_frames
  BY HwTypes
<1>2. PICK H \in Nat : H = p.hw_ptr
  BY DEF Follows, Pos
<1>3. PICK B \in Nat : B = p.hw_ptr_base
  BY DEF Follows, Pos
<1>4. PICK A \in Nat : A = p.appl_ptr
  BY DEF Follows, Pos
<1>5. PICK K \in Nat : K = p.boundary
  BY DEF Follows, Pos
<1>6. PICK k \in Nat : K = k * n /\ k * n >= 4 * n
  BY <1>1, <1>5, TotalAndBoundary DEF Follows
<1>7. PICK b \in Nat : B = b * n
  BY <1>1, <1>3 DEF Follows
<1>8. H < B + n /\ B < K /\ A < K /\ A - H - g \in {0 - K, 0, K} /\ g \in Int /\ K >= 4 * n
      /\ t \in Nat
  BY <1>1, <1>2, <1>3, <1>4, <1>5, <1>6 DEF Follows
<1>9. B + n <= K
  BY <1>6, <1>7, <1>8, NextBuffer
<1>10. Room(g) \in Nat /\ Room(g) + t <= 2 * n
  BY <1>1, <1>8 DEF Follows, Room
<1>11. d \in Nat /\ d <= Room(g)
  <2>1. CASE mode \cap {"in", "out"} # {}
    BY <1>1, <1>10, <2>1, AvailIsRoom
  <2>2. CASE mode \cap {"in", "out"} = {}
    BY <1>1, <1>10, <2>2, AvailIsRoom
  <2> QED BY <2>1, <2>2
<1>12. Room(g + d) = Room(g) - d
  BY <1>1, <1>8, <1>11 DEF Room
<1>13. PICK A2 \in Nat : A2 = (A + d) % K /\ A2 < K /\ A2 = IF A + d < K THEN A + d ELSE A + d - K
  <2>1. CASE A + d < K
    <3>1. (A + d) % K = A + d
      BY <1>8, <1>11, <2>1
    <3> QED BY <1>11, <2>1, <3>1
  <2>2. CASE A + d >= K
    <3>1. A + d - K < K /\ A + d - K \in Nat
      BY <1>8, <1>10, <1>11, <2>2
    <3>2. (A + d) % K = A + d - K
      BY <1>8, <1>11, <2>2, <3>1
    <3> QED BY <2>2, <3>1, <3>2
  <2> QED BY <1>11, <2>1, <2>2
<1>14. PICK p2 : p2 = [p EXCEPT !.appl_ptr = A2]
  OBVIOUS
<1>15. p \in Pos
  BY DEF Follows
<1>16. /\ p2 \in Pos /\ p2.hw_ptr = H /\ p2.hw_ptr_base = B
       /\ p2.appl_ptr = A2 /\ p2.boundary = K
  BY <1>2, <1>3, <1>5, <1>14, <1>15 DEF Pos
<1>17. PICK g2 \in Int : g2 = g + d
  BY <1>8, <1>11
<1>18. A2 - H - g2 \in {0 - K, 0, K}
  <2>1. g2 >= 0 - 2 * n /\ g2 <= n
    BY <1>1, <1>8, <1>10, <1>11, <1>12, <1>17 DEF Room
  <2>2. A2 - H - g2 = A - H - g \/ A2 - H - g2 = A - H - g - K
    BY <1>8, <1>11, <1>13, <1>17
  <2>3. A2 - H - g2 > 0 - 2 * K
    BY <1>8, <1>9, <1>13, <2>1
  <2> QED BY <1>8, <2>2, <2>3
<1>19. InBuffer(p2, t) = InBuffer(p, t)
  BY <1>2, <1>3, <1>16 DEF InBuffer
<1>20. Room(g2) >= 0 /\ Room(g2) + t <= 2 * n
  BY <1>8, <1>10, <1>11, <1>12, <1>17
<1>21. Follows(p2, i, t, g2)
  <2>1. /\ \E c \in 0..p2.hw_ptr_base : p2.hw_ptr_base = c * n
        /\ \E c \in 0..p2.hw_ptr : p2.hw_ptr = p2.hw_ptr_base + c * period_size
    BY <1>1, <1>2, <1>3, <1>16 DEF Follows
  <2>2. /\ p2.hw_ptr_base < p2.boundary /\ p2.hw_ptr < p2.hw_ptr_base + n
        /\ p2.appl_ptr < p2.boundary
    BY <1>8, <1>13, <1>16
  <2>3. p2.boundary = Boundary(n) /\ i = InBuffer(p2, t) * FrameBytes /\ t < n
    BY <1>1, <1>5, <1>16, <1>19 DEF Follows
  <2>4. p2.appl_ptr - p2.hw_ptr - g2 \in {0 - p2.boundary, 0, p2.boundary}
    BY <1>16, <1>18
  <2> QED BY <1>1, <1>8, <1>16, <1>20, <2>1, <2>2, <2>3, <2>4 DEF Follows
<1>22. [p EXCEPT !.appl_ptr = (@ + d) % p.boundary] = p2
  BY <1>4, <1>5, <1>13, <1>14
<1> QED BY <1>17, <1>21, <1>22

-----------------------------------------------------------------------------
LEMMA PcmStarts == PcmInit => PcmInv
<1> SUFFICES ASSUME PcmInit PROVE PcmInv
  OBVIOUS
<1>1. plugin = "null" /\ poll = "no" /\ mode \in Modes /\ hw \in HwParams
  BY DEF PcmInit
<1> QED BY <1>1 DEF PcmInv, Tracked

(* Of what the plugin knows, Follows depends on the two parameters of the  *)
(* stream only.                                                            *)
LEMMA FollowsNext ==
  ASSUME UNCHANGED <<mode, hw>>, Follows(pos', index', truth', gap')
  PROVE  Follows(pos, index, truth, gap)'
  BY DEF Follows, Room, InBuffer, Has, total_size_frames, period_size, FrameBytes

LEMMA PcmTracked ==
  ASSUME PcmInv, Tracked, UNCHANGED <<plugin, mode, hw>>, Follows(pos', index', truth', gap')
  PROVE  PcmInv'
  BY FollowsNext DEF PcmInv, Tracked, Has

LEMMA PcmLooks ==
  ASSUME PcmInv, Tracked, UNCHANGED index, NEW ok \in BOOLEAN, agm_pcm_plugin_get_shared_pos(ok)
  PROVE  Follows(pos', index', truth', gap')
<1>1. Follows(pos, index, truth, gap) /\ hw \in HwParams
  BY DEF PcmInv
<1>2. CASE ok
  <2>1. PICK left : left = agm_pcm_bytes_to_frames(index, hw) % period_size
    OBVIOUS
  <2>2. /\ pos' = agm_pcm_plugin_update_hw_ptr(pos, index, total_size_frames)
        /\ gap' = gap - (truth - left) /\ truth' = left
    BY <1>2, <2>1 DEF agm_pcm_plugin_get_shared_pos
  <2>3. Follows(agm_pcm_plugin_update_hw_ptr(pos, index, total_size_frames), index, left,
                gap - (truth - left))
    BY <1>1, <2>1, FollowsLook
  <2> QED BY <2>2, <2>3
<1>3. CASE ~ok
  BY <1>1, <1>3 DEF agm_pcm_plugin_get_shared_pos
<1> QED BY <1>2, <1>3

LEMMA PcmMoves ==
  ASSUME PcmInv, DspStep \/ agm_pcm_sync_ptr \/ agm_pcm_poll \/ (Tracked /\ agm_pcm_poll_wakes)
  PROVE  PcmInv'
<1>1. hw \in HwParams /\ mode \in Modes /\ (Tracked => Follows(pos, index, truth, gap))
  BY DEF PcmInv
<1>2. \A c : Outcome(c) \subseteq BOOLEAN
  BY Zenon DEF Outcome
<1>3. CASE DspStep
  <2>1. Tracked /\ truth + 1 < total_size_frames /\ Room(gap) + truth + 1 <= 2 * total_size_frames
    BY <1>3 DEF DspStep, TrueAvail, Room
  <2>2. /\ truth' = truth + 1 /\ UNCHANGED <<plugin, mode, hw, pos, gap>>
        /\ index' = (index + agm_pcm_frames_to_bytes(hw, 1))
                      % agm_pcm_frames_to_bytes(hw, total_size_frames)
    BY <1>3 DEF DspStep
  <2>3. Follows(pos', index', truth', gap')
    BY <1>1, <2>1, <2>2, FollowsDsp
  <2> QED BY <2>1, <2>2, <2>3, PcmTracked
<1>4. CASE agm_pcm_sync_ptr
  <2>1. Tracked /\ UNCHANGED <<plugin, mode, hw, index>>
    BY <1>4 DEF agm_pcm_sync_ptr
  <2>2. CASE \E ok \in Outcome("shared_pos") : agm_pcm_plugin_get_shared_pos(ok)
    BY <1>2, <2>1, <2>2, PcmLooks, PcmTracked
  <2>3. CASE \E n \in 1..agm_pcm_get_avail(pos, total_size_frames) :
               /\ pos' = [pos EXCEPT !.appl_ptr = (@ + n) % pos.boundary]
               /\ gap' = gap + n
               /\ UNCHANGED truth
    <3>1. PICK n \in 1..agm_pcm_get_avail(pos, total_size_frames) :
               /\ pos' = [pos EXCEPT !.appl_ptr = (@ + n) % pos.boundary]
               /\ gap' = gap + n
               /\ UNCHANGED truth
      BY <2>3
    <3>2. Follows([pos EXCEPT !.appl_ptr = (@ + n) % pos.boundary], index, truth, gap + n)
      BY <1>1, <2>1, FollowsTransfer
    <3> QED BY <2>1, <3>1, <3>2, PcmTracked
  <2> QED BY <1>4, <2>2, <2>3 DEF agm_pcm_sync_ptr
<1>5. CASE agm_pcm_poll
  <2>1. Tracked /\ UNCHANGED <<plugin, mode, hw, pos, index, truth, gap>>
    BY <1>5 DEF agm_pcm_poll
  <2> QED BY <1>1, <2>1, PcmTracked
<1>6. CASE Tracked /\ agm_pcm_poll_wakes
  <2>1. UNCHANGED <<plugin, mode, hw, index>>
        /\ \E ok \in Outcome("shared_pos") : agm_pcm_plugin_get_shared_pos(ok)
    BY <1>6 DEF agm_pcm_poll_wakes
  <2> QED BY <1>2, <1>6, <2>1, PcmLooks, PcmTracked
<1> QED BY <1>3, <1>4, <1>5, <1>6

LEMMA PcmCalls ==
  ASSUME PcmInv, plugin' \in {"null", "open", "configured", "mapped", "unmapped"},
         mode' \in Modes, hw' \in HwParams,
         plugin' \in {"open", "configured"} => index' = 0 /\ truth' = 0 /\ gap' = 0,
         plugin' = "open" => pos' = NoPos,
         plugin' = "configured" =>
           pos' \in {NoPos, [NoPos EXCEPT !.boundary = Boundary(total_size_frames)]} /\ hw' = hw,
         poll' = "no", plugin' # "mapped"
  PROVE  PcmInv'
<1>1. hw' = hw => total_size_frames' = total_size_frames
  BY DEF total_size_frames
<1> QED BY <1>1 DEF PcmInv, Tracked

LEMMA PcmMaps ==
  ASSUME PcmInv, agm_pcm_mmap
  PROVE  PcmInv'
<1>1. /\ plugin = "configured" /\ hw \in HwParams /\ mode \in Modes /\ poll = "no"
      /\ index = 0 /\ truth = 0 /\ gap = 0
      /\ pos \in {NoPos, [NoPos EXCEPT !.boundary = Boundary(total_size_frames)]}
  BY DEF agm_pcm_mmap, PcmInv, Tracked
<1>2. UNCHANGED <<mode, hw, index, poll, truth, gap>>
  BY DEF agm_pcm_mmap
<1>3. PICK p : p = [NoPos EXCEPT !.boundary = Boundary(total_size_frames)]
  OBVIOUS
<1>4. p.boundary # 0
  BY <1>1, <1>3, FollowsAtFirst DEF Follows, Pos
<1>5. pos \in {NoPos, p} /\ (pos.boundary = 0 <=> pos = NoPos)
  BY <1>1, <1>3, <1>4 DEF NoPos
<1>6. PICK info \in BOOLEAN, data \in BOOLEAN :
        /\ plugin' = IF info /\ data THEN "mapped" ELSE plugin
        /\ pos' = IF info /\ Has("noirq") /\ pos.boundary = 0 THEN p ELSE pos
  BY <1>3 DEF agm_pcm_mmap, Outcome
<1>7. CASE ~(info /\ data)
  <2>1. plugin' = "configured" /\ pos' \in {NoPos, p}
    BY <1>1, <1>5, <1>6, <1>7
  <2> QED BY <1>1, <1>2, <1>3, <2>1, PcmCalls
<1>8. CASE info /\ data
  <2>1. plugin' = "mapped" /\ (Has("noirq") => pos' = p)
    BY <1>5, <1>6, <1>8
  <2>2. Follows(p, 0, 0, 0)
    BY <1>1, <1>3, FollowsAtFirst
  <2>3. Has("noirq") => Follows(pos, index, truth, gap)'
    BY <1>1, <1>2, <2>1, <2>2, FollowsNext
  <2>4. Tracked' => Has("noirq")
    BY <1>2 DEF Tracked, Has
  <2> QED BY <1>1, <1>2, <2>1, <2>3, <2>4 DEF PcmInv
<1> QED BY <1>6, <1>7, <1>8

LEMMA PcmSteps == PcmInv /\ [PcmNext]_pvars => PcmInv'
<1> SUFFICES ASSUME PcmInv, [PcmNext]_pvars PROVE PcmInv'
  OBVIOUS
<1>1. plugin \in {"null", "open", "configured", "mapped", "unmapped"}
      /\ mode \in Modes /\ hw \in HwParams /\ (poll # "no" => Tracked)
  BY DEF PcmInv
<1>2. ASSUME UNCHANGED <<plugin, mode, hw, pos, index, poll, truth, gap>> PROVE PcmInv'
  BY <1>2, FollowsNext DEF PcmInv, Tracked, Has, total_size_frames
<1>3. CASE agm_pcm_plugin_open
  <2>1. CASE plugin' = plugin
    BY <1>1, <1>3, <2>1, PcmCalls DEF agm_pcm_plugin_open
  <2>2. CASE plugin' = "open"
    BY <1>1, <1>3, <2>2, PcmCalls DEF agm_pcm_plugin_open
  <2> QED BY <1>3, <2>1, <2>2 DEF agm_pcm_plugin_open
<1>4. CASE agm_pcm_close
  BY <1>1, <1>4, PcmCalls DEF agm_pcm_close
<1>5. CASE agm_pcm_hw_params
  <2>1. /\ plugin = "open" /\ plugin' \in {"open", "configured"} /\ hw' \in HwParams
        /\ UNCHANGED <<mode, pos, index, poll, truth, gap>>
    BY <1>5 DEF agm_pcm_hw_params
  <2>2. pos = NoPos /\ index = 0 /\ truth = 0 /\ gap = 0 /\ poll = "no"
    BY <1>1, <2>1 DEF PcmInv, Tracked
  <2> QED BY <1>1, <2>1, <2>2 DEF PcmInv, Tracked
<1>6. CASE agm_pcm_mmap
  BY <1>6, PcmMaps
<1>7. CASE agm_pcm_munmap
  BY <1>1, <1>7, PcmCalls DEF agm_pcm_munmap
<1>8. CASE DspStep \/ agm_pcm_sync_ptr \/ agm_pcm_poll
  BY <1>8, PcmMoves
<1>9. CASE agm_pcm_poll_wakes
  <2>1. Tracked
    BY <1>1, <1>9 DEF agm_pcm_poll_wakes
  <2> QED BY <1>9, <2>1, PcmMoves
<1>10. CASE agm_pcm_sw_params \/ agm_pcm_ttstamp \/ agm_pcm_prepare \/ agm_pcm_start
            \/ agm_pcm_drop \/ agm_pcm_writei_frames \/ agm_pcm_readi_frames \/ UNCHANGED pvars
  <2>1. UNCHANGED <<plugin, mode, hw, pos, index, poll, truth, gap>>
    BY <1>10 DEF agm_pcm_sw_params, agm_pcm_ttstamp, agm_pcm_prepare, agm_pcm_start,
                 agm_pcm_drop, agm_pcm_writei_frames, agm_pcm_readi_frames, pvars
  <2> QED BY <1>2, <2>1
<1> QED BY <1>3, <1>4, <1>5, <1>6, <1>7, <1>8, <1>9, <1>10 DEF PcmNext

(* agm_pcm_get_avail is exact for a mapped stream of any period, number of *)
(* periods and format, wherever the pointers have wrapped.                 *)
THEOREM AvailIsExact == PcmSpec => []AvailTracksDsp
<1>1. PcmInv => AvailTracksDsp
  <2>1. TrueAvail = Room(gap)
    BY DEF TrueAvail, Room
  <2> QED BY <2>1, AvailIsRoom DEF PcmInv, AvailTracksDsp
<1> QED BY <1>1, PcmStarts, PcmSteps, PTL DEF PcmSpec

(* A poll that times out did so because no period was there when it last   *)
(* looked (agm_pcm_poll).                                                  *)
THEOREM TimeoutIsHonest == PcmSpec => []TimeoutMeansEmpty
<1>1. PcmInit => TimeoutMeansEmpty
  BY DEF PcmInit, TimeoutMeansEmpty
<1>2. PcmInv /\ PcmInv' /\ TimeoutMeansEmpty /\ [PcmNext]_pvars => TimeoutMeansEmpty'
  <2> SUFFICES ASSUME PcmInv, PcmInv', TimeoutMeansEmpty, [PcmNext]_pvars,
                      poll' = "timeout", mode' \cap {"in", "out"} # {}
               PROVE  (TrueAvail < period_size)'
    BY DEF TimeoutMeansEmpty
  <2>1. Tracked'
    BY DEF PcmInv
  <2>2. CASE UNCHANGED <<mode, hw, poll, gap>>
    BY <2>2 DEF TimeoutMeansEmpty, TrueAvail, Has, total_size_frames, period_size
  <2>3. CASE agm_pcm_poll_wakes
    <3>1. UNCHANGED <<mode, hw>> /\ ~(agm_pcm_get_avail(pos', total_size_frames) >= period_size)
      BY <2>3 DEF agm_pcm_poll_wakes
    <3>2. Follows(pos', index', truth', gap')
      BY <2>1, <3>1 DEF PcmInv, Follows, Room, InBuffer, Has, total_size_frames, period_size, FrameBytes
    <3>3. agm_pcm_get_avail(pos', total_size_frames) = Room(gap')
      BY <3>1, <3>2, AvailIsRoom DEF PcmInv
    <3>4. TrueAvail' = Room(gap') /\ period_size' = period_size
      BY <3>1 DEF TrueAvail, Room, Has, total_size_frames, period_size
    <3>5. Room(gap') \in Int /\ period_size \in Int
      BY <3>2, HwTypes DEF PcmInv, Follows, Room
    <3> QED BY <3>1, <3>3, <3>4, <3>5
  <2>4. CASE agm_pcm_plugin_open \/ agm_pcm_close \/ agm_pcm_munmap \/ agm_pcm_sync_ptr
              \/ agm_pcm_poll
    BY <2>4 DEF agm_pcm_plugin_open, agm_pcm_close, agm_pcm_munmap, agm_pcm_sync_ptr, agm_pcm_poll
  <2>5. CASE agm_pcm_hw_params
    BY <2>1, <2>5 DEF agm_pcm_hw_params, Tracked
  <2>6. CASE agm_pcm_mmap \/ DspStep \/ agm_pcm_sw_params \/ agm_pcm_ttstamp \/ agm_pcm_prepare
             \/ agm_pcm_start \/ agm_pcm_drop \/ agm_pcm_writei_frames \/ agm_pcm_readi_frames
             \/ UNCHANGED pvars
    <3>1. UNCHANGED <<mode, hw, poll, gap>>
      BY <2>6 DEF agm_pcm_mmap, DspStep, agm_pcm_sw_params, agm_pcm_ttstamp, agm_pcm_prepare,
                  agm_pcm_start, agm_pcm_drop, agm_pcm_writei_frames, agm_pcm_readi_frames, pvars
    <3> QED BY <2>2, <3>1
  <2> QED BY <2>3, <2>4, <2>5, <2>6 DEF PcmNext
<1> QED BY <1>1, <1>2, PcmStarts, PcmSteps, PTL DEF PcmSpec

(* What a plugin holds is freed by close, part by part, and the session    *)
(* with it unless it could not be closed (agm_pcm_close).                  *)
PcmHeld ==
  /\ held \subseteq Parts
  /\ plugin = "null" => held \cap FreedByClose = {}
  /\ session = "closed" => "session" \notin held

THEOREM ClosedPcmIsFree == PcmSpec => []ClosedPcmHoldsNothing
<1>1. PcmInit => PcmHeld
  BY DEF PcmInit, PcmHeld
<1>2. PcmHeld /\ [PcmNext]_pvars => PcmHeld'
  <2> SUFFICES ASSUME PcmHeld, [PcmNext]_pvars PROVE PcmHeld'
    OBVIOUS
  <2>1. CASE agm_pcm_plugin_open
    BY <2>1 DEF agm_pcm_plugin_open, PcmHeld, Parts, FreedByClose
  <2>2. CASE agm_pcm_close
    <3>1. PICK ok \in Outcome("session_close") :
            /\ session' = IF ok THEN "closed" ELSE session
            /\ held' = (held \ FreedByClose) \ (IF ok THEN {"session"} ELSE {})
      BY <2>2 DEF agm_pcm_close
    <3>2. CASE ok
      BY <3>1, <3>2 DEF PcmHeld, Parts
    <3>3. CASE ~ok
      BY <3>1, <3>3 DEF PcmHeld, Parts
    <3> QED BY <3>2, <3>3
  <2>3. CASE agm_pcm_mmap
    <3>1. /\ plugin = "configured" /\ UNCHANGED session /\ plugin' \in {"configured", "mapped"}
          /\ held' \subseteq held \cup {"buf_info", "pos_buf"}
      BY <2>3 DEF agm_pcm_mmap
    <3> QED BY <3>1 DEF PcmHeld, Parts
  <2>4. CASE agm_pcm_munmap
    BY <2>4 DEF agm_pcm_munmap, PcmHeld
  <2>5. CASE agm_pcm_hw_params \/ agm_pcm_prepare \/ agm_pcm_start \/ agm_pcm_drop
    <3>1. plugin' # "null" /\ UNCHANGED held /\ (session' = "closed" => session = "closed")
      BY <2>5 DEF agm_pcm_hw_params, agm_pcm_prepare, agm_pcm_start, agm_pcm_drop
    <3> QED BY <3>1 DEF PcmHeld
  <2>6. CASE UNCHANGED <<plugin, session, held>>
    BY <2>6 DEF PcmHeld
  <2>7. CASE DspStep \/ agm_pcm_sync_ptr \/ agm_pcm_poll \/ agm_pcm_poll_wakes
             \/ agm_pcm_sw_params \/ agm_pcm_ttstamp \/ agm_pcm_writei_frames
             \/ agm_pcm_readi_frames \/ UNCHANGED pvars
    <3>1. UNCHANGED <<plugin, session, held>>
      BY <2>7 DEF DspStep, agm_pcm_sync_ptr, agm_pcm_poll, agm_pcm_poll_wakes, agm_pcm_sw_params,
                  agm_pcm_ttstamp, agm_pcm_writei_frames, agm_pcm_readi_frames, pvars
    <3> QED BY <2>6, <3>1
  <2> QED BY <2>1, <2>2, <2>3, <2>4, <2>5, <2>7 DEF PcmNext
<1>3. PcmHeld => ClosedPcmHoldsNothing
  BY DEF PcmHeld, ClosedPcmHoldsNothing, Parts
<1> QED BY <1>1, <1>2, <1>3, PTL DEF PcmSpec
=============================================================================
