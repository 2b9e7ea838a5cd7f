------------------------------- MODULE Metadata -------------------------------
(***************************************************************************)
(* service/src/metadata.c and the calls that set, calibrate and merge      *)
(* metadata: a session, each of its audio interfaces and each device have  *)
(* a graph key vector, a calibration key vector and sub-graph properties,  *)
(* and what GSL is given is made of theirs.                                *)
(*                                                                         *)
(* Every action is one call under the session lock.                        *)
(***************************************************************************)
EXTENDS Integers, Lists, SequencesExt

CONSTANTS
  Aifs,        \* audio interfaces, each with the device behind it
  Metas,       \* the metadata that clients set
  Cals,        \* the calibrations that clients set
  FailingMeta, \* the allocations of metadata_copy and _merge that may fail
  MaxSets      \* bound on the calls that set or calibrate

KeyValue == [key: Nat, value: Nat]

ASSUME MetaAssumption ==
  /\ \A m \in Metas : m \in [gkv: Seq(KeyValue), ckv: Seq(KeyValue), prop_id: Nat, props: Seq(Nat)]
  /\ \A cal \in Cals : cal \in Seq(KeyValue)

VARIABLES
  sess_meta,     \* the session's metadata
  sess_aif_meta, \* the session's metadata for each interface
  dev_meta,      \* the metadata of each device
  aif_pool,      \* the interfaces of the session, in order
  meant,         \* what the last set of each of them was given, or empty
  gsl_given,     \* what the last call gave GSL
  sets           \* the calls that set or calibrate so far

mvars == <<sess_meta, sess_aif_meta, dev_meta, aif_pool, meant, gsl_given, sets>>

(* A vector: its count, and its array or that there is none.               *)
Vec(s) == [num |-> Len(s), arr |-> s, mem |-> TRUE]

NoVec == [num |-> 0, arr |-> <<>>, mem |-> FALSE]

metadata_free == [gkv |-> NoVec, ckv |-> NoVec, prop_id |-> 0, props |-> NoVec]

Copied(v) == SubSeq(v.arr, 1, v.num)

-----------------------------------------------------------------------------
(* The payload a client passes: words without types.                       *)
Words(kvs) ==
  [i \in 1..2 * Len(kvs) |-> IF i % 2 = 1 THEN kvs[(i + 1) \div 2].key ELSE kvs[i \div 2].value]

Payload(m) ==
  <<Len(m.gkv)>> \o Words(m.gkv) \o <<Len(m.ckv)>> \o Words(m.ckv)
    \o <<m.prop_id, Len(m.props)>> \o m.props

(* Where the parts are; a pair is two words.                               *)
NUM_GKV(x) == x[1]

PTR_TO_NUM_CKV(x) == 2 + 2 * NUM_GKV(x)

NUM_CKV(x) == x[PTR_TO_NUM_CKV(x)]

PTR_TO_PROP_ID(x) == PTR_TO_NUM_CKV(x) + 1 + 2 * NUM_CKV(x)

PTR_TO_NUM_PROPS(x) == PTR_TO_PROP_ID(x) + 1

Pairs(x, at, n) == [i \in 1..n |-> [key |-> x[at + 2 * (i - 1)], value |-> x[at + 2 * i - 1]]]

(* A mistake: the session is left with what was copied before the failure. *)
BugCopyKeepsPart(x, gkv, ckv, props) ==
  [gkv |-> Vec(Pairs(x, 2, NUM_GKV(x))),
   ckv |-> IF ckv THEN Vec(Pairs(x, PTR_TO_NUM_CKV(x) + 1, NUM_CKV(x)))
           ELSE [NoVec EXCEPT !.num = NUM_CKV(x)],
   prop_id |-> x[PTR_TO_PROP_ID(x)],
   props |-> Vec(SubSeq(x, PTR_TO_NUM_PROPS(x) + 1, Len(x)))]

(* The parts are allocated and copied in order.  Without memory for the    *)
(* first one its count stays, and no array behind it; later everything is  *)
(* freed.                                                                  *)
metadata_copy(x, gkv, ckv, props) ==
  IF ~gkv THEN [metadata_free EXCEPT !.gkv.num = NUM_GKV(x)]
  ELSE IF ~ckv \/ ~props THEN metadata_free
  ELSE [gkv |-> Vec(Pairs(x, 2, NUM_GKV(x))),
        ckv |-> Vec(Pairs(x, PTR_TO_NUM_CKV(x) + 1, NUM_CKV(x))),
        prop_id |-> x[PTR_TO_PROP_ID(x)],
        props |-> Vec(SubSeq(x, PTR_TO_NUM_PROPS(x) + 1,
                             PTR_TO_NUM_PROPS(x) + x[PTR_TO_NUM_PROPS(x)]))]

Key(kv) == kv.key

Itself(x) == x

(* One entry of each key, the first or the last.                           *)
KeepFirst(s, K(_)) == Kept(s, {i \in DOMAIN s : \A j \in 1..(i - 1) : K(s[j]) # K(s[i])})

KeepLast(s, K(_)) == Kept(s, {i \in DOMAIN s : \A j \in (i + 1)..Len(s) : K(s[j]) # K(s[i])})

(* A mistake: the earlier of two entries is taken out.                     *)
BugKeepsLast(m) ==
  [m EXCEPT !.gkv = Vec(KeepLast(Copied(@), Key)), !.ckv = Vec(KeepLast(Copied(@), Key)),
            !.props = Vec(KeepLast(Copied(@), Itself))]

metadata_remove_dup(m) ==
  [m EXCEPT !.gkv = Vec(KeepFirst(Copied(@), Key)), !.ckv = Vec(KeepFirst(Copied(@), Key)),
            !.props = Vec(KeepFirst(Copied(@), Itself))]

NoMeta == [none |-> 0]

(* The vectors of the arguments one after the other, without duplicates;   *)
(* the property id is the last argument's.  NoMeta is a null argument,     *)
(* which is passed over, and what is returned without memory.              *)
metadata_merge(args, ok) ==
  LET given == {i \in DOMAIN args : args[i] # NoMeta}
      All(V(_)) == Vec(FlattenSeq([i \in DOMAIN args |->
                                     IF i \in given THEN Copied(V(args[i])) ELSE <<>>]))
  IN IF ~ok THEN NoMeta
     ELSE metadata_remove_dup(
            [gkv |-> All(LAMBDA m : m.gkv), ckv |-> All(LAMBDA m : m.ckv),
             prop_id |-> IF given = {} THEN 0 ELSE args[Max(given)].prop_id,
             props |-> All(LAMBDA m : m.props)])

(* Each value is replaced for which the calibration has the key, by the    *)
(* last one it has.                                                        *)
metadata_update_cal(m, cal) ==
  LET New(kv) ==
        LET at == {j \in DOMAIN cal : cal[j].key = kv.key}
        IN IF at = {} THEN kv ELSE cal[CHOOSE j \in at : \A k \in at : k <= j]
  IN [m EXCEPT !.ckv.arr = [i \in DOMAIN @ |-> New(@[i])]]

-----------------------------------------------------------------------------
Session == <<"session", "sess">>

Holders == {Session} \cup (Aifs \X {"sess_aif", "dev"})

MetaInit ==
  /\ sess_meta = metadata_free
  /\ sess_aif_meta = [a \in Aifs |-> metadata_free]
  /\ dev_meta = [a \in Aifs |-> metadata_free]
  /\ aif_pool = <<>>
  /\ meant = [h \in Holders |-> NoMeta]
  /\ gsl_given = NoMeta
  /\ sets = 0

Ok(call) == IF call \in FailingMeta THEN BOOLEAN ELSE {TRUE}

(* aif_obj_get: a new interface is put at the end of the pool.             *)
aif_obj_get(a) == IF a \in Range(aif_pool) THEN aif_pool ELSE Append(aif_pool, a)

Counted ==
  /\ sets < MaxSets
  /\ sets' = sets + 1

(* metadata_free, then metadata_copy.                                      *)
SetOf(h, m, Store(_)) ==
  /\ Counted
  /\ gsl_given' = NoMeta
  /\ \E gkv \in Ok("gkv"), ckv \in Ok("ckv"), props \in Ok("props") :
       /\ Store(metadata_copy(Payload(m), gkv, ckv, props))
       /\ meant' = [meant EXCEPT ![h] = IF gkv /\ ckv /\ props THEN m ELSE NoMeta]

session_obj_set_sess_metadata_copy(m) ==
  /\ SetOf(Session, m, LAMBDA r : sess_meta' = r)
  /\ UNCHANGED <<sess_aif_meta, dev_meta, aif_pool>>

session_obj_set_sess_aif_metadata_copy(a, m) ==
  /\ SetOf(<<a, "sess_aif">>, m, LAMBDA r : sess_aif_meta' = [sess_aif_meta EXCEPT ![a] = r])
  /\ aif_pool' = aif_obj_get(a)
  /\ UNCHANGED <<sess_meta, dev_meta>>

device_set_metadata(a, m) ==
  /\ SetOf(<<a, "dev">>, m, LAMBDA r : dev_meta' = [dev_meta EXCEPT ![a] = r])
  /\ UNCHANGED <<sess_meta, sess_aif_meta, aif_pool>>

(* What GSL is given: the sources it was made of, in the order in which    *)
(* they count, and the calibration just asked for.                         *)
Give(sources, cal, merged) ==
  gsl_given' = [sources |-> sources, cal |-> cal, merged |-> merged]

(* The session and one interface: on connecting and disconnecting it, for  *)
(* its tags and their parameters.                                          *)
session_aif_merged_metadata(a) ==
  /\ aif_pool' = aif_obj_get(a)
  /\ LET sources == <<sess_meta, sess_aif_meta[a], dev_meta[a]>>
     IN \E ok \in Ok("merge") : Give(sources, <<>>, metadata_merge(sources, ok))
  /\ UNCHANGED <<sess_meta, sess_aif_meta, dev_meta, meant, sets>>

(* A mistake: the interface and the device are not calibrated.             *)
BugCalSessionOnly(a, cal) ==
  /\ Counted
  /\ a \in Range(aif_pool)
  /\ LET s == metadata_update_cal(sess_meta, cal) IN
     /\ sess_meta' = s
     /\ Give(<<s, sess_aif_meta[a], dev_meta[a]>>, cal,
             metadata_merge(<<s, sess_aif_meta[a], dev_meta[a]>>, TRUE))
  /\ UNCHANGED <<sess_aif_meta, dev_meta, aif_pool, meant>>

(* For an interface that is connected: the calibration goes into the       *)
(* metadata that have its keys, and they go to GSL.  The client has asked  *)
(* for it in each of them.                                                 *)
session_obj_set_sess_aif_cal_merge(a, cal) ==
  LET s == metadata_update_cal(sess_meta, cal)
      sa == metadata_update_cal(sess_aif_meta[a], cal)
      d == metadata_update_cal(dev_meta[a], cal)
      Asked(h, was) ==
        IF meant[h] = NoMeta \/ h \notin {Session, <<a, "sess_aif">>, <<a, "dev">>}
        THEN meant[h] ELSE [meant[h] EXCEPT !.ckv = Copied(was.ckv)]
  IN
  /\ Counted
  /\ a \in Range(aif_pool)
  /\ sess_meta' = s
  /\ sess_aif_meta' = [sess_aif_meta EXCEPT ![a] = sa]
  /\ dev_meta' = [dev_meta EXCEPT ![a] = d]
  /\ meant' = [h \in Holders |-> Asked(h, IF h = Session THEN s
                                           ELSE IF h = <<a, "dev">> THEN d ELSE sa)]
  /\ \E ok \in Ok("merge") : Give(<<s, sa, d>>, cal, metadata_merge(<<s, sa, d>>, ok))
  /\ UNCHANGED aif_pool

(* All interfaces of the session, for a loopback: each is merged behind    *)
(* what there is.  A merge that fails leaves none, and the next starts     *)
(* without the interfaces before it.                                       *)
session_get_merged_metadata ==
  LET Own(a) == <<sess_meta, sess_aif_meta[a], dev_meta[a]>> IN
  /\ aif_pool # <<>>
  /\ \E fails \in SUBSET (IF "merge" \in FailingMeta THEN Range(aif_pool) ELSE {}) :
       LET temp[i \in 0..Len(aif_pool)] ==
             IF i = 0 THEN NoMeta
             ELSE metadata_merge(<<temp[i - 1]>> \o Own(aif_pool[i]), aif_pool[i] \notin fails)
       IN Give(FlattenSeq([i \in DOMAIN aif_pool |-> Own(aif_pool[i])]), <<>>,
               temp[Len(aif_pool)])
  /\ UNCHANGED <<sess_meta, sess_aif_meta, dev_meta, aif_pool, meant, sets>>

(* All interfaces without their devices, and then the device of an echo    *)
(* reference.                                                              *)
session_get_merged_metadata_without_aif(ec) ==
  LET Own(a) == <<sess_meta, sess_aif_meta[a]>>
      temp[i \in 0..Len(aif_pool)] ==
        IF i = 0 THEN NoMeta ELSE metadata_merge(<<temp[i - 1]>> \o Own(aif_pool[i]), TRUE)
  IN
  /\ aif_pool # <<>>
  /\ Give(FlattenSeq([i \in DOMAIN aif_pool |-> Own(aif_pool[i])]) \o <<dev_meta[ec]>>, <<>>,
          metadata_merge(<<temp[Len(aif_pool)], dev_meta[ec]>>, TRUE))
  /\ UNCHANGED <<sess_meta, sess_aif_meta, dev_meta, aif_pool, meant, sets>>

MetaNext ==
  \/ \E m \in Metas : session_obj_set_sess_metadata_copy(m)
  \/ \E a \in Aifs, m \in Metas :
       session_obj_set_sess_aif_metadata_copy(a, m) \/ device_set_metadata(a, m)
  \/ \E a \in Aifs :
       session_aif_merged_metadata(a) \/ session_get_merged_metadata_without_aif(a)
  \/ \E a \in Aifs, cal \in Cals : session_obj_set_sess_aif_cal_merge(a, cal)
  \/ session_get_merged_metadata

MetaSpec == MetaInit /\ [][MetaNext]_mvars

-----------------------------------------------------------------------------
MetaOf(h) ==
  IF h = Session THEN sess_meta
  ELSE IF h[2] = "dev" THEN dev_meta[h[1]] ELSE sess_aif_meta[h[1]]

(* What each holder has is what the last successful set, and the           *)
(* calibrations after it, gave it; after a set that failed it is empty,    *)
(* and no count is left without its array for a later merge to copy from   *)
(* (metadata_copy, metadata_free).                                         *)
MetadataWhole ==
  \A h \in Holders :
    LET m == MetaOf(h) IN
    IF meant[h] = NoMeta THEN m = metadata_free
    ELSE m = [gkv |-> Vec(meant[h].gkv), ckv |-> Vec(meant[h].ckv),
              prop_id |-> meant[h].prop_id, props |-> Vec(meant[h].props)]

(* The value a key has in the first of the sources that has it.            *)
FirstWith(sources, k) ==
  CHOOSE i \in DOMAIN sources :
    /\ k \in {kv.key : kv \in Range(sources[i].gkv.arr)}
    /\ \A j \in 1..(i - 1) : k \notin {kv.key : kv \in Range(sources[j].gkv.arr)}

(* GSL gets every graph key of every source once, with the value of the    *)
(* source that comes first: the session before the interface before the    *)
(* device, and earlier interfaces before later ones, although the merged   *)
(* vector of the earlier ones is merged again with the session's           *)
(* (metadata_merge, session_get_merged_metadata).                          *)
MergePrecedence ==
  gsl_given # NoMeta /\ gsl_given.merged # NoMeta =>
    LET sources == gsl_given.sources
        merged == gsl_given.merged.gkv.arr
        keys == UNION {{kv.key : kv \in Range(sources[i].gkv.arr)} : i \in DOMAIN sources}
    IN /\ {kv.key : kv \in Range(merged)} = keys
       /\ IsInjective([i \in DOMAIN merged |-> merged[i].key])
       /\ \A kv \in Range(merged) :
            LET first == sources[FirstWith(sources, kv.key)].gkv.arr
            IN \E i \in DOMAIN first :
                 first[i] = kv /\ \A j \in 1..(i - 1) : first[j].key # kv.key

(* A calibration that is set reaches GSL: for a key that it has, the       *)
(* merged vector has the value it has last, whichever of the session, the  *)
(* interface and the device brings the key in                              *)
(* (session_obj_set_sess_aif_cal).                                         *)
CalReachesGraph ==
  gsl_given # NoMeta /\ gsl_given.merged # NoMeta =>
    \A kv \in Range(gsl_given.merged.ckv.arr), j \in DOMAIN gsl_given.cal :
      /\ gsl_given.cal[j].key = kv.key
      /\ \A k \in DOMAIN gsl_given.cal : gsl_given.cal[k].key = kv.key => k <= j
      => kv.value = gsl_given.cal[j].value
=============================================================================
