------------------------------ MODULE MCService ------------------------------
(***************************************************************************)
(* The calls of a running service, how the service comes up and down, and  *)
(* its metadata: one run explores the three, part says which.              *)
(***************************************************************************)
EXTENDS AgmCalls, AgmInit, Metadata

VARIABLE part

(* One thread makes every call, beside another that makes the ones that    *)
(* change what they find.                                                  *)
Changing == {"open", "close", "start", "write", "set_params", "loopback", "register_cb",
             "deregister_cb", "deinit"}

CallsOfThreads ==
  LET t1 == CHOOSE t \in Threads : TRUE
  IN [t \in Threads |-> IF t = t1 THEN ById \cup ByHandle \cup {"deinit"} ELSE Changing]

DataCalls == [t \in Threads |-> {"open", "start", "close", "read", "write"}]

(* A device of the card that is an endpoint, and one that lacks its index. *)
CardNames == {<<"MI2S", "LPAIF", "RX", "PRIMARY">>, <<"MI2S", "LPAIF", "RX">>}

KV(k, v) == [key |-> k, value |-> v]

(* Metadata that share keys, one with a key twice, one with empty vectors, *)
(* and a calibration that names a key twice.                               *)
ClientMetas ==
  {[gkv |-> <<KV(1, 1)>>, ckv |-> <<KV(1, 1)>>, prop_id |-> 1, props |-> <<1>>],
   [gkv |-> <<KV(2, 2), KV(1, 2), KV(2, 1)>>, ckv |-> <<KV(1, 2), KV(2, 2)>>, prop_id |-> 2,
    props |-> <<1, 2>>],
   [gkv |-> <<>>, ckv |-> <<KV(2, 1)>>, prop_id |-> 1, props |-> <<>>]}

ClientCals == {<<KV(1, 3)>>, <<KV(2, 3), KV(2, 4)>>}

ServiceInit ==
  /\ part \in {"calls", "init", "metadata"}
  /\ Init /\ InitInit /\ MetaInit
  /\ part # "init" => card = <<>>

ServiceNext ==
  \/ part = "calls" /\ Next /\ UNCHANGED <<ivars, mvars, part>>
  \/ part = "init" /\ InitNext /\ UNCHANGED <<vars, mvars, part>>
  \/ part = "metadata" /\ MetaNext /\ UNCHANGED <<vars, ivars, part>>

ServiceSpec ==
  ServiceInit /\ [][ServiceNext]_<<vars, ivars, mvars, part>> /\ Fairness /\ InitFairness

CallsSpec == ServiceInit /\ part = "calls" /\ [][ServiceNext]_<<vars, ivars, mvars, part>>
=============================================================================
