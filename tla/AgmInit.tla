------------------------------- MODULE AgmInit -------------------------------
(***************************************************************************)
(* How the service comes up and goes down: agm_init and agm_deinit of      *)
(* agm.c, session_obj_init and session_obj_deinit of session_obj.c, the    *)
(* retries of device_init, the list of devices that parse_snd_card reads   *)
(* from the sound card, graph_init and the thread that starts ATS.         *)
(*                                                                         *)
(* One thread initialises, as the servers do from their constructors.      *)
(***************************************************************************)
EXTENDS Naturals, Sequences, FiniteSets, SequencesExt, HwEndpoint, Lists

CONSTANTS
  Names,        \* the device names that a sound card may list
  MAX_RETRY,    \* attempts of device_init
  MaxLines,     \* bound on the devices of the sound card
  MaxInits,     \* bound on the calls of agm_init that do something
  FailingInit   \* the external calls that may fail

VARIABLES
  card,            \* the lines of PCM_DEVICE_FILE
  agm_initialized,
  num_audio_intfs,
  device_list,     \* [mem: "null", "live" or "freed"; objs: slots]
  gsl,             \* whether GSL is initialised
  sess_pool,       \* whether the session pool exists
  pc,              \* where agm_init stands
  retries,         \* attempts of device_init that are left
  ats,             \* the ATS threads that wait for the flag, and that sleep after it
  ats_inits,       \* calls of ats_init
  inits            \* calls of agm_init so far

ivars == <<card, agm_initialized, num_audio_intfs, device_list, gsl, sess_pool, pc, retries,
           ats, ats_inits, inits>>

NULL == [intf |-> "null"]

Freed == [intf |-> "freed"]

Live(o) == o \notin {NULL, Freed}

Cards == UNION {[1..n -> Names] : n \in 0..MaxLines}

InitTypeOK ==
  /\ card \in Cards
  /\ agm_initialized \in BOOLEAN /\ gsl \in BOOLEAN /\ sess_pool \in BOOLEAN
  /\ num_audio_intfs \in 0..MaxLines * MAX_RETRY * MaxInits
  /\ device_list.mem \in {"null", "live", "freed"}
  /\ pc \in {"idle", "device", "sleep", "graph", "pool"}
  /\ retries \in 0..MAX_RETRY
  /\ ats.waiting \in 0..MaxInits /\ ats.sleeping \in 0..MaxInits /\ ats_inits \in 0..MaxInits

InitInit ==
  /\ card \in Cards
  /\ agm_initialized = FALSE /\ gsl = FALSE /\ sess_pool = FALSE
  /\ num_audio_intfs = 0
  /\ device_list = [mem |-> "null", objs |-> <<>>]
  /\ pc = "idle" /\ retries = 0
  /\ ats = [waiting |-> 0, sleeping |-> 0] /\ ats_inits = 0 /\ inits = 0

Result(c) == IF c \in FailingInit THEN BOOLEAN ELSE {TRUE}

(* The card registers with the kernel, or is replaced.                     *)
CardChanges ==
  /\ pc = "sleep"
  /\ \E c \in Cards : card' = c
  /\ UNCHANGED <<agm_initialized, num_audio_intfs, device_list, gsl, sess_pool, pc, retries,
                 ats, ats_inits, inits>>

-----------------------------------------------------------------------------
(* Each call that is not refused starts another ATS thread, whether or not *)
(* the rest succeeds.                                                      *)
agm_init ==
  /\ pc = "idle" /\ ~agm_initialized /\ inits < MaxInits
  /\ \E created \in Result("pthread_create") :
       ats' = IF created THEN [ats EXCEPT !.waiting = @ + 1] ELSE ats
  /\ pc' = "device" /\ retries' = MAX_RETRY /\ inits' = inits + 1
  /\ UNCHANGED <<card, agm_initialized, num_audio_intfs, device_list, gsl, sess_pool, ats_inits>>

(* The lines whose name is an endpoint.                                    *)
ValidLines == {i \in DOMAIN card : populate_device_hw_ep_info(card[i]) # Invalid}

ValidCount == Cardinality(ValidLines)

(* Their devices, in the order of the card; the slots the list has beyond  *)
(* them are null.                                                          *)
Listed(total) ==
  [i \in 1..total |-> IF i <= ValidCount
                      THEN populate_device_hw_ep_info(Kept(card, ValidLines)[i]) ELSE NULL]

(* A mistake: the count keeps the lines that are no endpoint.              *)
BugCountsLines ==
  /\ pc = "device"
  /\ IF ValidCount = 0
     THEN pc' = "idle" /\ UNCHANGED <<num_audio_intfs, device_list>>
     ELSE /\ num_audio_intfs' = num_audio_intfs + Len(card)
          /\ device_list' = [mem |-> "live", objs |-> Listed(num_audio_intfs')]
          /\ pc' = "graph"
  /\ UNCHANGED <<card, agm_initialized, gsl, sess_pool, retries, ats, ats_inits, inits>>

(* parse_snd_card, under device_init: the lines are counted on top of the  *)
(* count there was, the list gets that many slots, and only the devices    *)
(* that were understood are counted in the end.  No device at all is       *)
(* -EAGAIN, for which device_init sleeps and tries again; the list is      *)
(* freed, its pointer and the count stay.                                  *)
parse_snd_card ==
  LET total == num_audio_intfs + Len(card) IN
  /\ pc = "device"
  /\ \E opened \in Result("fopen"), listed \in Result("calloc"), objs \in Result("calloc") :
       IF ~opened
       THEN pc' = "idle" /\ UNCHANGED <<num_audio_intfs, device_list, retries>>
       ELSE IF ~listed
       THEN /\ num_audio_intfs' = total
            /\ device_list' = [mem |-> "null", objs |-> <<>>]
            /\ pc' = "idle" /\ UNCHANGED retries
       ELSE IF ~objs /\ Len(card) > 0
       THEN /\ num_audio_intfs' = total
            /\ device_list' = [mem |-> "freed", objs |-> <<>>]
            /\ pc' = "idle" /\ UNCHANGED retries
       ELSE IF ValidCount = 0
       THEN /\ num_audio_intfs' = total
            /\ device_list' = [mem |-> "freed", objs |-> <<>>]
            /\ retries' = retries - 1
            /\ pc' = "sleep"
       ELSE /\ num_audio_intfs' = ValidCount
            /\ device_list' = [mem |-> "live", objs |-> Listed(total)]
            /\ pc' = "graph" /\ UNCHANGED retries
  /\ UNCHANGED <<card, agm_initialized, gsl, sess_pool, ats, ats_inits, inits>>

(* device_init sleeps before it looks whether an attempt is left.          *)
device_init ==
  /\ pc = "sleep"
  /\ pc' = IF retries > 0 THEN "device" ELSE "idle"
  /\ UNCHANGED <<card, agm_initialized, num_audio_intfs, device_list, gsl, sess_pool, retries,
                 ats, ats_inits, inits>>

(* device_deinit frees the objects the count covers and the list; the      *)
(* count stays.                                                            *)
device_deinit == [mem |-> "null", objs |-> <<>>]

(* The calibration files are found and GSL is initialised, or what         *)
(* device_init did is undone.                                              *)
graph_init ==
  /\ pc = "graph"
  /\ \E ok \in Result("gsl_init") :
       /\ gsl' = ok
       /\ pc' = IF ok THEN "pool" ELSE "idle"
       /\ device_list' = IF ok THEN device_list ELSE device_deinit
  /\ UNCHANGED <<card, agm_initialized, num_audio_intfs, sess_pool, retries, ats, ats_inits, inits>>

(* A mistake: the failure of the pool leaves the devices and GSL behind.   *)
BugNoUnwind ==
  /\ pc = "pool"
  /\ \E ok \in Result("calloc") : sess_pool' = ok /\ agm_initialized' = ok
  /\ pc' = "idle"
  /\ UNCHANGED <<card, num_audio_intfs, device_list, gsl, retries, ats, ats_inits, inits>>

(* The last step of session_obj_init, and the flag that agm_init sets.     *)
session_pool_init ==
  /\ pc = "pool"
  /\ \E ok \in Result("calloc") :
       /\ sess_pool' = ok /\ agm_initialized' = ok /\ gsl' = ok
       /\ device_list' = IF ok THEN device_list ELSE device_deinit
  /\ pc' = "idle"
  /\ UNCHANGED <<card, num_audio_intfs, retries, ats, ats_inits, inits>>

(* agm_deinit: ats_deinit, then session_obj_deinit.                        *)
session_obj_deinit ==
  /\ pc = "idle" /\ agm_initialized
  /\ sess_pool' = FALSE /\ gsl' = FALSE /\ agm_initialized' = FALSE
  /\ device_list' = device_deinit
  /\ UNCHANGED <<card, num_audio_intfs, pc, retries, ats, ats_inits, inits>>

(* An ATS thread polls the flag every five seconds.  Once it is set the    *)
(* thread sleeps for two more and starts ATS, set still or not.            *)
ats_init_thread ==
  /\ agm_initialized /\ ats.waiting > 0
  /\ ats' = [waiting |-> ats.waiting - 1, sleeping |-> ats.sleeping + 1]
  /\ UNCHANGED <<card, agm_initialized, num_audio_intfs, device_list, gsl, sess_pool, pc, retries,
                 ats_inits, inits>>

ats_init ==
  /\ ats.sleeping > 0
  /\ ats' = [ats EXCEPT !.sleeping = @ - 1]
  /\ ats_inits' = ats_inits + 1
  /\ UNCHANGED <<card, agm_initialized, num_audio_intfs, device_list, gsl, sess_pool, pc, retries,
                 inits>>

InitSteps == parse_snd_card \/ device_init \/ graph_init \/ session_pool_init

InitNext ==
  \/ CardChanges \/ agm_init \/ InitSteps \/ session_obj_deinit \/ ats_init_thread \/ ats_init

InitSpec == InitInit /\ [][InitNext]_ivars

(* The initialising thread and the ATS threads run on; nobody has to       *)
(* initialise or shut down.                                                *)
InitFairness == WF_ivars(InitSteps) /\ WF_ivars(ats_init_thread) /\ WF_ivars(ats_init)

-----------------------------------------------------------------------------
(* agm_get_aif_info_list: the indices a client of r entries is given.      *)
device_get_aif_info_list(r) == {i \in 1..num_audio_intfs : i <= r}

(* Clients count devices from 0.  The check lets one index too many pass.  *)
device_get_obj(idx) ==
  IF idx > num_audio_intfs THEN Invalid
  ELSE IF idx + 1 \in DOMAIN device_list.objs THEN device_list.objs[idx + 1] ELSE Freed

(* Every interface that the list names once the service is up can be       *)
(* looked up and is an endpoint: lines that were skipped, earlier attempts *)
(* and an earlier life of the service leave no hole and no stale count     *)
(* (parse_snd_card, device_get_obj).                                       *)
ListedDevicesResolve ==
  agm_initialized =>
    /\ num_audio_intfs > 0
    /\ \A i \in device_get_aif_info_list(num_audio_intfs) :
         Live(device_get_obj(i - 1)) /\ device_get_obj(i - 1) # Invalid

(* A service that is not up holds nothing: each step of session_obj_init   *)
(* that fails undoes the ones before it, and deinit undoes all.            *)
DownHoldsNothing ==
  pc = "idle" /\ ~agm_initialized => ~gsl /\ ~sess_pool /\ device_list.mem # "live"

(* agm_init returns, after at most MAX_RETRY attempts.                     *)
InitReturns == pc # "idle" ~> pc = "idle"

(* Where threads can be created, ATS is started once the service is up,    *)
(* however long that took, unless the service goes down again.             *)
AtsStarts ==
  "pthread_create" \notin FailingInit =>
    (agm_initialized ~> (ats_inits > 0 \/ ~agm_initialized))
=============================================================================
