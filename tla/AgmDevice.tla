------------------------------ MODULE AgmDevice ------------------------------
(***************************************************************************)
(* The device object of service/src/device.c: one audio interface (one     *)
(* ALSA back-end PCM), shared by every session connected to it.  It keeps  *)
(* a state and three reference counts and forwards only the first open,    *)
(* the first prepare, the last stop and the last close to the PCM.         *)
(*                                                                         *)
(* Every function takes the device lock for its whole body, so each is one *)
(* atomic transformation of the record.  An operator maps the record to    *)
(* the SET of its possible results [d, ok]: the new record and whether the *)
(* function returned 0.                                                    *)
(***************************************************************************)
EXTENDS Integers

CONSTANT Failing   \* the external (tinyalsa and GSL) calls that may fail

(***************************************************************************)
(* The calls into tinyalsa and into GSL whose failure the code tests.      *)
(***************************************************************************)
PcmCalls == {"pcm_open", "pcm_prepare", "pcm_stop", "pcm_close"}

GslCalls == {"gsl_open", "gsl_add", "gsl_change", "gsl_config", "gsl_prepare",
             "gsl_start", "gsl_stop", "gsl_close", "gsl_remove"}

ASSUME FailingAssumption == Failing \subseteq (PcmCalls \cup GslCalls)

(* What an external call can return: success, or an error if it may fail.  *)
Ret(c) == IF c \in Failing THEN BOOLEAN ELSE {TRUE}

-----------------------------------------------------------------------------
DevState == {"CLOSED", "OPENED", "PREPARED", "STARTED", "STOPPED"}

(***************************************************************************)
(* refcnt.open and refcnt.start are ints; nothing keeps open from dropping *)
(* below zero.  refcnt.prepare is incremented, tested against zero and     *)
(* reset, never decremented: prepared is (refcnt.prepare # 0).             *)
(***************************************************************************)
Device == [state: DevState, open: Int, prepared: BOOLEAN, start: Int]

device_obj == [state |-> "CLOSED", open |-> 0, prepared |-> FALSE, start |-> 0]

(* A device_open that forgets to count the openers after the first.        *)
device_open_uncounted(d) ==
  IF d.open # 0
    THEN {[d |-> d, ok |-> TRUE]}
    ELSE {[d |-> IF ok THEN [d EXCEPT !.state = "OPENED", !.open = @ + 1] ELSE d,
           ok |-> ok] : ok \in Ret("pcm_open")}

(* A second opener only counts; the first one opens the PCM.               *)
device_open(d) ==
  IF d.open # 0
    THEN {[d |-> [d EXCEPT !.open = @ + 1], ok |-> TRUE]}
    ELSE {[d |-> IF ok THEN [d EXCEPT !.state = "OPENED", !.open = @ + 1] ELSE d,
           ok |-> ok] : ok \in Ret("pcm_open")}

(* Later prepares only count.                                              *)
device_prepare(d) ==
  IF d.prepared
    THEN {[d |-> d, ok |-> TRUE]}
    ELSE {[d |-> IF ok THEN [d EXCEPT !.state = "PREPARED", !.prepared = TRUE] ELSE d,
           ok |-> ok] : ok \in Ret("pcm_prepare")}

(* A device_start that forgets to count the starts after the first.        *)
device_start_uncounted(d) ==
  IF d.state \in {"CLOSED", "OPENED"}
    THEN {[d |-> d, ok |-> FALSE]}
    ELSE {[d |-> IF d.start = 0 THEN [d EXCEPT !.state = "STARTED", !.start = 1] ELSE d,
           ok |-> TRUE]}

(* Only a prepared device is started; later starts only count.             *)
device_start(d) ==
  IF d.state \in {"CLOSED", "OPENED"}
    THEN {[d |-> d, ok |-> FALSE]}
    ELSE {[d |-> [d EXCEPT !.state = IF d.start = 0 THEN "STARTED" ELSE @,
                           !.start = @ + 1],
           ok |-> TRUE]}

(* The last stop reaches the PCM; the state follows even if pcm_stop fails. *)
device_stop(d) ==
  IF d.start = 0
    THEN {[d |-> d, ok |-> TRUE]}
    ELSE IF d.start = 1
           THEN {[d |-> [d EXCEPT !.state = "STOPPED", !.start = 0],
                  ok |-> ok] : ok \in Ret("pcm_stop")}
           ELSE {[d |-> [d EXCEPT !.start = @ - 1], ok |-> TRUE]}

(* A device_close that forgets to reset the prepare count.                 *)
device_close_prepared(d) ==
  IF d.open = 1
    THEN {[d |-> [device_obj EXCEPT !.prepared = d.prepared], ok |-> ok]
            : ok \in Ret("pcm_close")}
    ELSE {[d |-> [d EXCEPT !.open = @ - 1], ok |-> TRUE]}

(* The last close closes the PCM and forgets prepare and start.  The count *)
(* is decremented whatever it was.                                         *)
device_close(d) ==
  IF d.open = 1
    THEN {[d |-> device_obj, ok |-> ok] : ok \in Ret("pcm_close")}
    ELSE {[d |-> [d EXCEPT !.open = @ - 1], ok |-> TRUE]}
=============================================================================
