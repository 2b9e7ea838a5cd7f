---------------------------- MODULE CompressPlugin ----------------------------
(***************************************************************************)
(* The tinyalsa compress plugin of plugins/tinyalsa/src/                   *)
(* agm_compress_plugin.c: the threads of a client that call its operations *)
(* on one open stream, the DSP that consumes (playback, RX) or fills       *)
(* (capture, TX) fragments, and the callback by which the service reports  *)
(* each fragment and the rendered end of stream.                           *)
(*                                                                         *)
(* An operation is one action per critical section, per unlocked access to *)
(* shared data and per call into the service.  priv->lock is held between  *)
(* the load and the store of bytes_avail, eos_lock between the two steps   *)
(* of a drain; the other critical sections are one action each.  The       *)
(* condition drain_cond has no waiter and is not modelled.                 *)
(***************************************************************************)
EXTENDS Integers, Sequences, FiniteSets

CONSTANTS
  Dirs,            \* the directions a client opens a stream for
  FragSize,        \* buffer_config.size
  Fragments,       \* buffer_config.count
  Threads,         \* the client's threads
  Calls,           \* the operations each thread calls
  Failing,         \* the service calls that may fail
  DevicePrepared,  \* another session keeps the stream's devices prepared
  Spurious,        \* condition variables may wake up spuriously
  MaxEvents,       \* bound on the events raised and not yet delivered
  MaxQueue,        \* bound on the commands queued when a drain begins
  MaxAvail         \* bound on bytes_avail when a stop begins

Operations == {"set_params", "avail", "write", "read", "start", "stop", "pause", "resume",
               "drain", "poll", "poll_timeout", "close", "close_waiting"}

ASSUME CompressAssumption ==
  /\ Dirs \subseteq {"RX", "TX"}
  /\ FragSize \in Nat \ {0} /\ Fragments \in Nat \ {0}
  /\ IsFiniteSet(Threads)
  /\ Calls \in [Threads -> SUBSET Operations]
  /\ Failing \subseteq {"write", "stop", "eos"}
  /\ DevicePrepared \in BOOLEAN /\ Spurious \in BOOLEAN
  /\ MaxEvents \in Nat /\ MaxQueue \in Nat /\ MaxAvail \in Nat

VARIABLES
  total_buf_size, bytes_avail, eos, prepared,  \* struct agm_compress_priv
  freed,       \* priv has been freed
  pc, size, reg,  \* of each thread: next step, byte count in hand, loaded bytes_avail
  dir,         \* session_config.dir
  sess,        \* state of the session behind the stream
  registered,  \* agm_compress_event_cb is in the session's cb_pool
  paused,      \* the soft pause module holds the data
  queue,       \* playback: commands the DSP has yet to consume
  filled,      \* capture: fragments filled and not yet read
  events,      \* events raised by the DSP and not yet delivered
  cb           \* the delivery in progress: event, next step, loaded bytes_avail

privVars == <<total_buf_size, bytes_avail, eos, prepared, freed>>
threadVars == <<pc, size, reg>>
sessVars == <<dir, sess, registered, paused>>
dspVars == <<queue, filled, events>>
vars == <<privVars, threadVars, sessVars, dspVars, cb>>

-----------------------------------------------------------------------------
Steps == {"idle", "write_load", "write_store", "read_load", "read_store",
          "drain_eos", "drain_wait", "drain_woken", "poll_wait",
          "stop_eos", "stop_poll", "stop_session", "stop_reset",
          "close_session", "close_eos", "close_free"}

(* No byte count in hand: the client has not asked for avail since its     *)
(* last transfer.                                                          *)
Unknown == -1

NoDelivery == [event |-> "none", step |-> "idle", val |-> 0]

Total == FragSize * Fragments

(* One type for each variable; bytes_avail is an int64_t and may be        *)
(* negative.                                                               *)
TypeOK ==
  /\ total_buf_size \in {0, Total} /\ bytes_avail \in Int
  /\ eos \in BOOLEAN /\ prepared \in BOOLEAN /\ freed \in BOOLEAN
  /\ pc \in [Threads -> Steps] /\ size \in [Threads -> Int] /\ reg \in [Threads -> Int]
  /\ dir \in {"RX", "TX"}
  /\ sess \in {"OPENED", "PREPARED", "STARTED", "STOPPED", "CLOSED"}
  /\ registered \in BOOLEAN /\ paused \in BOOLEAN
  /\ queue \in Seq({"buf", "eos"}) /\ filled \in 0..Fragments
  /\ events \in Seq({"WRITE_DONE", "READ_DONE", "EOS_RENDERED"})
  /\ cb \in [event: {"none", "WRITE_DONE", "READ_DONE", "EOS_RENDERED"},
             step: {"idle", "entry", "store", "eos", "poll"}, val: Int]

Init ==
  /\ total_buf_size = 0 /\ bytes_avail = 0 /\ eos = FALSE /\ prepared = FALSE /\ freed = FALSE
  /\ pc = [t \in Threads |-> "idle"]
  /\ size = [t \in Threads |-> Unknown] /\ reg = [t \in Threads |-> 0]
  /\ dir \in Dirs /\ sess = "OPENED" /\ registered = TRUE /\ paused = FALSE
  /\ queue = <<>> /\ filled = 0 /\ events = <<>> /\ cb = NoDelivery

-----------------------------------------------------------------------------
(* Locks and conditions.                                                   *)

(* Mutant: eos_lock is not held while drain sends the command.             *)
EosLockFree_dropped == TRUE

(* priv->lock and eos_lock are free.                                       *)
LockFree == cb.step \notin {"store", "eos"}
            /\ \A t \in Threads : pc[t] \notin {"write_store", "read_store"}
EosLockFree == \A t \in Threads : pc[t] # "drain_eos"

(* The possible values of pc after pthread_cond_signal on the condition    *)
(* that the threads at step `from' wait for: one of them, if any, runs on  *)
(* from `to'.                                                              *)
Signalled(from, to) ==
  LET waiting == {t \in Threads : pc[t] = from}
  IN  IF waiting = {} THEN {pc} ELSE {[pc EXCEPT ![t] = to] : t \in waiting}

(* The section of the callback, of stop and of close that lets a waiting   *)
(* drain go, and the one that lets a waiting poll go.                      *)
DrainReleased == IF eos THEN Signalled("drain_wait", "drain_woken") ELSE {pc}
PollReleased == Signalled("poll_wait", "idle")

Then(t, step, pcs) == {[f EXCEPT ![t] = step] : f \in pcs}
Goto(t, step) == pc' = [pc EXCEPT ![t] = step]

(* The client's side of the contract, from tinycompress: no call on a      *)
(* stream that another thread has begun to close.                          *)
Closing == \E t \in Threads : pc[t] \in {"close_session", "close_eos", "close_free"}
MayCall(t, op) == pc[t] = "idle" /\ op \in Calls[t] /\ ~freed /\ ~Closing

(* Mutant: a whole number of fragments is rounded up too.                  *)
BufCnt_up(bytes) == bytes \div FragSize + 1

(* The fragments bytes_avail is charged for: buf_cnt in the code.          *)
BufCnt(bytes) == bytes \div FragSize + (IF bytes % FragSize # 0 THEN 1 ELSE 0)

(* Bytes the DSP takes of a write, and hands to a read.  GSL uses one      *)
(* buffer per fragment, however few of its bytes are used.                 *)
Min2(a, b) == IF a < b THEN a ELSE b
Bufs(q) == Cardinality({i \in DOMAIN q : q[i] = "buf"})
Used(bytes) == (bytes + FragSize - 1) \div FragSize
Accepted(count) == Min2(count, (Fragments - Bufs(queue)) * FragSize)
Delivered(count) == Min2(count, filled * FragSize)

-----------------------------------------------------------------------------
(* Setting up, and asking for space.                                       *)

(* Mutant: the last fragment is left out of total_buf_size.                *)
agm_compress_set_params_short(t) ==
  /\ MayCall(t, "set_params") /\ total_buf_size = 0
  /\ total_buf_size' = FragSize * (Fragments - 1)
  /\ bytes_avail' = IF dir = "RX" THEN total_buf_size' ELSE 0
  /\ UNCHANGED <<eos, prepared, freed, threadVars, sessVars, dspVars, cb>>

agm_compress_set_params(t) ==
  /\ MayCall(t, "set_params") /\ total_buf_size = 0
  /\ total_buf_size' = Total
  /\ bytes_avail' = IF dir = "RX" THEN Total ELSE 0
  /\ UNCHANGED <<eos, prepared, freed, threadVars, sessVars, dspVars, cb>>

agm_compress_avail(t) ==
  /\ MayCall(t, "avail") /\ total_buf_size # 0 /\ LockFree
  /\ size' = [size EXCEPT ![t] = bytes_avail]
  /\ UNCHANGED <<privVars, pc, reg, sessVars, dspVars, cb>>

-----------------------------------------------------------------------------
(* The data path.  The client transfers no more than it was told is        *)
(* available.                                                              *)

(* The first write prepares the session; agm_session_write has then taken  *)
(* its bytes, or failed, before bytes_avail is charged for them.           *)
agm_compress_write(t, count) ==
  /\ MayCall(t, "write") /\ dir = "RX" /\ count <= size[t] /\ count <= total_buf_size
  /\ prepared' = TRUE
  /\ sess' = IF prepared THEN sess ELSE "PREPARED"
  /\ \/ /\ queue' = queue \o [i \in 1..Used(Accepted(count)) |-> "buf"]
        /\ size' = [size EXCEPT ![t] = Accepted(count)]
        /\ Goto(t, "write_load")
     \/ /\ "write" \in Failing
        /\ size' = [size EXCEPT ![t] = Unknown]
        /\ UNCHANGED <<queue, pc>>
  /\ UNCHANGED <<total_buf_size, bytes_avail, eos, freed, reg, dir, registered, paused,
                 filled, events, cb>>

agm_compress_read(t, count) ==
  /\ MayCall(t, "read") /\ dir = "TX"
  /\ bytes_avail < 0 \/ count <= bytes_avail    \* compared as unsigned
  /\ sess = "STARTED"
  /\ filled' = filled - Used(Delivered(count))
  /\ size' = [size EXCEPT ![t] = Delivered(count)]
  /\ Goto(t, "read_load")
  /\ UNCHANGED <<privVars, reg, sessVars, queue, events, cb>>

(* bytes_avail -= buf_cnt * buffer_config.size, under priv->lock.          *)
LoadAvail(t) ==
  /\ pc[t] \in {"write_load", "read_load"} /\ LockFree
  /\ reg' = [reg EXCEPT ![t] = bytes_avail]
  /\ Goto(t, IF pc[t] = "write_load" THEN "write_store" ELSE "read_store")
  /\ UNCHANGED <<privVars, size, sessVars, dspVars, cb>>

ChargeAvail(t) ==
  /\ pc[t] \in {"write_store", "read_store"}
  /\ bytes_avail' = reg[t] - BufCnt(size[t]) * FragSize
  /\ size' = [size EXCEPT ![t] = Unknown]
  /\ reg' = [reg EXCEPT ![t] = 0]
  /\ Goto(t, "idle")
  /\ UNCHANGED <<total_buf_size, eos, prepared, freed, sessVars, dspVars, cb>>

-----------------------------------------------------------------------------
(* Control.                                                                *)

(* session_start finds the devices of the stream prepared by the stream's  *)
(* own first write, or by another session.  A playback client starts after *)
(* its first write.                                                        *)
agm_compress_start(t) ==
  /\ MayCall(t, "start") /\ total_buf_size # 0 /\ sess # "STARTED"
  /\ dir = "RX" => prepared
  /\ sess' = IF sess # "OPENED" \/ DevicePrepared THEN "STARTED" ELSE sess
  /\ UNCHANGED <<privVars, threadVars, dir, registered, paused, dspVars, cb>>

agm_compress_pause(t) ==
  /\ MayCall(t, "pause") /\ sess = "STARTED"
  /\ paused' = TRUE
  /\ UNCHANGED <<privVars, threadVars, dir, sess, registered, dspVars, cb>>

agm_compress_resume(t) ==
  /\ MayCall(t, "resume")
  /\ paused' = FALSE
  /\ UNCHANGED <<privVars, threadVars, dir, sess, registered, dspVars, cb>>

(* Mutant: stop clears eos before it looks at it.                          *)
StopDrain_cleared(t) ==
  /\ pc[t] = "stop_eos" /\ EosLockFree
  /\ Goto(t, "stop_poll")
  /\ eos' = FALSE
  /\ UNCHANGED <<total_buf_size, bytes_avail, prepared, freed, size, reg, sessVars, dspVars, cb>>

agm_compress_stop(t) ==
  /\ MayCall(t, "stop") /\ sess = "STARTED" /\ bytes_avail <= MaxAvail
  /\ Goto(t, "stop_eos")
  /\ UNCHANGED <<privVars, size, reg, sessVars, dspVars, cb>>

StopDrain(t) ==
  /\ pc[t] = "stop_eos" /\ EosLockFree
  /\ pc' \in Then(t, "stop_poll", DrainReleased)
  /\ eos' = FALSE
  /\ UNCHANGED <<total_buf_size, bytes_avail, prepared, freed, size, reg, sessVars, dspVars, cb>>

StopPoll(t) ==
  /\ pc[t] = "stop_poll"
  /\ pc' \in Then(t, "stop_session", PollReleased)
  /\ UNCHANGED <<privVars, size, reg, sessVars, dspVars, cb>>

(* agm_session_stop: the DSP drops what it holds; events already raised    *)
(* are still delivered.  When GSL fails, a capture session is stopped all  *)
(* the same (session_stop ignores the error, and returns it).              *)
StopSession(t) ==
  /\ pc[t] = "stop_session"
  /\ \/ /\ sess = "STARTED"
        /\ sess' = "STOPPED" /\ queue' = <<>> /\ filled' = 0
        /\ Goto(t, "stop_reset")
     \/ /\ "stop" \in Failing \/ sess # "STARTED"
        /\ sess' = IF dir = "TX" /\ sess = "STARTED" THEN "STOPPED" ELSE sess
        /\ Goto(t, "idle")
        /\ UNCHANGED <<queue, filled>>
  /\ UNCHANGED <<privVars, size, reg, dir, registered, paused, events, cb>>

(* The reset does not take priv->lock.                                     *)
StopReset(t) ==
  /\ pc[t] = "stop_reset"
  /\ bytes_avail' = total_buf_size
  /\ Goto(t, "idle")
  /\ UNCHANGED <<total_buf_size, eos, prepared, freed, size, reg, sessVars, dspVars, cb>>

-----------------------------------------------------------------------------
(* Waiting.                                                                *)

(* Mutant: drain does not set eos.                                         *)
agm_compress_drain_unset(t) ==
  /\ MayCall(t, "drain") /\ dir = "RX" /\ sess = "STARTED" /\ EosLockFree /\ Len(queue) < MaxQueue
  /\ Goto(t, "drain_eos")
  /\ UNCHANGED <<privVars, size, reg, sessVars, dspVars, cb>>

(* A client drains a running stream.  eos is set, and the command sent,    *)
(* under eos_lock; a failed command leaves eos set.                        *)
agm_compress_drain(t) ==
  /\ MayCall(t, "drain") /\ dir = "RX" /\ sess = "STARTED" /\ EosLockFree /\ Len(queue) < MaxQueue
  /\ eos' = TRUE
  /\ Goto(t, "drain_eos")
  /\ UNCHANGED <<total_buf_size, bytes_avail, prepared, freed, size, reg, sessVars, dspVars, cb>>

DrainWait(t) ==
  /\ pc[t] = "drain_eos"
  /\ \/ queue' = Append(queue, "eos") /\ Goto(t, "drain_wait")
     \/ "eos" \in Failing /\ UNCHANGED queue /\ Goto(t, "idle")
  /\ UNCHANGED <<privVars, size, reg, sessVars, filled, events, cb>>

DrainReturn(t) ==
  /\ pc[t] = "drain_woken" /\ EosLockFree
  /\ Goto(t, "idle")
  /\ UNCHANGED <<privVars, size, reg, sessVars, dspVars, cb>>

(* A client polls when it was told that less than a fragment is available; *)
(* nothing is checked again before the wait.                               *)
agm_compress_poll(t) ==
  /\ MayCall(t, "poll") /\ size[t] \in 0..(FragSize - 1)
  /\ size' = [size EXCEPT ![t] = Unknown]
  /\ Goto(t, "poll_wait")
  /\ UNCHANGED <<privVars, reg, sessVars, dspVars, cb>>

(* A poll with a timeout gives a deadline on CLOCK_MONOTONIC to a          *)
(* condition on CLOCK_REALTIME (poll_cond is all zeroes): it is past, and  *)
(* the call times out at once.                                             *)
PollTimeout(t) ==
  /\ MayCall(t, "poll_timeout") /\ size[t] \in 0..(FragSize - 1)
  /\ size' = [size EXCEPT ![t] = Unknown]
  /\ UNCHANGED <<privVars, pc, reg, sessVars, dspVars, cb>>

(* POSIX lets a wait return without a signal.                              *)
WakeUp(t) ==
  /\ Spurious
  /\ \/ pc[t] = "drain_wait" /\ Goto(t, "drain_woken")
     \/ pc[t] = "poll_wait" /\ Goto(t, "idle")
  /\ UNCHANGED <<privVars, size, reg, sessVars, dspVars, cb>>

(* Mutant: close does not unregister the callback.                         *)
agm_compress_close_registered(t) ==
  /\ MayCall(t, "close") /\ \A u \in Threads : pc[u] = "idle"
  /\ Goto(t, "close_session")
  /\ UNCHANGED <<privVars, size, reg, sessVars, dspVars, cb>>

-----------------------------------------------------------------------------
(* Closing.  A client closes when its other threads have returned, or, to  *)
(* get them out, while one waits in drain.  register_cb(NULL) waits for    *)
(* the callback in progress, which runs under cb_pool_lock.                *)
agm_compress_close(t) ==
  /\ \/ MayCall(t, "close") /\ \A u \in Threads : pc[u] = "idle"
     \/ MayCall(t, "close_waiting") /\ \A u \in Threads : pc[u] \in {"idle", "drain_wait"}
  /\ cb.step = "idle"
  /\ registered' = FALSE
  /\ Goto(t, "close_session")
  /\ UNCHANGED <<privVars, size, reg, dir, sess, paused, dspVars, cb>>

CloseSession(t) ==
  /\ pc[t] = "close_session"
  /\ sess' = "CLOSED" /\ queue' = <<>> /\ filled' = 0
  /\ Goto(t, "close_eos")
  /\ UNCHANGED <<privVars, size, reg, dir, registered, paused, events, cb>>

CloseDrain(t) ==
  /\ pc[t] = "close_eos" /\ EosLockFree
  /\ pc' \in Then(t, "close_free", DrainReleased)
  /\ eos' = FALSE
  /\ UNCHANGED <<total_buf_size, bytes_avail, prepared, freed, size, reg, sessVars, dspVars, cb>>

CloseFree(t) ==
  /\ pc[t] = "close_free"
  /\ pc' \in Then(t, "idle", PollReleased)
  /\ freed' = TRUE
  /\ UNCHANGED <<total_buf_size, bytes_avail, eos, prepared, size, reg, sessVars, dspVars, cb>>

-----------------------------------------------------------------------------
(* The DSP.                                                                *)

Running == sess = "STARTED" /\ ~paused

(* Playback consumes its commands in order.                                *)
DspConsume ==
  /\ Running /\ queue # <<>> /\ Len(events) < MaxEvents
  /\ queue' = Tail(queue)
  /\ events' = Append(events, IF Head(queue) = "buf" THEN "WRITE_DONE" ELSE "EOS_RENDERED")
  /\ UNCHANGED <<privVars, threadVars, sessVars, filled, cb>>

DspFill ==
  /\ dir = "TX" /\ Running /\ filled < Fragments /\ Len(events) < MaxEvents
  /\ filled' = filled + 1
  /\ events' = Append(events, "READ_DONE")
  /\ UNCHANGED <<privVars, threadVars, sessVars, queue, cb>>

-----------------------------------------------------------------------------
(* The callback.  graph_event_cb holds cb_pool_lock while it runs.         *)

graph_event_cb ==
  /\ cb.step = "idle" /\ events # <<>>
  /\ events' = Tail(events)
  /\ cb' = IF registered THEN [event |-> Head(events), step |-> "entry", val |-> 0] ELSE cb
  /\ UNCHANGED <<privVars, threadVars, sessVars, queue, filled>>

agm_compress_event_cb ==
  /\ cb.step = "entry" /\ LockFree
  /\ cb' = IF cb.event = "EOS_RENDERED" THEN [cb EXCEPT !.step = "eos"]
           ELSE [cb EXCEPT !.step = "store", !.val = bytes_avail + FragSize]
  /\ UNCHANGED <<privVars, threadVars, sessVars, dspVars>>

(* Mutants: the limit is checked before the fragment is added; a drain is  *)
(* let go when the whole buffer has been consumed.                         *)
StoreAvail_checked ==
  /\ cb.step = "store"
  /\ bytes_avail' = IF cb.val > total_buf_size THEN bytes_avail ELSE cb.val
  /\ cb' = [cb EXCEPT !.step = "poll", !.val = 0]
  /\ UNCHANGED <<total_buf_size, eos, prepared, freed, threadVars, sessVars, dspVars>>
StoreAvail_drains ==
  /\ cb.step = "store"
  /\ bytes_avail' = cb.val
  /\ cb' = [cb EXCEPT !.step = "poll"]
  /\ pc' \in IF cb.val = total_buf_size THEN Signalled("drain_wait", "drain_woken") ELSE {pc}
  /\ UNCHANGED <<total_buf_size, eos, prepared, freed, size, reg, sessVars, dspVars>>

(* More than the whole buffer to write is reported and ends the callback.  *)
StoreAvail ==
  /\ cb.step = "store"
  /\ bytes_avail' = cb.val
  /\ cb' = IF cb.event = "WRITE_DONE" /\ cb.val > total_buf_size THEN NoDelivery
           ELSE [cb EXCEPT !.step = "poll", !.val = 0]
  /\ UNCHANGED <<total_buf_size, eos, prepared, freed, threadVars, sessVars, dspVars>>

EosRendered ==
  /\ cb.step = "eos" /\ EosLockFree
  /\ pc' \in DrainReleased
  /\ eos' = FALSE
  /\ cb' = [cb EXCEPT !.step = "poll"]
  /\ UNCHANGED <<total_buf_size, bytes_avail, prepared, freed, size, reg, sessVars, dspVars>>

SignalPoll ==
  /\ cb.step = "poll"
  /\ pc' \in PollReleased
  /\ cb' = NoDelivery
  /\ UNCHANGED <<privVars, size, reg, sessVars, dspVars>>

-----------------------------------------------------------------------------
(* The calls a client makes, and the steps of the calls in progress.       *)
Call(t) ==
  \/ agm_compress_set_params(t) \/ agm_compress_avail(t)
  \/ \E count \in 1..Total : agm_compress_write(t, count) \/ agm_compress_read(t, count)
  \/ agm_compress_start(t) \/ agm_compress_pause(t) \/ agm_compress_resume(t)
  \/ agm_compress_stop(t) \/ agm_compress_drain(t)
  \/ agm_compress_poll(t) \/ PollTimeout(t) \/ agm_compress_close(t)

Step(t) ==
  \/ LoadAvail(t) \/ ChargeAvail(t)
  \/ StopDrain(t) \/ StopPoll(t) \/ StopSession(t) \/ StopReset(t)
  \/ DrainWait(t) \/ DrainReturn(t)
  \/ CloseSession(t) \/ CloseDrain(t) \/ CloseFree(t)

Callback == graph_event_cb \/ agm_compress_event_cb \/ StoreAvail \/ EosRendered \/ SignalPoll

Dsp == DspConsume \/ DspFill

Next == (\E t \in Threads : Call(t) \/ Step(t) \/ WakeUp(t)) \/ Callback \/ Dsp

Spec == Init /\ [][Next]_vars

(* Threads that have begun a call, the callback thread and a running DSP   *)
(* keep going; nothing makes a client call.                                *)
Fairness == (\A t \in Threads : WF_vars(Step(t))) /\ WF_vars(Callback) /\ WF_vars(Dsp)

FairSpec == Spec /\ Fairness

-----------------------------------------------------------------------------
(* Properties.                                                             *)

(* Fragments the DSP has room for, or holds for a capture client.          *)
Held == IF dir = "RX" THEN Fragments - Bufs(queue) ELSE filled

(* Fragments that the service has taken and bytes_avail is not charged for *)
(* yet, and fragments whose return bytes_avail does not show yet.          *)
Charging(t) == pc[t] \in {"write_load", "write_store", "read_load", "read_store"}
Uncharged == Cardinality(UNION {{t} \X (1..Used(size[t])) : t \in {u \in Threads : Charging(u)}})
Uncredited == Cardinality({i \in DOMAIN events : events[i] # "EOS_RENDERED"})
    + (IF cb.event \in {"WRITE_DONE", "READ_DONE"} /\ cb.step \in {"entry", "store"}
       THEN 1 ELSE 0)

(* "avail size to write/read": whatever the order of transfers, charges    *)
(* and callbacks, bytes_avail is what the DSP has room for (or holds, for  *)
(* capture), but for the transfers and callbacks still on their way.  It   *)
(* is not exact between the two steps of a stop, and after close has       *)
(* unregistered the callback.                                              *)
AvailExact ==
  total_buf_size # 0 /\ registered /\ (\A t \in Threads : pc[t] # "stop_reset") =>
    bytes_avail = (Held + Uncharged - Uncredited) * FragSize

(* "stop will reset all the buffers": when no thread is in a call and no   *)
(* callback is due, bytes_avail is what the DSP has room for (or holds).   *)
AvailAtRest ==
  /\ total_buf_size # 0 /\ registered
  /\ \A t \in Threads : pc[t] = "idle"
  /\ events = <<>> /\ cb.step = "idle"
  => bytes_avail = Held * FragSize

(* A charge never finds less than it takes: agm_compress_write does not    *)
(* report -EINVAL for bytes that the DSP has accepted, even when stop      *)
(* resets bytes_avail in between without the lock.                         *)
AvailNonNegative == bytes_avail >= 0

(* While a drain waits, eos is set: whichever of the callback, stop or     *)
(* close comes next will signal it.                                        *)
WaitingDrainArmed == \A t \in Threads : pc[t] = "drain_wait" => eos

(* drain returns after the end of stream it sent has been rendered and     *)
(* reported: "Unblock eos wait if all the buffers are rendered".           *)
DrainComplete ==
  \A t \in Threads : pc[t] = "drain_woken" =>
    /\ \A i \in DOMAIN queue : queue[i] # "eos"
    /\ \A i \in DOMAIN events : events[i] # "EOS_RENDERED"

(* "Make sure callbacks are not running at this point": once priv is freed *)
(* no callback is in progress and no thread has a step left that uses it.  *)
NothingAfterFree ==
  freed => cb.step = "idle" /\ \A t \in Threads : pc[t] = "idle"

(* "Unblock poll wait if avail bytes to write/read is more than one        *)
(* fragment": a thread waits in poll only while less than a fragment is    *)
(* available or a callback is about to signal it.                          *)
PollWaitsForSpace ==
  (\E t \in Threads : pc[t] = "poll_wait") =>
    bytes_avail < FragSize \/ events # <<>> \/ cb.step # "idle"

(* A capture client that sets up its stream and starts it gets data.       *)
CaptureDelivers == <>(filled > 0)

(* A drain that waits while the DSP is running returns.                    *)
DrainReturns ==
  \A t \in Threads : pc[t] = "drain_wait" ~> (pc[t] # "drain_wait" \/ ~Running)

(* "Unlock drain if its waiting for EOS rendered": a drain that waits when *)
(* another thread calls stop returns.                                      *)
StopReleasesDrain ==
  \A t, u \in Threads :
    (pc[t] = "drain_wait" /\ pc[u] = "stop_eos") ~> pc[t] # "drain_wait"
====
