------------------------------- MODULE AgmCalls -------------------------------
(***************************************************************************)
(* The API calls of service/src/agm.c from several threads at once: the    *)
(* session pool, the locks a call takes, the data path, the parameters     *)
(* cached for a session, the registered callbacks and the events that      *)
(* GSL's threads deliver to them.                                          *)
(*                                                                         *)
(* AgmSession models what open, connect, prepare, start, stop and close do *)
(* to graphs and devices; here they are one step each.  What matters here  *)
(* is which lock is held when, and which object a call still uses after it *)
(* has let a lock go.  A thread has a stack of calls: a client's callback  *)
(* may call the service again from the thread that delivers the event.     *)
(***************************************************************************)
EXTENDS Naturals, Sequences, FiniteSets, SequencesExt, Lists

CONSTANTS
  Sessions,     \* session ids
  Threads,      \* client threads and GSL's event threads
  Clients,      \* the client_data of registered callbacks
  Payloads,     \* parameter payloads
  Calls,        \* the calls that the clients of each thread make
  CallbackOps,  \* the calls that a callback makes
  Overlap,      \* which of "close" and "deinit" clients call beside other calls
  Failing,      \* the external calls that may fail
  MaxOpens,     \* bound on the graphs GSL opens for a session; later opens fail
  MaxCbs        \* bound on the callbacks registered for a session

(* No thread is the one that holds a lock nobody holds.                    *)
ASSUME CallsAssumption == "none" \notin Threads

VARIABLES
  pool_lock,    \* the thread that holds sess_pool->lock
  sess_lock,    \* the thread that holds the lock of each session
  cb_pool_lock, \* the thread that holds the cb_pool_lock of each session
  exists,       \* the sessions whose object is in the pool
  sess,         \* the session objects
  cb_pool,      \* the registered callbacks of each session, in order
  stack,        \* the calls in progress on each thread, innermost first
  wanted        \* the parameters the client set last and may rely on

vars == <<pool_lock, sess_lock, cb_pool_lock, exists, sess, cb_pool, stack, wanted>>

-----------------------------------------------------------------------------
None == "none"

(* The calls that name the session by its id and look it up in the pool.  *)
MetadataCalls == {"set_metadata", "set_aif_metadata", "get_tag"}

ParamCalls == {"set_cal", "get_params", "set_params", "set_tag"}

EventCalls == {"register_cb", "deregister_cb", "register_for_events"}

EdgeCalls == {"loopback"}

QueryCalls == {"buffer_timestamp", "get_buf_info"}

ById == {"open"} \cup MetadataCalls \cup ParamCalls \cup EventCalls \cup EdgeCalls \cup QueryCalls

(* The calls that pass the handle, the session object itself.              *)
ByHandle == {"set_config", "start", "stop", "close", "pause", "resume", "read", "write",
             "buff_cnt", "eos", "get_time"}

EventTypes == {"DATA_PATH", "MODULE"}

Frame == [op: ById \cup ByHandle \cup {"event", "deinit"},
          s: Sessions \cup {None},
          pc: {"get", "body", "loopback", "use", "transfer", "pool", "cb_lock", "deliver",
               "in_cb", "free", "free_next"},
          arg: Clients \cup Payloads \cup Sessions \cup EventTypes \cup {None},
          g: Nat,
          left: Seq(Clients \X EventTypes)]

(* The graph object a session points to: its number, 0 for NULL, whether   *)
(* it was freed behind the pointer, and the parameters it was sent.        *)
GraphObj == [id: Nat, freed: BOOLEAN, config: Payloads \cup {None}]

NoGraph == [id |-> 0, freed |-> FALSE, config |-> None]

SessionObj == [state: {"CLOSED", "OPENED", "STARTED", "STOPPED"}, graph: GraphObj,
               opens: Nat, params: Payloads \cup {None}, loopback: Sessions \cup {None}]

session_obj_create == [state |-> "CLOSED", graph |-> NoGraph, opens |-> 0,
                       params |-> None, loopback |-> None]

TypeOK ==
  /\ pool_lock \in Threads \cup {None}
  /\ sess_lock \in [Sessions -> Threads \cup {None}]
  /\ cb_pool_lock \in [Sessions -> Threads \cup {None}]
  /\ exists \subseteq Sessions
  /\ sess \in [Sessions -> SessionObj]
  /\ cb_pool \in [Sessions -> Seq(Clients \X EventTypes)]
  /\ stack \in [Threads -> Seq(Frame)]
  /\ wanted \in [Sessions -> Payloads \cup {None}]

(* The pool as session_pool_init leaves it.                                *)
Init ==
  /\ pool_lock = None
  /\ sess_lock = [s \in Sessions |-> None]
  /\ cb_pool_lock = [s \in Sessions |-> None]
  /\ exists = {}
  /\ sess = [s \in Sessions |-> session_obj_create]
  /\ cb_pool = [s \in Sessions |-> <<>>]
  /\ stack = [t \in Threads |-> <<>>]
  /\ wanted = [s \in Sessions |-> None]

Outcome(c) == IF c \in Failing THEN BOOLEAN ELSE {TRUE}

-----------------------------------------------------------------------------
(* Threads and their stacks.                                               *)

At(t, op, pc) == stack[t] # <<>> /\ Head(stack[t]).op = op /\ Head(stack[t]).pc = pc

Push(t, f) == stack' = [stack EXCEPT ![t] = <<f>> \o @]

Return(t) == stack' = [stack EXCEPT ![t] = Tail(@)]

Goto(t, pc) == stack' = [stack EXCEPT ![t][1].pc = pc]

Frames(t) == Range(stack[t])

InProgress(s, ops) == \E t \in Threads : \E f \in Frames(t) : f.s = s /\ f.op \in ops

DeinitRuns == \E t \in Threads : \E f \in Frames(t) : f.op = "deinit"

(* What clients do not do: use a handle while or after they close it, call *)
(* anything while they shut the service down.                              *)
Disciplined(op, s) ==
  /\ "deinit" \in Overlap \/ ~DeinitRuns
  /\ "close" \in Overlap \/
       /\ op \in ByHandle => sess[s].state # "CLOSED" /\ ~InProgress(s, {"close"})
       /\ op = "close" => ~InProgress(s, ByHandle)

(* The arguments of a call that the model tells apart.                     *)
Args(op) ==
  CASE op = "set_params" -> Payloads
    [] op \in {"register_cb", "deregister_cb"} -> Clients
    [] op = "loopback" -> Sessions \cup {None}
    [] OTHER -> {None}

(* A thread that runs nothing, or the callback on top of its stack, calls  *)
(* the service.  A handle is the pointer that an open returned; agm.c      *)
(* turns a null one away.  A callback makes one call.                      *)
Call(t, op, s) ==
  /\ \/ stack[t] = <<>> /\ op \in Calls[t]
     \/ /\ stack[t] # <<>> /\ Head(stack[t]).pc = "in_cb" /\ Head(stack[t]).g = 0
        /\ op \in CallbackOps
  /\ op \in ByHandle => s \in exists /\ sess[s].opens > 0
  /\ Disciplined(op, s)
  /\ \E a \in Args(op) :
       LET f == [op |-> op, s |-> s, pc |-> IF op \in ById THEN "get" ELSE "body",
                 arg |-> a, g |-> 0, left |-> <<>>]
           below == IF stack[t] = <<>> THEN <<>>
                    ELSE <<[Head(stack[t]) EXCEPT !.g = 1]>> \o Tail(stack[t])
       IN stack' = [stack EXCEPT ![t] = <<f>> \o below]
  /\ UNCHANGED <<pool_lock, sess_lock, cb_pool_lock, exists, sess, cb_pool, wanted>>

-----------------------------------------------------------------------------
(* The session pool.                                                       *)

(* session_obj_get: the object is found, or created at the tail of the     *)
(* list, under the pool lock.                                              *)
session_obj_get_from_pool(t) ==
  LET f == Head(stack[t]) IN
  /\ stack[t] # <<>> /\ f.pc = "get"
  /\ pool_lock = None
  /\ exists' = exists \cup {f.s}
  /\ Goto(t, IF f.op \in {"register_cb", "deregister_cb"} THEN "cb_lock" ELSE "body")
  /\ UNCHANGED <<pool_lock, sess_lock, cb_pool_lock, sess, cb_pool, wanted>>

(* Every call below holds the session lock from entry to return.           *)
Body(t, op) == At(t, op, "body") /\ sess_lock[Head(stack[t]).s] = None

Handled(t, op) ==
  /\ Body(t, op)
  /\ Return(t)
  /\ UNCHANGED <<pool_lock, sess_lock, cb_pool_lock, exists, cb_pool>>

SetSession(s, r) == sess' = [sess EXCEPT ![s] = r]

(* agm_deinit: session_obj_deinit frees the pool first.                    *)
agm_deinit(t) ==
  /\ stack[t] = <<>> /\ "deinit" \in Calls[t]
  /\ ~DeinitRuns
  /\ "deinit" \in Overlap \/ \A u \in Threads : stack[u] = <<>>
  /\ Push(t, [op |-> "deinit", s |-> None, pc |-> "free", arg |-> None, g |-> 0, left |-> <<>>])
  /\ UNCHANGED <<pool_lock, sess_lock, cb_pool_lock, exists, sess, cb_pool, wanted>>

(* session_pool_free holds the pool lock while it waits for the lock of    *)
(* each session, closes it and frees the object with its callbacks.        *)
session_pool_free(t) ==
  \/ /\ At(t, "deinit", "free")
     /\ pool_lock = None
     /\ pool_lock' = t
     /\ Goto(t, "free_next")
     /\ UNCHANGED <<sess_lock, cb_pool_lock, exists, sess, cb_pool, wanted>>
  \/ /\ At(t, "deinit", "free_next")
     /\ \E s \in exists :
          /\ sess_lock[s] = None
          /\ exists' = exists \ {s}
          /\ SetSession(s, [session_obj_create EXCEPT !.opens = sess[s].opens])
          /\ cb_pool' = [cb_pool EXCEPT ![s] = <<>>]
          /\ wanted' = [wanted EXCEPT ![s] = None]
     /\ UNCHANGED <<pool_lock, sess_lock, cb_pool_lock, stack>>
  \/ /\ At(t, "deinit", "free_next")
     /\ exists = {}
     /\ pool_lock' = None
     /\ Return(t)
     /\ UNCHANGED <<sess_lock, cb_pool_lock, exists, sess, cb_pool, wanted>>

-----------------------------------------------------------------------------
(* Opening, running and closing, as far as the other calls can tell.       *)

(* A mistake: the sent parameters stay cached.                             *)
BugOpenKeepsCache(t) ==
  LET s == Head(stack[t]).s IN
  /\ Handled(t, "open")
  /\ sess[s].opens < MaxOpens
  /\ SetSession(s, [sess[s] EXCEPT !.state = "OPENED", !.opens = @ + 1,
                     !.graph = [NoGraph EXCEPT !.id = sess[s].opens + 1,
                                               !.config = sess[s].params]])
  /\ UNCHANGED wanted

(* A fresh graph is opened and sent the parameters cached while the        *)
(* session was closed.  When that fails graph_close frees the graph and    *)
(* the session keeps the pointer; it stays closed and keeps the cache.     *)
session_obj_open(t) ==
  LET s == Head(stack[t]).s
      obj == sess[s]
      fresh == [NoGraph EXCEPT !.id = obj.opens + 1, !.config = obj.params]
  IN
  /\ Handled(t, "open")
  /\ UNCHANGED wanted
  /\ \/ obj.state # "CLOSED" /\ UNCHANGED sess
     \/ /\ obj.state = "CLOSED"
        /\ \E opened \in Outcome("gsl_open"), sent \in Outcome("gsl_set_custom_config") :
             SetSession(s,
               IF ~opened \/ obj.opens = MaxOpens THEN obj
               ELSE IF obj.params # None /\ ~sent
               THEN [obj EXCEPT !.graph = [fresh EXCEPT !.freed = TRUE, !.config = None],
                                !.opens = @ + 1]
               ELSE [obj EXCEPT !.state = "OPENED", !.graph = fresh, !.params = None,
                                !.opens = @ + 1])

(* session_prepare and session_start; AgmSession has the detail.           *)
session_obj_start(t) ==
  LET s == Head(stack[t]).s IN
  /\ Handled(t, "start")
  /\ SetSession(s, IF sess[s].state = "CLOSED" THEN sess[s]
                   ELSE [sess[s] EXCEPT !.state = "STARTED"])
  /\ UNCHANGED wanted

session_obj_stop(t) ==
  LET s == Head(stack[t]).s IN
  /\ Handled(t, "stop")
  /\ SetSession(s, IF sess[s].state # "STARTED" THEN sess[s]
                   ELSE [sess[s] EXCEPT !.state = "STOPPED"])
  /\ UNCHANGED wanted

(* The graph goes, and with it the parameters it was sent.                 *)
session_obj_close(t) ==
  LET s == Head(stack[t]).s IN
  /\ Handled(t, "close")
  /\ IF sess[s].state = "CLOSED" THEN UNCHANGED <<sess, wanted>>
     ELSE /\ SetSession(s, [sess[s] EXCEPT !.state = "CLOSED", !.graph = NoGraph])
          /\ wanted' = [wanted EXCEPT ![s] = None]

-----------------------------------------------------------------------------
(* Parameters.                                                             *)

(* The new payload replaces the cached one, which is freed first; on an    *)
(* open session it goes straight to the graph and the cache is emptied.    *)
(* A client whose set failed relies on nothing it had cached before.       *)
session_obj_set_sess_params(t) ==
  LET f == Head(stack[t])
      obj == sess[f.s]
      closed == obj.state = "CLOSED"
  IN
  /\ Handled(t, "set_params")
  /\ \E copied \in Outcome("calloc"), sent \in Outcome("gsl_set_custom_config") :
       LET done == copied /\ (closed \/ sent)
       IN /\ SetSession(f.s,
               [obj EXCEPT !.params = IF closed /\ copied THEN f.arg ELSE None,
                           !.graph.config = IF ~closed /\ done THEN f.arg ELSE @])
          /\ wanted' = [wanted EXCEPT ![f.s] = IF done THEN f.arg
                                               ELSE IF closed THEN None ELSE @]

(* The metadata is replaced in every state; see Metadata for its value.    *)
session_obj_set_sess_metadata(t) ==
  /\ Handled(t, "set_metadata")
  /\ UNCHANGED <<sess, wanted>>

session_obj_set_sess_aif_metadata(t) ==
  /\ Handled(t, "set_aif_metadata")
  /\ UNCHANGED <<sess, wanted>>

(* Only the merged metadata is used, not the graph.                        *)
session_obj_get_tag_with_module_info(t) ==
  /\ Handled(t, "get_tag")
  /\ UNCHANGED <<sess, wanted>>

(* The stream, media and buffer configuration is copied into the session.  *)
session_obj_set_config(t) ==
  /\ Handled(t, "set_config")
  /\ UNCHANGED <<sess, wanted>>

-----------------------------------------------------------------------------
(* Calls that hand the session's graph to GSL under the session lock.      *)

(* A mistake: get_params has no state check either.                        *)
BugReaches(op, state) ==
  op \in {"resume", "get_params"} \/ state # "CLOSED"

(* Which calls the state check lets through to the graph.  set_tag refuses *)
(* only when the session is closed and the interface is not opened either, *)
(* set_cal when one of them holds; here a session is open when its         *)
(* interface is.  resume has no check.                                     *)
Reaches(op, state) ==
  CASE op \in {"pause", "buffer_timestamp"} -> state = "STARTED"
    [] op = "resume" -> TRUE
    [] OTHER -> state # "CLOSED"

GraphOps == {"get_params", "set_tag", "set_cal", "register_for_events", "pause", "resume",
             "buff_cnt", "eos", "get_time", "buffer_timestamp", "get_buf_info"}

GraphCall(t, op) ==
  /\ Handled(t, op)
  /\ UNCHANGED <<sess, wanted>>

session_obj_get_sess_params(t) == GraphCall(t, "get_params")

session_obj_set_sess_aif_params_with_tag(t) == GraphCall(t, "set_tag")

session_obj_set_sess_aif_cal(t) == GraphCall(t, "set_cal")

session_obj_register_for_events(t) == GraphCall(t, "register_for_events")

session_obj_hw_processed_buff_cnt(t) == GraphCall(t, "buff_cnt")

session_obj_eos(t) == GraphCall(t, "eos")

session_obj_get_timestamp(t) == GraphCall(t, "get_time")

session_obj_buffer_timestamp(t) == GraphCall(t, "buffer_timestamp")

session_obj_get_sess_buf_info(t) == GraphCall(t, "get_buf_info")

session_obj_pause(t) == GraphCall(t, "pause")

session_obj_resume(t) == GraphCall(t, "resume")

-----------------------------------------------------------------------------
(* Loopback: a capture session is joined to a playback session.            *)

(* The session lock is held while session_set_loopback looks the playback  *)
(* session up, for which it needs the pool lock.                           *)
session_obj_set_loopback(t) ==
  LET f == Head(stack[t])
      obj == sess[f.s]
      enter == f.arg # obj.loopback /\ obj.state # "CLOSED"
  IN
  /\ Body(t, "loopback")
  /\ IF enter
     THEN /\ Goto(t, "loopback")
          /\ sess_lock' = [sess_lock EXCEPT ![f.s] = t]
     ELSE Return(t) /\ UNCHANGED sess_lock
  /\ SetSession(f.s, IF enter THEN obj ELSE [obj EXCEPT !.loopback = f.arg])
  /\ UNCHANGED <<pool_lock, cb_pool_lock, exists, cb_pool, wanted>>

(* A mistake: the error path returns with the session locked.              *)
BugLoopbackKeepsLock(t) ==
  LET f == Head(stack[t]) IN
  /\ At(t, "loopback", "loopback")
  /\ pool_lock = None
  /\ \E ok \in Outcome("gsl_ioctl") :
       IF ok THEN /\ SetSession(f.s, [sess[f.s] EXCEPT !.loopback = f.arg])
                  /\ sess_lock' = [sess_lock EXCEPT ![f.s] = None]
       ELSE UNCHANGED <<sess, sess_lock>>
  /\ Return(t)
  /\ UNCHANGED <<pool_lock, cb_pool_lock, exists, cb_pool, wanted>>

(* session_obj_get, then graph_add or graph_remove of the joining edge.    *)
session_set_loopback(t) ==
  LET f == Head(stack[t])
      pb == IF f.arg = None THEN sess[f.s].loopback ELSE f.arg
  IN
  /\ At(t, "loopback", "loopback")
  /\ pool_lock = None
  /\ exists' = exists \cup {pb}
  /\ \E ok \in Outcome("gsl_ioctl") :
       SetSession(f.s, IF ok THEN [sess[f.s] EXCEPT !.loopback = f.arg] ELSE sess[f.s])
  /\ sess_lock' = [sess_lock EXCEPT ![f.s] = None]
  /\ Return(t)
  /\ UNCHANGED <<pool_lock, cb_pool_lock, cb_pool, wanted>>

-----------------------------------------------------------------------------
(* The data path.                                                          *)

(* read and write check the state under the session lock and release it.  *)
Checked(t, op) ==
  LET s == Head(stack[t]).s IN
  /\ Body(t, op)
  /\ IF sess[s].state = "CLOSED" THEN Return(t) ELSE Goto(t, "use")
  /\ UNCHANGED <<pool_lock, sess_lock, cb_pool_lock, exists, sess, cb_pool, wanted>>

session_obj_read(t) == Checked(t, "read")

session_obj_write(t) == Checked(t, "write")

(* The session's graph pointer is fetched with no lock held.  A null graph *)
(* is refused.                                                             *)
Fetched(t, op, goes) ==
  LET s == Head(stack[t]).s IN
  /\ At(t, op, "use")
  /\ IF sess[s].graph.id # 0 /\ goes
     THEN stack' = [stack EXCEPT ![t][1].pc = "transfer", ![t][1].g = sess[s].graph.id]
     ELSE Return(t)
  /\ UNCHANGED <<pool_lock, sess_lock, cb_pool_lock, exists, sess, cb_pool, wanted>>

(* graph_read also refuses a graph that is not started.                    *)
graph_read(t) == Fetched(t, "read", sess[Head(stack[t]).s].state = "STARTED")

graph_write(t) == Fetched(t, "write", TRUE)

(* gsl_read and gsl_write return; they may block for as long as the DSP    *)
(* takes to consume or to produce a buffer.                                *)
gsl_transfer(t) ==
  /\ stack[t] # <<>> /\ Head(stack[t]).pc = "transfer"
  /\ Return(t)
  /\ UNCHANGED <<pool_lock, sess_lock, cb_pool_lock, exists, sess, cb_pool, wanted>>

-----------------------------------------------------------------------------
(* Callbacks and events.                                                   *)

(* A mistake: the list is changed without its lock.                        *)
BugRegisterUnlocked(t) ==
  LET f == Head(stack[t]) IN
  /\ At(t, "register_cb", "cb_lock") \/ At(t, "deregister_cb", "cb_lock")
  /\ \E ev \in EventTypes :
       cb_pool' = [cb_pool EXCEPT ![f.s] =
                     IF f.op = "deregister_cb" THEN SelectSeq(@, LAMBDA c : c # <<f.arg, ev>>)
                     ELSE IF Len(@) < MaxCbs THEN Append(@, <<f.arg, ev>>) ELSE @]
  /\ Return(t)
  /\ UNCHANGED <<pool_lock, sess_lock, cb_pool_lock, exists, sess, wanted>>

(* Under cb_pool_lock: a callback is added at the tail, registered already *)
(* or not; with a null callback every entry of that client and event type  *)
(* is removed.                                                             *)
session_obj_register_cb(t) ==
  LET f == Head(stack[t]) IN
  /\ At(t, "register_cb", "cb_lock") \/ At(t, "deregister_cb", "cb_lock")
  /\ cb_pool_lock[f.s] = None
  /\ \E ev \in EventTypes, ok \in Outcome("calloc") :
       cb_pool' = [cb_pool EXCEPT ![f.s] =
                     IF ~ok THEN @
                     ELSE IF f.op = "deregister_cb"
                     THEN Kept(@, {i \in DOMAIN @ : @[i] # <<f.arg, ev>>})
                     ELSE IF Len(@) < MaxCbs THEN Append(@, <<f.arg, ev>>) ELSE @]
  /\ Return(t)
  /\ UNCHANGED <<pool_lock, sess_lock, cb_pool_lock, exists, sess, wanted>>

(* A thread of GSL raises an event of an open graph.                       *)
gsl_event(t, s, ev) ==
  /\ stack[t] = <<>>
  /\ "deinit" \in Overlap \/ ~DeinitRuns
  /\ sess[s].state # "CLOSED"
  /\ Push(t, [op |-> "event", s |-> s, pc |-> "pool", arg |-> ev, g |-> 0, left |-> <<>>])
  /\ UNCHANGED <<pool_lock, sess_lock, cb_pool_lock, exists, sess, cb_pool, wanted>>

(* graph_event_cb finds the session under the pool lock.                   *)
session_obj_retrieve_from_pool(t) ==
  /\ At(t, "event", "pool")
  /\ pool_lock = None
  /\ IF Head(stack[t]).s \in exists THEN Goto(t, "cb_lock") ELSE Return(t)
  /\ UNCHANGED <<pool_lock, sess_lock, cb_pool_lock, exists, sess, cb_pool, wanted>>

(* Then it holds cb_pool_lock while it runs the callbacks that are         *)
(* registered for the type of the event, one after another.                *)
Matching(f) == Kept(cb_pool[f.s], {i \in DOMAIN cb_pool[f.s] : cb_pool[f.s][i][2] = f.arg})

graph_event_cb(t) ==
  LET f == Head(stack[t]) IN
  /\ \/ /\ At(t, "event", "cb_lock")
        /\ cb_pool_lock[f.s] = None
        /\ cb_pool_lock' = [cb_pool_lock EXCEPT ![f.s] = t]
        /\ stack' = [stack EXCEPT ![t][1].pc = "deliver",
                                  ![t][1].left = Matching(f)]
     \/ /\ At(t, "event", "deliver") /\ f.left # <<>>
        /\ stack' = [stack EXCEPT ![t][1].pc = "in_cb", ![t][1].g = 0]
        /\ UNCHANGED cb_pool_lock
     \/ /\ At(t, "event", "in_cb")
        /\ stack' = [stack EXCEPT ![t][1].pc = "deliver", ![t][1].left = Tail(@)]
        /\ UNCHANGED cb_pool_lock
     \/ /\ At(t, "event", "deliver") /\ f.left = <<>>
        /\ cb_pool_lock' = [cb_pool_lock EXCEPT ![f.s] = None]
        /\ Return(t)
  /\ UNCHANGED <<pool_lock, sess_lock, exists, sess, cb_pool, wanted>>

-----------------------------------------------------------------------------
(* What a call does once it is made.                                       *)
Step(t) ==
  \/ session_obj_get_from_pool(t) \/ session_pool_free(t)
  \/ session_obj_open(t) \/ session_obj_start(t) \/ session_obj_stop(t) \/ session_obj_close(t)
  \/ session_obj_set_sess_params(t) \/ session_obj_set_sess_metadata(t)
  \/ session_obj_set_sess_aif_metadata(t) \/ session_obj_get_tag_with_module_info(t)
  \/ session_obj_set_config(t) \/ session_obj_get_sess_params(t)
  \/ session_obj_set_sess_aif_params_with_tag(t) \/ session_obj_set_sess_aif_cal(t)
  \/ session_obj_register_for_events(t) \/ session_obj_hw_processed_buff_cnt(t)
  \/ session_obj_eos(t) \/ session_obj_get_timestamp(t) \/ session_obj_buffer_timestamp(t)
  \/ session_obj_get_sess_buf_info(t) \/ session_obj_pause(t) \/ session_obj_resume(t)
  \/ session_obj_set_loopback(t) \/ session_set_loopback(t)
  \/ session_obj_read(t) \/ session_obj_write(t) \/ graph_read(t) \/ graph_write(t)
  \/ gsl_transfer(t)
  \/ session_obj_register_cb(t) \/ session_obj_retrieve_from_pool(t) \/ graph_event_cb(t)

Next ==
  \E t \in Threads :
    \/ Step(t)
    \/ \E op \in ById \cup ByHandle, s \in Sessions : Call(t, op, s)
    \/ agm_deinit(t)
    \/ \E s \in Sessions, ev \in EventTypes : gsl_event(t, s, ev)

(* A mutex is granted to a waiter that asks again and again, GSL's calls   *)
(* return and so do client callbacks.  Nobody has to make a call.          *)
Fairness == \A t \in Threads : SF_vars(Step(t))

Spec == Init /\ [][Next]_vars

FairSpec == Spec /\ Fairness

-----------------------------------------------------------------------------
(* A client callback that runs is still registered: deregister waits for   *)
(* cb_pool_lock, so that a client may free its cookie once it returns      *)
(* (session_obj_register_cb, graph_event_cb).                              *)
CallbackRegistered ==
  \A t \in Threads : \A f \in Frames(t) :
    f.pc = "in_cb" => Head(f.left) \in Range(cb_pool[f.s])

(* Once the session is open and no call on it runs, its graph was sent     *)
(* exactly the parameters that were set last: the ones cached while it was *)
(* closed were neither lost nor sent again to a later graph.               *)
ParamsReachGraph ==
  \A s \in Sessions :
    sess[s].state # "CLOSED" /\ ~InProgress(s, ById \cup ByHandle)
      => sess[s].graph.config = wanted[s]

(* A call that passes its state check under the session lock hands GSL a   *)
(* graph that has not been freed, also after an open that failed and left  *)
(* the pointer behind.                                                     *)
LockedCallsReachLiveGraph ==
  \A t \in Threads :
    stack[t] # <<>> =>
      LET f == Head(stack[t])
          obj == sess[f.s]
      IN f.pc = "body" /\ f.op \in GraphOps /\ Reaches(f.op, obj.state)
           => obj.graph.id # 0 /\ ~obj.graph.freed

(* read and write use the graph with no lock held: it is still the open    *)
(* graph of the session ("All other subsequent operations on the graph are *)
(* valid only after a successfull open call").                             *)
TransferLive ==
  \A t \in Threads : \A f \in Frames(t) :
    f.pc = "transfer" => f.g = sess[f.s].graph.id /\ ~sess[f.s].graph.freed

(* Every call returns, and so does every event a GSL thread delivers,      *)
(* whatever the other threads hold.                                        *)
CallsReturn == \A t \in Threads : stack[t] # <<>> ~> stack[t] = <<>>
=============================================================================
