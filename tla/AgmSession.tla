------------------------------ MODULE AgmSession ------------------------------
(***************************************************************************)
(* The session objects of service/src/session_obj.c over the devices they  *)
(* share.  A session (front end) is connected to audio interfaces (back    *)
(* ends); the aif object of a session and an interface is its "leg" on the *)
(* interface's device.                                                     *)
(*                                                                         *)
(* Every handler holds the lock of its session from entry to return, so a  *)
(* session runs at most one handler at a time; handlers of different       *)
(* sessions interleave.  A handler is one action per call on a device (the *)
(* device lock makes each atomic) or per unlocked read of another          *)
(* object's state; what it does to its own session and graph in between,   *)
(* which no other session sees, belongs to the same step.  call[s] is the  *)
(* handler that holds the lock of s.                                       *)
(***************************************************************************)
EXTENDS AgmGraph, Sequences, FiniteSets

CONSTANTS
  Sessions,    \* session ids
  Devices,     \* audio interface ids, one device object each
  Links,       \* <<session, interface>> pairs clients connect
  Dir,         \* the direction the client configures for each session
  Loopbacks,   \* <<capture session, playback session>> pairs clients may route
  EcRefs,      \* <<capture session, interface>> pairs clients may use as echo reference
  MaxRef,      \* bound on the reference counts of a device
  MaxDeficit   \* bound on how far refcnt.open may be below zero

ASSUME SessionAssumption ==
  /\ IsFiniteSet(Sessions) /\ IsFiniteSet(Devices)
  /\ Links \subseteq Sessions \X Devices
  /\ Dir \in [Sessions -> {"RX", "TX"}]
  /\ Loopbacks \subseteq Sessions \X Sessions
  /\ EcRefs \subseteq Sessions \X Devices
  /\ "none" \notin Sessions \cup Devices
  /\ MaxRef \in Nat /\ MaxDeficit \in Nat

VARIABLES
  dev,    \* the device objects
  sess,   \* the session objects
  pool,   \* aif_pool: the interfaces of a session, in the order it met them
  aif,    \* the state of each session's leg on each interface
  call    \* the handler in progress on each session

vars == <<dev, sess, pool, aif, call>>

-----------------------------------------------------------------------------
AifState == {"CLOSED", "CLOSE", "OPEN", "OPENED", "STOPPED", "PREPARED", "STARTED"}

(* The states >= AIF_OPENED: the leg has its device open.                  *)
Connected == {"OPENED", "STOPPED", "PREPARED", "STARTED"}

SessState == {"CLOSED", "OPENED", "PREPARED", "STARTED", "STOPPED"}

(* An interface or session id that is not set, and a handler that is not running. *)
None == "none"

(* stream_config.dir is 0 until the client sets the configuration; then    *)
(* loopback and ec_ref hold the enabled route's other end.                 *)
Session == [state: SessState, dir: {None, "RX", "TX"}, graph: Graph,
            loopback: Sessions \cup {None}, ec_ref: Devices \cup {None}]

session_obj == [state |-> "CLOSED", dir |-> None, graph |-> "NULL",
                loopback |-> None, ec_ref |-> None]

(***************************************************************************)
(* A handler's frame: the API call, the next step, the leg it connects and *)
(* its local opened_count.  A connect to a session that is past OPENED     *)
(* goes on to prepare, or to prepare and start, the session.               *)
(***************************************************************************)
Ops == {None, "open", "connect", "connect_prepare", "connect_start",
        "prepare", "start", "stop", "close"}

Steps == {"idle", "open", "graph", "unwind_open", "finish_open",
          "prepare", "device_prepare", "start", "ec_ref", "graph_start",
          "device_start", "unwind_start", "unwind_connect", "stop", "close"}

Frame == [op: Ops, step: Steps, leg: Devices \cup {None}, count: Nat]

Idle == [op |-> None, step |-> "idle", leg |-> None, count |-> 0]

(* The frame of a call that connects no leg.                               *)
Begin(op) == [op |-> op, step |-> op, leg |-> None, count |-> 0]

TypeOK ==
  /\ dev \in [Devices -> Device]
  /\ sess \in [Sessions -> Session]
  /\ pool \in [Sessions -> Seq(Devices)]
  /\ aif \in [Sessions -> [Devices -> AifState]]
  /\ call \in [Sessions -> Frame]

Init ==
  /\ dev = [a \in Devices |-> device_obj]
  /\ sess = [s \in Sessions |-> session_obj]
  /\ pool = [s \in Sessions |-> <<>>]
  /\ aif = [s \in Sessions |-> [a \in Devices |-> "CLOSED"]]
  /\ call = [s \in Sessions |-> Idle]

-----------------------------------------------------------------------------
(* Helpers on the legs of a session.                                       *)

(* aif_obj_get: the aif object is created, AIF_CLOSED, at the tail of the pool. *)
aif_obj_get(s, a) ==
  IF \E k \in DOMAIN pool[s] : pool[s][k] = a THEN pool[s] ELSE Append(pool[s], a)

aif_obj_get_count(s) == Cardinality({a \in Devices : aif[s][a] \in Connected})

(***************************************************************************)
(* A list_for_each over aif_pool that treats the legs in states S and      *)
(* takes each one it treats out of S: a is the leg it treats next, and the *)
(* loop is over when there is none.                                        *)
(***************************************************************************)
NextLeg(s, S, a) ==
  \E k \in DOMAIN pool[s] :
    /\ pool[s][k] = a
    /\ aif[s][a] \in S
    /\ \A j \in 1 .. (k - 1) : aif[s][pool[s][j]] \notin S

NoLeg(s, S) == \A k \in DOMAIN pool[s] : aif[s][pool[s][k]] \notin S

(* The handler of s goes on with step st.                                  *)
Goto(s, st) == call' = [call EXCEPT ![s].step = st]

Return(s) == call' = [call EXCEPT ![s] = Idle]

SetGraph(s, g) == sess' = [sess EXCEPT ![s].graph = g]

SetLeg(s, a, st) == aif' = [aif EXCEPT ![s][a] = st]

SetDevice(a, d) == dev' = [dev EXCEPT ![a] = d]

(* A call on s begins, with frame f.                                       *)
Enter(s, f) ==
  /\ call[s] = Idle
  /\ call' = [call EXCEPT ![s] = f]

(* The client's handle is valid from a successful open to the close.       *)
HasHandle(s) == call[s] = Idle /\ sess[s].state # "CLOSED"

(* The bound on the reference counts.  A handler in progress is not held   *)
(* up by it: it only keeps new ones from starting.                         *)
Bounded == \A a \in Devices : /\ dev[a].open \in (-MaxDeficit) .. (MaxRef - 1)
                             /\ dev[a].start < MaxRef

-----------------------------------------------------------------------------
(* session_connect_aif and session_disconnect_aif.                         *)

(* A connect_graph whose failed graph_change takes the graph_cleanup path. *)
connect_graph_cleanup(s, n) ==
  LET g == sess[s].graph
      first == IF n > 0 THEN graph_add(g)
               ELSE IF sess[s].state = "CLOSED" THEN graph_open(g) ELSE graph_change(g)
  IN UNION {IF r.ok THEN graph_set_config(r.g) ELSE {[r EXCEPT !.g = "FREED"]} : r \in first}

(***************************************************************************)
(* The graph part of session_connect_aif with n legs already connected:    *)
(* open or change the graph for the first leg, add to it for the others,   *)
(* then send the cached parameters, if there are any.  If those fail, the  *)
(* first leg's cleanup closes the graph and leaves the pointer in place.   *)
(***************************************************************************)
connect_graph(s, n) ==
  LET g == sess[s].graph
      first == IF n > 0 THEN graph_add(g)
               ELSE IF sess[s].state = "CLOSED" THEN graph_open(g) ELSE graph_change(g)
  IN UNION {IF r.ok THEN {[g |-> IF c.ok \/ n > 0 THEN c.g ELSE "FREED", ok |-> c.ok]
                            : c \in graph_set_config(r.g)}
                    ELSE {r} : r \in first}

(* The error path after session_connect_aif: an open that has connected    *)
(* other legs unwinds them, everything else returns the error.             *)
ConnectFailed(s) ==
  IF call[s].op = "open" /\ call[s].count > 0 THEN Goto(s, "unwind_open") ELSE Return(s)

session_connect_aif(s) ==
  LET a == call[s].leg IN
  /\ call[s].step = "graph"
  /\ \E r \in connect_graph(s, call[s].count) :
       /\ SetGraph(s, r.g)
       /\ \/ /\ r.ok
             /\ SetLeg(s, a, "OPENED")
             /\ IF call[s].op = "connect"
                  THEN Return(s)
                  ELSE call' = [call EXCEPT ![s].count = @ + 1,
                                            ![s].step = IF call[s].op = "open" THEN "open"
                                                                               ELSE "prepare"]
             /\ UNCHANGED dev
          \/ /\ ~r.ok
             /\ \E c \in device_close(dev[a]) : SetDevice(a, c.d)
             /\ ConnectFailed(s)
             /\ UNCHANGED aif
  /\ UNCHANGED pool

-----------------------------------------------------------------------------
(* agm_session_aif_connect.                                                *)

(* session_disconnect_aif stops or removes the leg's part of the graph,    *)
(* ignoring the result, and closes its device.                             *)
session_disconnect_aif(a) == device_close(dev[a])

(* How a connect that treats a started session like an opened one goes on. *)
ConnectOpUnstarted(s) ==
  IF sess[s].state \in {"PREPARED", "STOPPED"} THEN "connect_prepare" ELSE "connect"

(* What a connect to an open session does once the leg is connected.       *)
ConnectOp(s) ==
  CASE sess[s].state = "OPENED" -> "connect"
    [] sess[s].state \in {"PREPARED", "STOPPED"} -> "connect_prepare"
    [] sess[s].state = "STARTED" -> "connect_start"

(* A leg past AIF_OPENED is -EALREADY; one that is AIF_OPENED is not.  With *)
(* the session closed, the leg is only marked for the next open.           *)
session_obj_sess_aif_connect(s, a) ==
  /\ call[s] = Idle
  /\ Bounded
  /\ aif[s][a] \notin {"STOPPED", "PREPARED", "STARTED"}
  /\ pool' = [pool EXCEPT ![s] = aif_obj_get(s, a)]
  /\ \/ /\ sess[s].state = "CLOSED"
        /\ SetLeg(s, a, "OPEN")
        /\ UNCHANGED <<dev, call>>
     \/ /\ sess[s].state # "CLOSED"
        /\ LET f == [op |-> ConnectOp(s), step |-> "graph", leg |-> a,
                     count |-> aif_obj_get_count(s)]
           IN \E r \in device_open(dev[a]) :
                /\ SetDevice(a, r.d)
                /\ IF r.ok THEN Enter(s, f) ELSE UNCHANGED call
        /\ UNCHANGED aif
  /\ UNCHANGED sess

(* The prepare or the start of the session failed: the leg is disconnected *)
(* (session_disconnect_aif) and its state is left as it is.                *)
UnwindConnect(s) ==
  LET a == call[s].leg IN
  /\ call[s].step = "unwind_connect"
  /\ \E r \in session_disconnect_aif(a) : SetDevice(a, r.d)
  /\ Return(s)
  /\ UNCHANGED <<sess, pool, aif>>

(* A disconnect that does not check whether the leg is connected.          *)
session_obj_sess_aif_disconnect_unchecked(s, a) ==
  /\ call[s] = Idle
  /\ pool' = [pool EXCEPT ![s] = aif_obj_get(s, a)]
  /\ \/ /\ sess[s].state = "CLOSED"
        /\ SetLeg(s, a, "CLOSED")
        /\ UNCHANGED dev
     \/ /\ sess[s].state # "CLOSED"
        /\ \E r \in session_disconnect_aif(a) :
             /\ SetDevice(a, r.d)
             /\ SetLeg(s, a, IF r.ok THEN "CLOSED" ELSE "CLOSE")
  /\ UNCHANGED <<sess, call>>

(* A leg below AIF_OPEN is -EALREADY, but it is in the pool from now on.   *)
(* A device_close that fails leaves the leg in AIF_CLOSE.                  *)
session_obj_sess_aif_disconnect(s, a) ==
  /\ call[s] = Idle
  /\ pool' = [pool EXCEPT ![s] = aif_obj_get(s, a)]
  /\ \/ /\ aif[s][a] \in {"CLOSED", "CLOSE"}
        /\ UNCHANGED <<dev, aif>>
     \/ /\ aif[s][a] \notin {"CLOSED", "CLOSE"}
        /\ sess[s].state = "CLOSED"
        /\ SetLeg(s, a, "CLOSED")
        /\ UNCHANGED dev
     \/ /\ aif[s][a] \notin {"CLOSED", "CLOSE"}
        /\ sess[s].state # "CLOSED"
        /\ \E r \in session_disconnect_aif(a) :
             /\ SetDevice(a, r.d)
             /\ SetLeg(s, a, IF r.ok THEN "CLOSED" ELSE "CLOSE")
  /\ UNCHANGED <<sess, call>>

-----------------------------------------------------------------------------
(* Routes between sessions: the graph edge of a loopback or echo reference. *)

(* The branch of a handler that makes no call on the graph.                *)
NoGraphCall(s) == {[g |-> sess[s].graph, ok |-> TRUE]}

(* Merging the metadata fails for a session that has met no interface.     *)
session_set_loopback(s, p, enable) ==
  IF pool[s] = <<>> \/ pool[p] = <<>>
    THEN {[g |-> sess[s].graph, ok |-> FALSE]}
    ELSE IF enable THEN graph_add(sess[s].graph) ELSE graph_remove(sess[s].graph)

session_set_ec_ref(s, a, enable) ==
  IF pool[s] = <<>>
    THEN {[g |-> sess[s].graph, ok |-> FALSE]}
    ELSE IF enable THEN graph_add(sess[s].graph) ELSE graph_remove(sess[s].graph)

session_obj_set_loopback(s, p, enable) ==
  /\ call[s] = Idle
  /\ sess[s].loopback # (IF enable THEN p ELSE None)
  /\ \E r \in IF sess[s].state = "CLOSED" THEN NoGraphCall(s)
              ELSE session_set_loopback(s, IF enable THEN p ELSE sess[s].loopback, enable) :
       /\ r.ok
       /\ sess' = [sess EXCEPT ![s].loopback = IF enable THEN p ELSE None]
  /\ UNCHANGED <<dev, pool, aif, call>>

session_obj_set_ec_ref(s, a, enable) ==
  /\ call[s] = Idle
  /\ sess[s].ec_ref # (IF enable THEN a ELSE None)
  /\ \E r \in IF sess[s].state = "CLOSED" THEN NoGraphCall(s)
              ELSE session_set_ec_ref(s, IF enable THEN a ELSE sess[s].ec_ref, enable) :
       /\ r.ok
       /\ sess' = [sess EXCEPT ![s].ec_ref = IF enable THEN a ELSE None]
  /\ UNCHANGED <<dev, pool, aif, call>>

-----------------------------------------------------------------------------
(* agm_session_open: session_open_with_first_device and                    *)
(* session_connect_reminder_devices connect the legs in AIF_OPEN one by one. *)

session_obj_open(s) ==
  /\ sess[s].state = "CLOSED"
  /\ Bounded
  /\ ~NoLeg(s, {"OPEN"})
  /\ Enter(s, Begin("open"))
  /\ UNCHANGED <<dev, sess, pool, aif>>

OpenNextDevice(s) ==
  /\ call[s].step = "open"
  /\ \E a \in Devices :
       /\ NextLeg(s, {"OPEN"}, a)
       /\ \E r \in device_open(dev[a]) :
            /\ SetDevice(a, r.d)
            /\ IF r.ok THEN call' = [call EXCEPT ![s].step = "graph", ![s].leg = a]
                       ELSE ConnectFailed(s)
  /\ UNCHANGED <<sess, pool, aif>>

UnwindOpen(s) ==
  /\ call[s].step = "unwind_open"
  /\ \E a \in Devices :
       /\ NextLeg(s, {"OPENED"}, a)
       /\ \E r \in session_disconnect_aif(a) : SetDevice(a, r.d)
       /\ SetLeg(s, a, "OPEN")
  /\ UNCHANGED <<sess, pool, call>>

(* The result of the unwinding is the result of graph_close: if that       *)
(* succeeds, the open goes on.                                             *)
UnwindOpenDone(s) ==
  /\ call[s].step = "unwind_open"
  /\ NoLeg(s, {"OPENED"})
  /\ \E r \in graph_close(sess[s].graph) :
       IF r.ok THEN Goto(s, "finish_open") ELSE Return(s)
  /\ SetGraph(s, "NULL")
  /\ UNCHANGED <<dev, pool, aif>>

(* The routes set while the session was closed; then the session is open.  *)
FinishOpen(s) ==
  /\ \/ call[s].step = "finish_open"
     \/ call[s].step = "open" /\ NoLeg(s, {"OPEN"})
  /\ \E l \in IF sess[s].loopback = None THEN NoGraphCall(s)
              ELSE session_set_loopback(s, sess[s].loopback, TRUE),
        e \in IF sess[s].ec_ref = None THEN NoGraphCall(s)
              ELSE session_set_ec_ref(s, sess[s].ec_ref, TRUE) :
       sess' = [sess EXCEPT ![s].state = IF l.ok /\ e.ok THEN "OPENED" ELSE @]
  /\ Return(s)
  /\ UNCHANGED <<dev, pool, aif>>

session_obj_set_config(s) ==
  /\ HasHandle(s)
  /\ sess' = [sess EXCEPT ![s].dir = Dir[s]]
  /\ UNCHANGED <<dev, pool, aif, call>>

-----------------------------------------------------------------------------
(* agm_session_prepare, and the prepare of a connect.                      *)

(* session_prepare or session_start, in frame f, failed.                   *)
Failed(s, f) ==
  call' = [call EXCEPT ![s] = IF f.op \in {"connect_prepare", "connect_start"}
                                THEN [f EXCEPT !.step = "unwind_connect"] ELSE Idle]

(* A capture session prepares its graph first, a playback session last;    *)
(* a started session does not prepare its graph again.                     *)
PreparesGraph(s, dir) == sess[s].dir = dir /\ sess[s].state # "STARTED"

session_prepare(s, f) ==
  /\ \/ /\ aif_obj_get_count(s) = 0
        /\ Failed(s, f)
        /\ UNCHANGED sess
     \/ /\ aif_obj_get_count(s) # 0
        /\ \E r \in IF PreparesGraph(s, "TX") THEN graph_prepare(sess[s].graph)
                                             ELSE NoGraphCall(s) :
             /\ SetGraph(s, r.g)
             /\ IF r.ok THEN call' = [call EXCEPT ![s] = [f EXCEPT !.step = "device_prepare"]]
                        ELSE Failed(s, f)
  /\ UNCHANGED <<dev, pool, aif>>

session_obj_prepare(s) == HasHandle(s) /\ session_prepare(s, Begin("prepare"))

PrepareConnected(s) == call[s].step = "prepare" /\ session_prepare(s, call[s])

PrepareDevice(s) ==
  /\ call[s].step = "device_prepare"
  /\ \E a \in Devices :
       /\ NextLeg(s, {"OPENED", "STOPPED"}, a)
       /\ \E r \in device_prepare(dev[a]) :
            /\ SetDevice(a, r.d)
            /\ IF r.ok THEN SetLeg(s, a, "PREPARED") /\ UNCHANGED call
                       ELSE Failed(s, call[s]) /\ UNCHANGED aif
  /\ UNCHANGED <<sess, pool>>

PrepareDone(s) ==
  /\ call[s].step = "device_prepare"
  /\ NoLeg(s, {"OPENED", "STOPPED"})
  /\ \E r \in IF PreparesGraph(s, "RX") THEN graph_prepare(sess[s].graph) ELSE NoGraphCall(s) :
       /\ sess' = [sess EXCEPT ![s].graph = r.g,
                               ![s].state = IF r.ok THEN "PREPARED" ELSE @]
       /\ IF ~r.ok THEN Failed(s, call[s])
          ELSE IF call[s].op = "connect_start" THEN Goto(s, "start") ELSE Return(s)
  /\ UNCHANGED <<dev, pool, aif>>

-----------------------------------------------------------------------------
(* agm_session_start, and the start of a connect.                          *)

(* A capture session checks its loopback's playback session, then its echo *)
(* reference's device, without a lock, and starts its graph.               *)
session_start(s, f) ==
  /\ IF \/ aif_obj_get_count(s) = 0
        \/ /\ sess[s].dir = "TX" /\ sess[s].loopback # None
           /\ sess[sess[s].loopback].state # "STARTED"
       THEN Failed(s, f)
       ELSE call' = [call EXCEPT ![s] =
                       [f EXCEPT !.step = IF sess[s].dir = "TX" THEN "ec_ref"
                                                                ELSE "device_start"]]
  /\ UNCHANGED <<dev, sess, pool, aif>>

session_obj_start(s) == HasHandle(s) /\ Bounded /\ session_start(s, Begin("start"))

StartConnected(s) == call[s].step = "start" /\ session_start(s, call[s])

CheckEcRef(s) ==
  /\ call[s].step = "ec_ref"
  /\ IF sess[s].ec_ref # None /\ dev[sess[s].ec_ref].state # "STARTED"
       THEN Failed(s, call[s])
       ELSE Goto(s, "graph_start")
  /\ UNCHANGED <<dev, sess, pool, aif>>

StartCaptureGraph(s) ==
  /\ call[s].step = "graph_start"
  /\ \E r \in graph_start(sess[s].graph) :
       /\ SetGraph(s, r.g)
       /\ IF r.ok THEN Goto(s, "device_start") ELSE Failed(s, call[s])
  /\ UNCHANGED <<dev, pool, aif>>

(* An unwind that leaves the graph running.                                *)
UnwindGraphRunning(s) == NoGraphCall(s)

(* The unwind of a capture session begins with a stop of its graph.        *)
UnwindGraph(s) == IF sess[s].dir = "TX" THEN graph_stop(sess[s].graph) ELSE NoGraphCall(s)

StartDevice(s) ==
  /\ call[s].step = "device_start"
  /\ \E a \in Devices :
       /\ NextLeg(s, {"OPENED", "PREPARED", "STOPPED"}, a)
       /\ \E r \in device_start(dev[a]) :
            /\ SetDevice(a, r.d)
            /\ \/ r.ok /\ SetLeg(s, a, "STARTED") /\ UNCHANGED <<sess, call>>
               \/ /\ ~r.ok
                  /\ Goto(s, "unwind_start")
                  /\ \E g \in UnwindGraph(s) : SetGraph(s, g.g)
                  /\ UNCHANGED aif
  /\ UNCHANGED pool

(* A StartDone that returns at once when the graph of a playback session   *)
(* does not start.                                                         *)
StartDoneNoUnwind(s) ==
  /\ call[s].step = "device_start"
  /\ NoLeg(s, {"OPENED", "PREPARED", "STOPPED"})
  /\ \E r \in IF sess[s].dir = "RX" THEN graph_start(sess[s].graph) ELSE NoGraphCall(s) :
       sess' = [sess EXCEPT ![s].graph = r.g, ![s].state = IF r.ok THEN "STARTED" ELSE @]
  /\ Return(s)
  /\ UNCHANGED <<dev, pool, aif>>

(* Every leg is started; a playback session starts its graph last.         *)
StartDone(s) ==
  /\ call[s].step = "device_start"
  /\ NoLeg(s, {"OPENED", "PREPARED", "STOPPED"})
  /\ \E r \in IF sess[s].dir = "RX" THEN graph_start(sess[s].graph) ELSE NoGraphCall(s) :
       /\ sess' = [sess EXCEPT ![s].graph = r.g,
                               ![s].state = IF r.ok THEN "STARTED" ELSE @]
       /\ IF r.ok THEN Return(s) ELSE Goto(s, "unwind_start")
  /\ UNCHANGED <<dev, pool, aif>>

(* An UnwindStart that does not move the leg out of AIF_STARTED.           *)
UnwindStartStuck(s) ==
  /\ call[s].step = "unwind_start"
  /\ \E a \in Devices :
       /\ NextLeg(s, {"STARTED"}, a)
       /\ \E r \in device_stop(dev[a]) : SetDevice(a, r.d)
  /\ UNCHANGED <<sess, pool, aif, call>>

(* The legs go back to AIF_OPENED, so that a new prepare treats them.      *)
UnwindStart(s) ==
  /\ call[s].step = "unwind_start"
  /\ \E a \in Devices :
       /\ NextLeg(s, {"STARTED"}, a)
       /\ \E r \in device_stop(dev[a]) : SetDevice(a, r.d)
       /\ SetLeg(s, a, "OPENED")
  /\ UNCHANGED <<sess, pool, call>>

UnwindStartDone(s) ==
  /\ call[s].step = "unwind_start"
  /\ NoLeg(s, {"STARTED"})
  /\ Failed(s, call[s])
  /\ UNCHANGED <<dev, sess, pool, aif>>

-----------------------------------------------------------------------------
(* agm_session_stop and agm_session_close.                                 *)

(* A playback session stops its graph before its devices and gives up if   *)
(* that fails; a capture session stops it after them.                      *)
session_stop(s) ==
  /\ sess[s].state = "STARTED"
  /\ \E r \in IF sess[s].dir = "RX" THEN graph_stop(sess[s].graph) ELSE NoGraphCall(s) :
       /\ SetGraph(s, r.g)
       /\ \/ r.ok /\ Enter(s, Begin("stop"))
          \/ ~r.ok /\ call[s] = Idle /\ UNCHANGED call
  /\ UNCHANGED <<dev, pool, aif>>

StopDevice(s) ==
  /\ call[s].step = "stop"
  /\ \E a \in Devices :
       /\ NextLeg(s, {"STARTED"}, a)
       /\ \E r \in device_stop(dev[a]) : SetDevice(a, r.d)
       /\ SetLeg(s, a, "STOPPED")
  /\ UNCHANGED <<sess, pool, call>>

StopDone(s) ==
  /\ call[s].step = "stop"
  /\ NoLeg(s, {"STARTED"})
  /\ \E r \in IF sess[s].dir = "TX" THEN graph_stop(sess[s].graph) ELSE NoGraphCall(s) :
       sess' = [sess EXCEPT ![s].graph = r.g, ![s].state = "STOPPED"]
  /\ Return(s)
  /\ UNCHANGED <<dev, pool, aif>>

(* A session_close that keeps the pointer to the graph it closed.          *)
session_close_keeps_graph(s) ==
  /\ sess[s].state # "CLOSED"
  /\ Enter(s, Begin("close"))
  /\ \E r \in graph_close(sess[s].graph) : SetGraph(s, r.g)
  /\ UNCHANGED <<dev, pool, aif>>

(* The graph is stopped if the session is started, and closed; its legs'   *)
(* devices are closed without being stopped.                               *)
session_close(s) ==
  /\ sess[s].state # "CLOSED"
  /\ Enter(s, Begin("close"))
  /\ SetGraph(s, "NULL")
  /\ UNCHANGED <<dev, pool, aif>>

CloseDevice(s) ==
  /\ call[s].step = "close"
  /\ \E a \in Devices :
       /\ NextLeg(s, Connected, a)
       /\ \E r \in device_close(dev[a]) : SetDevice(a, r.d)
       /\ SetLeg(s, a, "CLOSED")
  /\ UNCHANGED <<sess, pool, call>>

(* A CloseDone that sets the state of a leg, AIF_CLOSE, on the session.    *)
CloseDoneAif(s) ==
  /\ call[s].step = "close"
  /\ NoLeg(s, Connected)
  /\ sess' = [sess EXCEPT ![s].state = "CLOSE"]
  /\ Return(s)
  /\ UNCHANGED <<dev, pool, aif>>

CloseDone(s) ==
  /\ call[s].step = "close"
  /\ NoLeg(s, Connected)
  /\ sess' = [sess EXCEPT ![s].state = "CLOSED"]
  /\ Return(s)
  /\ UNCHANGED <<dev, pool, aif>>

-----------------------------------------------------------------------------
(* The API calls a client may make, and the steps of the handler in progress. *)
Request(s) ==
  \/ \E a \in Devices : <<s, a>> \in Links /\ session_obj_sess_aif_connect(s, a)
  \/ \E a \in Devices : <<s, a>> \in Links /\ session_obj_sess_aif_disconnect(s, a)
  \/ session_obj_open(s)
  \/ session_obj_set_config(s)
  \/ session_obj_prepare(s)
  \/ session_obj_start(s)
  \/ session_stop(s)
  \/ session_close(s)
  \/ \E p \in Sessions, enable \in BOOLEAN :
       <<s, p>> \in Loopbacks /\ session_obj_set_loopback(s, p, enable)
  \/ \E a \in Devices, enable \in BOOLEAN :
       <<s, a>> \in EcRefs /\ session_obj_set_ec_ref(s, a, enable)

Step(s) ==
  \/ OpenNextDevice(s) \/ session_connect_aif(s)
  \/ UnwindOpen(s) \/ UnwindOpenDone(s) \/ FinishOpen(s)
  \/ PrepareConnected(s) \/ PrepareDevice(s) \/ PrepareDone(s)
  \/ StartConnected(s) \/ CheckEcRef(s) \/ StartCaptureGraph(s)
  \/ StartDevice(s) \/ StartDone(s) \/ UnwindStart(s) \/ UnwindStartDone(s)
  \/ UnwindConnect(s)
  \/ StopDevice(s) \/ StopDone(s)
  \/ CloseDevice(s) \/ CloseDone(s)

Next == \E s \in Sessions : Request(s) \/ Step(s)

Spec == Init /\ [][Next]_vars

(* The operating system runs the thread of a handler in progress; a client *)
(* need not make any call.                                                 *)
FairSpec == Spec /\ \A s \in Sessions : WF_vars(Step(s))

-----------------------------------------------------------------------------
(* Properties.                                                             *)

(* The calls whose failure the handlers undo, or may ignore.               *)
Recoverable == {"gsl_open", "gsl_change", "gsl_remove", "gsl_stop", "gsl_close",
                "pcm_stop", "pcm_close"}

(* The references the sessions hold on device a: one for every connected   *)
(* leg, and one for a connect that is between device_open and the end of   *)
(* session_connect_aif.                                                    *)
Holders(a) ==
  {<<s, "leg">> : s \in {t \in Sessions : aif[t][a] \in Connected}} \cup
  {<<s, "connect">> : s \in {t \in Sessions : call[t].step = "graph" /\ call[t].leg = a}}

(* No session's disconnect, close or unwind takes away a device that       *)
(* another session, or another part of the same handler, still uses:       *)
(* refcnt.open is at least the number of references held.  (graph.h: the   *)
(* device must not go away while a graph on it is present.)                *)
DeviceHeld == \A a \in Devices : Cardinality(Holders(a)) <= dev[a].open

(* The PCM of a device is open while a leg of some session is started on   *)
(* it: "session and device objects should not go away till the associated  *)
(* graph object is present" (graph.h, graph_open).                         *)
RunningDeviceOpen ==
  \A s \in Sessions, a \in Devices :
    HasHandle(s) /\ aif[s][a] = "STARTED" => dev[a].state # "CLOSED"

(* The three counts and the state of a device object tell the same story:  *)
(* open iff counted open, started iff counted started, and prepared in     *)
(* every state that device_start accepts.                                  *)
Consistent(d) ==
  /\ d.open >= 0 /\ d.start >= 0
  /\ d.open = 0 <=> d.state = "CLOSED"
  /\ d.start > 0 <=> d.state = "STARTED"
  /\ d.prepared <=> d.state \in {"PREPARED", "STARTED", "STOPPED"}

(* Every device stays consistent, whatever the order in which sessions     *)
(* open, prepare, start, stop and close it (device.c's reference counts).  *)
DeviceConsistent == \A a \in Devices : Consistent(dev[a])

StartedLegs(a) == {s \in Sessions : aif[s][a] = "STARTED"}

(* No session's stop or close stops a device under a started leg of        *)
(* another: refcnt.start covers every leg in AIF_STARTED.                  *)
StartedLegsRun == \A a \in Devices : Cardinality(StartedLegs(a)) <= dev[a].start

(* When no handler runs on a closed session, it has no graph and no device: *)
(* a failed open and every close give back all they took.                  *)
ClosedHoldsNothing ==
  \A s \in Sessions : call[s] = Idle /\ sess[s].state = "CLOSED" =>
    /\ sess[s].graph = "NULL"
    /\ \A a \in Devices : aif[s][a] \notin Connected

(* A session the client holds a handle of has a live graph object, so the  *)
(* handlers that pass it on without a check never pass a null or freed one. *)
OpenSessionHasGraph ==
  \A s \in Sessions : HasHandle(s) => sess[s].graph \in GraphState

(* Between calls, all connected legs of a started session are started: a   *)
(* connect to a running session leaves nothing half way.                   *)
StartedSessionRuns ==
  \A s \in Sessions : HasHandle(s) /\ sess[s].state = "STARTED" =>
    \A a \in Devices : aif[s][a] \in Connected => aif[s][a] = "STARTED"

(* Whatever fails, a session that is closed, only opened, or stopped has   *)
(* neither a running graph nor a started leg once its handler returned.    *)
QuietUnlessStarted ==
  \A s \in Sessions : call[s] = Idle /\ sess[s].state \in {"CLOSED", "OPENED", "STOPPED"} =>
    /\ sess[s].graph # "STARTED"
    /\ \A a \in Devices : aif[s][a] # "STARTED"

(* The check of session_start is still true when it matters: the graph of  *)
(* a capture session is started only while the device of its echo          *)
(* reference is started.                                                   *)
EcRefStarted ==
  [][\A s \in Sessions :
       /\ sess[s].dir = "TX" /\ sess[s].ec_ref # None
       /\ sess[s].graph # "STARTED" /\ sess'[s].graph = "STARTED"
       => dev[sess[s].ec_ref].state = "STARTED"]_vars

(* Every API call returns, whatever fails and whatever other sessions do.  *)
HandlersReturn == \A s \in Sessions : call[s] # Idle ~> call[s] = Idle

=============================================================================
