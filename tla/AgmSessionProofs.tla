--------------------------- MODULE AgmSessionProofs ---------------------------
(***************************************************************************)
(* Proofs about AgmSession, for every set of sessions and devices and      *)
(* every bound on the counts: its types, whatever fails; and, when only    *)
(* the calls of Recoverable fail and no session is routed, that no handler *)
(* takes a device from a session that holds it.                            *)
(***************************************************************************)
EXTENDS AgmSessionInv, FiniteSetTheorems, TLAPS

-----------------------------------------------------------------------------
(* What the operations on a device return.                                 *)

(* device_open counts one more reference, or fails and changes nothing.    *)
LEMMA DeviceOpen ==
  ASSUME NEW d \in Device, NEW r \in device_open(d)
  PROVE  /\ r.d \in Device
         /\ ~r.ok => r.d = d /\ "pcm_open" \in Failing
         /\ r.ok => /\ r.d.open = d.open + 1
                    /\ r.d.prepared = d.prepared /\ r.d.start = d.start
                    /\ r.d.state = IF d.open = 0 THEN "OPENED" ELSE d.state
<1>1. CASE d.open # 0
  <2>1. r = [d |-> [d EXCEPT !.open = @ + 1], ok |-> TRUE]
    BY <1>1 DEF device_open
  <2> QED
    BY <1>1, <2>1 DEF Device
<1>2. CASE d.open = 0
  <2> DEFINE e == [d EXCEPT !.state = "OPENED"]
  <2>1. PICK ok \in Ret("pcm_open") :
          r = [d |-> IF ok THEN [d EXCEPT !.state = "OPENED", !.open = @ + 1] ELSE d,
               ok |-> ok]
    BY <1>2 DEF device_open
  <2>2. CASE ok
    <3>1. r.d = [e EXCEPT !.open = d.open + 1] /\ r.ok
      BY <2>1, <2>2
    <3>2. e \in Device /\ e.state = "OPENED" /\ e.prepared = d.prepared /\ e.start = d.start
      BY DEF Device, DevState
    <3>3. d.open + 1 \in Int
      BY DEF Device
    <3> HIDE DEF e
    <3> QED
      BY <3>1, <3>2, <3>3, <1>2 DEF Device
  <2>3. CASE ~ok
    BY <2>1, <2>3 DEF Ret
  <2> QED
    BY <2>2, <2>3
<1> QED
  BY <1>1, <1>2

(* device_prepare leaves a prepared device, or fails and changes nothing.  *)
LEMMA DevicePrepare ==
  ASSUME NEW d \in Device, NEW r \in device_prepare(d)
  PROVE  /\ r.d \in Device
         /\ r.d.open = d.open /\ r.d.start = d.start
         /\ ~r.ok => r.d = d /\ "pcm_prepare" \in Failing
         /\ r.ok => r.d.prepared
         /\ d.prepared => r.d = d
         /\ r.ok /\ ~d.prepared => r.d.state = "PREPARED"
<1>1. CASE d.prepared
  BY <1>1 DEF device_prepare
<1>2. CASE ~d.prepared
  <2>1. PICK ok \in Ret("pcm_prepare") :
          r = [d |-> IF ok THEN [d EXCEPT !.state = "PREPARED", !.prepared = TRUE] ELSE d,
               ok |-> ok]
    BY <1>2 DEF device_prepare
  <2>2. CASE ok
    <3>1. r.d = [d EXCEPT !.state = "PREPARED", !.prepared = TRUE] /\ r.ok
      BY <2>1, <2>2
    <3> QED
      BY <3>1, <1>2 DEF Device, DevState
  <2>3. CASE ~ok
    BY <2>1, <2>3, <1>2 DEF Ret
  <2> QED
    BY <2>2, <2>3
<1> QED
  BY <1>1, <1>2

(* device_start counts one more start and refuses a device not prepared.   *)
LEMMA DeviceStart ==
  ASSUME NEW d \in Device, NEW r \in device_start(d)
  PROVE  /\ r.d \in Device
         /\ r.d.open = d.open /\ r.d.prepared = d.prepared
         /\ ~r.ok => r.d = d /\ d.state \in {"CLOSED", "OPENED"}
         /\ r.ok => /\ r.d.start = d.start + 1
                    /\ d.state \notin {"CLOSED", "OPENED"}
                    /\ r.d.state = IF d.start = 0 THEN "STARTED" ELSE d.state
<1>1. CASE d.state \in {"CLOSED", "OPENED"}
  BY <1>1 DEF device_start
<1>2. CASE d.state \notin {"CLOSED", "OPENED"}
  <2> DEFINE st == IF d.start = 0 THEN "STARTED" ELSE d.state
             e == [d EXCEPT !.state = st]
  <2>1. r = [d |-> [d EXCEPT !.state = st, !.start = d.start + 1], ok |-> TRUE]
    BY <1>2 DEF device_start
  <2>2. r.d = [e EXCEPT !.start = d.start + 1] /\ r.ok
    BY <2>1
  <2>3. e \in Device /\ e.state = st /\ e.prepared = d.prepared /\ e.open = d.open
    BY DEF Device, DevState
  <2>4. d.start + 1 \in Int
    BY DEF Device
  <2> HIDE DEF e
  <2> QED
    BY <1>2, <2>2, <2>3, <2>4 DEF Device
<1> QED
  BY <1>1, <1>2

(* device_stop gives back one start, the last one stopping the PCM.        *)
LEMMA DeviceStop ==
  ASSUME NEW d \in Device, NEW r \in device_stop(d)
  PROVE  /\ r.d \in Device
         /\ r.d.open = d.open /\ r.d.prepared = d.prepared
         /\ d.start = 0 => r.d = d
         /\ d.start # 0 => /\ r.d.start = d.start - 1
                           /\ r.d.state = IF d.start = 1 THEN "STOPPED" ELSE d.state
<1>1. CASE d.start = 0
  BY <1>1 DEF device_stop
<1>2. CASE d.start = 1
  <2> DEFINE e == [d EXCEPT !.state = "STOPPED"]
  <2>1. PICK ok \in Ret("pcm_stop") :
          r = [d |-> [d EXCEPT !.state = "STOPPED", !.start = 0], ok |-> ok]
    BY <1>2 DEF device_stop
  <2>2. r.d = [e EXCEPT !.start = 0]
    BY <2>1
  <2>3. e \in Device /\ e.state = "STOPPED" /\ e.prepared = d.prepared /\ e.open = d.open
    BY DEF Device, DevState
  <2> HIDE DEF e
  <2> QED
    BY <1>2, <2>2, <2>3 DEF Device
<1>3. CASE d.start # 0 /\ d.start # 1
  <2>1. r = [d |-> [d EXCEPT !.start = @ - 1], ok |-> TRUE]
    BY <1>3 DEF device_stop
  <2> QED
    BY <1>3, <2>1 DEF Device
<1> QED
  BY <1>1, <1>2, <1>3

(* device_close gives back one reference; only the last one closes.        *)
LEMMA DeviceClose ==
  ASSUME NEW d \in Device, NEW r \in device_close(d)
  PROVE  /\ r.d \in Device
         /\ r.d.open = d.open - 1
         /\ d.open = 1 => r.d = device_obj
         /\ d.open # 1 => /\ r.d.state = d.state /\ r.d.prepared = d.prepared
                          /\ r.d.start = d.start
<1>1. CASE d.open = 1
  <2>1. r.d = device_obj
    BY <1>1 DEF device_close
  <2> QED
    BY <1>1, <2>1 DEF device_obj, Device, DevState
<1>2. CASE d.open # 1
  <2>1. r = [d |-> [d EXCEPT !.open = @ - 1], ok |-> TRUE]
    BY <1>2 DEF device_close
  <2> QED
    BY <1>2, <2>1 DEF Device
<1> QED
  BY <1>1, <1>2

-----------------------------------------------------------------------------
(* What the operations on a graph return.                                  *)

(* A call into GSL leaves a live graph live, and can only fail on it if    *)
(* GSL fails.                                                              *)
LEMMA GslResult ==
  ASSUME NEW g \in Graph, NEW to \in GraphState \cup {g}, NEW c, NEW r \in GslCall(g, to, c)
  PROVE  /\ r.g \in Graph
         /\ g \in GraphState => r.g \in GraphState
         /\ g \in GraphState /\ ~r.ok => c \in Failing
<1>1. CASE g = "NULL"
  BY <1>1 DEF GslCall, GraphState
<1>2. CASE g = "FREED"
  BY <1>2 DEF GslCall, GraphState
<1>3. CASE g \in GraphState
  <2>1. PICK ok \in Ret(c) : r = [g |-> IF ok THEN to ELSE g, ok |-> ok]
    BY <1>3 DEF GslCall, GraphState
  <2> QED
    BY <1>3, <2>1 DEF Ret, Graph
<1> QED
  BY <1>1, <1>2, <1>3 DEF Graph

(* The graph functions keep the session's pointer in Graph.                *)
LEMMA GraphTypes ==
  ASSUME NEW g \in Graph
  PROVE  /\ \A r \in graph_open(g) : r.g \in Graph
         /\ \A r \in graph_add(g) : r.g \in Graph
         /\ \A r \in graph_change(g) : r.g \in Graph
         /\ \A r \in graph_set_config(g) : r.g \in Graph
         /\ \A r \in graph_prepare(g) : r.g \in Graph
         /\ \A r \in graph_start(g) : r.g \in Graph
         /\ \A r \in graph_stop(g) : r.g \in Graph
<1>1. /\ GraphState \subseteq Graph
      /\ "OPENED" \in GraphState /\ "PREPARED" \in GraphState
      /\ "STARTED" \in GraphState /\ "STOPPED" \in GraphState
  BY DEF Graph, GraphState
<1>2. \A r \in graph_open(g) : r.g \in Graph
  BY <1>1 DEF graph_open
<1>3. \A r \in graph_prepare(g) : r.g \in Graph
  BY <1>1, GslResult DEF graph_prepare
<1>4. \A r \in graph_start(g) : r.g \in Graph
  BY <1>1, GslResult DEF graph_start
<1>5. \A r \in graph_stop(g) : r.g \in Graph
  <2>1. CASE g \in {"STOPPED", "OPENED", "PREPARED"}
    BY <2>1 DEF graph_stop
  <2>2. CASE g = "STARTED"
    BY <1>1, <2>2 DEF graph_stop
  <2>3. CASE g \in {"NULL", "FREED"}
    <3>1. graph_stop(g) = GslCall(g, g, "gsl_stop")
      BY <2>3 DEF graph_stop
    <3> QED
      BY <3>1, GslResult
  <2> QED
    BY <2>1, <2>2, <2>3 DEF Graph, GraphState
<1> QED
  BY <1>2, <1>3, <1>4, <1>5, GslResult DEF graph_add, graph_change, graph_set_config

-----------------------------------------------------------------------------
(* Type correctness.                                                       *)

(* The handlers' assignments keep each variable in its type.               *)
LEMMA UpdateTypes ==
  ASSUME TypeOK, NEW s \in Sessions
  PROVE  /\ \A a \in Devices, d \in Device :
              SetDevice(a, d) => dev' \in [Devices -> Device]
         /\ \A a \in Devices, st \in AifState :
              SetLeg(s, a, st) => aif' \in [Sessions -> [Devices -> AifState]]
         /\ \A g \in Graph : SetGraph(s, g) => sess' \in [Sessions -> Session]
         /\ \A st \in Steps : Goto(s, st) => call' \in [Sessions -> Frame]
         /\ Return(s) => call' \in [Sessions -> Frame]
         /\ \A f \in Frame : Failed(s, f) => call' \in [Sessions -> Frame]
         /\ \A f \in Frame, st \in Steps : [f EXCEPT !.step = st] \in Frame
<1>1. \A a \in Devices, d \in Device : SetDevice(a, d) => dev' \in [Devices -> Device]
  BY DEF TypeOK, SetDevice
<1>2. \A a \in Devices, st \in AifState :
        SetLeg(s, a, st) => aif' \in [Sessions -> [Devices -> AifState]]
  BY DEF TypeOK, SetLeg
<1>3. \A g \in Graph : SetGraph(s, g) => sess' \in [Sessions -> Session]
  <2>1. \A g \in Graph, x \in Session : [x EXCEPT !.graph = g] \in Session
    BY DEF Session
  <2> QED
    BY <2>1 DEF TypeOK, SetGraph
<1>4. \A f \in Frame, st \in Steps : [f EXCEPT !.step = st] \in Frame
  BY DEF Frame
<1>5. \A st \in Steps : Goto(s, st) => call' \in [Sessions -> Frame]
  BY <1>4 DEF TypeOK, Goto
<1>6. Idle \in Frame
  BY DEF Idle, Frame, Ops, Steps, None
<1>7. Return(s) => call' \in [Sessions -> Frame]
  BY <1>6 DEF TypeOK, Return
<1>8. \A f \in Frame : Failed(s, f) => call' \in [Sessions -> Frame]
  <2>1. "unwind_connect" \in Steps
    BY DEF Steps
  <2> QED
    BY <1>4, <1>6, <2>1 DEF TypeOK, Failed
<1> QED
  BY <1>1, <1>2, <1>3, <1>4, <1>5, <1>7, <1>8

(* A session has finitely many legs, so opened_count is a natural number.  *)
LEMMA CountType ==
  ASSUME TypeOK, NEW s \in Sessions
  PROVE  aif_obj_get_count(s) \in Nat
<1>1. IsFiniteSet({a \in Devices : aif[s][a] \in Connected})
  BY SessionAssumption, FS_Subset
<1> QED
  BY <1>1, FS_CardinalityType DEF aif_obj_get_count

(* The graph part of session_connect_aif keeps the pointer in Graph.       *)
LEMMA ConnectGraphType ==
  ASSUME TypeOK, NEW s \in Sessions, NEW n \in Nat, NEW r \in connect_graph(s, n)
  PROVE  r.g \in Graph
<1> DEFINE g == sess[s].graph
           first == IF n > 0 THEN graph_add(g)
                    ELSE IF sess[s].state = "CLOSED" THEN graph_open(g) ELSE graph_change(g)
<1>1. g \in Graph
  BY DEF TypeOK, Session
<1>2. \A f \in first : f.g \in Graph
  BY <1>1, GraphTypes
<1>3. PICK f \in first : r \in IF f.ok
                                 THEN {[g |-> IF c.ok \/ n > 0 THEN c.g ELSE "FREED",
                                        ok |-> c.ok] : c \in graph_set_config(f.g)}
                                 ELSE {f}
  BY Zenon DEF connect_graph
<1>4. CASE f.ok
  <2>1. PICK c \in graph_set_config(f.g) :
          r = [g |-> IF c.ok \/ n > 0 THEN c.g ELSE "FREED", ok |-> c.ok]
    BY <1>3, <1>4
  <2>2. c.g \in Graph /\ "FREED" \in Graph
    BY <1>2, <2>1, GraphTypes DEF Graph
  <2> QED
    BY <2>1, <2>2
<1>5. CASE ~f.ok
  BY <1>2, <1>3, <1>5
<1> QED
  BY <1>4, <1>5

(* A field of a session object may be set to any value of its type.        *)
LEMMA SessionFields ==
  ASSUME NEW x \in Session, NEW st \in SessState, NEW g \in Graph
  PROVE  /\ [x EXCEPT !.state = st] \in Session
         /\ [x EXCEPT !.graph = g] \in Session
         /\ [x EXCEPT !.graph = g, !.state = st] \in Session
         /\ \A dir \in {None, "RX", "TX"} : [x EXCEPT !.dir = dir] \in Session
         /\ \A p \in Sessions \cup {None} : [x EXCEPT !.loopback = p] \in Session
         /\ \A a \in Devices \cup {None} : [x EXCEPT !.ec_ref = a] \in Session
BY DEF Session

(* session_prepare keeps TypeOK.                                           *)
LEMMA PrepareType ==
  ASSUME TypeOK, NEW s \in Sessions, NEW f \in Frame, session_prepare(s, f)
  PROVE  TypeOK'
<1> USE DEF TypeOK
<1>1. sess[s] \in Session /\ sess[s].graph \in Graph
  BY DEF Session
<1>2. \/ Failed(s, f)
      \/ call' = [call EXCEPT ![s] = [f EXCEPT !.step = "device_prepare"]]
  BY DEF session_prepare
<1>3. call' \in [Sessions -> Frame]
  <2>1. [f EXCEPT !.step = "device_prepare"] \in Frame
    BY DEF Frame, Steps
  <2> QED
    BY <1>2, <2>1, UpdateTypes
<1>4. sess' = sess \/ \E r \in graph_prepare(sess[s].graph) \cup NoGraphCall(s) : SetGraph(s, r.g)
  BY DEF session_prepare
<1>5. sess' \in [Sessions -> Session]
  BY <1>1, <1>4, GraphTypes, UpdateTypes DEF NoGraphCall
<1> QED
  BY <1>3, <1>5 DEF session_prepare

(* session_start's checks keep TypeOK.                                     *)
LEMMA StartType ==
  ASSUME TypeOK, NEW s \in Sessions, NEW f \in Frame, session_start(s, f)
  PROVE  TypeOK'
<1> USE DEF TypeOK
<1>1. \/ Failed(s, f)
      \/ \E st \in {"ec_ref", "device_start"} :
           call' = [call EXCEPT ![s] = [f EXCEPT !.step = st]]
  BY DEF session_start
<1>2. call' \in [Sessions -> Frame]
  <2>1. \A st \in {"ec_ref", "device_start"} : [f EXCEPT !.step = st] \in Frame
    BY DEF Frame, Steps
  <2> QED
    BY <1>1, <2>1, UpdateTypes
<1> QED
  BY <1>2 DEF session_start

(* Every step of a client's request keeps TypeOK.                          *)
LEMMA RequestType ==
  ASSUME TypeOK, NEW s \in Sessions, Request(s)
  PROVE  TypeOK'
<1> USE DEF TypeOK
<1>1. /\ dev \in [Devices -> Device] /\ sess[s] \in Session /\ call[s] \in Frame
      /\ sess[s].graph \in Graph /\ sess[s].state \in SessState
  BY DEF Session
<1>2. ASSUME NEW a \in Devices, session_obj_sess_aif_connect(s, a)
      PROVE  TypeOK'
  <2>1. pool' \in [Sessions -> Seq(Devices)]
    BY <1>2 DEF session_obj_sess_aif_connect, aif_obj_get
  <2>2. CASE sess[s].state = "CLOSED"
    <3>1. SetLeg(s, a, "OPEN") /\ UNCHANGED <<dev, call, sess>>
      BY <1>2, <2>2 DEF session_obj_sess_aif_connect
    <3> QED
      BY <2>1, <3>1, UpdateTypes DEF AifState
  <2>3. CASE sess[s].state # "CLOSED"
    <3> DEFINE f == [op |-> ConnectOp(s), step |-> "graph", leg |-> a,
                     count |-> aif_obj_get_count(s)]
    <3>1. PICK r \in device_open(dev[a]) :
            SetDevice(a, r.d) /\ IF r.ok THEN Enter(s, f) ELSE UNCHANGED call
      BY <1>2, <2>3 DEF session_obj_sess_aif_connect
    <3>2. f \in Frame
      BY <1>1, <2>3, CountType DEF Frame, Ops, Steps, SessState, ConnectOp
    <3>3. dev' \in [Devices -> Device]
      BY <1>1, <3>1, DeviceOpen, UpdateTypes
    <3>4. call' \in [Sessions -> Frame]
      BY <3>1, <3>2 DEF Enter
    <3>5. UNCHANGED <<sess, aif>>
      BY <1>2, <2>3 DEF session_obj_sess_aif_connect
    <3> QED
      BY <2>1, <3>3, <3>4, <3>5
  <2> QED
    BY <2>2, <2>3
<1>3. ASSUME NEW a \in Devices, session_obj_sess_aif_disconnect(s, a)
      PROVE  TypeOK'
  <2>1. pool' \in [Sessions -> Seq(Devices)]
    BY <1>3 DEF session_obj_sess_aif_disconnect, aif_obj_get
  <2>2. /\ dev' = dev \/ \E r \in device_close(dev[a]) : SetDevice(a, r.d)
        /\ aif' = aif \/ \E st \in {"CLOSED", "CLOSE"} : SetLeg(s, a, st)
        /\ UNCHANGED <<sess, call>>
    BY <1>3 DEF session_obj_sess_aif_disconnect, session_disconnect_aif
  <2>3. dev' \in [Devices -> Device]
    BY <1>1, <2>2, DeviceClose, UpdateTypes
  <2>4. aif' \in [Sessions -> [Devices -> AifState]]
    BY <2>2, UpdateTypes DEF AifState
  <2> QED
    BY <2>1, <2>2, <2>3, <2>4
<1>4. CASE session_obj_open(s)
  BY <1>4 DEF session_obj_open, Enter, Begin, Frame, Ops, Steps, None
<1>5. CASE session_obj_set_config(s)
  <2>1. Dir[s] \in {None, "RX", "TX"}
    BY SessionAssumption
  <2> QED
    BY <1>1, <1>5, <2>1, SessionFields DEF session_obj_set_config
<1>6. /\ Begin("prepare") \in Frame /\ Begin("start") \in Frame
      /\ Begin("stop") \in Frame /\ Begin("close") \in Frame
  BY DEF Begin, Frame, Ops, Steps, None
<1>7. CASE session_obj_prepare(s)
  BY <1>6, <1>7, PrepareType DEF session_obj_prepare
<1>8. CASE session_obj_start(s)
  BY <1>6, <1>8, StartType DEF session_obj_start
<1>9. CASE session_stop(s)
  <2>1. PICK r \in graph_stop(sess[s].graph) \cup NoGraphCall(s) : SetGraph(s, r.g)
    BY <1>9 DEF session_stop
  <2>2. r.g \in Graph
    BY <1>1, <2>1, GraphTypes DEF NoGraphCall
  <2>3. call' \in [Sessions -> Frame] /\ UNCHANGED <<dev, pool, aif>>
    BY <1>6, <1>9 DEF session_stop, Enter
  <2> QED
    BY <2>1, <2>2, <2>3, UpdateTypes
<1>10. CASE session_close(s)
  <2>1. "NULL" \in Graph
    BY DEF Graph
  <2> QED
    BY <1>6, <1>10, <2>1, UpdateTypes DEF session_close, Enter
<1>11. ASSUME NEW p \in Sessions, NEW enable \in BOOLEAN, session_obj_set_loopback(s, p, enable)
       PROVE  TypeOK'
  <2>1. PICK x \in Sessions \cup {None} : sess' = [sess EXCEPT ![s].loopback = x]
    BY <1>11 DEF session_obj_set_loopback
  <2>2. [sess[s] EXCEPT !.loopback = x] \in Session
    BY <1>1 DEF Session
  <2> QED
    BY <1>11, <2>1, <2>2 DEF session_obj_set_loopback
<1>12. ASSUME NEW a \in Devices, NEW enable \in BOOLEAN, session_obj_set_ec_ref(s, a, enable)
       PROVE  TypeOK'
  <2>1. PICK x \in Devices \cup {None} : sess' = [sess EXCEPT ![s].ec_ref = x]
    BY <1>12 DEF session_obj_set_ec_ref
  <2>2. [sess[s] EXCEPT !.ec_ref = x] \in Session
    BY <1>1 DEF Session
  <2> QED
    BY <1>12, <2>1, <2>2 DEF session_obj_set_ec_ref
<1> QED
  BY <1>2, <1>3, <1>4, <1>5, <1>7, <1>8, <1>9, <1>10, <1>11, <1>12 DEF Request

(* Every step of a handler in progress keeps TypeOK.                       *)
LEMMA StepType ==
  ASSUME TypeOK, NEW s \in Sessions, Step(s)
  PROVE  TypeOK'
<1> USE DEF TypeOK
<1>1. /\ dev \in [Devices -> Device] /\ sess[s] \in Session /\ call[s] \in Frame
      /\ sess[s].graph \in Graph /\ sess[s].state \in SessState
      /\ call[s].count \in Nat /\ call[s].leg \in Devices \cup {None}
  BY DEF Session, Frame
<1>2. /\ \A st \in Steps : Goto(s, st) => call' \in [Sessions -> Frame]
      /\ Return(s) => call' \in [Sessions -> Frame]
      /\ Failed(s, call[s]) => call' \in [Sessions -> Frame]
      /\ ConnectFailed(s) => call' \in [Sessions -> Frame]
      /\ "NULL" \in Graph
  BY <1>1, UpdateTypes DEF ConnectFailed, Steps, Graph
<1>3. \A a \in Devices : \A r \in device_open(dev[a]) \cup device_close(dev[a])
                                  \cup device_prepare(dev[a]) \cup device_start(dev[a])
                                  \cup device_stop(dev[a]) :
        SetDevice(a, r.d) => dev' \in [Devices -> Device]
  BY <1>1, DeviceOpen, DeviceClose, DevicePrepare, DeviceStart, DeviceStop, UpdateTypes
<1>4. \A r \in graph_prepare(sess[s].graph) \cup graph_start(sess[s].graph)
               \cup graph_stop(sess[s].graph) \cup NoGraphCall(s) : r.g \in Graph
  BY <1>1, GraphTypes DEF NoGraphCall
<1>0. ASSUME call[s].leg \notin Devices
      PROVE  /\ \A d : SetDevice(call[s].leg, d) => dev' \in [Devices -> Device]
             /\ \A st : SetLeg(s, call[s].leg, st) => aif' \in [Sessions -> [Devices -> AifState]]
  <2>1. ASSUME NEW d, SetDevice(call[s].leg, d)
        PROVE  dev' = dev
    BY <1>0, <2>1 DEF SetDevice
  <2>2. ASSUME NEW st, SetLeg(s, call[s].leg, st)
        PROVE  aif' = aif
    <3>1. aif[s] \in [Devices -> AifState]
      OBVIOUS
    <3>2. [aif[s] EXCEPT ![call[s].leg] = st] = aif[s]
      BY <1>0, <3>1
    <3> QED
      BY <2>2, <3>2 DEF SetLeg
  <2> QED
    BY <2>1, <2>2
<1>5. CASE OpenNextDevice(s)
  <2>1. PICK a \in Devices : \E r \in device_open(dev[a]) :
          /\ SetDevice(a, r.d)
          /\ IF r.ok THEN call' = [call EXCEPT ![s].step = "graph", ![s].leg = a]
                     ELSE ConnectFailed(s)
    BY <1>5 DEF OpenNextDevice
  <2>2. [call[s] EXCEPT !.step = "graph", !.leg = a] \in Frame
    BY <1>1 DEF Frame, Steps
  <2>3. call' \in [Sessions -> Frame]
    BY <1>2, <2>1, <2>2
  <2> QED
    BY <1>3, <1>5, <2>1, <2>3 DEF OpenNextDevice
<1>6. CASE session_connect_aif(s)
  <2>1. PICK r \in connect_graph(s, call[s].count) :
       /\ SetGraph(s, r.g)
       /\ \/ /\ r.ok
             /\ SetLeg(s, call[s].leg, "OPENED")
             /\ IF call[s].op = "connect"
                  THEN Return(s)
                  ELSE call' = [call EXCEPT ![s].count = @ + 1,
                                            ![s].step = IF call[s].op = "open" THEN "open"
                                                                               ELSE "prepare"]
             /\ UNCHANGED dev
          \/ /\ ~r.ok
             /\ \E c \in device_close(dev[call[s].leg]) : SetDevice(call[s].leg, c.d)
             /\ ConnectFailed(s)
             /\ UNCHANGED aif
    BY <1>6, Zenon DEF session_connect_aif
  <2>2. sess' \in [Sessions -> Session]
    BY <1>1, <2>1, ConnectGraphType, UpdateTypes
  <2>3. CASE r.ok
    <3> DEFINE e == [call[s] EXCEPT !.count = @ + 1]
    <3>0. ASSUME NEW f \in Frame
          PROVE  [f EXCEPT !.count = @ + 1] \in Frame
      <4>1. \A n \in Nat : [f EXCEPT !.count = n] \in Frame
        BY DEF Frame
      <4>2. f.count + 1 \in Nat
        BY DEF Frame
      <4> QED
        BY <4>1, <4>2
    <3>1. e \in Frame
      BY <1>1, <3>0
    <3>2. \A st \in Steps : [e EXCEPT !.step = st] \in Frame
      BY <3>1, UpdateTypes
    <3>3. call' \in [Sessions -> Frame]
      <4>1. CASE call[s].op = "connect"
        BY <1>2, <2>1, <2>3, <4>1
      <4>2. CASE call[s].op # "connect"
        <5>1. PICK st \in {"open", "prepare"} :
                call' = [call EXCEPT ![s] = [e EXCEPT !.step = st]]
          BY <2>1, <2>3, <4>2
        <5>2. st \in Steps
          BY <5>1 DEF Steps
        <5> QED
          BY <3>2, <5>1, <5>2
      <4> QED
        BY <4>1, <4>2
    <3> QED
      BY <1>0, <1>6, <2>1, <2>2, <2>3, <3>3, UpdateTypes DEF AifState, session_connect_aif
  <2>4. CASE ~r.ok
    BY <1>0, <1>2, <1>3, <1>6, <2>1, <2>2, <2>4 DEF session_connect_aif
  <2> QED
    BY <2>3, <2>4
<1>7. CASE UnwindOpen(s)
  BY <1>3, <1>7, UpdateTypes DEF UnwindOpen, session_disconnect_aif, AifState
<1>8. CASE UnwindOpenDone(s)
  BY <1>2, <1>8, UpdateTypes DEF UnwindOpenDone, Steps
<1>9. CASE FinishOpen(s)
  <2>1. PICK st \in {"OPENED", sess[s].state} : sess' = [sess EXCEPT ![s].state = st]
    BY <1>9 DEF FinishOpen
  <2>2. [sess[s] EXCEPT !.state = st] \in Session
    BY <1>1, <2>1, SessionFields DEF SessState
  <2> QED
    BY <1>2, <1>9, <2>1, <2>2 DEF FinishOpen
<1>10. CASE PrepareConnected(s)
  BY <1>1, <1>10, PrepareType DEF PrepareConnected
<1>11. CASE PrepareDevice(s)
  <2>1. PICK a \in Devices : \E r \in device_prepare(dev[a]) :
          /\ SetDevice(a, r.d)
          /\ IF r.ok THEN SetLeg(s, a, "PREPARED") /\ UNCHANGED call
                     ELSE Failed(s, call[s]) /\ UNCHANGED aif
    BY <1>11 DEF PrepareDevice
  <2> QED
    BY <1>2, <1>3, <1>11, <2>1, UpdateTypes DEF PrepareDevice, AifState
<1>12. CASE PrepareDone(s)
  <2>1. PICK r \in graph_prepare(sess[s].graph) \cup NoGraphCall(s),
             st \in {"PREPARED", sess[s].state} :
          sess' = [sess EXCEPT ![s].graph = r.g, ![s].state = st]
    BY <1>12 DEF PrepareDone
  <2>2. [sess[s] EXCEPT !.graph = r.g, !.state = st] \in Session
    BY <1>1, <1>4, <2>1, SessionFields DEF SessState
  <2>3. call' \in [Sessions -> Frame]
    BY <1>2, <1>12 DEF PrepareDone, Steps
  <2> QED
    BY <1>12, <2>1, <2>2, <2>3 DEF PrepareDone
<1>13. CASE StartConnected(s)
  BY <1>1, <1>13, StartType DEF StartConnected
<1>14. CASE CheckEcRef(s)
  BY <1>2, <1>14 DEF CheckEcRef, Steps
<1>15. CASE StartCaptureGraph(s)
  BY <1>2, <1>4, <1>15, UpdateTypes DEF StartCaptureGraph, Steps
<1>16. CASE StartDevice(s)
  <2>1. PICK a \in Devices : \E r \in device_start(dev[a]) :
          /\ SetDevice(a, r.d)
          /\ \/ r.ok /\ SetLeg(s, a, "STARTED") /\ UNCHANGED <<sess, call>>
             \/ /\ Goto(s, "unwind_start")
                /\ \E g \in graph_stop(sess[s].graph) \cup NoGraphCall(s) : SetGraph(s, g.g)
                /\ UNCHANGED aif
    BY <1>16 DEF StartDevice, UnwindGraph
  <2> QED
    BY <1>2, <1>3, <1>4, <1>16, <2>1, UpdateTypes DEF StartDevice, AifState, Steps
<1>17. CASE StartDone(s)
  <2>1. PICK r \in graph_start(sess[s].graph) \cup NoGraphCall(s),
             st \in {"STARTED", sess[s].state} :
          sess' = [sess EXCEPT ![s].graph = r.g, ![s].state = st]
    BY <1>17 DEF StartDone
  <2>2. [sess[s] EXCEPT !.graph = r.g, !.state = st] \in Session
    BY <1>1, <1>4, <2>1, SessionFields DEF SessState
  <2>3. call' \in [Sessions -> Frame]
    BY <1>2, <1>17 DEF StartDone, Steps
  <2> QED
    BY <1>17, <2>1, <2>2, <2>3 DEF StartDone
<1>18. CASE UnwindStart(s)
  BY <1>3, <1>18, UpdateTypes DEF UnwindStart, AifState
<1>19. CASE UnwindStartDone(s)
  BY <1>2, <1>19 DEF UnwindStartDone
<1>20. CASE UnwindConnect(s)
  BY <1>0, <1>2, <1>3, <1>20 DEF UnwindConnect, session_disconnect_aif
<1>21. CASE StopDevice(s)
  BY <1>3, <1>21, UpdateTypes DEF StopDevice, AifState
<1>22. CASE StopDone(s)
  <2>1. PICK r \in graph_stop(sess[s].graph) \cup NoGraphCall(s) :
          sess' = [sess EXCEPT ![s].graph = r.g, ![s].state = "STOPPED"]
    BY <1>22 DEF StopDone
  <2>2. [sess[s] EXCEPT !.graph = r.g, !.state = "STOPPED"] \in Session
    BY <1>1, <1>4, <2>1, SessionFields DEF SessState
  <2> QED
    BY <1>2, <1>22, <2>1, <2>2 DEF StopDone
<1>23. CASE CloseDevice(s)
  BY <1>3, <1>23, UpdateTypes DEF CloseDevice, AifState
<1>24. CASE CloseDone(s)
  <2>1. [sess[s] EXCEPT !.state = "CLOSED"] \in Session
    BY <1>1, SessionFields DEF SessState
  <2> QED
    BY <1>2, <1>24, <2>1 DEF CloseDone
<1> QED
  BY <1>5, <1>6, <1>7, <1>8, <1>9, <1>10, <1>11, <1>12, <1>13, <1>14, <1>15, <1>16,
     <1>17, <1>18, <1>19, <1>20, <1>21, <1>22, <1>23, <1>24 DEF Step

(* The state of the sessions and devices always has its type: in every     *)
(* behaviour, whatever fails, no handler leaves the states of the code.    *)
THEOREM TypeCorrect == Spec => []TypeOK
<1>1. Init => TypeOK
  <2>1. device_obj \in Device /\ session_obj \in Session /\ Idle \in Frame
    BY DEF device_obj, Device, DevState, session_obj, Session, SessState, None, Graph, Idle,
           Frame, Ops, Steps
  <2> QED
    BY <2>1 DEF Init, TypeOK, AifState
<1>2. TypeOK /\ [Next]_vars => TypeOK'
  <2>1. CASE UNCHANGED vars
    BY <2>1 DEF vars, TypeOK
  <2>2. CASE Next
    BY <2>2, RequestType, StepType DEF Next
  <2> QED
    BY <2>1, <2>2
<1> QED
  BY <1>1, <1>2, PTL DEF Spec


-----------------------------------------------------------------------------
(* The device functions keep a device consistent.  prepare and close are   *)
(* only called on a device that is open.                                   *)
LEMMA ConsistentDevice ==
  ASSUME NEW d \in Device, Consistent(d)
  PROVE  /\ \A r \in device_open(d) : Consistent(r.d)
         /\ d.open > 0 => \A r \in device_prepare(d) : Consistent(r.d)
         /\ \A r \in device_start(d) : Consistent(r.d)
         /\ \A r \in device_stop(d) : Consistent(r.d)
         /\ d.open > 0 => \A r \in device_close(d) : Consistent(r.d)
<1>1. ASSUME NEW r \in device_open(d)
      PROVE  Consistent(r.d)
  <2>1. CASE r.ok
    BY <2>1, DeviceOpen DEF Consistent, Device, DevState
  <2>2. CASE ~r.ok
    BY <2>2, DeviceOpen
  <2> QED
    BY <2>1, <2>2
<1>2. ASSUME d.open > 0, NEW r \in device_prepare(d)
      PROVE  Consistent(r.d)
  <2>1. CASE d.prepared \/ ~r.ok
    BY <2>1, DevicePrepare
  <2>2. CASE ~d.prepared /\ r.ok
    BY <1>2, <2>2, DevicePrepare DEF Consistent, Device, DevState
  <2> QED
    BY <2>1, <2>2
<1>3. ASSUME NEW r \in device_start(d)
      PROVE  Consistent(r.d)
  <2>1. CASE r.ok
    BY <2>1, DeviceStart DEF Consistent, Device, DevState
  <2>2. CASE ~r.ok
    BY <2>2, DeviceStart
  <2> QED
    BY <2>1, <2>2
<1>4. ASSUME NEW r \in device_stop(d)
      PROVE  Consistent(r.d)
  BY DeviceStop DEF Consistent, Device, DevState
<1>5. ASSUME d.open > 0, NEW r \in device_close(d)
      PROVE  Consistent(r.d)
  BY <1>5, DeviceClose DEF Consistent, Device, DevState, device_obj
<1> QED
  BY <1>1, <1>2, <1>3, <1>4, <1>5

-----------------------------------------------------------------------------
(* Counting references.                                                    *)

(* How the number of references changes with the set of them.              *)
LEMMA CountHolders ==
  ASSUME NEW H, NEW K, IsFiniteSet(H), NEW x, NEW y
  PROVE  /\ K \subseteq H => Cardinality(K) <= Cardinality(H)
         /\ K \subseteq H \cup {y} => Cardinality(K) <= Cardinality(H) + 1
         /\ x \in H /\ K \subseteq H \ {x} => Cardinality(K) <= Cardinality(H) - 1
         /\ x \in H /\ K \subseteq (H \ {x}) \cup {y} => Cardinality(K) <= Cardinality(H)
         /\ Cardinality(H) \in Nat
         /\ x \in H => Cardinality(H) >= 1
         /\ K \subseteq H \cup {y} => Cardinality(K) \in Nat
<1>1. \A S, T : IsFiniteSet(T) /\ S \subseteq T =>
        /\ IsFiniteSet(S) /\ Cardinality(S) <= Cardinality(T)
        /\ Cardinality(S) \in Nat /\ Cardinality(T) \in Nat
  BY FS_Subset, FS_CardinalityType
<1>2. \A T, z : IsFiniteSet(T) =>
        IsFiniteSet(T \cup {z}) /\ Cardinality(T \cup {z}) <= Cardinality(T) + 1
  <2> TAKE T, z
  <2> HAVE IsFiniteSet(T)
  <2>1. /\ IsFiniteSet(T \cup {z})
        /\ z \in T => Cardinality(T \cup {z}) = Cardinality(T)
        /\ z \notin T => Cardinality(T \cup {z}) = Cardinality(T) + 1
    BY FS_AddElement
  <2>2. Cardinality(T) \in Nat
    BY FS_CardinalityType
  <2> QED
    BY <2>1, <2>2
<1>3. x \in H => IsFiniteSet(H \ {x}) /\ Cardinality(H \ {x}) = Cardinality(H) - 1
  BY FS_RemoveElement
<1>4. Cardinality(H) \in Nat
  BY FS_CardinalityType
<1>5. x \in H => Cardinality(H) >= 1
  <2>1. x \in H => Cardinality(H \ {x}) \in Nat
    BY <1>3, FS_CardinalityType
  <2> QED
    BY <1>3, <1>4, <2>1
<1>6. K \subseteq H => Cardinality(K) <= Cardinality(H)
  BY <1>1
<1>7. K \subseteq H \cup {y} => Cardinality(K) <= Cardinality(H) + 1 /\ Cardinality(K) \in Nat
  <2>1. IsFiniteSet(H \cup {y}) /\ Cardinality(H \cup {y}) <= Cardinality(H) + 1
    BY <1>2
  <2> HAVE K \subseteq H \cup {y}
  <2>2. Cardinality(K) <= Cardinality(H \cup {y}) /\ Cardinality(K) \in Nat
        /\ Cardinality(H \cup {y}) \in Nat
    BY <1>1, <2>1
  <2> QED
    BY <1>4, <2>1, <2>2
<1>8. x \in H /\ K \subseteq H \ {x} => Cardinality(K) <= Cardinality(H) - 1
  BY <1>1, <1>3
<1>9. x \in H /\ K \subseteq (H \ {x}) \cup {y} => Cardinality(K) <= Cardinality(H)
  <2> HAVE x \in H /\ K \subseteq (H \ {x}) \cup {y}
  <2> DEFINE U == (H \ {x}) \cup {y}
  <2>1. IsFiniteSet(U) /\ Cardinality(U) <= Cardinality(H \ {x}) + 1
    BY <1>2, <1>3
  <2>2. Cardinality(K) <= Cardinality(U) /\ Cardinality(K) \in Nat /\ Cardinality(U) \in Nat
    BY <1>1, <2>1
  <2> QED
    BY <1>3, <1>4, <2>1, <2>2
<1> QED
  BY <1>4, <1>5, <1>6, <1>7, <1>8, <1>9

(* References are finitely many.                                           *)
LEMMA ReferencesFinite ==
  ASSUME NEW H, H \subseteq Sessions \X {"leg", "connect"}
  PROVE  IsFiniteSet(H)
<1>1. IsFiniteSet({"leg", "connect"})
  <2>1. {"leg", "connect"} = {"leg"} \cup {"connect"} /\ IsFiniteSet({"leg"})
    BY FS_Singleton
  <2> QED
    BY <2>1, FS_AddElement
<1>2. IsFiniteSet(Sessions \X {"leg", "connect"})
  BY <1>1, SessionAssumption, FS_Product
<1> QED
  BY <1>2, FS_Subset

(* So are the references on a device.                                      *)
LEMMA HoldersFinite ==
  ASSUME NEW a \in Devices
  PROVE  /\ IsFiniteSet(Holders(a))
         /\ Cardinality(Holders(a)) \in Nat
<1>1. Holders(a) \subseteq Sessions \X {"leg", "connect"}
  BY DEF Holders
<1> QED
  BY <1>1, ReferencesFinite, FS_CardinalityType

(* The step of session s changes no other session.                         *)
OnlySession(s) ==
  \A t \in Sessions \ {s} :
    sess'[t] = sess[t] /\ pool'[t] = pool[t] /\ aif'[t] = aif[t] /\ call'[t] = call[t]

(* A device that somebody holds is open.                                   *)
LEMMA HeldIsOpen ==
  ASSUME TypeOK, DeviceHeld, NEW s \in Sessions, NEW a \in Devices,
         aif[s][a] \in Connected \/ (call[s].step = "graph" /\ call[s].leg = a)
  PROVE  dev[a].open >= 1
<1>1. <<s, "leg">> \in Holders(a) \/ <<s, "connect">> \in Holders(a)
  BY DEF Holders
<1>2. Cardinality(Holders(a)) >= 1
  BY <1>1, HoldersFinite, CountHolders
<1>3. Cardinality(Holders(a)) \in Nat /\ dev[a].open \in Int
  BY HoldersFinite DEF TypeOK, Device
<1> QED
  BY <1>2, <1>3 DEF DeviceHeld

(* A step that takes no reference keeps DeviceHeld.                        *)
LEMMA HeldKeep ==
  ASSUME TypeOK, TypeOK', DeviceHeld, NEW s \in Sessions, OnlySession(s),
         \A b \in Devices : aif'[s][b] \in Connected => aif[s][b] \in Connected,
         call'[s].step # "graph",
         \A b \in Devices : dev'[b].open = dev[b].open
  PROVE  DeviceHeld'
<1> SUFFICES ASSUME NEW b \in Devices
             PROVE  Cardinality(Holders(b)') <= dev'[b].open
  BY DEF DeviceHeld
<1>1. Holders(b)' \subseteq Holders(b)
  BY DEF Holders, OnlySession
<1>2. Cardinality(Holders(b)') <= Cardinality(Holders(b)) /\ Cardinality(Holders(b)') \in Nat
  BY <1>1, HoldersFinite, CountHolders, FS_Subset, FS_CardinalityType
<1>3. Cardinality(Holders(b)) <= dev[b].open /\ Cardinality(Holders(b)) \in Nat
      /\ dev[b].open \in Int
  BY HoldersFinite DEF DeviceHeld, TypeOK, Device
<1> QED
  BY <1>2, <1>3

(* A step that opens device a to connect a leg keeps DeviceHeld.           *)
LEMMA HeldMore ==
  ASSUME TypeOK, TypeOK', DeviceHeld, NEW s \in Sessions, NEW a \in Devices, OnlySession(s),
         aif'[s] = aif[s], call[s].step # "graph",
         call'[s].step = "graph", call'[s].leg = a,
         dev'[a].open = dev[a].open + 1,
         \A b \in Devices \ {a} : dev'[b].open = dev[b].open
  PROVE  DeviceHeld'
<1> SUFFICES ASSUME NEW b \in Devices
             PROVE  Cardinality(Holders(b)') <= dev'[b].open
  BY DEF DeviceHeld
<1>1. /\ Cardinality(Holders(b)) <= dev[b].open /\ Cardinality(Holders(b)) \in Nat
      /\ dev[b].open \in Int
  BY HoldersFinite DEF DeviceHeld, TypeOK, Device
<1>2. CASE b # a
  <2>1. Holders(b)' \subseteq Holders(b)
    BY <1>2 DEF Holders, OnlySession
  <2>2. Cardinality(Holders(b)') <= Cardinality(Holders(b)) /\ Cardinality(Holders(b)') \in Nat
    BY <2>1, HoldersFinite, CountHolders, FS_Subset, FS_CardinalityType
  <2> QED
    BY <1>1, <1>2, <2>2
<1>3. CASE b = a
  <2>1. Holders(a)' \subseteq Holders(a) \cup {<<s, "connect">>}
    BY <1>3 DEF Holders, OnlySession
  <2>2. Cardinality(Holders(a)') <= Cardinality(Holders(a)) + 1
    BY <1>3, <2>1, HoldersFinite, CountHolders
  <2>3. Cardinality(Holders(a)') \in Nat
    BY <2>1, HoldersFinite, CountHolders
  <2> QED
    BY <1>1, <1>3, <2>2, <2>3
<1> QED
  BY <1>2, <1>3

(* A step that turns the reference of a connect into that of the leg, which *)
(* may have been connected already, keeps DeviceHeld.                      *)
LEMMA HeldSwap ==
  ASSUME TypeOK, TypeOK', DeviceHeld, NEW s \in Sessions, NEW a \in Devices, OnlySession(s),
         \A b \in Devices \ {a} : aif'[s][b] \in Connected => aif[s][b] \in Connected,
         call[s].step = "graph", call[s].leg = a, call'[s].step # "graph",
         \A b \in Devices : dev'[b].open = dev[b].open
  PROVE  DeviceHeld'
<1> SUFFICES ASSUME NEW b \in Devices
             PROVE  Cardinality(Holders(b)') <= dev'[b].open
  BY DEF DeviceHeld
<1>1. /\ Cardinality(Holders(b)) <= dev[b].open /\ Cardinality(Holders(b)) \in Nat
      /\ dev[b].open \in Int
  BY HoldersFinite DEF DeviceHeld, TypeOK, Device
<1>2. CASE b # a
  <2>1. Holders(b)' \subseteq Holders(b)
    BY <1>2 DEF Holders, OnlySession
  <2>2. Cardinality(Holders(b)') <= Cardinality(Holders(b)) /\ Cardinality(Holders(b)') \in Nat
    BY <2>1, HoldersFinite, CountHolders, FS_Subset, FS_CardinalityType
  <2> QED
    BY <1>1, <1>2, <2>2
<1>3. CASE b = a
  <2>1. /\ <<s, "connect">> \in Holders(a)
        /\ Holders(a)' \subseteq (Holders(a) \ {<<s, "connect">>}) \cup {<<s, "leg">>}
    BY <1>3 DEF Holders, OnlySession
  <2>2. Cardinality(Holders(a)') <= Cardinality(Holders(a))
    BY <1>3, <2>1, HoldersFinite, CountHolders
  <2>3. Cardinality(Holders(a)') \in Nat
    BY <2>1, HoldersFinite, CountHolders
  <2> QED
    BY <1>1, <1>3, <2>2, <2>3
<1> QED
  BY <1>2, <1>3

(* A step that closes device a and gives up the leg on it keeps DeviceHeld. *)
LEMMA HeldLessLeg ==
  ASSUME TypeOK, TypeOK', DeviceHeld, NEW s \in Sessions, NEW a \in Devices, OnlySession(s),
         \A b \in Devices \ {a} : aif'[s][b] \in Connected => aif[s][b] \in Connected,
         aif[s][a] \in Connected, aif'[s][a] \notin Connected, call'[s].step # "graph",
         dev'[a].open = dev[a].open - 1,
         \A b \in Devices \ {a} : dev'[b].open = dev[b].open
  PROVE  DeviceHeld'
<1> SUFFICES ASSUME NEW b \in Devices
             PROVE  Cardinality(Holders(b)') <= dev'[b].open
  BY DEF DeviceHeld
<1>1. /\ Cardinality(Holders(b)) <= dev[b].open /\ Cardinality(Holders(b)) \in Nat
      /\ dev[b].open \in Int
  BY HoldersFinite DEF DeviceHeld, TypeOK, Device
<1>2. CASE b # a
  <2>1. Holders(b)' \subseteq Holders(b)
    BY <1>2 DEF Holders, OnlySession
  <2>2. Cardinality(Holders(b)') <= Cardinality(Holders(b)) /\ Cardinality(Holders(b)') \in Nat
    BY <2>1, HoldersFinite, CountHolders, FS_Subset, FS_CardinalityType
  <2> QED
    BY <1>1, <1>2, <2>2
<1>3. CASE b = a
  <2>1. /\ <<s, "leg">> \in Holders(a)
        /\ Holders(a)' \subseteq Holders(a) \ {<<s, "leg">>}
    BY <1>3 DEF Holders, OnlySession
  <2>2. Cardinality(Holders(a)') <= Cardinality(Holders(a)) - 1
    BY <1>3, <2>1, HoldersFinite, CountHolders
  <2>3. Cardinality(Holders(a)') \in Nat
    BY <2>1, HoldersFinite, CountHolders
  <2> QED
    BY <1>1, <1>3, <2>2, <2>3
<1> QED
  BY <1>2, <1>3

(* A step that closes device a and gives up the connect keeps DeviceHeld.  *)
LEMMA HeldLessConnect ==
  ASSUME TypeOK, TypeOK', DeviceHeld, NEW s \in Sessions, NEW a \in Devices, OnlySession(s),
         aif'[s] = aif[s],
         call[s].step = "graph", call[s].leg = a, call'[s].step # "graph",
         dev'[a].open = dev[a].open - 1,
         \A b \in Devices \ {a} : dev'[b].open = dev[b].open
  PROVE  DeviceHeld'
<1> SUFFICES ASSUME NEW b \in Devices
             PROVE  Cardinality(Holders(b)') <= dev'[b].open
  BY DEF DeviceHeld
<1>1. /\ Cardinality(Holders(b)) <= dev[b].open /\ Cardinality(Holders(b)) \in Nat
      /\ dev[b].open \in Int
  BY HoldersFinite DEF DeviceHeld, TypeOK, Device
<1>2. CASE b # a
  <2>1. Holders(b)' \subseteq Holders(b)
    BY <1>2 DEF Holders, OnlySession
  <2>2. Cardinality(Holders(b)') <= Cardinality(Holders(b)) /\ Cardinality(Holders(b)') \in Nat
    BY <2>1, HoldersFinite, CountHolders, FS_Subset, FS_CardinalityType
  <2> QED
    BY <1>1, <1>2, <2>2
<1>3. CASE b = a
  <2>1. /\ <<s, "connect">> \in Holders(a)
        /\ Holders(a)' \subseteq Holders(a) \ {<<s, "connect">>}
    BY <1>3 DEF Holders, OnlySession
  <2>2. Cardinality(Holders(a)') <= Cardinality(Holders(a)) - 1
    BY <1>3, <2>1, HoldersFinite, CountHolders
  <2>3. Cardinality(Holders(a)') \in Nat
    BY <2>1, HoldersFinite, CountHolders
  <2> QED
    BY <1>1, <1>3, <2>2, <2>3
<1> QED
  BY <1>2, <1>3

(* A leg past prepare keeps its prepared device: only the last close       *)
(* forgets that a device is prepared, and then no leg holds it.            *)
LEMMA PreparedStep ==
  ASSUME TypeOK, TypeOK', DeviceHeld', LegsPrepared, NEW s \in Sessions, OnlySession(s),
         \A b \in Devices : (dev[b].prepared => dev'[b].prepared) \/ dev'[b].open = 0,
         \A b \in Devices : aif'[s][b] \in {"PREPARED", "STARTED", "STOPPED"} =>
           aif[s][b] \in {"PREPARED", "STARTED", "STOPPED"} \/ dev'[b].prepared
  PROVE  LegsPrepared'
<1> SUFFICES ASSUME NEW t \in Sessions, NEW b \in Devices,
                    aif'[t][b] \in {"PREPARED", "STARTED", "STOPPED"}
             PROVE  dev'[b].prepared
  BY DEF LegsPrepared
<1>1. dev'[b].open # 0
  <2>1. <<t, "leg">> \in Holders(b)'
    BY DEF Holders, Connected
  <2>2. Holders(b)' \subseteq Sessions \X {"leg", "connect"}
    BY DEF Holders
  <2>3. IsFiniteSet(Holders(b)')
    BY <2>2, ReferencesFinite
  <2>4. Cardinality(Holders(b)') >= 1 /\ Cardinality(Holders(b)') \in Nat
    BY <2>1, <2>3, CountHolders
  <2>5. Cardinality(Holders(b)') <= dev'[b].open
    BY DEF DeviceHeld
  <2>6. dev'[b].open \in Int
    BY DEF TypeOK, Device
  <2> QED
    BY <2>4, <2>5, <2>6
<1>2. CASE t = s
  BY <1>1, <1>2 DEF LegsPrepared
<1>3. CASE t # s
  <2>1. aif[t][b] \in {"PREPARED", "STARTED", "STOPPED"}
    BY <1>3 DEF OnlySession
  <2> QED
    BY <1>1, <2>1 DEF LegsPrepared
<1> QED
  BY <1>2, <1>3

(* A step of s leaves the other sessions as they are.                      *)
LEMMA OthersFit ==
  ASSUME \A t \in Sessions : SessionFits(t), NEW s \in Sessions, OnlySession(s)
  PROVE  \A t \in Sessions \ {s} : SessionFits(t)'
<1> SUFFICES ASSUME NEW t \in Sessions \ {s}
             PROVE  SessionFits(t)'
  OBVIOUS
<1>1. sess'[t] = sess[t] /\ pool'[t] = pool[t] /\ aif'[t] = aif[t] /\ call'[t] = call[t]
  BY DEF OnlySession
<1>2. /\ FrameFits(sess[t], call[t])
      /\ LegsFit(sess[t], aif[t], pool[t], call[t])
      /\ LegFits(aif[t], pool[t], call[t])
  BY DEF SessionFits
<1> QED
  BY <1>1, <1>2 DEF SessionFits

-----------------------------------------------------------------------------
(* What is left of a step: how a session fits, and how the devices change. *)

Past == {"PREPARED", "STARTED", "STOPPED"}

(* Which API call a handler belongs to, by its step.                       *)
LEMMA StepOps ==
  ASSUME NEW c \in Frame, c.step \in FrameSteps[c.op]
  PROVE  /\ c.step \notin {"unwind_open", "finish_open", "unwind_connect"}
         /\ c.step = "open" => c.op = "open"
         /\ c.step = "graph" => c.op \in {"open", "connect", "connect_prepare", "connect_start"}
         /\ c.step = "prepare" => c.op \in {"connect_prepare", "connect_start"}
         /\ c.step = "device_prepare" => c.op \in {"prepare", "connect_prepare", "connect_start"}
         /\ c.step = "start" => c.op = "connect_start"
         /\ c.step \in {"ec_ref", "graph_start", "device_start"} =>
              c.op \in {"start", "connect_start"}
         /\ c.step = "unwind_start" => c.op = "start"
         /\ c.step = "stop" => c.op = "stop"
         /\ c.step = "close" => c.op = "close"
<1>1. c.op \in Ops
  BY DEF Frame
<1> QED
  BY <1>1 DEF FrameSteps, Ops, None

(* The steps a call goes through.                                          *)
LEMMA OpSteps ==
  /\ FrameSteps[None] = {"idle"}
  /\ FrameSteps["open"] = {"open", "graph"}
  /\ FrameSteps["connect"] = {"graph"}
  /\ FrameSteps["connect_prepare"] = {"graph", "prepare", "device_prepare"}
  /\ FrameSteps["connect_start"] = {"graph", "prepare", "device_prepare", "start", "ec_ref",
                                    "graph_start", "device_start"}
  /\ FrameSteps["prepare"] = {"device_prepare"}
  /\ FrameSteps["start"] = {"ec_ref", "graph_start", "device_start", "unwind_start"}
  /\ FrameSteps["stop"] = {"stop"}
  /\ FrameSteps["close"] = {"close"}
BY DEF FrameSteps, Ops, None

(* A step of s that calls no device and connects no leg.                   *)
LEMMA QuietStep ==
  ASSUME HeldInv, TypeOK', NEW s \in Sessions, OnlySession(s), SessionFits(s)', dev' = dev,
         call'[s].step # "graph",
         \A b \in Devices : /\ aif'[s][b] \in Connected => aif[s][b] \in Connected
                            /\ aif'[s][b] \in Past => aif[s][b] \in Past
  PROVE  HeldInv'
<1>1. \A t \in Sessions : SessionFits(t)'
  BY OthersFit DEF HeldInv
<1>2. DeviceHeld'
  BY HeldKeep DEF HeldInv
<1>3. DeviceConsistent'
  BY DEF HeldInv, DeviceConsistent
<1>4. LegsPrepared'
  BY <1>2, PreparedStep DEF HeldInv, Past
<1> QED
  BY <1>1, <1>2, <1>3, <1>4 DEF HeldInv

(* A step of s that makes device a the consistent d.                       *)
LEMMA DeviceStep ==
  ASSUME HeldInv, TypeOK', NEW s \in Sessions, OnlySession(s), SessionFits(s)',
         NEW a \in Devices, NEW d \in Device, SetDevice(a, d), Consistent(d), DeviceHeld',
         (dev[a].prepared => d.prepared) \/ d.open = 0,
         \A b \in Devices : aif'[s][b] \in Past => aif[s][b] \in Past \/ (b = a /\ d.prepared)
  PROVE  HeldInv'
<1>0. dev'[a] = d /\ \A b \in Devices \ {a} : dev'[b] = dev[b]
  BY DEF SetDevice, HeldInv, TypeOK
<1>1. \A t \in Sessions : SessionFits(t)'
  BY OthersFit DEF HeldInv
<1>2. DeviceConsistent'
  BY <1>0 DEF HeldInv, DeviceConsistent
<1>3. \A b \in Devices : (dev[b].prepared => dev'[b].prepared) \/ dev'[b].open = 0
  BY <1>0
<1>4. \A b \in Devices : aif'[s][b] \in Past => aif[s][b] \in Past \/ dev'[b].prepared
  BY <1>0
<1>5. LegsPrepared'
  BY <1>3, <1>4, PreparedStep DEF HeldInv, Past
<1> QED
  BY <1>1, <1>2, <1>5 DEF HeldInv

(* aif_obj_get finds or adds the interface and loses none.                 *)
LEMMA AifGet ==
  ASSUME TypeOK, NEW s \in Sessions, NEW a \in Devices
  PROVE  /\ \E k \in DOMAIN aif_obj_get(s, a) : aif_obj_get(s, a)[k] = a
         /\ \A b : (\E k \in DOMAIN pool[s] : pool[s][k] = b) =>
                   \E k \in DOMAIN aif_obj_get(s, a) : aif_obj_get(s, a)[k] = b
<1>1. pool[s] \in Seq(Devices)
  BY DEF TypeOK
<1>2. CASE \E k \in DOMAIN pool[s] : pool[s][k] = a
  BY <1>2 DEF aif_obj_get
<1>3. CASE ~\E k \in DOMAIN pool[s] : pool[s][k] = a
  <2> DEFINE q == Append(pool[s], a)
  <2>1. aif_obj_get(s, a) = q
    BY <1>3 DEF aif_obj_get
  <2>2. /\ Len(pool[s]) \in Nat /\ DOMAIN pool[s] = 1 .. Len(pool[s])
        /\ DOMAIN q = 1 .. (Len(pool[s]) + 1) /\ q[Len(pool[s]) + 1] = a
        /\ \A k \in 1 .. Len(pool[s]) : q[k] = pool[s][k]
    BY <1>1
  <2> HIDE DEF q
  <2> QED
    BY <2>1, <2>2
<1> QED
  BY <1>2, <1>3

(* When only the calls of Recoverable fail, a prepare or start of a live   *)
(* graph succeeds, and it stays live whatever is done to it but a close.   *)
LEMMA LiveGraph ==
  ASSUME Failing \subseteq Recoverable, NEW g \in GraphState
  PROVE  /\ \A r \in graph_prepare(g) : r.ok /\ r.g \in GraphState
         /\ \A r \in graph_start(g) : r.ok /\ r.g \in GraphState
         /\ \A r \in graph_stop(g) : r.g \in GraphState
         /\ \A r \in graph_add(g) : r.ok /\ r.g \in GraphState
         /\ \A r \in graph_set_config(g) : r.ok /\ r.g \in GraphState
<1>1. /\ g \in Graph /\ "PREPARED" \in GraphState /\ "STARTED" \in GraphState
      /\ "STOPPED" \in GraphState
  BY DEF Graph, GraphState
<1>2. /\ "gsl_prepare" \notin Failing /\ "gsl_start" \notin Failing
      /\ "gsl_add" \notin Failing /\ "gsl_config" \notin Failing
  BY DEF Recoverable
<1>3. \A r \in graph_prepare(g) : r.ok /\ r.g \in GraphState
  BY <1>1, <1>2, GslResult DEF graph_prepare
<1>4. \A r \in graph_start(g) : r.ok /\ r.g \in GraphState
  BY <1>1, <1>2, GslResult DEF graph_start
<1>5. \A r \in graph_stop(g) : r.g \in GraphState
  BY <1>1 DEF graph_stop, GraphState
<1>6. \A r \in graph_add(g) : r.ok /\ r.g \in GraphState
  BY <1>1, <1>2, GslResult DEF graph_add
<1>7. \A r \in graph_set_config(g) : r.ok /\ r.g \in GraphState
  BY <1>1, <1>2, GslResult DEF graph_set_config
<1> QED
  BY <1>3, <1>4, <1>5, <1>6, <1>7

(* session_connect_aif leaves a live graph, or it is the first leg of the  *)
(* session and the graph pointer is what it was.                           *)
LEMMA ConnectGraphLive ==
  ASSUME Failing \subseteq Recoverable, TypeOK, NEW s \in Sessions, NEW n \in Nat,
         n > 0 \/ sess[s].state # "CLOSED" => sess[s].graph \in GraphState,
         NEW r \in connect_graph(s, n)
  PROVE  /\ r.ok => r.g \in GraphState
         /\ ~r.ok => n = 0 /\ r.g = sess[s].graph
<1> DEFINE g == sess[s].graph
           first == IF n > 0 THEN graph_add(g)
                    ELSE IF sess[s].state = "CLOSED" THEN graph_open(g) ELSE graph_change(g)
<1>1. \A f \in first : /\ f.ok => f.g \in GraphState
                       /\ ~f.ok => n = 0 /\ f.g = g
  <2>1. CASE n > 0
    BY <2>1, LiveGraph
  <2>2. CASE ~(n > 0) /\ sess[s].state = "CLOSED"
    <3>1. first = graph_open(g) /\ n = 0
      BY <2>2
    <3> QED
      BY <3>1 DEF graph_open, GraphState
  <2>3. CASE ~(n > 0) /\ sess[s].state # "CLOSED"
    <3>1. first = graph_change(g) /\ n = 0 /\ g \in GraphState
      BY <2>3
    <3>2. graph_change(g) = {[g |-> IF ok THEN g ELSE g, ok |-> ok] : ok \in Ret("gsl_change")}
      BY <3>1 DEF graph_change, GslCall, GraphState
    <3> QED
      BY <3>1, <3>2
  <2> QED
    BY <2>1, <2>2, <2>3
<1>2. PICK f \in first : r \in IF f.ok
                                 THEN {[g |-> IF c.ok \/ n > 0 THEN c.g ELSE "FREED",
                                        ok |-> c.ok] : c \in graph_set_config(f.g)}
                                 ELSE {f}
  BY Zenon DEF connect_graph
<1>3. CASE f.ok
  <2>1. PICK c \in graph_set_config(f.g) :
          r = [g |-> IF c.ok \/ n > 0 THEN c.g ELSE "FREED", ok |-> c.ok]
    BY <1>2, <1>3
  <2>2. c.ok /\ c.g \in GraphState
    BY <1>1, <1>3, <2>1, LiveGraph
  <2> QED
    BY <2>1, <2>2
<1>4. CASE ~f.ok
  BY <1>1, <1>2, <1>4
<1> QED
  BY <1>3, <1>4

(* A session with a connected leg counts it.                               *)
LEMMA CountPositive ==
  ASSUME TypeOK, NEW s \in Sessions, NEW a \in Devices, aif[s][a] \in Connected
  PROVE  aif_obj_get_count(s) # 0
<1> DEFINE L == {b \in Devices : aif[s][b] \in Connected}
<1>1. IsFiniteSet(L) /\ a \in L
  BY SessionAssumption, FS_Subset
<1> HIDE DEF L
<1>2. Cardinality(L) >= 1 /\ Cardinality(L) \in Nat
  BY <1>1, CountHolders
<1> QED
  BY <1>2 DEF aif_obj_get_count, L

(* The loops over aif_pool see every leg that is not AIF_CLOSED.           *)
LEMMA LoopSees ==
  ASSUME NEW s \in Sessions, SessionFits(s), NEW S, "CLOSED" \notin S, NoLeg(s, S)
  PROVE  \A a \in Devices : aif[s][a] \notin S
BY DEF SessionFits, LegsFit, NoLeg

-----------------------------------------------------------------------------
(* The client's requests keep HeldInv.                                     *)

(* What HeldInv says of one session.                                       *)
LEMMA FitsOf ==
  ASSUME HeldInv, NEW s \in Sessions
  PROVE  /\ TypeOK /\ SessionFits(s)
         /\ FrameFits(sess[s], call[s])
         /\ LegsFit(sess[s], aif[s], pool[s], call[s])
         /\ LegFits(aif[s], pool[s], call[s])
         /\ sess[s] \in Session /\ call[s] \in Frame
         /\ aif[s] \in [Devices -> AifState] /\ dev \in [Devices -> Device]
         /\ call[s].step \in FrameSteps[call[s].op]
BY DEF HeldInv, SessionFits, TypeOK, FrameFits

(* A handler that looks its leg up has it in the pool from then on.        *)
LEMMA PoolGrows ==
  ASSUME TypeOK, NEW s \in Sessions, NEW a \in Devices,
         pool' = [pool EXCEPT ![s] = aif_obj_get(s, a)]
  PROVE  /\ \E k \in DOMAIN pool'[s] : pool'[s][k] = a
         /\ \A b : (\E k \in DOMAIN pool[s] : pool[s][k] = b) =>
                     \E k \in DOMAIN pool'[s] : pool'[s][k] = b
<1> DEFINE q == aif_obj_get(s, a)
<1>1. /\ \E k \in DOMAIN q : q[k] = a
      /\ \A b : (\E k \in DOMAIN pool[s] : pool[s][k] = b) => \E k \in DOMAIN q : q[k] = b
  BY AifGet
<1>2. pool'[s] = q
  BY DEF TypeOK
<1> HIDE DEF q
<1> QED
  BY <1>1, <1>2

(* A connect marks the leg of a closed session, or opens its device.       *)
LEMMA ConnectHeld ==
  ASSUME Failing \subseteq Recoverable, HeldInv, TypeOK', NEW s \in Sessions, NEW a \in Devices,
         session_obj_sess_aif_connect(s, a)
  PROVE  HeldInv'
<1>1. /\ call[s] = Idle /\ aif[s][a] \notin {"STOPPED", "PREPARED", "STARTED"}
      /\ sess' = sess /\ pool' = [pool EXCEPT ![s] = aif_obj_get(s, a)]
  BY DEF session_obj_sess_aif_connect
<1>2. sess'[s] = sess[s]
  BY <1>1
<1>3. /\ \E k \in DOMAIN pool'[s] : pool'[s][k] = a
      /\ \A b : (\E k \in DOMAIN pool[s] : pool[s][k] = b) =>
                  \E k \in DOMAIN pool'[s] : pool'[s][k] = b
  BY <1>1, PoolGrows, FitsOf
<1>4. CASE sess[s].state = "CLOSED"
  <2>1. SetLeg(s, a, "OPEN") /\ dev' = dev /\ call' = call
    BY <1>4 DEF session_obj_sess_aif_connect
  <2>2. aif'[s][a] = "OPEN" /\ \A b \in Devices \ {a} : aif'[s][b] = aif[s][b]
    BY <2>1, FitsOf DEF SetLeg, TypeOK
  <2>3. OnlySession(s)
    BY <1>1, <2>1, FitsOf DEF OnlySession, SetLeg, TypeOK
  <2>4. SessionFits(s)'
    <3>1. FrameFits(sess'[s], call'[s])
      BY <1>2, <2>1, FitsOf
    <3>2. LegsFit(sess'[s], aif'[s], pool'[s], call'[s])
      <4>1. \A b \in Devices : aif[s][b] # "CLOSED" => \E k \in DOMAIN pool[s] : pool[s][k] = b
        BY FitsOf DEF LegsFit
      <4>2. \A b \in Devices : aif'[s][b] # "CLOSED" =>
              \E k \in DOMAIN pool'[s] : pool'[s][k] = b
        BY <1>3, <2>2, <4>1
      <4>3. \A b \in Devices : aif'[s][b] \notin Connected
        BY <1>1, <1>4, <2>2, FitsOf DEF LegsFit, Idle, Connected
      <4> QED
        BY <1>1, <1>2, <1>4, <2>1, <4>2, <4>3 DEF LegsFit, Idle, None
    <3>3. LegFits(aif'[s], pool'[s], call'[s])
      BY <1>1, <2>1 DEF LegFits, Idle, None
    <3> QED
      BY <3>1, <3>2, <3>3 DEF SessionFits
  <2>5. call'[s].step # "graph"
    BY <1>1, <2>1 DEF Idle
  <2> QED
    BY <2>1, <2>2, <2>3, <2>4, <2>5, QuietStep DEF Connected, Past
<1>5. CASE sess[s].state # "CLOSED"
  <2> DEFINE f == [op |-> ConnectOp(s), step |-> "graph", leg |-> a,
                   count |-> aif_obj_get_count(s)]
  <2>1. PICK r \in device_open(dev[a]) :
          SetDevice(a, r.d) /\ IF r.ok THEN Enter(s, f) ELSE UNCHANGED call
    BY <1>5 DEF session_obj_sess_aif_connect
  <2>2. aif' = aif
    BY <1>5 DEF session_obj_sess_aif_connect
  <2>3. /\ r.d \in Device /\ r.ok /\ r.d.open = dev[a].open + 1
        /\ r.d.prepared = dev[a].prepared
    <3>1. "pcm_open" \notin Failing
      BY DEF Recoverable
    <3> QED
      BY <2>1, <3>1, DeviceOpen, FitsOf
  <2>4. Consistent(r.d)
    BY <2>1, ConsistentDevice, FitsOf DEF HeldInv, DeviceConsistent
  <2>5. call' = [call EXCEPT ![s] = f] /\ call'[s] = f
    BY <2>1, <2>3, FitsOf DEF Enter, TypeOK
  <2>6. OnlySession(s)
    BY <1>1, <2>2, <2>5, FitsOf DEF OnlySession, TypeOK
  <2>7. f.op \in {"connect", "connect_prepare", "connect_start"} /\ f.step = "graph" /\ f.leg = a
    BY <1>5, FitsOf DEF ConnectOp, Session, SessState
  <2> HIDE DEF f
  <2>8. SessionFits(s)'
    <3>1. FrameFits(sess'[s], call'[s])
      BY <1>1, <1>2, <1>5, <2>5, <2>7, FitsOf, OpSteps DEF FrameFits, Idle, None
    <3>2. LegsFit(sess'[s], aif'[s], pool'[s], call'[s])
      BY <1>2, <1>3, <1>5, <2>2, <2>5, <2>7, FitsOf DEF LegsFit
    <3>3. LegFits(aif'[s], pool'[s], call'[s])
      BY <1>1, <1>3, <2>2, <2>5, <2>7 DEF LegFits
    <3> QED
      BY <3>1, <3>2, <3>3 DEF SessionFits
  <2>9. DeviceHeld'
    <3>1. dev'[a] = r.d /\ \A b \in Devices \ {a} : dev'[b] = dev[b]
      BY <2>1, FitsOf DEF SetDevice
    <3>2. call[s].step # "graph"
      BY <1>1 DEF Idle
    <3> QED
      BY <2>2, <2>3, <2>5, <2>6, <2>7, <3>1, <3>2, HeldMore, FitsOf DEF HeldInv
  <2> QED
    BY <2>1, <2>2, <2>3, <2>4, <2>6, <2>8, <2>9, DeviceStep
<1> QED
  BY <1>4, <1>5

(* A disconnect closes the device of a leg that has it open, no other.     *)
LEMMA DisconnectHeld ==
  ASSUME Failing \subseteq Recoverable, HeldInv, TypeOK', NEW s \in Sessions, NEW a \in Devices,
         session_obj_sess_aif_disconnect(s, a)
  PROVE  HeldInv'
<1>1. /\ call[s] = Idle /\ sess' = sess /\ call' = call
      /\ pool' = [pool EXCEPT ![s] = aif_obj_get(s, a)]
  BY DEF session_obj_sess_aif_disconnect
<1>2. sess'[s] = sess[s] /\ call'[s] = Idle /\ call'[s].step # "graph"
  BY <1>1 DEF Idle
<1>3. \A b : (\E k \in DOMAIN pool[s] : pool[s][k] = b) =>
               \E k \in DOMAIN pool'[s] : pool'[s][k] = b
  BY <1>1, PoolGrows, FitsOf
<1>4. ASSUME NEW st \in {"CLOSED", "CLOSE"}, aif[s][a] # "CLOSED", SetLeg(s, a, st)
      PROVE  /\ aif'[s][a] = st /\ \A b \in Devices \ {a} : aif'[s][b] = aif[s][b]
             /\ OnlySession(s)
             /\ SessionFits(s)'
  <2>1. aif'[s][a] = st /\ \A b \in Devices \ {a} : aif'[s][b] = aif[s][b]
    BY <1>4, FitsOf DEF SetLeg, TypeOK
  <2>2. OnlySession(s)
    BY <1>1, <1>4, FitsOf DEF OnlySession, SetLeg, TypeOK
  <2>3. FrameFits(sess'[s], call'[s])
    BY <1>1, FitsOf
  <2>4. LegsFit(sess'[s], aif'[s], pool'[s], call'[s])
    <3>1. \A b \in Devices : aif'[s][b] # "CLOSED" => aif[s][b] # "CLOSED"
      BY <1>4, <2>1
    <3>2. \A b \in Devices : aif[s][b] # "CLOSED" => \E k \in DOMAIN pool[s] : pool[s][k] = b
      BY FitsOf DEF LegsFit
    <3>3. \A b \in Devices : aif'[s][b] # "CLOSED" =>
            \E k \in DOMAIN pool'[s] : pool'[s][k] = b
      BY <1>3, <3>1, <3>2
    <3>4. \A b \in Devices : /\ sess[s].state # "CLOSED" => aif'[s][b] # "OPEN"
                             /\ sess[s].state = "CLOSED" => aif'[s][b] \notin Connected
      BY <1>1, <2>1, FitsOf DEF LegsFit, Idle, Connected
    <3> QED
      BY <1>2, <3>3, <3>4 DEF LegsFit, Idle, None
  <2>5. LegFits(aif'[s], pool'[s], call'[s])
    BY <1>2 DEF LegFits, Idle, None
  <2> QED
    BY <2>1, <2>2, <2>3, <2>4, <2>5 DEF SessionFits
<1>5. CASE aif[s][a] \in {"CLOSED", "CLOSE"}
  <2>1. dev' = dev /\ aif' = aif
    BY <1>5 DEF session_obj_sess_aif_disconnect
  <2>2. OnlySession(s)
    BY <1>1, <2>1, FitsOf DEF OnlySession, TypeOK
  <2>3. FrameFits(sess'[s], call'[s])
    BY <1>1, FitsOf
  <2>4. LegsFit(sess'[s], aif'[s], pool'[s], call'[s])
    BY <1>1, <1>2, <1>3, <2>1, FitsOf DEF LegsFit, Idle, None
  <2>5. LegFits(aif'[s], pool'[s], call'[s])
    BY <1>2 DEF LegFits, Idle, None
  <2> QED
    BY <1>2, <2>1, <2>2, <2>3, <2>4, <2>5, QuietStep DEF SessionFits
<1>6. CASE aif[s][a] \notin {"CLOSED", "CLOSE"} /\ sess[s].state = "CLOSED"
  <2>1. SetLeg(s, a, "CLOSED") /\ dev' = dev
    BY <1>6 DEF session_obj_sess_aif_disconnect
  <2> QED
    BY <1>2, <1>4, <1>6, <2>1, QuietStep DEF Connected, Past
<1>7. CASE aif[s][a] \notin {"CLOSED", "CLOSE"} /\ sess[s].state # "CLOSED"
  <2>1. PICK r \in device_close(dev[a]) :
          SetDevice(a, r.d) /\ SetLeg(s, a, IF r.ok THEN "CLOSED" ELSE "CLOSE")
    BY <1>7 DEF session_obj_sess_aif_disconnect, session_disconnect_aif
  <2>2. aif[s][a] \in Connected
    BY <1>7, FitsOf DEF LegsFit, Connected, AifState
  <2>3. dev[a].open >= 1 /\ dev[a] \in Device /\ Consistent(dev[a])
    BY <2>2, HeldIsOpen, FitsOf DEF HeldInv, DeviceConsistent
  <2>4. /\ r.d \in Device /\ r.d.open = dev[a].open - 1 /\ Consistent(r.d)
        /\ r.d.prepared = dev[a].prepared \/ r.d.open = 0
    BY <2>1, <2>3, DeviceClose, ConsistentDevice DEF Device
  <2>5. /\ aif'[s][a] \in {"CLOSED", "CLOSE"}
        /\ \A b \in Devices \ {a} : aif'[s][b] = aif[s][b]
        /\ OnlySession(s) /\ SessionFits(s)'
    BY <1>4, <1>7, <2>1
  <2>6. DeviceHeld'
    <3>1. dev'[a] = r.d /\ \A b \in Devices \ {a} : dev'[b] = dev[b]
      BY <2>1, FitsOf DEF SetDevice
    <3>2. aif'[s][a] \notin Connected
      BY <2>5 DEF Connected
    <3> QED
      BY <1>2, <2>2, <2>4, <2>5, <3>1, <3>2, HeldLessLeg, FitsOf DEF HeldInv
  <2> QED
    BY <2>1, <2>4, <2>5, <2>6, DeviceStep DEF Past
<1> QED
  BY <1>5, <1>6, <1>7

(* A step of s that only changes its session object and its frame.         *)
LEMMA FrameStep ==
  ASSUME HeldInv, TypeOK', NEW s \in Sessions, OnlySession(s),
         dev' = dev, pool' = pool, aif' = aif, call'[s].step # "graph",
         FrameFits(sess'[s], call'[s]),
         LegsFit(sess'[s], aif[s], pool[s], call'[s]),
         LegFits(aif[s], pool[s], call'[s])
  PROVE  HeldInv'
<1>1. SessionFits(s)'
  BY DEF SessionFits
<1> QED
  BY <1>1, QuietStep

(* Such a step of a session that is open and stays so, with a live graph.  *)
LEMMA OpenStep ==
  ASSUME HeldInv, TypeOK', NEW s \in Sessions, OnlySession(s),
         dev' = dev, pool' = pool, aif' = aif,
         sess[s].state # "CLOSED", sess'[s].state # "CLOSED", sess'[s].graph \in GraphState,
         sess'[s].loopback = None, sess'[s].ec_ref = None,
         call'[s] = Idle \/ call'[s].op \in {"prepare", "connect_prepare", "connect_start",
                                             "start", "stop"},
         call'[s].step \in FrameSteps[call'[s].op], call'[s].step # "graph",
         LegFits(aif[s], pool[s], call'[s])
  PROVE  HeldInv'
<1>1. FrameFits(sess'[s], call'[s])
  BY DEF FrameFits, Idle, None
<1>2. LegsFit(sess'[s], aif[s], pool[s], call'[s])
  BY FitsOf DEF LegsFit, Idle, None
<1> QED
  BY <1>1, <1>2, FrameStep

(* A frame that is idle, or that connects no leg, fits any legs.           *)
LEMMA NoLegFits ==
  ASSUME NEW s \in Sessions, NEW c,
         c = Idle \/ c.op \in {"open", "prepare", "start", "stop", "close"},
         c.step # "graph"
  PROVE  LegFits(aif[s], pool[s], c)
BY DEF LegFits, Idle, None

(* session_prepare, whether the client or a connect calls it.              *)
LEMMA PrepareHeld ==
  ASSUME Failing \subseteq Recoverable, HeldInv, TypeOK', NEW s \in Sessions, NEW f \in Frame,
         sess[s].state # "CLOSED", call[s].op # "close",
         f.op \in {"prepare", "connect_prepare", "connect_start"},
         f.op # "prepare" => f.leg \in Devices /\ aif[s][f.leg] \in Connected,
         session_prepare(s, f)
  PROVE  HeldInv'
<1>1. dev' = dev /\ pool' = pool /\ aif' = aif
  BY DEF session_prepare
<1>2. sess[s].graph \in GraphState /\ sess[s].loopback = None /\ sess[s].ec_ref = None
  BY FitsOf DEF FrameFits
<1>3. CASE aif_obj_get_count(s) = 0
  <2>1. f.op = "prepare"
    BY <1>3, CountPositive, FitsOf
  <2>2. call' = [call EXCEPT ![s] = Idle] /\ sess' = sess
    BY <1>3, <2>1 DEF session_prepare, Failed
  <2>3. call'[s] = Idle /\ OnlySession(s)
    BY <1>1, <2>2, FitsOf DEF TypeOK, OnlySession
  <2>4. call'[s].step \in FrameSteps[call'[s].op] /\ call'[s].step # "graph"
    BY <2>3, OpSteps DEF Idle
  <2>5. LegFits(aif[s], pool[s], call'[s])
    BY <2>3, <2>4, NoLegFits
  <2> QED
    BY <1>1, <1>2, <2>2, <2>3, <2>4, <2>5, OpenStep
<1>4. CASE aif_obj_get_count(s) # 0
  <2>1. PICK r \in IF PreparesGraph(s, "TX") THEN graph_prepare(sess[s].graph)
                                             ELSE NoGraphCall(s) :
          /\ SetGraph(s, r.g)
          /\ IF r.ok THEN call' = [call EXCEPT ![s] = [f EXCEPT !.step = "device_prepare"]]
                     ELSE Failed(s, f)
    BY <1>4 DEF session_prepare
  <2>2. r.ok /\ r.g \in GraphState
    BY <1>2, <2>1, LiveGraph DEF NoGraphCall
  <2>3. call'[s] = [f EXCEPT !.step = "device_prepare"] /\ OnlySession(s)
    BY <1>1, <2>1, <2>2, FitsOf DEF TypeOK, OnlySession, SetGraph
  <2>4. /\ call'[s].step = "device_prepare" /\ call'[s].op = f.op /\ call'[s].leg = f.leg
    BY <2>3 DEF Frame
  <2>5. sess'[s] = [sess[s] EXCEPT !.graph = r.g]
    BY <2>1, FitsOf DEF TypeOK, SetGraph
  <2>6. /\ sess'[s].graph \in GraphState /\ sess'[s].state = sess[s].state
        /\ sess'[s].loopback = None /\ sess'[s].ec_ref = None
    BY <1>2, <2>2, <2>5, FitsOf DEF Session
  <2>7. LegFits(aif[s], pool[s], call'[s])
    BY <2>4 DEF LegFits
  <2>8. call'[s].step \in FrameSteps[call'[s].op]
    BY <2>4, OpSteps
  <2> QED
    BY <1>1, <2>3, <2>4, <2>6, <2>7, <2>8, OpenStep
<1> QED
  BY <1>3, <1>4

(* The checks of session_start, whether the client or a connect calls it.  *)
LEMMA StartHeld ==
  ASSUME Failing \subseteq Recoverable, HeldInv, TypeOK', NEW s \in Sessions, NEW f \in Frame,
         sess[s].state # "CLOSED", call[s].op # "close",
         f.op \in {"start", "connect_start"},
         f.op = "connect_start" =>
           /\ f.leg \in Devices /\ aif[s][f.leg] \in Connected
           /\ \A a \in Devices : aif[s][a] \notin {"OPENED", "STOPPED"},
         session_start(s, f)
  PROVE  HeldInv'
<1>1. dev' = dev /\ pool' = pool /\ aif' = aif /\ sess' = sess
  BY DEF session_start
<1>2. sess[s].graph \in GraphState /\ sess[s].loopback = None /\ sess[s].ec_ref = None
  BY FitsOf DEF FrameFits
<1>3. CASE aif_obj_get_count(s) = 0
  <2>1. f.op = "start"
    BY <1>3, CountPositive, FitsOf
  <2>2. call' = [call EXCEPT ![s] = Idle]
    BY <1>3, <2>1 DEF session_start, Failed
  <2>3. call'[s] = Idle /\ OnlySession(s)
    BY <1>1, <2>2, FitsOf DEF TypeOK, OnlySession
  <2>4. call'[s].step \in FrameSteps[call'[s].op] /\ call'[s].step # "graph"
    BY <2>3, OpSteps DEF Idle
  <2>5. LegFits(aif[s], pool[s], call'[s])
    BY <2>3, <2>4, NoLegFits
  <2> QED
    BY <1>1, <1>2, <2>3, <2>4, <2>5, OpenStep
<1>4. CASE aif_obj_get_count(s) # 0
  <2>1. PICK st \in {"ec_ref", "device_start"} :
          call' = [call EXCEPT ![s] = [f EXCEPT !.step = st]]
    BY <1>2, <1>4 DEF session_start
  <2>2. call'[s] = [f EXCEPT !.step = st] /\ OnlySession(s)
    BY <1>1, <2>1, FitsOf DEF TypeOK, OnlySession
  <2>3. call'[s].step = st /\ call'[s].op = f.op /\ call'[s].leg = f.leg
    BY <2>2 DEF Frame
  <2>4. LegFits(aif[s], pool[s], call'[s])
    BY <2>1, <2>3 DEF LegFits
  <2>5. call'[s].step \in FrameSteps[call'[s].op]
    BY <2>1, <2>3, OpSteps
  <2> QED
    BY <1>1, <1>2, <2>1, <2>2, <2>3, <2>4, <2>5, OpenStep
<1> QED
  BY <1>3, <1>4

(* Every request of a client keeps HeldInv.                                *)
LEMMA RequestHeld ==
  ASSUME Failing \subseteq Recoverable, Loopbacks = {}, EcRefs = {},
         HeldInv, TypeOK', NEW s \in Sessions, Request(s)
  PROVE  HeldInv'
<1>1. /\ Begin("prepare") \in Frame /\ Begin("prepare").op = "prepare"
      /\ Begin("start") \in Frame /\ Begin("start").op = "start"
  BY DEF Begin, Frame, Ops, Steps, None
<1>2. ASSUME HasHandle(s)
      PROVE  /\ call[s] = Idle /\ call[s].op # "close" /\ sess[s].state # "CLOSED"
             /\ sess[s].graph \in GraphState
             /\ sess[s].loopback = None /\ sess[s].ec_ref = None
             /\ call[s].step \in FrameSteps[call[s].op] /\ call[s].step # "graph"
             /\ LegFits(aif[s], pool[s], call[s])
  BY <1>2, FitsOf DEF HasHandle, FrameFits, Idle, None
<1>3. CASE session_obj_open(s)
  <2>1. /\ call[s] = Idle /\ call' = [call EXCEPT ![s] = Begin("open")]
        /\ dev' = dev /\ sess' = sess /\ pool' = pool /\ aif' = aif
        /\ sess[s].state = "CLOSED" /\ ~NoLeg(s, {"OPEN"})
    BY <1>3 DEF session_obj_open, Enter
  <2>2. call'[s] = Begin("open") /\ OnlySession(s)
    BY <2>1, FitsOf DEF TypeOK, OnlySession
  <2>3. call'[s].op = "open" /\ call'[s].step = "open" /\ call'[s].count = 0
    BY <2>2 DEF Begin
  <2>4. FrameFits(sess'[s], call'[s])
    BY <2>1, <2>3, FitsOf, OpSteps DEF FrameFits, Idle, None
  <2>5. LegsFit(sess'[s], aif[s], pool[s], call'[s])
    BY <2>1, <2>3, FitsOf DEF LegsFit, NoLeg, Idle
  <2>6. LegFits(aif[s], pool[s], call'[s])
    BY <2>3, NoLegFits
  <2> QED
    BY <2>1, <2>2, <2>3, <2>4, <2>5, <2>6, FrameStep
<1>4. CASE session_obj_set_config(s)
  <2>1. /\ HasHandle(s) /\ sess' = [sess EXCEPT ![s].dir = Dir[s]]
        /\ dev' = dev /\ pool' = pool /\ aif' = aif /\ call' = call
    BY <1>4 DEF session_obj_set_config
  <2>2. sess'[s] = [sess[s] EXCEPT !.dir = Dir[s]] /\ OnlySession(s)
    BY <2>1, FitsOf DEF TypeOK, OnlySession
  <2>3. /\ sess'[s].state = sess[s].state /\ sess'[s].graph = sess[s].graph
        /\ sess'[s].loopback = sess[s].loopback /\ sess'[s].ec_ref = sess[s].ec_ref
    BY <2>2, FitsOf DEF Session
  <2> QED
    BY <1>2, <2>1, <2>2, <2>3, OpenStep
<1>5. CASE session_obj_prepare(s)
  BY <1>1, <1>2, <1>5, PrepareHeld DEF session_obj_prepare
<1>6. CASE session_obj_start(s)
  BY <1>1, <1>2, <1>6, StartHeld DEF session_obj_start
<1>7. CASE session_stop(s)
  <2>1. PICK r \in IF sess[s].dir = "RX" THEN graph_stop(sess[s].graph) ELSE NoGraphCall(s) :
          /\ SetGraph(s, r.g)
          /\ \/ r.ok /\ Enter(s, Begin("stop"))
             \/ ~r.ok /\ call[s] = Idle /\ UNCHANGED call
    BY <1>7 DEF session_stop
  <2>2. /\ sess[s].state = "STARTED" /\ call[s] = Idle
        /\ dev' = dev /\ pool' = pool /\ aif' = aif
    BY <1>7, <2>1 DEF session_stop, Enter
  <2>3. HasHandle(s)
    BY <2>2 DEF HasHandle
  <2>4. r.g \in GraphState
    BY <1>2, <2>1, <2>3, LiveGraph DEF NoGraphCall
  <2>5. sess'[s] = [sess[s] EXCEPT !.graph = r.g]
    BY <2>1, FitsOf DEF TypeOK, SetGraph
  <2>6. /\ sess'[s].graph \in GraphState /\ sess'[s].state = "STARTED"
        /\ sess'[s].loopback = None /\ sess'[s].ec_ref = None
    BY <1>2, <2>2, <2>3, <2>4, <2>5, FitsOf DEF Session
  <2>7. OnlySession(s) /\ (call'[s] = Idle \/ call'[s] = Begin("stop"))
    BY <2>1, <2>2, FitsOf DEF TypeOK, OnlySession, SetGraph, Enter
  <2>8. /\ call'[s] = Idle \/ call'[s].op = "stop"
        /\ call'[s].step \in FrameSteps[call'[s].op] /\ call'[s].step # "graph"
    BY <2>7, OpSteps DEF Idle, Begin
  <2>9. LegFits(aif[s], pool[s], call'[s])
    BY <2>8, NoLegFits
  <2> QED
    BY <2>2, <2>6, <2>7, <2>8, <2>9, OpenStep
<1>8. CASE session_close(s)
  <2>1. /\ sess[s].state # "CLOSED" /\ call' = [call EXCEPT ![s] = Begin("close")]
        /\ SetGraph(s, "NULL") /\ dev' = dev /\ pool' = pool /\ aif' = aif
    BY <1>8 DEF session_close, Enter
  <2>2. /\ call'[s] = Begin("close") /\ OnlySession(s)
        /\ sess'[s] = [sess[s] EXCEPT !.graph = "NULL"]
    BY <2>1, FitsOf DEF TypeOK, OnlySession, SetGraph
  <2>3. call'[s].op = "close" /\ call'[s].step = "close"
    BY <2>2 DEF Begin
  <2>4. /\ sess'[s].state = sess[s].state /\ sess'[s].graph = "NULL"
        /\ sess'[s].loopback = sess[s].loopback /\ sess'[s].ec_ref = sess[s].ec_ref
    BY <2>2, FitsOf DEF Session
  <2>5. FrameFits(sess'[s], call'[s])
    BY <2>1, <2>3, <2>4, FitsOf, OpSteps DEF FrameFits, None
  <2>6. LegsFit(sess'[s], aif[s], pool[s], call'[s])
    BY <2>1, <2>3, <2>4, FitsOf DEF LegsFit
  <2>7. LegFits(aif[s], pool[s], call'[s])
    BY <2>3, NoLegFits
  <2> QED
    BY <2>1, <2>2, <2>3, <2>5, <2>6, <2>7, FrameStep
<1> QED
  BY <1>3, <1>4, <1>5, <1>6, <1>7, <1>8, ConnectHeld, DisconnectHeld DEF Request

-----------------------------------------------------------------------------
(* The steps of the handlers keep HeldInv.                                 *)

(* What holds of a session in the middle of a call on it that is no open.  *)
LEMMA Underway ==
  ASSUME HeldInv, NEW s \in Sessions, call[s].op \notin {None, "open"}
  PROVE  /\ sess[s].state # "CLOSED"
         /\ sess[s].loopback = None /\ sess[s].ec_ref = None
         /\ call[s].op # "close" => sess[s].graph \in GraphState
         /\ call[s].op = "close" => sess[s].graph = "NULL"
BY FitsOf DEF FrameFits

(* One round of a loop over the legs: the handler calls device a and moves *)
(* the leg on it, which had the device open.                               *)
LEMMA LegStep ==
  ASSUME HeldInv, TypeOK', NEW s \in Sessions, NEW a \in Devices, aif[s][a] \in Connected,
         NEW d \in Device, SetDevice(a, d), Consistent(d),
         NEW st \in Connected \cup {"CLOSED"}, SetLeg(s, a, st),
         sess' = sess, pool' = pool, call' = call,
         d.open = IF st = "CLOSED" THEN dev[a].open - 1 ELSE dev[a].open,
         (dev[a].prepared => d.prepared) \/ d.open = 0,
         st \in Past => aif[s][a] \in Past \/ d.prepared,
         call[s].op \notin {None, "open"}, call[s].step # "graph",
         call[s].op \in {"connect_prepare", "connect_start"} => st \in {"PREPARED", "STARTED"}
  PROVE  HeldInv'
<1>1. aif'[s][a] = st /\ \A b \in Devices \ {a} : aif'[s][b] = aif[s][b]
  BY FitsOf DEF SetLeg, TypeOK
<1>2. OnlySession(s)
  BY FitsOf DEF OnlySession, SetLeg, TypeOK
<1>3. dev'[a] = d /\ \A b \in Devices \ {a} : dev'[b] = dev[b]
  BY FitsOf DEF SetDevice
<1>4. SessionFits(s)'
  <2>1. FrameFits(sess'[s], call'[s])
    BY FitsOf
  <2>2. LegsFit(sess'[s], aif'[s], pool'[s], call'[s])
    BY <1>1, Underway, FitsOf DEF LegsFit, Connected
  <2>3. LegFits(aif'[s], pool'[s], call'[s])
    BY <1>1, FitsOf DEF LegFits, Connected
  <2> QED
    BY <2>1, <2>2, <2>3 DEF SessionFits
<1>5. DeviceHeld'
  <2>1. CASE st = "CLOSED"
    <3>1. aif'[s][a] \notin Connected /\ d.open = dev[a].open - 1
      BY <1>1, <2>1 DEF Connected
    <3>2. TypeOK /\ DeviceHeld
      BY DEF HeldInv
    <3> QED
      BY <1>1, <1>2, <1>3, <3>1, <3>2, HeldLessLeg
  <2>2. CASE st # "CLOSED"
    <3>1. \A b \in Devices : aif'[s][b] \in Connected => aif[s][b] \in Connected
      BY <1>1
    <3>2. \A b \in Devices : dev'[b].open = dev[b].open
      BY <1>3, <2>2
    <3>3. TypeOK /\ DeviceHeld
      BY DEF HeldInv
    <3> QED
      BY <1>2, <3>1, <3>2, <3>3, HeldKeep
  <2> QED
    BY <2>1, <2>2
<1>6. \A b \in Devices : aif'[s][b] \in Past => aif[s][b] \in Past \/ (b = a /\ d.prepared)
  BY <1>1
<1> QED
  BY <1>2, <1>4, <1>5, <1>6, DeviceStep

(* The steps of an open, and session_connect_aif.                          *)
LEMMA OpenStepsHeld ==
  ASSUME Failing \subseteq Recoverable, HeldInv, TypeOK', NEW s \in Sessions,
         \/ OpenNextDevice(s) \/ session_connect_aif(s) \/ UnwindOpen(s)
         \/ UnwindOpenDone(s) \/ FinishOpen(s)
  PROVE  HeldInv'
<1>0. /\ TypeOK /\ DeviceHeld /\ call[s] \in Frame
      /\ call[s].step \notin {"unwind_open", "finish_open"}
  BY StepOps, FitsOf DEF HeldInv
<1>1. CASE OpenNextDevice(s)
  <2>1. PICK a \in Devices : \E r \in device_open(dev[a]) :
          /\ NextLeg(s, {"OPEN"}, a) /\ SetDevice(a, r.d)
          /\ IF r.ok THEN call' = [call EXCEPT ![s].step = "graph", ![s].leg = a]
                     ELSE ConnectFailed(s)
    BY <1>1 DEF OpenNextDevice
  <2>2. PICK r \in device_open(dev[a]) :
          /\ NextLeg(s, {"OPEN"}, a) /\ SetDevice(a, r.d)
          /\ IF r.ok THEN call' = [call EXCEPT ![s].step = "graph", ![s].leg = a]
                     ELSE ConnectFailed(s)
    BY <2>1
  <2>3. /\ sess' = sess /\ pool' = pool /\ aif' = aif /\ call[s].step = "open"
    BY <1>1 DEF OpenNextDevice
  <2>4. call[s].op = "open"
    BY <2>3, StepOps, FitsOf
  <2>5. aif[s][a] = "OPEN" /\ \E k \in DOMAIN pool[s] : pool[s][k] = a
    BY <2>2 DEF NextLeg
  <2>6. /\ r.d \in Device /\ r.ok /\ r.d.open = dev[a].open + 1
        /\ r.d.prepared = dev[a].prepared
    <3>1. "pcm_open" \notin Failing
      BY DEF Recoverable
    <3> QED
      BY <2>2, <3>1, DeviceOpen, FitsOf
  <2>7. Consistent(r.d)
    BY <2>2, ConsistentDevice, FitsOf DEF HeldInv, DeviceConsistent
  <2>8. call'[s] = [call[s] EXCEPT !.step = "graph", !.leg = a] /\ OnlySession(s)
    BY <2>2, <2>3, <2>6, FitsOf DEF TypeOK, OnlySession
  <2>9. /\ call'[s].op = "open" /\ call'[s].step = "graph" /\ call'[s].leg = a
        /\ call'[s].count = call[s].count
    BY <1>0, <2>4, <2>8 DEF Frame
  <2>10. SessionFits(s)'
    <3>1. FrameFits(sess'[s], call'[s])
      BY <2>3, <2>4, <2>9, FitsOf, OpSteps DEF FrameFits, None
    <3>2. LegsFit(sess'[s], aif'[s], pool'[s], call'[s])
      BY <2>3, <2>9, FitsOf DEF LegsFit
    <3>3. LegFits(aif'[s], pool'[s], call'[s])
      BY <2>3, <2>5, <2>9 DEF LegFits
    <3> QED
      BY <3>1, <3>2, <3>3 DEF SessionFits
  <2>11. dev'[a] = r.d /\ \A b \in Devices \ {a} : dev'[b] = dev[b]
    BY <2>2, FitsOf DEF SetDevice
  <2>12. DeviceHeld'
    <3>1. /\ OnlySession(s) /\ aif'[s] = aif[s] /\ call[s].step # "graph"
          /\ call'[s].step = "graph" /\ call'[s].leg = a
          /\ dev'[a].open = dev[a].open + 1
          /\ \A b \in Devices \ {a} : dev'[b].open = dev[b].open
      BY <2>3, <2>6, <2>8, <2>9, <2>11
    <3> QED
      BY <1>0, <3>1, HeldMore
  <2> QED
    BY <2>2, <2>3, <2>6, <2>7, <2>8, <2>10, <2>12, DeviceStep
<1>2. CASE session_connect_aif(s)
  <2> DEFINE a == call[s].leg
  <2>1. PICK r \in connect_graph(s, call[s].count) :
       /\ SetGraph(s, r.g)
       /\ \/ /\ r.ok
             /\ SetLeg(s, a, "OPENED")
             /\ IF call[s].op = "connect"
                  THEN Return(s)
                  ELSE call' = [call EXCEPT ![s].count = @ + 1,
                                            ![s].step = IF call[s].op = "open" THEN "open"
                                                                               ELSE "prepare"]
             /\ UNCHANGED dev
          \/ /\ ~r.ok
             /\ \E c \in device_close(dev[a]) : SetDevice(a, c.d)
             /\ ConnectFailed(s)
             /\ UNCHANGED aif
    BY <1>2, Zenon DEF session_connect_aif
  <2>2. call[s].step = "graph" /\ pool' = pool
    BY <1>2 DEF session_connect_aif
  <2>3. /\ call[s].op \in {"open", "connect", "connect_prepare", "connect_start"}
        /\ a \in Devices /\ \E k \in DOMAIN pool[s] : pool[s][k] = a
        /\ aif[s][a] \notin {"STOPPED", "PREPARED", "STARTED"}
        /\ call[s].count \in Nat
    BY <1>0, <2>2, StepOps, FitsOf DEF LegFits, Frame
  <2>4. /\ r.ok => r.g \in GraphState
        /\ ~r.ok => call[s].count = 0 /\ r.g = sess[s].graph
    <3>1. call[s].count > 0 \/ sess[s].state # "CLOSED" => sess[s].graph \in GraphState
      BY <2>3, FitsOf DEF FrameFits, None
    <3> QED
      BY <1>0, <2>1, <2>3, <3>1, ConnectGraphLive
  <2>5. /\ sess'[s] = [sess[s] EXCEPT !.graph = r.g]
        /\ \A t \in Sessions \ {s} : sess'[t] = sess[t]
    BY <2>1, FitsOf DEF TypeOK, SetGraph
  <2>6. /\ sess'[s].graph = r.g /\ sess'[s].state = sess[s].state
        /\ sess'[s].loopback = sess[s].loopback /\ sess'[s].ec_ref = sess[s].ec_ref
    BY <2>5, FitsOf DEF Session
  <2> HIDE DEF a
  <2>7. CASE r.ok
    <3>1. /\ SetLeg(s, a, "OPENED") /\ dev' = dev
          /\ IF call[s].op = "connect"
               THEN Return(s)
               ELSE call' = [call EXCEPT ![s].count = @ + 1,
                                         ![s].step = IF call[s].op = "open" THEN "open"
                                                                            ELSE "prepare"]
      BY <2>1, <2>7
    <3>2. aif'[s][a] = "OPENED" /\ \A b \in Devices \ {a} : aif'[s][b] = aif[s][b]
      BY <2>3, <3>1, FitsOf DEF SetLeg, TypeOK
    <3>3. OnlySession(s)
      BY <2>2, <2>3, <2>5, <3>1, FitsOf DEF OnlySession, SetLeg, Return, TypeOK
    <3>4. SessionFits(s)' /\ call'[s].step # "graph" => HeldInv'
      <4>1. \A b \in Devices \ {a} : aif'[s][b] \in Connected => aif[s][b] \in Connected
        BY <3>2
      <4>2. SUFFICES ASSUME SessionFits(s)', call'[s].step # "graph"
                     PROVE  HeldInv'
        OBVIOUS
      <4>3. DeviceHeld'
        BY <1>0, <2>2, <2>3, <3>1, <3>3, <4>1, <4>2, HeldSwap DEF a
      <4>4. \A t \in Sessions : SessionFits(t)'
        BY <3>3, <4>2, OthersFit DEF HeldInv
      <4>5. DeviceConsistent'
        BY <3>1 DEF HeldInv, DeviceConsistent
      <4>6. \A b \in Devices : aif'[s][b] \in Past => aif[s][b] \in Past
        BY <3>2 DEF Past
      <4>7. LegsPrepared'
        BY <1>0, <3>1, <3>3, <4>3, <4>6, PreparedStep DEF HeldInv, Past
      <4> QED
        BY <4>3, <4>4, <4>5, <4>7 DEF HeldInv
    <3>5. CASE call[s].op = "connect"
      <4>1. call'[s] = Idle /\ call'[s].step # "graph"
        BY <3>1, <3>5, FitsOf DEF Return, TypeOK, Idle
      <4>2. FrameFits(sess'[s], call'[s])
        BY <2>4, <2>6, <2>7, <3>5, <4>1, FitsOf, OpSteps DEF FrameFits, Idle, None
      <4>3. LegsFit(sess'[s], aif'[s], pool'[s], call'[s])
        BY <2>2, <2>3, <2>6, <3>2, <3>5, <4>1, FitsOf DEF LegsFit, FrameFits, Idle, None
      <4>4. LegFits(aif'[s], pool'[s], call'[s])
        BY <4>1 DEF LegFits, Idle, None
      <4>5. SessionFits(s)'
        BY <4>2, <4>3, <4>4 DEF SessionFits
      <4> QED
        BY <3>4, <4>1, <4>5
    <3>6. CASE call[s].op # "connect"
      <4> DEFINE st == IF call[s].op = "open" THEN "open" ELSE "prepare"
                 e == [call[s] EXCEPT !.count = @ + 1]
      <4>1. call'[s] = [e EXCEPT !.step = st]
        BY <3>1, <3>6, FitsOf DEF TypeOK
      <4>2. e \in [op: Ops, step: Steps, leg: Devices \cup {None}, count: Int]
        <5>1. \A n \in Int : [call[s] EXCEPT !.count = n] \in
                               [op: Ops, step: Steps, leg: Devices \cup {None}, count: Int]
          BY <1>0 DEF Frame
        <5> QED
          BY <2>3, <5>1
      <4>3. e.op = call[s].op /\ e.leg = a /\ e.count = call[s].count + 1
        BY <1>0, <2>3 DEF Frame, a
      <4> HIDE DEF e
      <4>4. /\ call'[s].op = call[s].op /\ call'[s].leg = a
            /\ call'[s].count = call[s].count + 1 /\ call'[s].step = st
        BY <4>1, <4>2, <4>3
      <4>5. FrameFits(sess'[s], call'[s])
        BY <2>3, <2>4, <2>6, <2>7, <3>6, <4>4, FitsOf, OpSteps DEF FrameFits, None
      <4>6. LegsFit(sess'[s], aif'[s], pool'[s], call'[s])
        BY <2>2, <2>3, <2>6, <3>2, <3>6, <4>4, FitsOf DEF LegsFit, FrameFits, None
      <4>7. LegFits(aif'[s], pool'[s], call'[s])
        BY <2>3, <3>2, <3>6, <4>4 DEF LegFits, Connected
      <4>8. SessionFits(s)' /\ call'[s].step # "graph"
        BY <4>4, <4>5, <4>6, <4>7 DEF SessionFits
      <4> QED
        BY <3>4, <4>8
    <3> QED
      BY <3>5, <3>6
  <2>8. CASE ~r.ok
    <3>1. PICK c \in device_close(dev[a]) : SetDevice(a, c.d)
      BY <2>1, <2>8
    <3>2. aif' = aif /\ call' = [call EXCEPT ![s] = Idle]
      BY <2>1, <2>3, <2>4, <2>8 DEF ConnectFailed, Return
    <3>3. call'[s] = Idle /\ call'[s].step # "graph" /\ OnlySession(s)
      BY <2>2, <2>5, <3>2, FitsOf DEF OnlySession, TypeOK, Idle
    <3>4. dev[a].open >= 1 /\ dev[a] \in Device /\ Consistent(dev[a])
      BY <1>0, <2>2, <2>3, HeldIsOpen, FitsOf DEF HeldInv, DeviceConsistent, a
    <3>5. /\ c.d \in Device /\ c.d.open = dev[a].open - 1 /\ Consistent(c.d)
          /\ c.d.prepared = dev[a].prepared \/ c.d.open = 0
      BY <3>1, <3>4, DeviceClose, ConsistentDevice DEF Device
    <3>6. dev'[a] = c.d /\ \A b \in Devices \ {a} : dev'[b] = dev[b]
      BY <2>3, <3>1, FitsOf DEF SetDevice
    <3>7. SessionFits(s)'
      <4>1. FrameFits(sess'[s], call'[s])
        BY <2>3, <2>4, <2>6, <2>8, <3>3, FitsOf, OpSteps DEF FrameFits, Idle, None
      <4>2. LegsFit(sess'[s], aif'[s], pool'[s], call'[s])
        BY <2>2, <2>4, <2>6, <2>8, <3>2, <3>3, FitsOf DEF LegsFit, Idle, None
      <4>3. LegFits(aif'[s], pool'[s], call'[s])
        BY <3>3 DEF LegFits, Idle, None
      <4> QED
        BY <4>1, <4>2, <4>3 DEF SessionFits
    <3>8. DeviceHeld'
      BY <1>0, <2>2, <2>3, <3>2, <3>3, <3>5, <3>6, HeldLessConnect DEF a
    <3> QED
      BY <2>3, <3>1, <3>2, <3>3, <3>5, <3>7, <3>8, DeviceStep
  <2> QED
    BY <2>7, <2>8
<1>3. CASE FinishOpen(s)
  <2>1. call[s].step = "open" /\ NoLeg(s, {"OPEN"}) /\ call' = [call EXCEPT ![s] = Idle]
        /\ dev' = dev /\ pool' = pool /\ aif' = aif
    BY <1>0, <1>3 DEF FinishOpen, Return
  <2>2. call[s].op = "open" /\ call[s].count \in Nat
    BY <1>0, <2>1, StepOps, FitsOf DEF Frame
  <2>3. call[s].count > 0
    BY <2>1, <2>2, FitsOf DEF LegsFit, NoLeg
  <2>4. /\ sess[s].graph \in GraphState /\ sess[s].state = "CLOSED"
        /\ sess[s].loopback = None /\ sess[s].ec_ref = None
    BY <2>2, <2>3, FitsOf DEF FrameFits
  <2>5. sess' = [sess EXCEPT ![s].state = "OPENED"]
    BY <1>3, <2>4 DEF FinishOpen, NoGraphCall
  <2>6. /\ sess'[s] = [sess[s] EXCEPT !.state = "OPENED"] /\ OnlySession(s)
        /\ call'[s] = Idle /\ call'[s].step # "graph"
    BY <2>1, <2>5, FitsOf DEF TypeOK, OnlySession, Idle
  <2>7. /\ sess'[s].state = "OPENED" /\ sess'[s].graph = sess[s].graph
        /\ sess'[s].loopback = None /\ sess'[s].ec_ref = None
    BY <2>4, <2>6, FitsOf DEF Session
  <2>8. FrameFits(sess'[s], call'[s])
    BY <2>4, <2>6, <2>7, OpSteps DEF FrameFits, Idle, None
  <2>9. LegsFit(sess'[s], aif[s], pool[s], call'[s])
    <3>1. \A a \in Devices : aif[s][a] # "OPEN"
      BY <2>1, LoopSees, FitsOf
    <3> QED
      BY <2>6, <2>7, <3>1, FitsOf DEF LegsFit, Idle, None
  <2>10. LegFits(aif[s], pool[s], call'[s])
    BY <2>6, NoLegFits
  <2> QED
    BY <2>1, <2>6, <2>8, <2>9, <2>10, FrameStep
<1> QED
  BY <1>0, <1>1, <1>2, <1>3 DEF UnwindOpen, UnwindOpenDone

(* The steps of a prepare.                                                 *)
LEMMA PrepareStepsHeld ==
  ASSUME Failing \subseteq Recoverable, HeldInv, TypeOK', NEW s \in Sessions,
         PrepareConnected(s) \/ PrepareDevice(s) \/ PrepareDone(s)
  PROVE  HeldInv'
<1>0. TypeOK /\ DeviceHeld /\ call[s] \in Frame
  BY FitsOf DEF HeldInv
<1>1. CASE PrepareConnected(s)
  <2>1. call[s].step = "prepare" /\ session_prepare(s, call[s])
    BY <1>1 DEF PrepareConnected
  <2>2. call[s].op \in {"connect_prepare", "connect_start"}
    BY <2>1, StepOps, FitsOf
  <2>3. call[s].leg \in Devices /\ aif[s][call[s].leg] \in Connected
    BY <2>1, <2>2, FitsOf DEF LegFits
  <2>4. sess[s].state # "CLOSED"
    BY <2>2, Underway DEF None
  <2> QED
    BY <1>0, <2>1, <2>2, <2>3, <2>4, PrepareHeld
<1>2. CASE PrepareDevice(s)
  <2>1. PICK a \in Devices : \E r \in device_prepare(dev[a]) :
          /\ NextLeg(s, {"OPENED", "STOPPED"}, a) /\ SetDevice(a, r.d)
          /\ IF r.ok THEN SetLeg(s, a, "PREPARED") /\ UNCHANGED call
                     ELSE Failed(s, call[s]) /\ UNCHANGED aif
    BY <1>2 DEF PrepareDevice
  <2>2. PICK r \in device_prepare(dev[a]) :
          /\ NextLeg(s, {"OPENED", "STOPPED"}, a) /\ SetDevice(a, r.d)
          /\ IF r.ok THEN SetLeg(s, a, "PREPARED") /\ UNCHANGED call
                     ELSE Failed(s, call[s]) /\ UNCHANGED aif
    BY <2>1
  <2>3. aif[s][a] \in Connected
    BY <2>2 DEF NextLeg, Connected
  <2>4. dev[a].open >= 1 /\ dev[a] \in Device /\ Consistent(dev[a])
    BY <1>0, <2>3, HeldIsOpen, FitsOf DEF HeldInv, DeviceConsistent
  <2>5. Consistent(r.d)
    BY <2>2, <2>4, ConsistentDevice DEF Device
  <2>6. "pcm_prepare" \notin Failing
    BY DEF Recoverable
  <2>7. r.d \in Device /\ r.ok /\ r.d.open = dev[a].open /\ r.d.prepared
    BY <2>2, <2>4, <2>6, DevicePrepare
  <2>8. SetLeg(s, a, "PREPARED") /\ call' = call /\ sess' = sess /\ pool' = pool
        /\ call[s].step = "device_prepare"
    BY <1>2, <2>2, <2>7 DEF PrepareDevice
  <2>9. call[s].op \in {"prepare", "connect_prepare", "connect_start"}
    BY <2>8, StepOps, FitsOf
  <2> QED
    BY <2>2, <2>3, <2>5, <2>7, <2>8, <2>9, LegStep DEF None, Connected
<1>3. CASE PrepareDone(s)
  <2>1. PICK r \in IF PreparesGraph(s, "RX") THEN graph_prepare(sess[s].graph)
                                             ELSE NoGraphCall(s) :
          /\ sess' = [sess EXCEPT ![s].graph = r.g, ![s].state = IF r.ok THEN "PREPARED" ELSE @]
          /\ IF ~r.ok THEN Failed(s, call[s])
             ELSE IF call[s].op = "connect_start" THEN Goto(s, "start") ELSE Return(s)
    BY <1>3 DEF PrepareDone
  <2>2. /\ call[s].step = "device_prepare" /\ NoLeg(s, {"OPENED", "STOPPED"})
        /\ dev' = dev /\ pool' = pool /\ aif' = aif
    BY <1>3 DEF PrepareDone
  <2>3. call[s].op \in {"prepare", "connect_prepare", "connect_start"}
    BY <2>2, StepOps, FitsOf
  <2>4. /\ sess[s].state # "CLOSED" /\ sess[s].graph \in GraphState
        /\ sess[s].loopback = None /\ sess[s].ec_ref = None
    BY <2>3, Underway DEF None
  <2>5. r.ok /\ r.g \in GraphState
    BY <2>1, <2>4, LiveGraph DEF NoGraphCall
  <2>6. /\ sess'[s] = [sess[s] EXCEPT !.graph = r.g, !.state = "PREPARED"]
        /\ \A t \in Sessions \ {s} : sess'[t] = sess[t]
    BY <2>1, <2>5, FitsOf DEF TypeOK
  <2>7. /\ sess'[s].graph \in GraphState /\ sess'[s].state # "CLOSED"
        /\ sess'[s].loopback = None /\ sess'[s].ec_ref = None
    BY <2>4, <2>5, <2>6, FitsOf DEF Session
  <2>8. \A a \in Devices : aif[s][a] \notin {"OPENED", "STOPPED"}
    BY <2>2, LoopSees, FitsOf
  <2>9. CASE call[s].op = "connect_start"
    <3>1. call'[s] = [call[s] EXCEPT !.step = "start"] /\ OnlySession(s)
      BY <2>1, <2>2, <2>5, <2>6, <2>9, FitsOf DEF Goto, TypeOK, OnlySession
    <3>2. call'[s].op = "connect_start" /\ call'[s].step = "start" /\ call'[s].leg = call[s].leg
      BY <1>0, <2>9, <3>1 DEF Frame
    <3>3. LegFits(aif[s], pool[s], call'[s])
      BY <2>2, <2>8, <2>9, <3>2, FitsOf DEF LegFits
    <3>4. call'[s].step \in FrameSteps[call'[s].op]
      BY <3>2, OpSteps
    <3> QED
      BY <2>2, <2>4, <2>7, <3>1, <3>2, <3>3, <3>4, OpenStep
  <2>10. CASE call[s].op # "connect_start"
    <3>1. call'[s] = Idle /\ OnlySession(s)
      BY <2>1, <2>2, <2>5, <2>6, <2>10, FitsOf DEF Return, TypeOK, OnlySession
    <3>2. call'[s].step \in FrameSteps[call'[s].op] /\ call'[s].step # "graph"
      BY <3>1, OpSteps DEF Idle
    <3>3. LegFits(aif[s], pool[s], call'[s])
      BY <3>1, <3>2, NoLegFits
    <3> QED
      BY <2>2, <2>4, <2>7, <3>1, <3>2, <3>3, OpenStep
  <2> QED
    BY <2>9, <2>10
<1> QED
  BY <1>1, <1>2, <1>3

(* The steps of a start, with its unwinding.                               *)
LEMMA StartStepsHeld ==
  ASSUME Failing \subseteq Recoverable, HeldInv, TypeOK', NEW s \in Sessions,
         \/ StartConnected(s) \/ CheckEcRef(s) \/ StartCaptureGraph(s)
         \/ StartDevice(s) \/ StartDone(s) \/ UnwindStart(s) \/ UnwindStartDone(s)
         \/ UnwindConnect(s)
  PROVE  HeldInv'
<1>0. TypeOK /\ DeviceHeld /\ call[s] \in Frame /\ call[s].step # "unwind_connect"
  BY StepOps, FitsOf DEF HeldInv
<1>1. CASE StartConnected(s)
  <2>1. call[s].step = "start" /\ session_start(s, call[s])
    BY <1>1 DEF StartConnected
  <2>2. call[s].op = "connect_start"
    BY <2>1, StepOps, FitsOf
  <2>3. /\ call[s].leg \in Devices /\ aif[s][call[s].leg] \in Connected
        /\ \A a \in Devices : aif[s][a] \notin {"OPENED", "STOPPED"}
    BY <2>1, <2>2, FitsOf DEF LegFits
  <2>4. sess[s].state # "CLOSED"
    BY <2>2, Underway DEF None
  <2> QED
    BY <1>0, <2>1, <2>2, <2>3, <2>4, StartHeld
<1>2. ASSUME call[s].step \in {"ec_ref", "graph_start", "device_start"}
      PROVE  /\ call[s].op \in {"start", "connect_start"}
             /\ sess[s].state # "CLOSED" /\ sess[s].graph \in GraphState
             /\ sess[s].loopback = None /\ sess[s].ec_ref = None
  <2>1. call[s].op \in {"start", "connect_start"}
    BY <1>0, <1>2, StepOps, FitsOf
  <2> QED
    BY <2>1, Underway DEF None
<1>3. ASSUME call[s].step \in {"ec_ref", "graph_start"},
             NEW st \in {"graph_start", "device_start"}, Goto(s, st)
      PROVE  /\ \A t \in Sessions \ {s} : call'[t] = call[t]
             /\ call'[s].op = call[s].op /\ call'[s].step = st
             /\ call'[s].step \in FrameSteps[call'[s].op]
             /\ LegFits(aif[s], pool[s], call'[s])
  <2>1. /\ call'[s] = [call[s] EXCEPT !.step = st]
        /\ \A t \in Sessions \ {s} : call'[t] = call[t]
    BY <1>3, FitsOf DEF Goto, TypeOK
  <2>2. call'[s].op = call[s].op /\ call'[s].step = st /\ call'[s].leg = call[s].leg
    BY <1>0, <2>1 DEF Frame
  <2>3. call'[s].step \in FrameSteps[call'[s].op]
    BY <1>2, <1>3, <2>2, OpSteps
  <2>4. LegFits(aif[s], pool[s], call'[s])
    BY <1>2, <1>3, <2>2, FitsOf DEF LegFits
  <2> QED
    BY <2>1, <2>2, <2>3, <2>4
<1>4. CASE CheckEcRef(s)
  <2>1. call[s].step = "ec_ref"
    BY <1>4 DEF CheckEcRef
  <2>2. /\ Goto(s, "graph_start") /\ dev' = dev /\ sess' = sess /\ pool' = pool /\ aif' = aif
    BY <1>2, <1>4, <2>1 DEF CheckEcRef
  <2>3. OnlySession(s)
    BY <1>3, <2>1, <2>2 DEF OnlySession
  <2> QED
    BY <1>2, <1>3, <2>1, <2>2, <2>3, OpenStep
<1>5. CASE StartCaptureGraph(s)
  <2>1. PICK r \in graph_start(sess[s].graph) :
          SetGraph(s, r.g) /\ IF r.ok THEN Goto(s, "device_start") ELSE Failed(s, call[s])
    BY <1>5 DEF StartCaptureGraph
  <2>2. call[s].step = "graph_start" /\ dev' = dev /\ pool' = pool /\ aif' = aif
    BY <1>5 DEF StartCaptureGraph
  <2>3. r.ok /\ r.g \in GraphState
    BY <1>2, <2>1, <2>2, LiveGraph
  <2>4. /\ sess'[s] = [sess[s] EXCEPT !.graph = r.g]
        /\ \A t \in Sessions \ {s} : sess'[t] = sess[t]
    BY <2>1, FitsOf DEF TypeOK, SetGraph
  <2>5. /\ sess'[s].graph \in GraphState /\ sess'[s].state # "CLOSED"
        /\ sess'[s].loopback = None /\ sess'[s].ec_ref = None
    BY <1>2, <2>2, <2>3, <2>4, FitsOf DEF Session
  <2>6. Goto(s, "device_start")
    BY <2>1, <2>3
  <2>7. OnlySession(s)
    BY <1>3, <2>2, <2>4, <2>6 DEF OnlySession
  <2> QED
    BY <1>2, <1>3, <2>2, <2>5, <2>6, <2>7, OpenStep
<1>6. CASE StartDevice(s)
  <2>1. PICK a \in Devices : \E r \in device_start(dev[a]) :
          /\ NextLeg(s, {"OPENED", "PREPARED", "STOPPED"}, a) /\ SetDevice(a, r.d)
          /\ \/ r.ok /\ SetLeg(s, a, "STARTED") /\ UNCHANGED <<sess, call>>
             \/ /\ ~r.ok /\ Goto(s, "unwind_start")
                /\ \E g \in UnwindGraph(s) : SetGraph(s, g.g)
                /\ UNCHANGED aif
    BY <1>6 DEF StartDevice
  <2>2. PICK r \in device_start(dev[a]) :
          /\ NextLeg(s, {"OPENED", "PREPARED", "STOPPED"}, a) /\ SetDevice(a, r.d)
          /\ \/ r.ok /\ SetLeg(s, a, "STARTED") /\ UNCHANGED <<sess, call>>
             \/ /\ ~r.ok /\ Goto(s, "unwind_start")
                /\ \E g \in UnwindGraph(s) : SetGraph(s, g.g)
                /\ UNCHANGED aif
    BY <2>1
  <2>3. call[s].step = "device_start" /\ pool' = pool
    BY <1>6 DEF StartDevice
  <2>4. aif[s][a] \in {"OPENED", "PREPARED", "STOPPED"} /\ aif[s][a] \in Connected
    BY <2>2 DEF NextLeg, Connected
  <2>5. dev[a] \in Device /\ Consistent(dev[a])
    BY FitsOf DEF HeldInv, DeviceConsistent
  <2>6. Consistent(r.d)
    BY <2>2, <2>5, ConsistentDevice
  <2>7. /\ r.d \in Device /\ r.d.open = dev[a].open /\ r.d.prepared = dev[a].prepared
        /\ ~r.ok => r.d = dev[a] /\ dev[a].state \in {"CLOSED", "OPENED"}
        /\ r.ok => dev[a].state \notin {"CLOSED", "OPENED"}
    BY <2>2, <2>5, DeviceStart
  <2>8. CASE r.ok
    <3>1. r.d.prepared
      BY <2>5, <2>7, <2>8 DEF Consistent, Device, DevState
    <3>2. SetLeg(s, a, "STARTED") /\ sess' = sess /\ call' = call
      BY <2>2, <2>8
    <3>3. call[s].op \notin {None, "open"} /\ call[s].step # "graph"
      BY <1>2, <2>3 DEF None
    <3>4. "STARTED" \in Connected
      BY DEF Connected
    <3> QED
      BY <2>2, <2>3, <2>4, <2>6, <2>7, <3>1, <3>2, <3>3, <3>4, LegStep
  <2>9. CASE ~r.ok
    <3>1. call[s].op = "start"
      <4>1. ~dev[a].prepared
        BY <2>5, <2>7, <2>9 DEF Consistent
      <4>2. aif[s][a] = "OPENED"
        BY <2>4, <4>1 DEF HeldInv, LegsPrepared
      <4> QED
        BY <1>2, <2>3, <4>2, FitsOf DEF LegFits
    <3>2. PICK g \in UnwindGraph(s) : SetGraph(s, g.g)
      BY <2>2, <2>9
    <3>3. g.g \in GraphState
      BY <1>2, <2>3, <3>2, LiveGraph DEF UnwindGraph, NoGraphCall
    <3>4. aif' = aif /\ dev' = dev /\ Goto(s, "unwind_start")
      BY <2>2, <2>5, <2>7, <2>9, FitsOf DEF SetDevice
    <3>5. /\ sess'[s] = [sess[s] EXCEPT !.graph = g.g]
          /\ call'[s] = [call[s] EXCEPT !.step = "unwind_start"]
          /\ OnlySession(s)
      BY <2>3, <3>2, <3>4, FitsOf DEF TypeOK, SetGraph, Goto, OnlySession
    <3>6. /\ sess'[s].graph \in GraphState /\ sess'[s].state # "CLOSED"
          /\ sess'[s].loopback = None /\ sess'[s].ec_ref = None
      BY <1>2, <2>3, <3>3, <3>5, FitsOf DEF Session
    <3>7. call'[s].op = "start" /\ call'[s].step = "unwind_start"
      BY <1>0, <3>1, <3>5 DEF Frame
    <3>8. call'[s].step \in FrameSteps[call'[s].op] /\ LegFits(aif[s], pool[s], call'[s])
      BY <3>7, OpSteps, NoLegFits
    <3> QED
      BY <1>2, <2>3, <3>4, <3>5, <3>6, <3>7, <3>8, OpenStep
  <2> QED
    BY <2>8, <2>9
<1>7. CASE StartDone(s)
  <2>1. PICK r \in IF sess[s].dir = "RX" THEN graph_start(sess[s].graph) ELSE NoGraphCall(s) :
          /\ sess' = [sess EXCEPT ![s].graph = r.g, ![s].state = IF r.ok THEN "STARTED" ELSE @]
          /\ IF r.ok THEN Return(s) ELSE Goto(s, "unwind_start")
    BY <1>7 DEF StartDone
  <2>2. call[s].step = "device_start" /\ dev' = dev /\ pool' = pool /\ aif' = aif
    BY <1>7 DEF StartDone
  <2>3. r.ok /\ r.g \in GraphState
    BY <1>2, <2>1, <2>2, LiveGraph DEF NoGraphCall
  <2>4. /\ sess'[s] = [sess[s] EXCEPT !.graph = r.g, !.state = "STARTED"]
        /\ call'[s] = Idle /\ OnlySession(s)
    BY <2>1, <2>2, <2>3, FitsOf DEF TypeOK, Return, OnlySession
  <2>5. /\ sess'[s].graph \in GraphState /\ sess'[s].state # "CLOSED"
        /\ sess'[s].loopback = None /\ sess'[s].ec_ref = None
    BY <1>2, <2>2, <2>3, <2>4, FitsOf DEF Session
  <2>6. call'[s].step \in FrameSteps[call'[s].op] /\ call'[s].step # "graph"
    BY <2>4, OpSteps DEF Idle
  <2>7. LegFits(aif[s], pool[s], call'[s])
    BY <2>4, <2>6, NoLegFits
  <2> QED
    BY <1>2, <2>2, <2>4, <2>5, <2>6, <2>7, OpenStep
<1>8. ASSUME call[s].step = "unwind_start"
      PROVE  /\ call[s].op = "start"
             /\ sess[s].state # "CLOSED" /\ sess[s].graph \in GraphState
             /\ sess[s].loopback = None /\ sess[s].ec_ref = None
  <2>1. call[s].op = "start"
    BY <1>0, <1>8, StepOps, FitsOf
  <2> QED
    BY <2>1, Underway DEF None
<1>9. CASE UnwindStart(s)
  <2>1. PICK a \in Devices : /\ NextLeg(s, {"STARTED"}, a) /\ SetLeg(s, a, "OPENED")
                             /\ \E r \in device_stop(dev[a]) : SetDevice(a, r.d)
    BY <1>9 DEF UnwindStart
  <2>2. PICK r \in device_stop(dev[a]) : SetDevice(a, r.d)
    BY <2>1
  <2>3. /\ call[s].step = "unwind_start" /\ sess' = sess /\ pool' = pool /\ call' = call
    BY <1>9 DEF UnwindStart
  <2>4. aif[s][a] \in Connected /\ "OPENED" \in Connected
    BY <2>1 DEF NextLeg, Connected
  <2>5. dev[a] \in Device /\ Consistent(dev[a])
    BY FitsOf DEF HeldInv, DeviceConsistent
  <2>6. Consistent(r.d)
    BY <2>2, <2>5, ConsistentDevice
  <2>7. r.d \in Device /\ r.d.open = dev[a].open /\ r.d.prepared = dev[a].prepared
    BY <2>2, <2>5, DeviceStop
  <2>8. call[s].op = "start" /\ call[s].op \notin {None, "open"} /\ call[s].step # "graph"
    BY <1>8, <2>3 DEF None
  <2> QED
    BY <2>1, <2>2, <2>3, <2>4, <2>6, <2>7, <2>8, LegStep DEF Past
<1>10. CASE UnwindStartDone(s)
  <2>1. /\ call[s].step = "unwind_start" /\ Failed(s, call[s])
        /\ dev' = dev /\ sess' = sess /\ pool' = pool /\ aif' = aif
    BY <1>10 DEF UnwindStartDone
  <2>2. call'[s] = Idle /\ OnlySession(s)
    BY <1>8, <2>1, FitsOf DEF Failed, TypeOK, OnlySession
  <2>3. call'[s].step \in FrameSteps[call'[s].op] /\ call'[s].step # "graph"
    BY <2>2, OpSteps DEF Idle
  <2>4. LegFits(aif[s], pool[s], call'[s])
    BY <2>2, <2>3, NoLegFits
  <2> QED
    BY <1>8, <2>1, <2>2, <2>3, <2>4, OpenStep
<1> QED
  BY <1>0, <1>1, <1>4, <1>5, <1>6, <1>7, <1>9, <1>10 DEF UnwindConnect

(* The steps of a stop and of a close.                                     *)
LEMMA CloseStepsHeld ==
  ASSUME Failing \subseteq Recoverable, HeldInv, TypeOK', NEW s \in Sessions,
         StopDevice(s) \/ StopDone(s) \/ CloseDevice(s) \/ CloseDone(s)
  PROVE  HeldInv'
<1>0. TypeOK /\ DeviceHeld /\ call[s] \in Frame
  BY FitsOf DEF HeldInv
<1>1. CASE StopDevice(s)
  <2>1. PICK a \in Devices : /\ NextLeg(s, {"STARTED"}, a) /\ SetLeg(s, a, "STOPPED")
                             /\ \E r \in device_stop(dev[a]) : SetDevice(a, r.d)
    BY <1>1 DEF StopDevice
  <2>2. PICK r \in device_stop(dev[a]) : SetDevice(a, r.d)
    BY <2>1
  <2>3. /\ call[s].step = "stop" /\ sess' = sess /\ pool' = pool /\ call' = call
    BY <1>1 DEF StopDevice
  <2>4. aif[s][a] \in Connected /\ "STOPPED" \in Connected /\ aif[s][a] \in Past
    BY <2>1 DEF NextLeg, Connected, Past
  <2>5. dev[a] \in Device /\ Consistent(dev[a])
    BY FitsOf DEF HeldInv, DeviceConsistent
  <2>6. Consistent(r.d)
    BY <2>2, <2>5, ConsistentDevice
  <2>7. r.d \in Device /\ r.d.open = dev[a].open /\ r.d.prepared = dev[a].prepared
    BY <2>2, <2>5, DeviceStop
  <2>8. call[s].op = "stop" /\ call[s].op \notin {None, "open"}
    BY <1>0, <2>3, StepOps, FitsOf DEF None
  <2> QED
    BY <2>1, <2>2, <2>3, <2>4, <2>6, <2>7, <2>8, LegStep
<1>2. CASE StopDone(s)
  <2>1. PICK r \in IF sess[s].dir = "TX" THEN graph_stop(sess[s].graph) ELSE NoGraphCall(s) :
          sess' = [sess EXCEPT ![s].graph = r.g, ![s].state = "STOPPED"]
    BY <1>2 DEF StopDone
  <2>2. /\ call[s].step = "stop" /\ Return(s) /\ dev' = dev /\ pool' = pool /\ aif' = aif
    BY <1>2 DEF StopDone
  <2>3. call[s].op = "stop"
    BY <1>0, <2>2, StepOps, FitsOf
  <2>4. /\ sess[s].state # "CLOSED" /\ sess[s].graph \in GraphState
        /\ sess[s].loopback = None /\ sess[s].ec_ref = None
    BY <2>3, Underway DEF None
  <2>5. r.g \in GraphState
    BY <2>1, <2>4, LiveGraph DEF NoGraphCall
  <2>6. /\ sess'[s] = [sess[s] EXCEPT !.graph = r.g, !.state = "STOPPED"]
        /\ call'[s] = Idle /\ OnlySession(s)
    BY <2>1, <2>2, FitsOf DEF TypeOK, Return, OnlySession
  <2>7. /\ sess'[s].graph \in GraphState /\ sess'[s].state # "CLOSED"
        /\ sess'[s].loopback = None /\ sess'[s].ec_ref = None
    BY <2>4, <2>5, <2>6, FitsOf DEF Session
  <2>8. call'[s].step \in FrameSteps[call'[s].op] /\ call'[s].step # "graph"
    BY <2>6, OpSteps DEF Idle
  <2>9. LegFits(aif[s], pool[s], call'[s])
    BY <2>6, <2>8, NoLegFits
  <2> QED
    BY <2>2, <2>4, <2>6, <2>7, <2>8, <2>9, OpenStep
<1>3. CASE CloseDevice(s)
  <2>1. PICK a \in Devices : /\ NextLeg(s, Connected, a) /\ SetLeg(s, a, "CLOSED")
                             /\ \E r \in device_close(dev[a]) : SetDevice(a, r.d)
    BY <1>3 DEF CloseDevice
  <2>2. PICK r \in device_close(dev[a]) : SetDevice(a, r.d)
    BY <2>1
  <2>3. /\ call[s].step = "close" /\ sess' = sess /\ pool' = pool /\ call' = call
    BY <1>3 DEF CloseDevice
  <2>4. aif[s][a] \in Connected
    BY <2>1 DEF NextLeg
  <2>5. dev[a].open >= 1 /\ dev[a] \in Device /\ Consistent(dev[a])
    BY <1>0, <2>4, HeldIsOpen, FitsOf DEF HeldInv, DeviceConsistent
  <2>6. /\ r.d \in Device /\ r.d.open = dev[a].open - 1 /\ Consistent(r.d)
        /\ r.d.prepared = dev[a].prepared \/ r.d.open = 0
    BY <2>2, <2>5, DeviceClose, ConsistentDevice DEF Device
  <2>7. call[s].op = "close" /\ call[s].op \notin {None, "open"}
    BY <1>0, <2>3, StepOps, FitsOf DEF None
  <2> QED
    BY <2>1, <2>2, <2>3, <2>4, <2>6, <2>7, LegStep DEF Past
<1>4. CASE CloseDone(s)
  <2>1. /\ call[s].step = "close" /\ NoLeg(s, Connected) /\ Return(s)
        /\ sess' = [sess EXCEPT ![s].state = "CLOSED"]
        /\ dev' = dev /\ pool' = pool /\ aif' = aif
    BY <1>4 DEF CloseDone
  <2>2. call[s].op = "close"
    BY <1>0, <2>1, StepOps, FitsOf
  <2>3. sess[s].graph = "NULL" /\ sess[s].loopback = None /\ sess[s].ec_ref = None
    BY <2>2, Underway DEF None
  <2>4. /\ sess'[s] = [sess[s] EXCEPT !.state = "CLOSED"]
        /\ call'[s] = Idle /\ call'[s].step # "graph" /\ OnlySession(s)
    BY <2>1, FitsOf DEF TypeOK, Return, OnlySession, Idle
  <2>5. /\ sess'[s].graph = "NULL" /\ sess'[s].state = "CLOSED"
        /\ sess'[s].loopback = None /\ sess'[s].ec_ref = None
    BY <2>3, <2>4, FitsOf DEF Session
  <2>6. \A a \in Devices : aif[s][a] \notin Connected
    <3>1. "CLOSED" \notin Connected
      BY DEF Connected
    <3> QED
      BY <2>1, <3>1, LoopSees, FitsOf
  <2>7. FrameFits(sess'[s], call'[s])
    BY <2>4, <2>5, OpSteps DEF FrameFits, Idle, None
  <2>8. LegsFit(sess'[s], aif[s], pool[s], call'[s])
    BY <2>4, <2>5, <2>6, FitsOf DEF LegsFit, Idle, None
  <2>9. LegFits(aif[s], pool[s], call'[s])
    BY <2>4, NoLegFits
  <2> QED
    BY <2>1, <2>4, <2>7, <2>8, <2>9, FrameStep
<1> QED
  BY <1>1, <1>2, <1>3, <1>4

-----------------------------------------------------------------------------
(* The theorems.                                                           *)

(* HeldInv is inductive: with only the calls of Recoverable failing and no *)
(* routes, every interleaving of the handlers of device.c and              *)
(* session_obj.c keeps sessions, frames and device counts in step.         *)
THEOREM HeldInvariant ==
  ASSUME Failing \subseteq Recoverable, Loopbacks = {}, EcRefs = {}
  PROVE  Spec => []HeldInv
<1>1. Init => HeldInv
  <2> SUFFICES ASSUME Init
               PROVE  HeldInv
    OBVIOUS
  <2>1. TypeOK
    <3>1. device_obj \in Device /\ session_obj \in Session /\ Idle \in Frame
      BY DEF device_obj, Device, DevState, session_obj, Session, SessState, None, Graph, Idle,
             Frame, Ops, Steps
    <3> QED
      BY <3>1 DEF Init, TypeOK, AifState
  <2>2. ASSUME NEW s \in Sessions
        PROVE  SessionFits(s)
    <3>1. /\ sess[s] = session_obj /\ pool[s] = <<>> /\ call[s] = Idle
          /\ \A a \in Devices : aif[s][a] = "CLOSED"
      BY DEF Init
    <3>2. FrameFits(sess[s], call[s])
      BY <3>1, OpSteps DEF FrameFits, session_obj, Idle, None
    <3>3. LegsFit(sess[s], aif[s], pool[s], call[s])
      BY <3>1 DEF LegsFit, session_obj, Idle, None, Connected
    <3>4. LegFits(aif[s], pool[s], call[s])
      BY <3>1 DEF LegFits, Idle, None
    <3> QED
      BY <3>2, <3>3, <3>4 DEF SessionFits
  <2>3. DeviceHeld
    <3>1. ASSUME NEW a \in Devices
          PROVE  Cardinality(Holders(a)) <= dev[a].open
      <4>1. \A s \in Sessions : aif[s][a] \notin Connected /\ call[s].step # "graph"
        BY DEF Init, Idle, Connected
      <4>2. Holders(a) = {}
        BY <4>1 DEF Holders
      <4>3. dev[a].open = 0
        BY DEF Init, device_obj
      <4> QED
        BY <4>2, <4>3, FS_EmptySet
    <3> QED
      BY <3>1 DEF DeviceHeld
  <2>4. DeviceConsistent /\ LegsPrepared
    BY DEF Init, DeviceConsistent, Consistent, device_obj, LegsPrepared
  <2> QED
    BY <2>1, <2>2, <2>3, <2>4 DEF HeldInv
<1>2. HeldInv /\ [Next]_vars => HeldInv'
  <2> SUFFICES ASSUME HeldInv, [Next]_vars
               PROVE  HeldInv'
    OBVIOUS
  <2>1. CASE UNCHANGED vars
    <3>1. dev' = dev /\ sess' = sess /\ pool' = pool /\ aif' = aif /\ call' = call
      BY <2>1 DEF vars
    <3> QED
      BY <3>1 DEF HeldInv, TypeOK, SessionFits, DeviceHeld, Holders, DeviceConsistent, LegsPrepared
  <2>2. CASE Next
    <3>1. PICK s \in Sessions : Request(s) \/ Step(s)
      BY <2>2 DEF Next
    <3>2. TypeOK'
      BY <3>1, RequestType, StepType DEF HeldInv
    <3>3. CASE Request(s)
      BY <3>2, <3>3, RequestHeld
    <3>4. CASE Step(s)
      BY <3>2, <3>4, OpenStepsHeld, PrepareStepsHeld, StartStepsHeld, CloseStepsHeld DEF Step
    <3> QED
      BY <3>1, <3>3, <3>4
  <2> QED
    BY <2>1, <2>2
<1> QED
  BY <1>1, <1>2, PTL DEF Spec

(* No handler takes a device away from a session that holds it: for any    *)
(* number of sessions and devices, device_close reaches the PCM only when  *)
(* no connected leg and no connect in progress is left on it.              *)
THEOREM NoDeviceTaken ==
  ASSUME Failing \subseteq Recoverable, Loopbacks = {}, EcRefs = {}
  PROVE  Spec => []DeviceHeld
<1>1. HeldInv => DeviceHeld
  BY DEF HeldInv
<1> QED
  BY <1>1, HeldInvariant, PTL

(* A client with a handle has a live graph, under the same assumptions: no *)
(* handler passes a null or freed graph on.                                *)
THEOREM GraphLifetime ==
  ASSUME Failing \subseteq Recoverable, Loopbacks = {}, EcRefs = {}
  PROVE  Spec => []OpenSessionHasGraph
<1>1. HeldInv => OpenSessionHasGraph
  <2> SUFFICES ASSUME HeldInv, NEW s \in Sessions, HasHandle(s)
               PROVE  sess[s].graph \in GraphState
    BY DEF OpenSessionHasGraph
  <2> QED
    BY FitsOf DEF FrameFits, HasHandle, Idle, None
<1> QED
  BY <1>1, HeldInvariant, PTL

(* A closed session holds no graph and no device, under the same           *)
(* assumptions: a failed open and every close give back all they took.     *)
THEOREM ClosedGivesBack ==
  ASSUME Failing \subseteq Recoverable, Loopbacks = {}, EcRefs = {}
  PROVE  Spec => []ClosedHoldsNothing
<1>1. HeldInv => ClosedHoldsNothing
  <2> SUFFICES ASSUME HeldInv, NEW s \in Sessions, call[s] = Idle, sess[s].state = "CLOSED"
               PROVE  sess[s].graph = "NULL" /\ \A a \in Devices : aif[s][a] \notin Connected
    BY DEF ClosedHoldsNothing
  <2> QED
    BY FitsOf DEF FrameFits, LegsFit, Idle, None
<1> QED
  BY <1>1, HeldInvariant, PTL

(* The counts and the state of every device tell the same story, under the *)
(* same assumptions.                                                       *)
THEOREM CountsConsistent ==
  ASSUME Failing \subseteq Recoverable, Loopbacks = {}, EcRefs = {}
  PROVE  Spec => []DeviceConsistent
<1>1. HeldInv => DeviceConsistent
  BY DEF HeldInv
<1> QED
  BY <1>1, HeldInvariant, PTL
=============================================================================
