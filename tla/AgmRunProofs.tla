---------------------------- MODULE AgmRunProofs ----------------------------
(***************************************************************************)
(* Proofs about what runs: whatever fails, a session that is not started   *)
(* is quiet; and when only the calls of Recoverable fail and no session is *)
(* routed, a started session has all its legs started and no device is     *)
(* stopped under a started leg.                                            *)
(***************************************************************************)
EXTENDS AgmSessionProofs

-----------------------------------------------------------------------------
(* A handler works on the session whose lock it holds and on no other.     *)
LEMMA OneSession ==
  ASSUME TypeOK, NEW s \in Sessions, Request(s) \/ Step(s)
  PROVE  OnlySession(s)
<1>1. \A f \in Frame : Failed(s, f) => \A t \in Sessions \ {s} : call'[t] = call[t]
  BY DEF Failed, TypeOK
<1>2. /\ \A st : Goto(s, st) => \A t \in Sessions \ {s} : call'[t] = call[t]
      /\ Return(s) => \A t \in Sessions \ {s} : call'[t] = call[t]
      /\ ConnectFailed(s) => \A t \in Sessions \ {s} : call'[t] = call[t]
      /\ \A f : Enter(s, f) => \A t \in Sessions \ {s} : call'[t] = call[t]
  BY DEF Goto, Return, ConnectFailed, Enter, TypeOK
<1>3. /\ \A g : SetGraph(s, g) => \A t \in Sessions \ {s} : sess'[t] = sess[t]
      /\ \A a, st : SetLeg(s, a, st) => \A t \in Sessions \ {s} : aif'[t] = aif[t]
  BY DEF SetGraph, SetLeg, TypeOK
<1>4. call[s] \in Frame /\ Begin("prepare") \in Frame /\ Begin("start") \in Frame
  BY DEF TypeOK, Begin, Frame, Ops, Steps, None
<1>5. \A f \in Frame : session_prepare(s, f) => OnlySession(s)
  BY <1>1, <1>3 DEF session_prepare, OnlySession, TypeOK
<1>6. \A f \in Frame : session_start(s, f) => OnlySession(s)
  BY <1>1, <1>3 DEF session_start, OnlySession, TypeOK
<1>7. CASE Request(s)
  <2>1. ASSUME NEW a \in Devices, session_obj_sess_aif_connect(s, a)
        PROVE  OnlySession(s)
    <3>1. \A t \in Sessions \ {s} : call'[t] = call[t]
      BY <1>2, <2>1 DEF session_obj_sess_aif_connect
    <3> QED
      BY <1>3, <2>1, <3>1 DEF session_obj_sess_aif_connect, OnlySession, TypeOK
  <2>2. ASSUME NEW a \in Devices, session_obj_sess_aif_disconnect(s, a)
        PROVE  OnlySession(s)
    BY <1>3, <2>2 DEF session_obj_sess_aif_disconnect, OnlySession, TypeOK
  <2>3. CASE session_obj_open(s)
    BY <1>2, <2>3 DEF session_obj_open, OnlySession
  <2>4. CASE session_obj_set_config(s)
    BY <2>4 DEF session_obj_set_config, OnlySession, TypeOK
  <2>5. CASE session_obj_prepare(s) \/ session_obj_start(s)
    BY <1>4, <1>5, <1>6, <2>5 DEF session_obj_prepare, session_obj_start
  <2>6. CASE session_stop(s)
    BY <1>2, <1>3, <2>6 DEF session_stop, OnlySession
  <2>7. CASE session_close(s)
    BY <1>2, <1>3, <2>7 DEF session_close, OnlySession
  <2>8. ASSUME NEW p, NEW enable, session_obj_set_loopback(s, p, enable)
        PROVE  OnlySession(s)
    BY <2>8 DEF session_obj_set_loopback, OnlySession, TypeOK
  <2>9. ASSUME NEW a, NEW enable, session_obj_set_ec_ref(s, a, enable)
        PROVE  OnlySession(s)
    BY <2>9 DEF session_obj_set_ec_ref, OnlySession, TypeOK
  <2> QED
    BY <1>7, <2>1, <2>2, <2>3, <2>4, <2>5, <2>6, <2>7, <2>8, <2>9 DEF Request
<1>8. CASE Step(s)
  <2>1. CASE OpenNextDevice(s)
    BY <1>2, <2>1 DEF OpenNextDevice, OnlySession, TypeOK
  <2>2. CASE session_connect_aif(s)
    <3>1. \A t \in Sessions \ {s} : sess'[t] = sess[t] /\ call'[t] = call[t] /\ aif'[t] = aif[t]
      BY <1>2, <1>3, <2>2 DEF session_connect_aif, TypeOK
    <3> QED
      BY <2>2, <3>1 DEF session_connect_aif, OnlySession
  <2>3. CASE UnwindOpen(s) \/ UnwindOpenDone(s)
    BY <1>2, <1>3, <2>3 DEF UnwindOpen, UnwindOpenDone, OnlySession
  <2>4. CASE FinishOpen(s)
    BY <1>2, <2>4 DEF FinishOpen, OnlySession, TypeOK
  <2>5. CASE PrepareConnected(s) \/ StartConnected(s)
    BY <1>4, <1>5, <1>6, <2>5 DEF PrepareConnected, StartConnected
  <2>6. CASE PrepareDevice(s)
    BY <1>1, <1>3, <1>4, <2>6 DEF PrepareDevice, OnlySession
  <2>7. CASE PrepareDone(s)
    BY <1>1, <1>2, <1>4, <2>7 DEF PrepareDone, OnlySession, TypeOK
  <2>8. CASE CheckEcRef(s) \/ StartCaptureGraph(s)
    BY <1>1, <1>2, <1>3, <1>4, <2>8 DEF CheckEcRef, StartCaptureGraph, OnlySession
  <2>9. CASE StartDevice(s)
    BY <1>2, <1>3, <2>9 DEF StartDevice, OnlySession
  <2>10. CASE StartDone(s)
    BY <1>2, <2>10 DEF StartDone, OnlySession, TypeOK
  <2>11. CASE UnwindStart(s) \/ UnwindStartDone(s) \/ UnwindConnect(s)
    BY <1>1, <1>2, <1>3, <1>4, <2>11 DEF UnwindStart, UnwindStartDone, UnwindConnect, OnlySession
  <2>12. CASE StopDevice(s) \/ CloseDevice(s)
    BY <1>3, <2>12 DEF StopDevice, CloseDevice, OnlySession
  <2>13. CASE StopDone(s) \/ CloseDone(s)
    BY <1>2, <2>13 DEF StopDone, CloseDone, OnlySession, TypeOK
  <2> QED
    BY <1>8, <2>1, <2>2, <2>3, <2>4, <2>5, <2>6, <2>7, <2>8, <2>9, <2>10, <2>11, <2>12, <2>13
       DEF Step
<1> QED
  BY <1>7, <1>8

(* How the handlers' assignments change the fields of their session.       *)
LEMMA Effects ==
  ASSUME TypeOK, NEW s \in Sessions
  PROVE  /\ \A g : SetGraph(s, g) => /\ sess'[s].graph = g /\ sess'[s].dir = sess[s].dir
                                    /\ sess'[s].state = sess[s].state
         /\ \A st : Goto(s, st) => /\ call'[s].step = st /\ call'[s].op = call[s].op
                                  /\ call'[s].leg = call[s].leg
         /\ Return(s) => call'[s] = Idle
         /\ ConnectFailed(s) => \/ call'[s] = Idle
                                \/ /\ call'[s].step = "unwind_open" /\ call'[s].op = "open"
                                   /\ call[s].op = "open"
         /\ \A f \in Frame : Failed(s, f) =>
              \/ call'[s] = Idle
              \/ /\ f.op \in {"connect_prepare", "connect_start"}
                 /\ call'[s].op = f.op /\ call'[s].step = "unwind_connect"
         /\ \A a \in Devices : \A st : SetLeg(s, a, st) =>
              aif'[s][a] = st /\ \A b \in Devices \ {a} : aif'[s][b] = aif[s][b]
         /\ \A a, st : a \notin Devices /\ SetLeg(s, a, st) => aif' = aif
<1>1. sess[s] \in Session /\ call[s] \in Frame /\ aif[s] \in [Devices -> AifState]
  BY DEF TypeOK
<1>2. \A g : SetGraph(s, g) => sess'[s] = [sess[s] EXCEPT !.graph = g]
  BY DEF SetGraph, TypeOK
<1>3. ASSUME NEW g, SetGraph(s, g)
      PROVE  /\ sess'[s].graph = g /\ sess'[s].dir = sess[s].dir
             /\ sess'[s].state = sess[s].state
  <2>1. sess'[s] = [sess[s] EXCEPT !.graph = g]
    BY <1>2, <1>3
  <2> QED
    BY <1>1, <2>1 DEF Session
<1>4. \A st : Goto(s, st) => call'[s] = [call[s] EXCEPT !.step = st]
  BY DEF Goto, TypeOK
<1>5. \A st : Goto(s, st) => /\ call'[s].step = st /\ call'[s].op = call[s].op
                            /\ call'[s].leg = call[s].leg
  BY <1>1, <1>4 DEF Frame
<1>6. Return(s) => call'[s] = Idle
  BY DEF Return, TypeOK
<1>7. ConnectFailed(s) => \/ call'[s] = Idle
                          \/ /\ call'[s].step = "unwind_open" /\ call'[s].op = "open"
                             /\ call[s].op = "open"
  BY <1>5, <1>6 DEF ConnectFailed
<1>8. ASSUME NEW f \in Frame, Failed(s, f)
      PROVE  \/ call'[s] = Idle
             \/ /\ f.op \in {"connect_prepare", "connect_start"}
                /\ call'[s].op = f.op /\ call'[s].step = "unwind_connect"
  <2>1. \/ call'[s] = Idle
        \/ /\ f.op \in {"connect_prepare", "connect_start"}
           /\ call'[s] = [f EXCEPT !.step = "unwind_connect"]
    BY <1>8 DEF Failed, TypeOK
  <2> QED
    BY <2>1 DEF Frame
<1>9. \A a, st : SetLeg(s, a, st) => aif' = [aif EXCEPT ![s] = [aif[s] EXCEPT ![a] = st]]
  BY DEF SetLeg, TypeOK
<1>10. \A a \in Devices : \A st : SetLeg(s, a, st) =>
         aif'[s][a] = st /\ \A b \in Devices \ {a} : aif'[s][b] = aif[s][b]
  BY <1>1, <1>9 DEF TypeOK
<1>11. ASSUME NEW a, NEW st, a \notin Devices, SetLeg(s, a, st)
       PROVE  aif' = aif
  <2>1. [aif[s] EXCEPT ![a] = st] = aif[s]
    BY <1>1, <1>11
  <2> QED
    BY <1>9, <1>11, <2>1 DEF TypeOK
<1> QED
  BY <1>3, <1>5, <1>6, <1>7, <1>8, <1>10, <1>11

(* Only a successful start makes a graph run: a stop never leaves one      *)
(* running, and the other functions do not touch the state.                *)
LEMMA GraphQuiet ==
  ASSUME NEW g \in Graph
  PROVE  /\ \A r \in graph_stop(g) : r.g # "STARTED"
         /\ \A r \in graph_prepare(g) : r.g = "STARTED" => g = "STARTED"
         /\ \A r \in graph_start(g) : ~r.ok /\ r.g = "STARTED" => g = "STARTED"
         /\ \A c : \A r \in GslCall(g, g, c) : r.g = g
         /\ \A r \in graph_open(g) : r.g = "STARTED" => g = "STARTED"
<1>1. \A c, to : \A r \in GslCall(g, to, c) : r.g = g \/ (r.ok /\ r.g = to)
  BY DEF GslCall, Graph
<1>2. \A c : \A r \in GslCall(g, g, c) : r.g = g
  BY <1>1
<1>3. \A r \in graph_stop(g) : r.g # "STARTED"
  <2>1. CASE g \in {"STOPPED", "OPENED", "PREPARED", "STARTED"}
    BY <2>1 DEF graph_stop
  <2>2. CASE g \in {"NULL", "FREED"}
    BY <1>2, <2>2 DEF graph_stop
  <2> QED
    BY <2>1, <2>2 DEF Graph, GraphState
<1>4. \A r \in graph_prepare(g) : r.g = "STARTED" => g = "STARTED"
  BY <1>1 DEF graph_prepare
<1>5. \A r \in graph_start(g) : ~r.ok /\ r.g = "STARTED" => g = "STARTED"
  BY <1>1 DEF graph_start
<1>6. \A r \in graph_open(g) : r.g = "STARTED" => g = "STARTED"
  BY DEF graph_open
<1> QED
  BY <1>2, <1>3, <1>4, <1>5, <1>6

(* Nor does the graph part of session_connect_aif.                         *)
LEMMA ConnectQuiet ==
  ASSUME TypeOK, NEW s \in Sessions, NEW n, NEW r \in connect_graph(s, n)
  PROVE  r.g = "STARTED" => sess[s].graph = "STARTED"
<1> DEFINE g == sess[s].graph
           first == IF n > 0 THEN graph_add(g)
                    ELSE IF sess[s].state = "CLOSED" THEN graph_open(g) ELSE graph_change(g)
<1>1. g \in Graph
  BY DEF TypeOK, Session
<1>2. \A f \in first : f.g \in Graph /\ (f.g = "STARTED" => g = "STARTED")
  BY <1>1, GraphQuiet, GraphTypes DEF graph_add, graph_change
<1>3. PICK f \in first : r \in IF f.ok
                                 THEN {[g |-> IF c.ok \/ n > 0 THEN c.g ELSE "FREED",
                                        ok |-> c.ok] : c \in graph_set_config(f.g)}
                                 ELSE {f}
  BY Zenon DEF connect_graph
<1>4. CASE f.ok
  <2>1. PICK c \in graph_set_config(f.g) :
          r = [g |-> IF c.ok \/ n > 0 THEN c.g ELSE "FREED", ok |-> c.ok]
    BY <1>3, <1>4
  <2>2. c.g = f.g
    BY <1>2, <1>3, <2>1, GraphQuiet DEF graph_set_config
  <2> QED
    BY <1>2, <1>3, <2>1, <2>2
<1>5. CASE ~f.ok
  BY <1>2, <1>3, <1>5
<1> QED
  BY <1>4, <1>5

-----------------------------------------------------------------------------
(* A session that is not started is quiet.                                 *)

(* What a session's part of QuietInv gives.                                *)
LEMMA QuietOf ==
  ASSUME QuietInv, NEW s \in Sessions
  PROVE  /\ TypeOK /\ sess[s] \in Session /\ call[s] \in Frame
         /\ sess[s].graph \in Graph /\ sess[s].state \in SessState
         /\ QuietFits(sess[s], aif[s], pool[s], call[s])
BY DEF QuietInv, TypeOK, Session

(* The loops over aif_pool see every leg.                                  *)
LEMMA QuietLoop ==
  ASSUME QuietInv, NEW s \in Sessions, NEW S, "CLOSED" \notin S, NoLeg(s, S)
  PROVE  \A a \in Devices : aif[s][a] \notin S
BY DEF QuietInv, QuietFits, NoLeg

(* session_prepare, from a request or for a connect, starts nothing.       *)
LEMMA PrepareQuiet ==
  ASSUME QuietInv, NEW s \in Sessions, NEW f \in Frame, session_prepare(s, f),
         f.op # "open", call[s].step \in {"idle", "prepare"}
  PROVE  QuietFits(sess[s], aif[s], pool[s], call[s])'
<1>1. /\ TypeOK /\ sess[s].graph \in Graph
      /\ QuietFits(sess[s], aif[s], pool[s], call[s])
  BY QuietOf
<1>2. pool' = pool /\ aif' = aif
  BY DEF session_prepare
<1>3. /\ sess'[s].dir = sess[s].dir /\ sess'[s].state = sess[s].state
      /\ sess'[s].graph = "STARTED" => sess[s].graph = "STARTED"
  <2>1. CASE sess' = sess
    BY <2>1
  <2>2. CASE sess' # sess
    <3>1. PICK r \in graph_prepare(sess[s].graph) \cup NoGraphCall(s) : SetGraph(s, r.g)
      BY <2>2 DEF session_prepare
    <3> QED
      BY <1>1, <3>1, Effects, GraphQuiet DEF NoGraphCall
  <2> QED
    BY <2>1, <2>2
<1>4. call'[s].op # "open" /\ call'[s].step \in {"idle", "unwind_connect", "device_prepare"}
  <2>1. \/ Failed(s, f)
        \/ call' = [call EXCEPT ![s] = [f EXCEPT !.step = "device_prepare"]]
    BY DEF session_prepare
  <2>2. CASE Failed(s, f)
    BY <1>1, <2>2, Effects DEF Idle, None
  <2>3. CASE call' = [call EXCEPT ![s] = [f EXCEPT !.step = "device_prepare"]]
    BY <1>1, <2>3 DEF TypeOK, Frame
  <2> QED
    BY <2>1, <2>2, <2>3
<1> QED
  BY <1>1, <1>2, <1>3, <1>4 DEF QuietFits

(* session_start's checks start nothing.                                   *)
LEMMA StartQuiet ==
  ASSUME QuietInv, NEW s \in Sessions, NEW f \in Frame, session_start(s, f),
         f.op # "open", call[s].step \in {"idle", "start"}
  PROVE  QuietFits(sess[s], aif[s], pool[s], call[s])'
<1>1. TypeOK /\ QuietFits(sess[s], aif[s], pool[s], call[s])
  BY QuietOf
<1>2. sess' = sess /\ pool' = pool /\ aif' = aif
  BY DEF session_start
<1>3. /\ call'[s].op # "open"
      /\ \/ call'[s].step \in {"idle", "unwind_connect", "device_start"}
         \/ call'[s].step = "ec_ref" /\ sess[s].dir = "TX"
  <2>1. \/ Failed(s, f)
        \/ call' = [call EXCEPT ![s] = [f EXCEPT !.step = IF sess[s].dir = "TX" THEN "ec_ref"
                                                           ELSE "device_start"]]
    BY DEF session_start
  <2>2. CASE Failed(s, f)
    BY <1>1, <2>2, Effects DEF Idle, None
  <2>3. CASE call' = [call EXCEPT ![s] = [f EXCEPT !.step = IF sess[s].dir = "TX" THEN "ec_ref"
                                                            ELSE "device_start"]]
    BY <1>1, <2>3 DEF TypeOK, Frame
  <2> QED
    BY <2>1, <2>2, <2>3
<1> QED
  BY <1>1, <1>2, <1>3 DEF QuietFits

(* The client's requests keep a session quiet.                             *)
LEMMA RequestQuiet ==
  ASSUME QuietInv, NEW s \in Sessions, Request(s)
  PROVE  QuietFits(sess[s], aif[s], pool[s], call[s])'
<1>1. /\ TypeOK /\ sess[s] \in Session /\ call[s] \in Frame
      /\ sess[s].graph \in Graph /\ sess[s].state \in SessState
      /\ QuietFits(sess[s], aif[s], pool[s], call[s])
  BY QuietOf
<1>2. /\ \A op \in {"open", "prepare", "start", "stop", "close"} :
           Begin(op) \in Frame /\ Begin(op).op = op /\ Begin(op).step = op
      /\ Idle.op = None /\ Idle.step = "idle"
  BY DEF Begin, Frame, Ops, Steps, None, Idle
<1>3. ASSUME NEW a \in Devices, session_obj_sess_aif_connect(s, a)
      PROVE  QuietFits(sess[s], aif[s], pool[s], call[s])'
  <2>1. /\ \E k \in DOMAIN pool'[s] : pool'[s][k] = a
        /\ \A b : (\E k \in DOMAIN pool[s] : pool[s][k] = b) =>
                  \E k \in DOMAIN pool'[s] : pool'[s][k] = b
    <3>1. pool'[s] = aif_obj_get(s, a)
      BY <1>1, <1>3 DEF session_obj_sess_aif_connect, TypeOK
    <3> QED
      BY <1>1, <3>1, AifGet
  <2>2. CASE sess[s].state = "CLOSED"
    <3>1. SetLeg(s, a, "OPEN") /\ call' = call /\ sess' = sess /\ call[s] = Idle
      BY <1>3, <2>2 DEF session_obj_sess_aif_connect
    <3>2. aif'[s][a] = "OPEN" /\ \A b \in Devices \ {a} : aif'[s][b] = aif[s][b]
      BY <1>1, <3>1, Effects
    <3> QED
      BY <1>1, <1>2, <2>1, <3>1, <3>2 DEF QuietFits, None
  <2>3. CASE sess[s].state # "CLOSED"
    <3> DEFINE f == [op |-> ConnectOp(s), step |-> "graph", leg |-> a,
                     count |-> aif_obj_get_count(s)]
    <3>1. /\ (call' = call \/ Enter(s, f)) /\ sess' = sess /\ aif' = aif /\ call[s] = Idle
      BY <1>3, <2>3 DEF session_obj_sess_aif_connect
    <3>2. ConnectOp(s) # "open"
      BY <1>1, <2>3 DEF ConnectOp, SessState
    <3>3. CASE call' = call
      BY <1>1, <1>2, <2>1, <3>1, <3>3 DEF QuietFits, None
    <3>4. CASE Enter(s, f)
      <4>1. call'[s].step = "graph" /\ call'[s].leg = a /\ call'[s].op # "open"
        BY <1>1, <3>2, <3>4 DEF Enter, TypeOK
      <4> QED
        BY <1>1, <1>2, <2>1, <3>1, <4>1 DEF QuietFits
    <3> QED
      BY <3>1, <3>3, <3>4
  <2> QED
    BY <2>2, <2>3
<1>4. ASSUME NEW a \in Devices, session_obj_sess_aif_disconnect(s, a)
      PROVE  QuietFits(sess[s], aif[s], pool[s], call[s])'
  <2>1. /\ \E k \in DOMAIN pool'[s] : pool'[s][k] = a
        /\ \A b : (\E k \in DOMAIN pool[s] : pool[s][k] = b) =>
                  \E k \in DOMAIN pool'[s] : pool'[s][k] = b
    <3>1. pool'[s] = aif_obj_get(s, a)
      BY <1>1, <1>4 DEF session_obj_sess_aif_disconnect, TypeOK
    <3> QED
      BY <1>1, <3>1, AifGet
  <2>2. /\ aif' = aif \/ \E st \in {"CLOSED", "CLOSE"} : SetLeg(s, a, st)
        /\ sess' = sess /\ call' = call /\ call[s] = Idle
    BY <1>4 DEF session_obj_sess_aif_disconnect
  <2>3. \A b \in Devices : aif'[s][b] = aif[s][b] \/ (b = a /\ aif'[s][b] \in {"CLOSED", "CLOSE"})
    BY <1>1, <2>2, Effects
  <2> QED
    BY <1>1, <1>2, <2>1, <2>2, <2>3 DEF QuietFits, None
<1>5. CASE session_obj_open(s)
  <2>1. /\ call'[s] = Begin("open") /\ call[s] = Idle /\ sess[s].state = "CLOSED"
        /\ sess' = sess /\ pool' = pool /\ aif' = aif
    BY <1>1, <1>5 DEF session_obj_open, Enter, TypeOK
  <2> QED
    BY <1>1, <1>2, <2>1 DEF QuietFits
<1>6. CASE session_obj_set_config(s)
  <2>1. /\ call[s] = Idle /\ call' = call /\ pool' = pool /\ aif' = aif
        /\ sess'[s] = [sess[s] EXCEPT !.dir = Dir[s]]
    BY <1>1, <1>6 DEF session_obj_set_config, HasHandle, TypeOK
  <2>2. /\ sess'[s].graph = sess[s].graph /\ sess'[s].state = sess[s].state
        /\ sess'[s].dir \in {"RX", "TX"}
    BY <1>1, <2>1, SessionAssumption DEF Session
  <2> QED
    BY <1>1, <1>2, <2>1, <2>2 DEF QuietFits, None
<1>7. CASE session_obj_prepare(s)
  BY <1>2, <1>7, PrepareQuiet DEF session_obj_prepare, HasHandle
<1>8. CASE session_obj_start(s)
  BY <1>2, <1>8, StartQuiet DEF session_obj_start, HasHandle
<1>9. CASE session_stop(s)
  <2>1. PICK r \in IF sess[s].dir = "RX" THEN graph_stop(sess[s].graph) ELSE NoGraphCall(s) :
          /\ SetGraph(s, r.g)
          /\ \/ r.ok /\ Enter(s, Begin("stop"))
             \/ ~r.ok /\ call[s] = Idle /\ UNCHANGED call
    BY <1>9 DEF session_stop
  <2>2. sess[s].state = "STARTED" /\ pool' = pool /\ aif' = aif
    BY <1>9 DEF session_stop
  <2>3. /\ sess'[s].state = "STARTED" /\ sess'[s].dir = sess[s].dir
        /\ sess[s].dir # "TX" => sess'[s].graph # "STARTED"
    <3>1. sess'[s].state = "STARTED" /\ sess'[s].dir = sess[s].dir /\ sess'[s].graph = r.g
      BY <1>1, <2>1, <2>2, Effects
    <3>2. CASE sess[s].dir = "RX"
      BY <1>1, <2>1, <3>1, <3>2, GraphQuiet
    <3>3. CASE sess[s].dir # "RX"
      <4>1. r.g = sess[s].graph
        BY <2>1, <3>3 DEF NoGraphCall
      <4>2. sess[s].dir \in {None, "TX"}
        BY <1>1, <3>3 DEF Session
      <4> QED
        BY <1>1, <3>1, <4>1, <4>2 DEF QuietFits
    <3> QED
      BY <3>2, <3>3
  <2>4. call'[s] \in {Idle, Begin("stop")}
    BY <1>1, <2>1 DEF Enter, TypeOK
  <2> QED
    BY <1>1, <1>2, <2>2, <2>3, <2>4 DEF QuietFits, AtRest, None
<1>10. CASE session_close(s)
  <2>1. /\ call'[s] = Begin("close") /\ call[s] = Idle /\ SetGraph(s, "NULL")
        /\ pool' = pool /\ aif' = aif
    BY <1>1, <1>10 DEF session_close, Enter, TypeOK
  <2>2. /\ sess'[s].graph = "NULL" /\ sess'[s].dir = sess[s].dir
        /\ sess'[s].state = sess[s].state
    BY <1>1, <2>1, Effects
  <2> QED
    BY <1>1, <1>2, <2>1, <2>2 DEF QuietFits
<1>11. ASSUME NEW p \in Sessions, NEW enable \in BOOLEAN, session_obj_set_loopback(s, p, enable)
       PROVE  QuietFits(sess[s], aif[s], pool[s], call[s])'
  <2>1. PICK x : sess' = [sess EXCEPT ![s].loopback = x]
    BY <1>11 DEF session_obj_set_loopback
  <2>2. /\ sess'[s].graph = sess[s].graph /\ sess'[s].state = sess[s].state
        /\ sess'[s].dir = sess[s].dir
    BY <1>1, <2>1 DEF Session, TypeOK
  <2>3. call' = call /\ pool' = pool /\ aif' = aif
    BY <1>11 DEF session_obj_set_loopback
  <2> QED
    BY <1>1, <2>2, <2>3 DEF QuietFits
<1>12. ASSUME NEW a \in Devices, NEW enable \in BOOLEAN, session_obj_set_ec_ref(s, a, enable)
       PROVE  QuietFits(sess[s], aif[s], pool[s], call[s])'
  <2>1. PICK x : sess' = [sess EXCEPT ![s].ec_ref = x]
    BY <1>12 DEF session_obj_set_ec_ref
  <2>2. /\ sess'[s].graph = sess[s].graph /\ sess'[s].state = sess[s].state
        /\ sess'[s].dir = sess[s].dir
    BY <1>1, <2>1 DEF Session, TypeOK
  <2>3. call' = call /\ pool' = pool /\ aif' = aif
    BY <1>12 DEF session_obj_set_ec_ref
  <2> QED
    BY <1>1, <2>2, <2>3 DEF QuietFits
<1> QED
  BY <1>3, <1>4, <1>5, <1>6, <1>7, <1>8, <1>9, <1>10, <1>11, <1>12 DEF Request

(* The steps of open, connect and close keep a session quiet.              *)
LEMMA OpenStepsQuiet ==
  ASSUME QuietInv, NEW s \in Sessions,
         \/ OpenNextDevice(s) \/ session_connect_aif(s) \/ UnwindOpen(s) \/ UnwindOpenDone(s)
         \/ FinishOpen(s) \/ UnwindConnect(s) \/ CloseDevice(s) \/ CloseDone(s)
  PROVE  QuietFits(sess[s], aif[s], pool[s], call[s])'
<1>1. /\ TypeOK /\ sess[s] \in Session /\ call[s] \in Frame
      /\ sess[s].graph \in Graph /\ sess[s].state \in SessState
      /\ QuietFits(sess[s], aif[s], pool[s], call[s])
  BY QuietOf
<1>2. Idle.op = None /\ Idle.step = "idle"
  BY DEF Idle
<1>3. CASE OpenNextDevice(s)
  <2>1. PICK a \in Devices :
          /\ NextLeg(s, {"OPEN"}, a)
          /\ \/ call' = [call EXCEPT ![s].step = "graph", ![s].leg = a]
             \/ ConnectFailed(s)
    BY <1>3 DEF OpenNextDevice
  <2>2. call[s].step = "open" /\ sess' = sess /\ pool' = pool /\ aif' = aif
    BY <1>3 DEF OpenNextDevice
  <2>3. \E k \in DOMAIN pool[s] : pool[s][k] = a
    BY <2>1 DEF NextLeg
  <2>4. CASE ConnectFailed(s)
    BY <1>1, <1>2, <2>2, <2>4, Effects DEF QuietFits, None
  <2>5. CASE call' = [call EXCEPT ![s].step = "graph", ![s].leg = a]
    <3>1. call'[s] = [call[s] EXCEPT !.step = "graph", !.leg = a]
      BY <1>1, <2>5 DEF TypeOK
    <3>2. call'[s].step = "graph" /\ call'[s].leg = a /\ call'[s].op = call[s].op
      BY <1>1, <3>1 DEF Frame
    <3> QED
      BY <1>1, <2>2, <2>3, <3>2 DEF QuietFits
  <2> QED
    BY <2>1, <2>4, <2>5
<1>4. CASE session_connect_aif(s)
  <2>1. PICK r \in connect_graph(s, call[s].count) :
       /\ SetGraph(s, r.g)
       /\ \/ /\ r.ok
             /\ SetLeg(s, call[s].leg, "OPENED")
             /\ IF call[s].op = "connect"
                  THEN Return(s)
                  ELSE call' = [call EXCEPT ![s].count = @ + 1,
                                            ![s].step = IF call[s].op = "open" THEN "open"
                                                                               ELSE "prepare"]
             /\ UNCHANGED dev
          \/ /\ ~r.ok
             /\ \E c \in device_close(dev[call[s].leg]) : SetDevice(call[s].leg, c.d)
             /\ ConnectFailed(s)
             /\ UNCHANGED aif
    BY <1>4, Zenon DEF session_connect_aif
  <2>2. call[s].step = "graph" /\ pool' = pool
    BY <1>4 DEF session_connect_aif
  <2>3. /\ sess'[s].dir = sess[s].dir /\ sess'[s].state = sess[s].state
        /\ sess'[s].graph = "STARTED" => sess[s].graph = "STARTED"
    BY <1>1, <2>1, Effects, ConnectQuiet
  <2>4. CASE ~r.ok
    <3>1. aif' = aif /\ ConnectFailed(s)
      BY <2>1, <2>4
    <3>2. \/ call'[s].step = "idle" /\ call'[s].op = None
          \/ call'[s].step = "unwind_open" /\ call'[s].op = "open" /\ call[s].op = "open"
      BY <1>1, <1>2, <3>1, Effects
    <3> QED
      BY <1>1, <2>2, <2>3, <3>1, <3>2 DEF QuietFits, None
  <2>5. CASE r.ok
    <3>1. \A b \in Devices : aif'[s][b] = aif[s][b] \/ (b = call[s].leg /\ aif'[s][b] = "OPENED")
      BY <1>1, <2>1, <2>5, Effects
    <3>2. \/ call'[s].step = "idle" /\ call'[s].op = None
          \/ call'[s].step = "open" /\ call'[s].op = "open" /\ call[s].op = "open"
          \/ call'[s].step = "prepare" /\ call'[s].op = call[s].op /\ call[s].op # "open"
      <4>1. CASE call[s].op = "connect"
        BY <1>1, <1>2, <2>1, <2>5, <4>1, Effects
      <4>2. CASE call[s].op # "connect"
        <5>1. call'[s] = [[call[s] EXCEPT !.count = @ + 1]
                            EXCEPT !.step = IF call[s].op = "open" THEN "open" ELSE "prepare"]
          BY <1>1, <2>1, <2>5, <4>2 DEF TypeOK
        <5> QED
          BY <1>1, <5>1 DEF Frame
      <4> QED
        BY <4>1, <4>2
    <3> QED
      BY <1>1, <2>2, <2>3, <3>1, <3>2 DEF QuietFits, None
  <2> QED
    BY <2>4, <2>5
<1>5. CASE UnwindOpen(s)
  <2>1. PICK a \in Devices : NextLeg(s, {"OPENED"}, a) /\ SetLeg(s, a, "OPEN")
    BY <1>5 DEF UnwindOpen
  <2>2. sess' = sess /\ pool' = pool /\ call' = call
    BY <1>5 DEF UnwindOpen
  <2>3. /\ \E k \in DOMAIN pool[s] : pool[s][k] = a
        /\ aif'[s][a] = "OPEN" /\ \A b \in Devices \ {a} : aif'[s][b] = aif[s][b]
    BY <1>1, <2>1, Effects DEF NextLeg
  <2> QED
    BY <1>1, <2>2, <2>3 DEF QuietFits
<1>6. CASE UnwindOpenDone(s)
  <2>1. /\ call[s].step = "unwind_open" /\ SetGraph(s, "NULL") /\ pool' = pool /\ aif' = aif
        /\ Goto(s, "finish_open") \/ Return(s)
    BY <1>6 DEF UnwindOpenDone
  <2>2. /\ sess'[s].graph = "NULL" /\ sess'[s].dir = sess[s].dir
        /\ sess'[s].state = sess[s].state
    BY <1>1, <2>1, Effects
  <2>3. \/ call'[s].step = "finish_open" /\ call'[s].op = call[s].op
        \/ call'[s].step = "idle" /\ call'[s].op = None
    BY <1>1, <1>2, <2>1, Effects
  <2> QED
    BY <1>1, <2>1, <2>2, <2>3 DEF QuietFits, None
<1>7. CASE FinishOpen(s)
  <2>1. PICK st \in {"OPENED", sess[s].state} : sess' = [sess EXCEPT ![s].state = st]
    BY <1>7 DEF FinishOpen
  <2>2. /\ call[s].step \in {"finish_open", "open"} /\ Return(s) /\ pool' = pool /\ aif' = aif
    BY <1>7 DEF FinishOpen
  <2>3. /\ sess'[s].graph = sess[s].graph /\ sess'[s].dir = sess[s].dir
        /\ sess'[s].state = st
    BY <1>1, <2>1 DEF Session, TypeOK
  <2>4. call'[s].step = "idle" /\ call'[s].op = None
    BY <1>1, <1>2, <2>2, Effects
  <2> QED
    BY <1>1, <2>1, <2>2, <2>3, <2>4 DEF QuietFits, AtRest, None
<1>8. CASE UnwindConnect(s)
  <2>1. /\ call[s].step = "unwind_connect" /\ Return(s)
        /\ sess' = sess /\ pool' = pool /\ aif' = aif
    BY <1>8 DEF UnwindConnect
  <2>2. call'[s].step = "idle" /\ call'[s].op = None
    BY <1>1, <1>2, <2>1, Effects
  <2> QED
    BY <1>1, <2>1, <2>2 DEF QuietFits, None
<1>9. CASE CloseDevice(s)
  <2>1. PICK a \in Devices : SetLeg(s, a, "CLOSED")
    BY <1>9 DEF CloseDevice
  <2>2. sess' = sess /\ pool' = pool /\ call' = call
    BY <1>9 DEF CloseDevice
  <2>3. aif'[s][a] = "CLOSED" /\ \A b \in Devices \ {a} : aif'[s][b] = aif[s][b]
    BY <1>1, <2>1, Effects
  <2> QED
    BY <1>1, <2>2, <2>3 DEF QuietFits
<1>10. CASE CloseDone(s)
  <2>1. /\ call[s].step = "close" /\ NoLeg(s, Connected) /\ Return(s)
        /\ sess' = [sess EXCEPT ![s].state = "CLOSED"] /\ pool' = pool /\ aif' = aif
    BY <1>10 DEF CloseDone
  <2>2. \A a \in Devices : aif[s][a] # "STARTED"
    BY <2>1, QuietLoop DEF Connected
  <2>3. /\ sess'[s].graph = sess[s].graph /\ sess'[s].dir = sess[s].dir
        /\ sess'[s].state = "CLOSED"
    BY <1>1, <2>1 DEF Session, TypeOK
  <2>4. call'[s].step = "idle" /\ call'[s].op = None
    BY <1>1, <1>2, <2>1, Effects
  <2> QED
    BY <1>1, <2>1, <2>2, <2>3, <2>4 DEF QuietFits, None
<1> QED
  BY <1>3, <1>4, <1>5, <1>6, <1>7, <1>8, <1>9, <1>10

(* The steps of prepare, start and stop keep a session quiet.              *)
LEMMA RunStepsQuiet ==
  ASSUME QuietInv, NEW s \in Sessions,
         \/ PrepareConnected(s) \/ PrepareDevice(s) \/ PrepareDone(s)
         \/ StartConnected(s) \/ CheckEcRef(s) \/ StartCaptureGraph(s)
         \/ StartDevice(s) \/ StartDone(s) \/ UnwindStart(s) \/ UnwindStartDone(s)
         \/ StopDevice(s) \/ StopDone(s)
  PROVE  QuietFits(sess[s], aif[s], pool[s], call[s])'
<1>1. /\ TypeOK /\ sess[s] \in Session /\ call[s] \in Frame
      /\ sess[s].graph \in Graph /\ sess[s].state \in SessState
      /\ QuietFits(sess[s], aif[s], pool[s], call[s])
  BY QuietOf
<1>2. Idle.op = None /\ Idle.step = "idle"
  BY DEF Idle
<1>3. Failed(s, call[s]) => call'[s].op # "open" /\ call'[s].step \in {"idle", "unwind_connect"}
  BY <1>1, <1>2, Effects DEF None
<1>4. CASE PrepareConnected(s)
  BY <1>1, <1>4, PrepareQuiet DEF PrepareConnected, QuietFits
<1>5. CASE PrepareDevice(s)
  <2>1. PICK a \in Devices :
          /\ NextLeg(s, {"OPENED", "STOPPED"}, a)
          /\ \/ SetLeg(s, a, "PREPARED") /\ UNCHANGED call
             \/ Failed(s, call[s]) /\ UNCHANGED aif
    BY <1>5 DEF PrepareDevice
  <2>2. call[s].step = "device_prepare" /\ sess' = sess /\ pool' = pool
    BY <1>5 DEF PrepareDevice
  <2>3. \E k \in DOMAIN pool[s] : pool[s][k] = a
    BY <2>1 DEF NextLeg
  <2>4. CASE SetLeg(s, a, "PREPARED") /\ UNCHANGED call
    <3>1. aif'[s][a] = "PREPARED" /\ \A b \in Devices \ {a} : aif'[s][b] = aif[s][b]
      BY <1>1, <2>4, Effects
    <3> QED
      BY <1>1, <2>2, <2>3, <2>4, <3>1 DEF QuietFits
  <2>5. CASE Failed(s, call[s]) /\ UNCHANGED aif
    BY <1>1, <1>3, <2>2, <2>5 DEF QuietFits
  <2> QED
    BY <2>1, <2>4, <2>5
<1>6. CASE PrepareDone(s)
  <2>1. PICK r \in graph_prepare(sess[s].graph) \cup NoGraphCall(s) :
          /\ sess' = [sess EXCEPT ![s].graph = r.g,
                                  ![s].state = IF r.ok THEN "PREPARED" ELSE @]
          /\ IF ~r.ok THEN Failed(s, call[s])
             ELSE IF call[s].op = "connect_start" THEN Goto(s, "start") ELSE Return(s)
    BY <1>6 DEF PrepareDone
  <2>2. call[s].step = "device_prepare" /\ pool' = pool /\ aif' = aif
    BY <1>6 DEF PrepareDone
  <2>3. /\ sess'[s].graph = r.g /\ sess'[s].dir = sess[s].dir
        /\ sess'[s].state = IF r.ok THEN "PREPARED" ELSE sess[s].state
    BY <1>1, <2>1 DEF Session, TypeOK
  <2>4. r.g = "STARTED" => sess[s].graph = "STARTED"
    BY <1>1, <2>1, GraphQuiet DEF NoGraphCall
  <2>5. \/ call'[s].op # "open" /\ call'[s].step \in {"idle", "unwind_connect"}
        \/ call'[s].op = "connect_start" /\ call'[s].step = "start"
    BY <1>1, <1>2, <1>3, <2>1, Effects DEF None
  <2> QED
    BY <1>1, <2>2, <2>3, <2>4, <2>5 DEF QuietFits, AtRest
<1>7. CASE StartConnected(s)
  BY <1>1, <1>7, StartQuiet DEF StartConnected, QuietFits
<1>8. CASE CheckEcRef(s)
  <2>1. /\ call[s].step = "ec_ref" /\ sess' = sess /\ pool' = pool /\ aif' = aif
        /\ Failed(s, call[s]) \/ Goto(s, "graph_start")
    BY <1>8 DEF CheckEcRef
  <2>2. \/ call'[s].op # "open" /\ call'[s].step \in {"idle", "unwind_connect"}
        \/ call'[s].op = call[s].op /\ call'[s].step = "graph_start"
    BY <1>1, <1>3, <2>1, Effects
  <2> QED
    BY <1>1, <2>1, <2>2 DEF QuietFits
<1>9. CASE StartCaptureGraph(s)
  <2>1. PICK r \in graph_start(sess[s].graph) :
          /\ SetGraph(s, r.g)
          /\ IF r.ok THEN Goto(s, "device_start") ELSE Failed(s, call[s])
    BY <1>9 DEF StartCaptureGraph
  <2>2. call[s].step = "graph_start" /\ pool' = pool /\ aif' = aif
    BY <1>9 DEF StartCaptureGraph
  <2>3. /\ sess'[s].graph = r.g /\ sess'[s].dir = sess[s].dir
        /\ sess'[s].state = sess[s].state
    BY <1>1, <2>1, Effects
  <2>4. CASE r.ok
    <3>1. call'[s].op = call[s].op /\ call'[s].step = "device_start"
      BY <1>1, <2>1, <2>4, Effects
    <3> QED
      BY <1>1, <2>2, <2>3, <3>1 DEF QuietFits, None
  <2>5. CASE ~r.ok
    <3>1. r.g = "STARTED" => sess[s].graph = "STARTED"
      BY <1>1, <2>1, <2>5, GraphQuiet
    <3> QED
      BY <1>1, <1>3, <2>1, <2>2, <2>3, <2>5, <3>1 DEF QuietFits
  <2> QED
    BY <2>4, <2>5
<1>10. CASE StartDevice(s)
  <2>1. PICK a \in Devices :
          /\ NextLeg(s, {"OPENED", "PREPARED", "STOPPED"}, a)
          /\ \/ SetLeg(s, a, "STARTED") /\ UNCHANGED <<sess, call>>
             \/ /\ Goto(s, "unwind_start")
                /\ \E g \in UnwindGraph(s) : SetGraph(s, g.g)
                /\ UNCHANGED aif
    BY <1>10 DEF StartDevice
  <2>2. call[s].step = "device_start" /\ pool' = pool
    BY <1>10 DEF StartDevice
  <2>3. \E k \in DOMAIN pool[s] : pool[s][k] = a
    BY <2>1 DEF NextLeg
  <2>4. CASE SetLeg(s, a, "STARTED") /\ UNCHANGED <<sess, call>>
    <3>1. aif'[s][a] = "STARTED" /\ \A b \in Devices \ {a} : aif'[s][b] = aif[s][b]
      BY <1>1, <2>4, Effects
    <3> QED
      BY <1>1, <2>2, <2>3, <2>4, <3>1 DEF QuietFits
  <2>5. ASSUME Goto(s, "unwind_start"), UNCHANGED aif,
               NEW g \in UnwindGraph(s), SetGraph(s, g.g)
        PROVE  QuietFits(sess[s], aif[s], pool[s], call[s])'
    <3>1. /\ sess'[s].graph = g.g /\ sess'[s].dir = sess[s].dir
          /\ sess'[s].state = sess[s].state
      BY <1>1, <2>5, Effects
    <3>2. call'[s].op = call[s].op /\ call'[s].step = "unwind_start"
      BY <1>1, <2>5, Effects
    <3>3. g.g # "STARTED" \/ (sess[s].dir # "TX" /\ g.g = sess[s].graph)
      BY <1>1, <2>5, GraphQuiet DEF UnwindGraph, NoGraphCall
    <3> QED
      BY <1>1, <2>2, <2>5, <3>1, <3>2, <3>3 DEF QuietFits
  <2> QED
    BY <2>1, <2>4, <2>5
<1>11. CASE StartDone(s)
  <2>1. PICK r \in IF sess[s].dir = "RX" THEN graph_start(sess[s].graph) ELSE NoGraphCall(s) :
          /\ sess' = [sess EXCEPT ![s].graph = r.g,
                                  ![s].state = IF r.ok THEN "STARTED" ELSE @]
          /\ IF r.ok THEN Return(s) ELSE Goto(s, "unwind_start")
    BY <1>11 DEF StartDone
  <2>2. call[s].step = "device_start" /\ pool' = pool /\ aif' = aif
    BY <1>11 DEF StartDone
  <2>3. /\ sess'[s].graph = r.g /\ sess'[s].dir = sess[s].dir
        /\ sess'[s].state = IF r.ok THEN "STARTED" ELSE sess[s].state
    BY <1>1, <2>1 DEF Session, TypeOK
  <2>4. CASE r.ok
    <3>1. call'[s].op = None /\ call'[s].step = "idle"
      BY <1>1, <1>2, <2>1, <2>4, Effects
    <3>2. sess[s].dir = None => r.g # "STARTED"
      BY <1>1, <2>1 DEF NoGraphCall, QuietFits, None
    <3> QED
      BY <1>1, <2>2, <2>3, <2>4, <3>1, <3>2 DEF QuietFits, AtRest, None
  <2>5. CASE ~r.ok
    <3>1. call'[s].op = call[s].op /\ call'[s].step = "unwind_start"
      BY <1>1, <2>1, <2>5, Effects
    <3>2. sess[s].dir = "RX" /\ (r.g = "STARTED" => sess[s].graph = "STARTED")
      BY <1>1, <2>1, <2>5, GraphQuiet DEF NoGraphCall
    <3> QED
      BY <1>1, <2>2, <2>3, <2>5, <3>1, <3>2 DEF QuietFits, None
  <2> QED
    BY <2>4, <2>5
<1>12. CASE UnwindStart(s)
  <2>1. PICK a \in Devices : NextLeg(s, {"STARTED"}, a) /\ SetLeg(s, a, "OPENED")
    BY <1>12 DEF UnwindStart
  <2>2. sess' = sess /\ pool' = pool /\ call' = call
    BY <1>12 DEF UnwindStart
  <2>3. /\ \E k \in DOMAIN pool[s] : pool[s][k] = a
        /\ aif'[s][a] = "OPENED" /\ \A b \in Devices \ {a} : aif'[s][b] = aif[s][b]
    BY <1>1, <2>1, Effects DEF NextLeg
  <2> QED
    BY <1>1, <2>2, <2>3 DEF QuietFits
<1>13. CASE UnwindStartDone(s)
  <2>1. /\ call[s].step = "unwind_start" /\ NoLeg(s, {"STARTED"}) /\ Failed(s, call[s])
        /\ sess' = sess /\ pool' = pool /\ aif' = aif
    BY <1>13 DEF UnwindStartDone
  <2>2. \A a \in Devices : aif[s][a] # "STARTED"
    BY <2>1, QuietLoop
  <2> QED
    BY <1>1, <1>3, <2>1, <2>2 DEF QuietFits
<1>14. CASE StopDevice(s)
  <2>1. PICK a \in Devices : NextLeg(s, {"STARTED"}, a) /\ SetLeg(s, a, "STOPPED")
    BY <1>14 DEF StopDevice
  <2>2. sess' = sess /\ pool' = pool /\ call' = call
    BY <1>14 DEF StopDevice
  <2>3. /\ \E k \in DOMAIN pool[s] : pool[s][k] = a
        /\ aif'[s][a] = "STOPPED" /\ \A b \in Devices \ {a} : aif'[s][b] = aif[s][b]
    BY <1>1, <2>1, Effects DEF NextLeg
  <2> QED
    BY <1>1, <2>2, <2>3 DEF QuietFits
<1>15. CASE StopDone(s)
  <2>1. PICK r \in IF sess[s].dir = "TX" THEN graph_stop(sess[s].graph) ELSE NoGraphCall(s) :
          sess' = [sess EXCEPT ![s].graph = r.g, ![s].state = "STOPPED"]
    BY <1>15 DEF StopDone
  <2>2. /\ call[s].step = "stop" /\ NoLeg(s, {"STARTED"}) /\ Return(s)
        /\ pool' = pool /\ aif' = aif
    BY <1>15 DEF StopDone
  <2>3. \A a \in Devices : aif[s][a] # "STARTED"
    BY <2>2, QuietLoop
  <2>4. /\ sess'[s].graph = r.g /\ sess'[s].dir = sess[s].dir /\ sess'[s].state = "STOPPED"
    BY <1>1, <2>1 DEF Session, TypeOK
  <2>5. r.g # "STARTED"
    BY <1>1, <2>1, <2>2, GraphQuiet DEF NoGraphCall, QuietFits
  <2>6. call'[s].op = None /\ call'[s].step = "idle"
    BY <1>1, <1>2, <2>2, Effects
  <2> QED
    BY <1>1, <2>2, <2>3, <2>4, <2>5, <2>6 DEF QuietFits, None
<1> QED
  BY <1>4, <1>5, <1>6, <1>7, <1>8, <1>9, <1>10, <1>11, <1>12, <1>13, <1>14, <1>15

(* Whatever fails and whatever is routed, a session that is closed, only   *)
(* opened, or stopped has no running graph and no started leg once its     *)
(* handler has returned: every error path of session_start undoes what it  *)
(* started, and session_stop and session_close leave nothing running.      *)
THEOREM QuietAtRest == Spec => []QuietUnlessStarted
<1>1. Init => QuietInv
  <2> SUFFICES ASSUME Init
               PROVE  QuietInv
    OBVIOUS
  <2>1. device_obj \in Device /\ session_obj \in Session /\ Idle \in Frame
    BY DEF device_obj, Device, DevState, session_obj, Session, SessState, None, Graph, Idle,
           Frame, Ops, Steps
  <2>2. TypeOK
    BY <2>1 DEF Init, TypeOK, AifState
  <2>3. ASSUME NEW s \in Sessions
        PROVE  QuietFits(sess[s], aif[s], pool[s], call[s])
    <3>1. /\ sess[s] = session_obj /\ call[s] = Idle
          /\ \A a \in Devices : aif[s][a] = "CLOSED"
      BY DEF Init
    <3> QED
      BY <3>1 DEF QuietFits, session_obj, Idle, None
  <2> QED
    BY <2>2, <2>3 DEF QuietInv
<1>2. QuietInv /\ [Next]_vars => QuietInv'
  <2> SUFFICES ASSUME QuietInv, [Next]_vars
               PROVE  QuietInv'
    OBVIOUS
  <2>1. CASE UNCHANGED vars
    BY <2>1 DEF vars, QuietInv, TypeOK, QuietFits
  <2>2. CASE Next
    <3>1. PICK s \in Sessions : Request(s) \/ Step(s)
      BY <2>2 DEF Next
    <3>2. TypeOK /\ TypeOK'
      BY <3>1, RequestType, StepType DEF QuietInv
    <3>3. QuietFits(sess[s], aif[s], pool[s], call[s])'
      BY <3>1, RequestQuiet, OpenStepsQuiet, RunStepsQuiet DEF Step
    <3>4. ASSUME NEW t \in Sessions \ {s}
          PROVE  QuietFits(sess[t], aif[t], pool[t], call[t])'
      <4>1. /\ sess'[t] = sess[t] /\ pool'[t] = pool[t]
            /\ aif'[t] = aif[t] /\ call'[t] = call[t]
        BY <3>1, <3>2, OneSession DEF OnlySession
      <4>2. QuietFits(sess[t], aif[t], pool[t], call[t])
        BY DEF QuietInv
      <4> QED
        BY <4>1, <4>2
    <3> QED
      BY <3>2, <3>3, <3>4 DEF QuietInv
  <2> QED
    BY <2>1, <2>2
<1>3. QuietInv => QuietUnlessStarted
  <2> SUFFICES ASSUME QuietInv, NEW s \in Sessions, call[s] = Idle,
                      sess[s].state \in {"CLOSED", "OPENED", "STOPPED"}
               PROVE  sess[s].graph # "STARTED" /\ \A a \in Devices : aif[s][a] # "STARTED"
    BY DEF QuietUnlessStarted
  <2> QED
    BY QuietOf DEF QuietFits, AtRest, Idle
<1> QED
  BY <1>1, <1>2, <1>3, PTL DEF Spec

-----------------------------------------------------------------------------
(* No device is stopped under a started leg.                               *)

(* How a step of s may change the starts of device b and its leg on it:    *)
(* no start is lost, one is counted, the leg gives back its own, or the    *)
(* device is closed.                                                       *)
StartsFit(s, b) ==
  \/ /\ aif'[s][b] = "STARTED" => aif[s][b] = "STARTED"
     /\ dev'[b].start >= dev[b].start
  \/ dev'[b].start >= dev[b].start + 1
  \/ aif[s][b] = "STARTED" /\ aif'[s][b] # "STARTED" /\ dev'[b].start >= dev[b].start - 1
  \/ dev'[b].open = 0

(* Such a step keeps every started leg counted: a device that has been     *)
(* closed has no leg left, because every leg holds a reference.            *)
LEMMA StartsStep ==
  ASSUME HeldInv, HeldInv', StartedLegsRun, NEW s \in Sessions, OnlySession(s),
         \A b \in Devices : StartsFit(s, b)
  PROVE  StartedLegsRun'
<1> SUFFICES ASSUME NEW b \in Devices
             PROVE  Cardinality(StartedLegs(b)') <= dev'[b].start
  BY DEF StartedLegsRun
<1> DEFINE H == StartedLegs(b)
           K == StartedLegs(b)'
<1>1. /\ H \subseteq Sessions /\ K \subseteq Sessions
      /\ \A t \in Sessions : (t \in H <=> aif[t][b] = "STARTED") /\ (t \in K <=> aif'[t][b] = "STARTED")
  BY DEF StartedLegs
<1>2. IsFiniteSet(H) /\ IsFiniteSet(K) /\ Cardinality(H) \in Nat /\ Cardinality(K) \in Nat
  BY <1>1, SessionAssumption, FS_Subset, FS_CardinalityType
<1>3. Cardinality(H) <= dev[b].start /\ dev[b].start \in Int /\ dev'[b].start \in Int
  BY DEF StartedLegsRun, HeldInv, TypeOK, Device
<1>4. \A t \in Sessions \ {s} : t \in K <=> t \in H
  BY <1>1 DEF OnlySession
<1> HIDE DEF H, K
<1>5. CASE /\ aif'[s][b] = "STARTED" => aif[s][b] = "STARTED"
           /\ dev'[b].start >= dev[b].start
  <2>1. K \subseteq H
    BY <1>1, <1>4, <1>5
  <2>2. Cardinality(K) <= Cardinality(H)
    BY <1>2, <2>1, CountHolders
  <2> QED
    BY <1>2, <1>3, <1>5, <2>2 DEF K
<1>6. CASE dev'[b].start >= dev[b].start + 1
  <2>1. K \subseteq H \cup {s}
    BY <1>1, <1>4
  <2>2. Cardinality(K) <= Cardinality(H) + 1
    BY <1>2, <2>1, CountHolders
  <2> QED
    BY <1>2, <1>3, <1>6, <2>2 DEF K
<1>7. CASE aif[s][b] = "STARTED" /\ aif'[s][b] # "STARTED" /\ dev'[b].start >= dev[b].start - 1
  <2>1. s \in H /\ K \subseteq H \ {s}
    BY <1>1, <1>4, <1>7
  <2>2. Cardinality(K) <= Cardinality(H) - 1
    BY <1>2, <2>1, CountHolders
  <2> QED
    BY <1>2, <1>3, <1>7, <2>2 DEF K
<1>8. CASE dev'[b].open = 0
  <2>1. Holders(b)' \subseteq Sessions \X {"leg", "connect"}
    BY DEF Holders
  <2>2. IsFiniteSet(Holders(b)') /\ Cardinality(Holders(b)') \in Nat
    BY <2>1, ReferencesFinite, FS_CardinalityType
  <2>3. Cardinality(Holders(b)') <= 0
    BY <1>8 DEF HeldInv, DeviceHeld
  <2>4. Holders(b)' = {}
    BY <2>2, <2>3, FS_EmptySet
  <2>5. \A t \in Sessions : aif'[t][b] # "STARTED"
    BY <2>4 DEF Holders, Connected
  <2>6. K = {}
    BY <1>1, <2>5
  <2>7. Cardinality(K) = 0
    BY <2>6, FS_EmptySet
  <2>8. dev'[b].start >= 0
    BY DEF HeldInv, DeviceConsistent, Consistent
  <2> QED
    BY <2>7, <2>8 DEF K
<1> QED
  BY <1>5, <1>6, <1>7, <1>8 DEF StartsFit

(* A step that stops no device and starts no leg is such a step.           *)
LEMMA StartsKeep ==
  ASSUME TypeOK, NEW s \in Sessions,
         dev' = dev \/ \E a \in Devices :
           \E r \in device_open(dev[a]) \cup device_prepare(dev[a]) \cup device_close(dev[a]) :
             SetDevice(a, r.d),
         aif' = aif \/ \E a \in Devices, st \in AifState \ {"STARTED"} : SetLeg(s, a, st)
  PROVE  \A b \in Devices : StartsFit(s, b)
<1> SUFFICES ASSUME NEW b \in Devices
             PROVE  StartsFit(s, b)
  OBVIOUS
<1>1. aif'[s][b] = "STARTED" => aif[s][b] = "STARTED"
  BY Effects
<1>2. dev[b] \in Device /\ dev[b].start \in Int /\ dev[b].open \in Int
  BY DEF TypeOK, Device
<1>3. dev'[b].start >= dev[b].start \/ dev'[b].open = 0
  <2>1. CASE dev' = dev
    BY <1>2, <2>1
  <2>2. ASSUME NEW a \in Devices, NEW r \in device_open(dev[a]) \cup device_prepare(dev[a])
                                              \cup device_close(dev[a]),
               SetDevice(a, r.d)
        PROVE  dev'[b].start >= dev[b].start \/ dev'[b].open = 0
    <3>1. dev'[b] = IF b = a THEN r.d ELSE dev[b]
      BY <2>2 DEF SetDevice, TypeOK
    <3>2. CASE b # a
      BY <1>2, <3>1, <3>2
    <3>3. CASE b = a /\ r \in device_open(dev[b])
      BY <1>2, <3>1, <3>3, DeviceOpen
    <3>4. CASE b = a /\ r \in device_prepare(dev[b])
      BY <1>2, <3>1, <3>4, DevicePrepare
    <3>5. CASE b = a /\ r \in device_close(dev[b])
      BY <1>2, <3>1, <3>5, DeviceClose DEF device_obj
    <3> QED
      BY <2>2, <3>2, <3>3, <3>4, <3>5
  <2> QED
    BY <2>1, <2>2
<1> QED
  BY <1>1, <1>3 DEF StartsFit

(* The client's requests stop no device.                                   *)
LEMMA RequestStarts ==
  ASSUME TypeOK, NEW s \in Sessions, Request(s)
  PROVE  \A b \in Devices : StartsFit(s, b)
<1>1. ASSUME NEW a \in Devices, session_obj_sess_aif_connect(s, a)
      PROVE  \A b \in Devices : StartsFit(s, b)
  <2>1. /\ dev' = dev \/ \E r \in device_open(dev[a]) : SetDevice(a, r.d)
        /\ aif' = aif \/ SetLeg(s, a, "OPEN")
    BY <1>1 DEF session_obj_sess_aif_connect
  <2> QED
    BY <2>1, StartsKeep DEF AifState
<1>2. ASSUME NEW a \in Devices, session_obj_sess_aif_disconnect(s, a)
      PROVE  \A b \in Devices : StartsFit(s, b)
  <2>1. /\ dev' = dev \/ \E r \in device_close(dev[a]) : SetDevice(a, r.d)
        /\ aif' = aif \/ \E st \in {"CLOSED", "CLOSE"} : SetLeg(s, a, st)
    BY <1>2 DEF session_obj_sess_aif_disconnect, session_disconnect_aif
  <2> QED
    BY <2>1, StartsKeep DEF AifState
<1>3. ASSUME dev' = dev, aif' = aif
      PROVE  \A b \in Devices : StartsFit(s, b)
  BY <1>3, StartsKeep
<1>4. CASE \/ session_obj_open(s) \/ session_obj_set_config(s) \/ session_obj_prepare(s)
           \/ session_obj_start(s) \/ session_stop(s) \/ session_close(s)
           \/ \E p \in Sessions, enable \in BOOLEAN : session_obj_set_loopback(s, p, enable)
           \/ \E a \in Devices, enable \in BOOLEAN : session_obj_set_ec_ref(s, a, enable)
  <2>1. dev' = dev /\ aif' = aif
    BY <1>4 DEF session_obj_open, session_obj_set_config, session_obj_prepare, session_prepare,
                session_obj_start, session_start, session_stop, session_close,
                session_obj_set_loopback, session_obj_set_ec_ref
  <2> QED
    BY <1>3, <2>1
<1> QED
  BY <1>1, <1>2, <1>4 DEF Request

(* A handler stops a device only for a leg it takes out of AIF_STARTED.    *)
LEMMA StepStarts ==
  ASSUME HeldInv, NEW s \in Sessions, Step(s)
  PROVE  \A b \in Devices : StartsFit(s, b)
<1>1. /\ TypeOK /\ call[s].step # "unwind_connect"
      /\ call[s].step = "graph" => call[s].leg \in Devices
  BY FitsOf, StepOps DEF LegFits
<1>2. CASE OpenNextDevice(s)
  <2>1. /\ aif' = aif
        /\ \E a \in Devices : \E r \in device_open(dev[a]) : SetDevice(a, r.d)
    BY <1>2 DEF OpenNextDevice
  <2> QED
    BY <1>1, <2>1, StartsKeep
<1>3. CASE session_connect_aif(s)
  <2>1. /\ call[s].step = "graph"
        /\ dev' = dev \/ \E r \in device_close(dev[call[s].leg]) : SetDevice(call[s].leg, r.d)
        /\ aif' = aif \/ SetLeg(s, call[s].leg, "OPENED")
    BY <1>3 DEF session_connect_aif
  <2> QED
    BY <1>1, <2>1, StartsKeep DEF AifState
<1>4. CASE UnwindOpen(s) \/ CloseDevice(s)
  <2>1. \E a \in Devices, st \in {"OPEN", "CLOSED"} :
          SetLeg(s, a, st) /\ \E r \in device_close(dev[a]) : SetDevice(a, r.d)
    BY <1>4 DEF UnwindOpen, CloseDevice, session_disconnect_aif
  <2> QED
    BY <1>1, <2>1, StartsKeep DEF AifState
<1>5. CASE PrepareDevice(s)
  <2>1. PICK a \in Devices : /\ \E r \in device_prepare(dev[a]) : SetDevice(a, r.d)
                             /\ aif' = aif \/ SetLeg(s, a, "PREPARED")
    BY <1>5 DEF PrepareDevice
  <2> QED
    BY <1>1, <2>1, StartsKeep DEF AifState
<1>6. CASE \/ UnwindOpenDone(s) \/ FinishOpen(s) \/ PrepareConnected(s) \/ PrepareDone(s)
           \/ StartConnected(s) \/ CheckEcRef(s) \/ StartCaptureGraph(s) \/ StartDone(s)
           \/ UnwindStartDone(s) \/ StopDone(s) \/ CloseDone(s)
  <2>1. dev' = dev /\ aif' = aif
    BY <1>6 DEF UnwindOpenDone, FinishOpen, PrepareConnected, session_prepare, PrepareDone,
                StartConnected, session_start, CheckEcRef, StartCaptureGraph, StartDone,
                UnwindStartDone, StopDone, CloseDone
  <2> QED
    BY <1>1, <2>1, StartsKeep
<1>7. CASE StartDevice(s)
  <2>0. PICK a \in Devices : \E r \in device_start(dev[a]) :
          /\ SetDevice(a, r.d)
          /\ (r.ok /\ SetLeg(s, a, "STARTED")) \/ (~r.ok /\ aif' = aif)
    BY <1>7 DEF StartDevice
  <2>1. PICK r \in device_start(dev[a]) :
          /\ SetDevice(a, r.d)
          /\ (r.ok /\ SetLeg(s, a, "STARTED")) \/ (~r.ok /\ aif' = aif)
    BY <2>0
  <2>2. /\ dev'[a] = r.d /\ \A b \in Devices \ {a} : dev'[b] = dev[b]
        /\ \A b \in Devices : dev[b] \in Device /\ dev[b].start \in Int
    BY <1>1, <2>1 DEF SetDevice, TypeOK, Device
  <2>3. \A b \in Devices \ {a} : aif'[s][b] = aif[s][b]
    BY <1>1, <2>1, Effects
  <2>4. CASE r.ok
    <3>1. r.d.start = dev[a].start + 1
      BY <2>1, <2>2, <2>4, DeviceStart
    <3> QED
      BY <2>2, <2>3, <3>1 DEF StartsFit
  <2>5. CASE ~r.ok
    <3>1. r.d = dev[a] /\ aif' = aif
      BY <2>1, <2>2, <2>5, DeviceStart
    <3> QED
      BY <2>2, <3>1 DEF StartsFit
  <2> QED
    BY <2>4, <2>5
<1>8. CASE UnwindStart(s) \/ StopDevice(s)
  <2>0. PICK a \in Devices, st \in {"OPENED", "STOPPED"} :
          /\ NextLeg(s, {"STARTED"}, a) /\ SetLeg(s, a, st)
          /\ \E r \in device_stop(dev[a]) : SetDevice(a, r.d)
    BY <1>8 DEF UnwindStart, StopDevice
  <2>1. PICK r \in device_stop(dev[a]) : SetDevice(a, r.d)
    BY <2>0
  <2>2. /\ dev'[a] = r.d /\ \A b \in Devices \ {a} : dev'[b] = dev[b]
        /\ \A b \in Devices : dev[b] \in Device /\ dev[b].start \in Int
    BY <1>1, <2>1 DEF SetDevice, TypeOK, Device
  <2>3. /\ aif[s][a] = "STARTED" /\ aif'[s][a] = st
        /\ \A b \in Devices \ {a} : aif'[s][b] = aif[s][b]
    BY <1>1, <2>0, Effects DEF NextLeg
  <2>4. r.d.start >= dev[a].start - 1
    BY <2>1, <2>2, DeviceStop
  <2> QED
    BY <2>2, <2>3, <2>4 DEF StartsFit
<1>9. CASE UnwindConnect(s)
  BY <1>1, <1>9 DEF UnwindConnect
<1> QED
  BY <1>2, <1>3, <1>4, <1>5, <1>6, <1>7, <1>8, <1>9 DEF Step

(* No session's stop or close stops a device under another session's       *)
(* started leg: refcnt.start covers every leg in AIF_STARTED, when only    *)
(* the calls of Recoverable fail and no session is routed.                 *)
THEOREM NoDeviceStopped ==
  ASSUME Failing \subseteq Recoverable, Loopbacks = {}, EcRefs = {}
  PROVE  Spec => []StartedLegsRun
<1>1. Init => StartedLegsRun
  <2> SUFFICES ASSUME Init, NEW a \in Devices
               PROVE  Cardinality(StartedLegs(a)) <= dev[a].start
    BY DEF StartedLegsRun
  <2>1. StartedLegs(a) = {}
    BY DEF StartedLegs, Init
  <2>2. Cardinality(StartedLegs(a)) = 0
    BY <2>1, FS_EmptySet
  <2> QED
    BY <2>2 DEF Init, device_obj
<1>2. HeldInv /\ HeldInv' /\ StartedLegsRun /\ [Next]_vars => StartedLegsRun'
  <2> SUFFICES ASSUME HeldInv, HeldInv', StartedLegsRun, [Next]_vars
               PROVE  StartedLegsRun'
    OBVIOUS
  <2>1. CASE UNCHANGED vars
    BY <2>1 DEF vars, StartedLegsRun, StartedLegs
  <2>2. CASE Next
    <3>1. PICK s \in Sessions : Request(s) \/ Step(s)
      BY <2>2 DEF Next
    <3>2. TypeOK
      BY DEF HeldInv
    <3>3. OnlySession(s)
      BY <3>1, <3>2, OneSession
    <3>4. \A b \in Devices : StartsFit(s, b)
      BY <3>1, <3>2, RequestStarts, StepStarts
    <3> QED
      BY <3>3, <3>4, StartsStep
  <2> QED
    BY <2>1, <2>2
<1> QED
  BY <1>1, <1>2, HeldInvariant, PTL DEF Spec

-----------------------------------------------------------------------------
(* A started session runs on all its legs.                                 *)

(* What a frame can be once the step is over, by HeldInv: a failed prepare *)
(* or start of a connect is not among the steps.                           *)
LEMMA FailedReturns ==
  ASSUME HeldInv', TypeOK, NEW s \in Sessions, NEW f \in Frame, Failed(s, f)
  PROVE  call'[s] = Idle
<1>1. call'[s] \in Frame /\ call'[s].step \in FrameSteps[call'[s].op]
  BY DEF HeldInv, SessionFits, FrameFits, TypeOK
<1>2. call'[s].step # "unwind_connect"
  BY <1>1, StepOps
<1> QED
  BY <1>2, Effects

(* A step that leaves the session's state and legs alone, and is settled   *)
(* only if it was, keeps RunFits.                                          *)
LEMMA RunKeep ==
  ASSUME NEW s \in Sessions, RunFits(sess[s], aif[s], call[s]),
         sess'[s].state = sess[s].state \/ sess'[s].state # "STARTED",
         \A b \in Devices : \/ aif'[s][b] = aif[s][b]
                            \/ aif'[s][b] \notin Connected \ {"STARTED"}
                            \/ ~Settled(call[s]),
         Settled(call'[s]) => Settled(call[s]),
         call'[s].step # "unwind_start",
         call'[s].op \in {"connect", "connect_prepare"} => call'[s].op = call[s].op
  PROVE  RunFits(sess[s], aif[s], call[s])'
BY DEF RunFits, Connected

(* The client's requests.                                                  *)
LEMMA RequestRuns ==
  ASSUME HeldInv, HeldInv', NEW s \in Sessions, Request(s), RunFits(sess[s], aif[s], call[s])
  PROVE  RunFits(sess[s], aif[s], call[s])'
<1>1. TypeOK /\ sess[s] \in Session /\ call[s] \in Frame
  BY FitsOf
<1>2. /\ \A op \in {"open", "prepare", "start", "stop", "close"} :
           Begin(op) \in Frame /\ Begin(op).op = op /\ Begin(op).step = op
      /\ Idle.op = None /\ Idle.step = "idle" /\ Settled(Idle)
  BY DEF Begin, Frame, Ops, Steps, None, Idle, Settled
<1>3. ASSUME NEW a \in Devices, session_obj_sess_aif_connect(s, a)
      PROVE  RunFits(sess[s], aif[s], call[s])'
  <2>1. CASE sess[s].state = "CLOSED"
    BY <1>1, <1>3, <2>1 DEF session_obj_sess_aif_connect, RunFits
  <2>2. CASE sess[s].state # "CLOSED"
    <3> DEFINE f == [op |-> ConnectOp(s), step |-> "graph", leg |-> a,
                     count |-> aif_obj_get_count(s)]
    <3>1. /\ (call' = call \/ Enter(s, f)) /\ sess' = sess /\ aif' = aif /\ call[s] = Idle
      BY <1>3, <2>2 DEF session_obj_sess_aif_connect
    <3>2. sess[s].state = "STARTED" => ConnectOp(s) = "connect_start"
      BY DEF ConnectOp
    <3>3. CASE call' = call
      BY <3>1, <3>3
    <3>4. CASE Enter(s, f)
      <4>1. call'[s].step = "graph" /\ call'[s].op = ConnectOp(s)
        BY <1>1, <3>4 DEF Enter, TypeOK
      <4> QED
        BY <1>2, <3>1, <3>2, <4>1 DEF RunFits
    <3> QED
      BY <3>1, <3>3, <3>4
  <2> QED
    BY <2>1, <2>2
<1>4. ASSUME NEW a \in Devices, session_obj_sess_aif_disconnect(s, a)
      PROVE  RunFits(sess[s], aif[s], call[s])'
  <2>1. /\ aif' = aif \/ \E st \in {"CLOSED", "CLOSE"} : SetLeg(s, a, st)
        /\ sess' = sess /\ call' = call /\ call[s] = Idle
    BY <1>4 DEF session_obj_sess_aif_disconnect
  <2>2. \A b \in Devices : aif'[s][b] = aif[s][b] \/ aif'[s][b] \in {"CLOSED", "CLOSE"}
    BY <1>1, <2>1, Effects
  <2> QED
    BY <1>2, <2>1, <2>2, RunKeep DEF Connected, None
<1>5. CASE session_obj_open(s)
  BY <1>5 DEF session_obj_open, RunFits
<1>6. CASE session_obj_set_config(s)
  <2>1. call' = call /\ aif' = aif /\ call[s] = Idle /\ sess' = [sess EXCEPT ![s].dir = Dir[s]]
    BY <1>6 DEF session_obj_set_config, HasHandle
  <2>2. sess'[s].state = sess[s].state
    BY <1>1, <2>1 DEF TypeOK, Session
  <2> QED
    BY <1>2, <2>1, <2>2, RunKeep DEF None
<1>7. CASE session_obj_prepare(s)
  <2>1. call[s] = Idle /\ session_prepare(s, Begin("prepare"))
    BY <1>7 DEF session_obj_prepare, HasHandle
  <2>2. aif' = aif /\ sess'[s].state = sess[s].state
    BY <1>1, <2>1, Effects DEF session_prepare
  <2>3. \/ call'[s] = Idle
        \/ call'[s].op = "prepare" /\ call'[s].step = "device_prepare"
    <3>1. \/ Failed(s, Begin("prepare"))
          \/ call' = [call EXCEPT ![s] = [Begin("prepare") EXCEPT !.step = "device_prepare"]]
      BY <2>1 DEF session_prepare
    <3> QED
      BY <1>1, <1>2, <3>1, FailedReturns DEF TypeOK, Begin
  <2> QED
    BY <1>2, <2>1, <2>2, <2>3, RunKeep DEF None
<1>8. CASE session_obj_start(s)
  <2>1. call[s] = Idle /\ session_start(s, Begin("start"))
    BY <1>8 DEF session_obj_start, HasHandle
  <2>2. aif' = aif /\ sess' = sess
    BY <2>1 DEF session_start
  <2>3. \/ call'[s] = Idle
        \/ call'[s].op = "start" /\ call'[s].step \in {"ec_ref", "device_start"}
    <3>1. \/ Failed(s, Begin("start"))
          \/ \E st \in {"ec_ref", "device_start"} :
               call' = [call EXCEPT ![s] = [Begin("start") EXCEPT !.step = st]]
      BY <2>1 DEF session_start
    <3> QED
      BY <1>1, <1>2, <3>1, FailedReturns DEF TypeOK, Begin
  <2> QED
    BY <1>2, <2>1, <2>2, <2>3, RunKeep DEF None
<1>9. CASE session_stop(s)
  <2>1. PICK g : SetGraph(s, g)
    BY <1>9 DEF session_stop
  <2>2. aif' = aif /\ call[s] = Idle /\ (call' = call \/ Enter(s, Begin("stop")))
    BY <1>9 DEF session_stop, Enter
  <2>3. sess'[s].state = sess[s].state
    BY <1>1, <2>1, Effects
  <2>4. call'[s] \in {Idle, Begin("stop")}
    BY <1>1, <2>2 DEF Enter, TypeOK
  <2> QED
    BY <1>2, <2>2, <2>3, <2>4, RunKeep DEF None
<1>10. CASE session_close(s)
  <2>1. aif' = aif /\ call[s] = Idle /\ Enter(s, Begin("close")) /\ SetGraph(s, "NULL")
    BY <1>10 DEF session_close, Enter
  <2>2. sess'[s].state = sess[s].state /\ call'[s] = Begin("close")
    BY <1>1, <2>1, Effects DEF Enter, TypeOK
  <2> QED
    BY <1>2, <2>1, <2>2, RunKeep DEF None
<1>11. ASSUME NEW p, NEW enable, session_obj_set_loopback(s, p, enable)
       PROVE  RunFits(sess[s], aif[s], call[s])'
  <2>1. PICK x : sess' = [sess EXCEPT ![s].loopback = x]
    BY <1>11 DEF session_obj_set_loopback
  <2>2. sess'[s].state = sess[s].state /\ call' = call /\ aif' = aif
    BY <1>1, <1>11, <2>1 DEF session_obj_set_loopback, Session, TypeOK
  <2> QED
    BY <2>2 DEF RunFits
<1>12. ASSUME NEW a, NEW enable, session_obj_set_ec_ref(s, a, enable)
       PROVE  RunFits(sess[s], aif[s], call[s])'
  <2>1. PICK x : sess' = [sess EXCEPT ![s].ec_ref = x]
    BY <1>12 DEF session_obj_set_ec_ref
  <2>2. sess'[s].state = sess[s].state /\ call' = call /\ aif' = aif
    BY <1>1, <1>12, <2>1 DEF session_obj_set_ec_ref, Session, TypeOK
  <2> QED
    BY <2>2 DEF RunFits
<1> QED
  BY <1>3, <1>4, <1>5, <1>6, <1>7, <1>8, <1>9, <1>10, <1>11, <1>12 DEF Request

(* The steps of the handlers.                                              *)
LEMMA StepRuns ==
  ASSUME Failing \subseteq Recoverable, HeldInv, HeldInv', NEW s \in Sessions, Step(s),
         RunFits(sess[s], aif[s], call[s])
  PROVE  RunFits(sess[s], aif[s], call[s])'
<1>1. /\ TypeOK /\ sess[s] \in Session /\ call[s] \in Frame
      /\ FrameFits(sess[s], call[s])
      /\ call[s].step \notin {"unwind_open", "finish_open", "unwind_connect"}
  BY FitsOf, StepOps
<1>2. Idle.op = None /\ Idle.step = "idle" /\ Settled(Idle)
  BY DEF None, Idle, Settled
<1>3. Failed(s, call[s]) => call'[s] = Idle
  BY <1>1, FailedReturns
<1>4. CASE OpenNextDevice(s)
  <2>1. call[s].step = "open" /\ sess' = sess
    BY <1>4 DEF OpenNextDevice
  <2>2. sess[s].state = "CLOSED"
    BY <1>1, <2>1, StepOps DEF FrameFits
  <2> QED
    BY <2>1, <2>2 DEF RunFits
<1>5. CASE session_connect_aif(s)
  <2>1. PICK r \in connect_graph(s, call[s].count) :
       /\ SetGraph(s, r.g)
       /\ \/ /\ r.ok
             /\ SetLeg(s, call[s].leg, "OPENED")
             /\ IF call[s].op = "connect"
                  THEN Return(s)
                  ELSE call' = [call EXCEPT ![s].count = @ + 1,
                                            ![s].step = IF call[s].op = "open" THEN "open"
                                                                               ELSE "prepare"]
             /\ UNCHANGED dev
          \/ /\ ~r.ok
             /\ \E c \in device_close(dev[call[s].leg]) : SetDevice(call[s].leg, c.d)
             /\ ConnectFailed(s)
             /\ UNCHANGED aif
    BY <1>5, Zenon DEF session_connect_aif
  <2>2. call[s].step = "graph" /\ sess'[s].state = sess[s].state
    BY <1>1, <1>5, <2>1, Effects DEF session_connect_aif
  <2>3. CASE sess[s].state # "STARTED"
    BY <2>2, <2>3 DEF RunFits
  <2>4. CASE sess[s].state = "STARTED"
    <3>1. call[s].op = "connect_start"
      BY <1>1, <2>2, <2>4, StepOps DEF RunFits, FrameFits
    <3>2. Settled(call[s])
      BY <2>2, <3>1 DEF Settled
    <3>3. CASE r.ok
      <4>1. call'[s] = [[call[s] EXCEPT !.count = @ + 1] EXCEPT !.step = "prepare"]
        BY <1>1, <2>1, <3>1, <3>3 DEF TypeOK
      <4>2. call'[s].op = "connect_start" /\ call'[s].step = "prepare"
        BY <1>1, <3>1, <4>1 DEF Frame
      <4> QED
        BY <4>2 DEF RunFits, Settled, None
    <3>4. CASE ~r.ok
      <4>1. aif' = aif /\ call'[s] = Idle
        BY <1>1, <2>1, <3>1, <3>4, Effects
      <4> QED
        BY <1>2, <2>2, <3>2, <4>1, RunKeep DEF None
    <3> QED
      BY <3>3, <3>4
  <2> QED
    BY <2>3, <2>4
<1>6. CASE UnwindOpen(s) \/ UnwindOpenDone(s) \/ UnwindConnect(s)
  BY <1>1, <1>6 DEF UnwindOpen, UnwindOpenDone, UnwindConnect
<1>7. CASE FinishOpen(s)
  <2>1. PICK st \in {"OPENED", sess[s].state} : sess' = [sess EXCEPT ![s].state = st]
    BY <1>7 DEF FinishOpen
  <2>2. call[s].step = "open"
    BY <1>1, <1>7 DEF FinishOpen
  <2>3. sess[s].state = "CLOSED"
    BY <1>1, <2>2, StepOps DEF FrameFits
  <2>4. sess'[s].state # "STARTED"
    BY <1>1, <2>1, <2>3 DEF TypeOK, Session
  <2> QED
    BY <2>4 DEF RunFits
<1>8. CASE PrepareConnected(s)
  <2>1. call[s].step = "prepare" /\ session_prepare(s, call[s])
    BY <1>8 DEF PrepareConnected
  <2>2. call[s].op \in {"connect_prepare", "connect_start"}
    BY <1>1, <2>1, StepOps DEF FrameFits
  <2>3. aif' = aif /\ sess'[s].state = sess[s].state
    BY <1>1, <2>1, Effects DEF session_prepare
  <2>4. \/ Failed(s, call[s])
        \/ call' = [call EXCEPT ![s] = [call[s] EXCEPT !.step = "device_prepare"]]
    BY <2>1 DEF session_prepare
  <2>5. ~Failed(s, call[s])
    <3> SUFFICES ASSUME Failed(s, call[s])
                 PROVE  FALSE
      OBVIOUS
    <3>1. call'[s] = [call[s] EXCEPT !.step = "unwind_connect"]
      BY <1>1, <2>2 DEF Failed, TypeOK
    <3>2. call'[s].step = "unwind_connect"
      BY <1>1, <3>1 DEF Frame
    <3> QED
      BY <1>2, <1>3, <3>2
  <2>6. call'[s].op = call[s].op /\ call'[s].step = "device_prepare"
    BY <1>1, <2>4, <2>5 DEF TypeOK, Frame
  <2> QED
    BY <2>2, <2>3, <2>6 DEF RunFits, Settled, None
<1>9. CASE PrepareDevice(s)
  <2>1. PICK a \in Devices :
          /\ NextLeg(s, {"OPENED", "STOPPED"}, a)
          /\ \/ SetLeg(s, a, "PREPARED") /\ UNCHANGED call
             \/ Failed(s, call[s]) /\ UNCHANGED aif
    BY <1>9 DEF PrepareDevice
  <2>2. call[s].step = "device_prepare" /\ sess' = sess
    BY <1>9 DEF PrepareDevice
  <2>3. aif[s][a] \in {"OPENED", "STOPPED"}
    BY <2>1 DEF NextLeg
  <2>4. CASE sess[s].state # "STARTED"
    BY <2>2, <2>4 DEF RunFits
  <2>5. CASE sess[s].state = "STARTED"
    <3>1. ~Settled(call[s])
      BY <2>3, <2>5 DEF RunFits, Connected
    <3>2. CASE UNCHANGED call
      BY <2>2, <3>1, <3>2 DEF RunFits
    <3>3. CASE Failed(s, call[s])
      <4>1. call[s].op = "connect_start"
        BY <1>1, <2>2, <2>5, <3>1, StepOps DEF Settled, RunFits, FrameFits
      <4>2. call'[s] = [call[s] EXCEPT !.step = "unwind_connect"]
        BY <1>1, <3>3, <4>1 DEF Failed, TypeOK
      <4>3. call'[s].step = "unwind_connect"
        BY <1>1, <4>2 DEF Frame
      <4> QED
        BY <1>2, <1>3, <3>3, <4>3
    <3> QED
      BY <2>1, <3>2, <3>3
  <2> QED
    BY <2>4, <2>5
<1>10. CASE PrepareDone(s)
  <2>1. PICK r \in IF PreparesGraph(s, "RX") THEN graph_prepare(sess[s].graph) ELSE NoGraphCall(s) :
          /\ sess' = [sess EXCEPT ![s].graph = r.g,
                                  ![s].state = IF r.ok THEN "PREPARED" ELSE @]
          /\ IF ~r.ok THEN Failed(s, call[s])
             ELSE IF call[s].op = "connect_start" THEN Goto(s, "start") ELSE Return(s)
    BY <1>10 DEF PrepareDone
  <2>2. sess'[s].state = IF r.ok THEN "PREPARED" ELSE sess[s].state
    BY <1>1, <2>1 DEF Session, TypeOK
  <2>3. sess[s].state = "STARTED" => r.ok
    BY <2>1 DEF PreparesGraph, NoGraphCall
  <2> QED
    BY <2>2, <2>3 DEF RunFits
<1>11. CASE StartConnected(s)
  <2>1. call[s].step = "start" /\ session_start(s, call[s])
    BY <1>11 DEF StartConnected
  <2>2. call[s].op = "connect_start"
    BY <1>1, <2>1, StepOps DEF FrameFits
  <2>3. \/ Failed(s, call[s])
        \/ \E st \in {"ec_ref", "device_start"} :
             call' = [call EXCEPT ![s] = [call[s] EXCEPT !.step = st]]
    BY <2>1 DEF session_start
  <2>4. PICK st \in {"ec_ref", "device_start", "unwind_connect"} :
          call'[s] = [call[s] EXCEPT !.step = st]
    BY <1>1, <2>2, <2>3 DEF Failed, TypeOK
  <2>5. call'[s].op = "connect_start" /\ call'[s].step = st
    BY <1>1, <2>2, <2>4 DEF Frame
  <2> QED
    BY <2>5 DEF RunFits, Settled, None
<1>12. CASE CheckEcRef(s) \/ StartCaptureGraph(s)
  <2>1. call[s].step \in {"ec_ref", "graph_start"} /\ aif' = aif
    BY <1>12 DEF CheckEcRef, StartCaptureGraph
  <2>2. call[s].op \in {"start", "connect_start"}
    BY <1>1, <2>1, StepOps DEF FrameFits
  <2>3. sess'[s].state = sess[s].state
    BY <1>1, <1>12, Effects DEF CheckEcRef, StartCaptureGraph
  <2>4. \/ \E st \in {"graph_start", "device_start"} : Goto(s, st)
        \/ Failed(s, call[s])
    BY <1>12 DEF CheckEcRef, StartCaptureGraph
  <2>5. CASE Failed(s, call[s])
    <3>1. call[s].op # "connect_start"
      <4> SUFFICES ASSUME call[s].op = "connect_start"
                   PROVE  FALSE
        OBVIOUS
      <4>1. call'[s] = [call[s] EXCEPT !.step = "unwind_connect"]
        BY <1>1, <2>5 DEF Failed, TypeOK
      <4>2. call'[s].step = "unwind_connect"
        BY <1>1, <4>1 DEF Frame
      <4> QED
        BY <1>2, <1>3, <2>5, <4>2
    <3>2. Settled(call[s]) /\ call'[s] = Idle
      BY <1>3, <2>2, <2>5, <3>1 DEF Settled
    <3> QED
      BY <1>2, <2>1, <2>3, <3>2, RunKeep DEF None
  <2>6. ASSUME NEW st \in {"graph_start", "device_start"}, Goto(s, st)
        PROVE  RunFits(sess[s], aif[s], call[s])'
    <3>1. call'[s].op = call[s].op /\ call'[s].step = st
      BY <1>1, <2>6, Effects
    <3> QED
      BY <2>1, <2>2, <2>3, <2>6, <3>1, RunKeep DEF Settled
  <2> QED
    BY <2>4, <2>5, <2>6
<1>13. CASE StartDevice(s)
  <2>1. PICK a \in Devices :
          /\ NextLeg(s, {"OPENED", "PREPARED", "STOPPED"}, a)
          /\ \/ SetLeg(s, a, "STARTED") /\ UNCHANGED <<sess, call>>
             \/ /\ Goto(s, "unwind_start")
                /\ \E g \in UnwindGraph(s) : SetGraph(s, g.g)
                /\ UNCHANGED aif
    BY <1>13 DEF StartDevice
  <2>2. call[s].step = "device_start" /\ aif[s][a] \in {"OPENED", "PREPARED", "STOPPED"}
    BY <1>13, <2>1 DEF StartDevice, NextLeg
  <2>3. call[s].op \in {"start", "connect_start"}
    BY <1>1, <2>2, StepOps DEF FrameFits
  <2>4. CASE SetLeg(s, a, "STARTED") /\ UNCHANGED <<sess, call>>
    <3>1. aif'[s][a] = "STARTED" /\ \A b \in Devices \ {a} : aif'[s][b] = aif[s][b]
      BY <1>1, <2>4, Effects
    <3> QED
      BY <2>2, <2>4, <3>1, RunKeep
  <2>5. ASSUME Goto(s, "unwind_start"), NEW g \in UnwindGraph(s), SetGraph(s, g.g)
        PROVE  RunFits(sess[s], aif[s], call[s])'
    <3>1. /\ call'[s].op = call[s].op /\ call'[s].step = "unwind_start"
          /\ sess'[s].state = sess[s].state
      BY <1>1, <2>5, Effects
    <3>2. call[s].op = "start"
      <4>1. call'[s] \in Frame /\ call'[s].step \in FrameSteps[call'[s].op]
        BY DEF HeldInv, SessionFits, FrameFits, TypeOK
      <4> QED
        BY <2>3, <3>1, <4>1, StepOps
    <3>3. sess[s].state # "STARTED"
      BY <2>2, <3>2 DEF RunFits, Settled, Connected
    <3> QED
      BY <3>1, <3>3 DEF RunFits
  <2> QED
    BY <2>1, <2>4, <2>5
<1>14. CASE StartDone(s)
  <2>1. PICK r \in IF sess[s].dir = "RX" THEN graph_start(sess[s].graph) ELSE NoGraphCall(s) :
          /\ sess' = [sess EXCEPT ![s].graph = r.g,
                                  ![s].state = IF r.ok THEN "STARTED" ELSE @]
          /\ IF r.ok THEN Return(s) ELSE Goto(s, "unwind_start")
    BY <1>14 DEF StartDone
  <2>2. /\ call[s].step = "device_start" /\ aif' = aif
        /\ NoLeg(s, {"OPENED", "PREPARED", "STOPPED"})
    BY <1>14 DEF StartDone
  <2>3. call[s].op \in {"start", "connect_start"}
    BY <1>1, <2>2, StepOps DEF FrameFits
  <2>4. sess[s].graph \in GraphState
    BY <2>3, Underway DEF None
  <2>5. r.ok
    BY <2>1, <2>4, LiveGraph DEF NoGraphCall
  <2>6. \A a \in Devices : aif[s][a] \notin {"OPENED", "PREPARED", "STOPPED"}
    BY <2>2, LoopSees, FitsOf
  <2>7. call'[s] = Idle
    BY <1>1, <2>1, <2>5, Effects
  <2> QED
    BY <1>2, <2>2, <2>6, <2>7 DEF RunFits, Connected, None
<1>15. CASE UnwindStart(s) \/ UnwindStartDone(s)
  <2>1. call[s].step = "unwind_start" /\ sess' = sess
    BY <1>15 DEF UnwindStart, UnwindStartDone
  <2> QED
    BY <2>1 DEF RunFits
<1>16. CASE StopDevice(s) \/ CloseDevice(s)
  <2>1. call[s].step \in {"stop", "close"} /\ call' = call /\ sess' = sess
    BY <1>16 DEF StopDevice, CloseDevice
  <2>2. call[s].op \in {"stop", "close"}
    BY <1>1, <2>1, StepOps DEF FrameFits
  <2> QED
    BY <2>1, <2>2 DEF RunFits, Settled, None
<1>17. CASE StopDone(s)
  <2>1. PICK g : sess' = [sess EXCEPT ![s].graph = g, ![s].state = "STOPPED"]
    BY <1>17 DEF StopDone
  <2>2. sess'[s].state = "STOPPED"
    BY <1>1, <2>1 DEF TypeOK, Session
  <2> QED
    BY <2>2 DEF RunFits
<1>18. CASE CloseDone(s)
  <2>1. sess' = [sess EXCEPT ![s].state = "CLOSED"]
    BY <1>18 DEF CloseDone
  <2>2. sess'[s].state = "CLOSED"
    BY <1>1, <2>1 DEF TypeOK, Session
  <2> QED
    BY <2>2 DEF RunFits
<1> QED
  BY <1>4, <1>5, <1>6, <1>7, <1>8, <1>9, <1>10, <1>11, <1>12, <1>13, <1>14, <1>15, <1>16, <1>17,
     <1>18 DEF Step

(* Between calls every connected leg of a started session is started, so   *)
(* that a connect to a running session leaves nothing half way, when only  *)
(* the calls of Recoverable fail and no session is routed.                 *)
THEOREM SessionRuns ==
  ASSUME Failing \subseteq Recoverable, Loopbacks = {}, EcRefs = {}
  PROVE  Spec => []StartedSessionRuns
<1>1. Init => RunInv
  BY DEF Init, RunInv, RunFits, session_obj
<1>2. HeldInv /\ HeldInv' /\ RunInv /\ [Next]_vars => RunInv'
  <2> SUFFICES ASSUME HeldInv, HeldInv', RunInv, [Next]_vars
               PROVE  RunInv'
    OBVIOUS
  <2>1. CASE UNCHANGED vars
    BY <2>1 DEF vars, RunInv, RunFits
  <2>2. CASE Next
    <3>1. PICK s \in Sessions : Request(s) \/ Step(s)
      BY <2>2 DEF Next
    <3>2. RunFits(sess[s], aif[s], call[s])'
      BY <3>1, RequestRuns, StepRuns DEF RunInv
    <3>3. ASSUME NEW t \in Sessions \ {s}
          PROVE  RunFits(sess[t], aif[t], call[t])'
      <4>1. sess'[t] = sess[t] /\ aif'[t] = aif[t] /\ call'[t] = call[t]
        BY <3>1, OneSession DEF OnlySession, HeldInv
      <4>2. RunFits(sess[t], aif[t], call[t])
        BY DEF RunInv
      <4> QED
        BY <4>1, <4>2
    <3> QED
      BY <3>2, <3>3 DEF RunInv
  <2> QED
    BY <2>1, <2>2
<1>3. RunInv => StartedSessionRuns
  BY DEF RunInv, RunFits, Settled, StartedSessionRuns, HasHandle, Idle
<1> QED
  BY <1>1, <1>2, <1>3, HeldInvariant, PTL DEF Spec
=============================================================================
