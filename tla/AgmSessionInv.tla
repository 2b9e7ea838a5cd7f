---------------------------- MODULE AgmSessionInv ----------------------------
(***************************************************************************)
(* The inductive invariant behind DeviceHeld.  DeviceHeld alone is not     *)
(* inductive: that a handler closes only what its session holds depends on *)
(* where each handler can be, on which legs are in which state then, and   *)
(* on the calls that can fail there.  It holds when only the calls of      *)
(* Recoverable fail and no session is routed.                              *)
(***************************************************************************)
EXTENDS AgmSession

(* The steps each API call can be at: no unwinding but that of a start.    *)
FrameSteps ==
  [op \in Ops |->
     CASE op = None              -> {"idle"}
       [] op = "open"            -> {"open", "graph"}
       [] op = "connect"         -> {"graph"}
       [] op = "connect_prepare" -> {"graph", "prepare", "device_prepare"}
       [] op = "connect_start"   -> {"graph", "prepare", "device_prepare", "start", "ec_ref",
                                     "graph_start", "device_start"}
       [] op = "prepare"         -> {"device_prepare"}
       [] op = "start"           -> {"ec_ref", "graph_start", "device_start", "unwind_start"}
       [] op = "stop"            -> {"stop"}
       [] op = "close"           -> {"close"}]

(* Frame c fits session x: open runs on a closed session, the others on an *)
(* open one, and the graph is live from the open to the close.             *)
FrameFits(x, c) ==
  /\ c.step \in FrameSteps[c.op]
  /\ c.op = None => c = Idle
  /\ c.op = "open" => x.state = "CLOSED"
  /\ x.state = "CLOSED" => c.op \in {None, "open"}
  /\ x.state # "CLOSED" /\ c.op # "close" => x.graph \in GraphState
  /\ c.op = "open" /\ c.count > 0 => x.graph \in GraphState
  /\ x.state = "CLOSED" /\ c.count = 0 => x.graph = "NULL"
  /\ c.op = "close" => x.graph = "NULL"
  /\ x.loopback = None /\ x.ec_ref = None

(* The legs of a session fit it: all are in the pool p; only a closed      *)
(* session has legs waiting for an open; a closed session holds nothing.   *)
LegsFit(x, legs, p, c) ==
  /\ \A a \in Devices : legs[a] # "CLOSED" => \E k \in DOMAIN p : p[k] = a
  /\ x.state # "CLOSED" => \A a \in Devices : legs[a] # "OPEN"
  /\ x.state = "CLOSED" /\ c.count = 0 => \A a \in Devices : legs[a] \notin Connected
  /\ c.op = "open" /\ c.step = "open" /\ c.count = 0 =>
       \E k \in DOMAIN p : legs[p[k]] = "OPEN"

(* The leg a handler connects: not yet connected in session_connect_aif    *)
(* (but for a reconnected one), connected afterwards; when the start of a  *)
(* connect begins, every connected leg is prepared.                        *)
LegFits(legs, p, c) ==
  /\ c.step = "graph" =>
       /\ c.leg \in Devices
       /\ \E k \in DOMAIN p : p[k] = c.leg
       /\ legs[c.leg] \notin {"STOPPED", "PREPARED", "STARTED"}
  /\ c.op \in {"connect_prepare", "connect_start"} /\ c.step # "graph" =>
       c.leg \in Devices /\ legs[c.leg] \in Connected
  /\ c.op = "connect_start" /\ c.step \in {"start", "ec_ref", "graph_start", "device_start"} =>
       \A a \in Devices : legs[a] \notin {"OPENED", "STOPPED"}

(* What concerns one session alone.                                        *)
SessionFits(s) ==
  /\ FrameFits(sess[s], call[s])
  /\ LegsFit(sess[s], aif[s], pool[s], call[s])
  /\ LegFits(aif[s], pool[s], call[s])

(* A leg that is past prepare has a prepared device.                       *)
LegsPrepared ==
  \A s \in Sessions, a \in Devices :
    aif[s][a] \in {"PREPARED", "STARTED", "STOPPED"} => dev[a].prepared

HeldInv ==
  /\ TypeOK
  /\ \A s \in Sessions : SessionFits(s)
  /\ DeviceHeld
  /\ DeviceConsistent
  /\ LegsPrepared

(***************************************************************************)
(* The inductive invariant behind QuietUnlessStarted, whatever fails and   *)
(* whatever is routed.  A session at rest can only have a running graph or *)
(* a started leg while its own start is under way; a stop of a playback    *)
(* session has stopped the graph before it comes to the devices.           *)
(***************************************************************************)
AtRest == {"CLOSED", "OPENED", "STOPPED"}

QuietFits(x, legs, p, c) ==
  /\ c.step \in {"open", "unwind_open", "finish_open"} => c.op = "open"
  /\ c.op = "open" =>
       x.state = "CLOSED" /\ c.step \in {"open", "graph", "unwind_open", "finish_open"}
  /\ c.step = "graph" => \E k \in DOMAIN p : p[k] = c.leg
  /\ c.step \in {"ec_ref", "graph_start"} => x.dir = "TX"
  /\ c.step = "stop" /\ x.dir # "TX" => x.graph # "STARTED"
  /\ c.step = "close" => x.graph = "NULL"
  /\ x.dir = None => x.graph # "STARTED"
  /\ x.state \in AtRest /\ x.graph = "STARTED" => c.step = "device_start" /\ x.dir = "TX"
  /\ \A a \in Devices : legs[a] # "CLOSED" => \E k \in DOMAIN p : p[k] = a
  /\ x.state \in AtRest /\ c.step \notin {"device_start", "unwind_start"} =>
       \A a \in Devices : legs[a] # "STARTED"

QuietInv == TypeOK /\ \A s \in Sessions : QuietFits(sess[s], aif[s], pool[s], call[s])

(***************************************************************************)
(* What StartedSessionRuns needs beside HeldInv: between calls, and until  *)
(* a connect has connected its leg, the legs of a started session are      *)
(* started, and a start of a started session changes none.                 *)
(***************************************************************************)
Settled(c) == c.op \in {None, "prepare", "start"} \/ (c.op = "connect_start" /\ c.step = "graph")

RunFits(x, legs, c) ==
  /\ x.state = "STARTED" /\ Settled(c) =>
       \A a \in Devices : legs[a] \in Connected => legs[a] = "STARTED"
  /\ x.state = "STARTED" =>
       c.step # "unwind_start" /\ c.op \notin {"connect", "connect_prepare"}

RunInv == \A s \in Sessions : RunFits(sess[s], aif[s], call[s])
=============================================================================
