------------------------------- MODULE AgmGraph -------------------------------
(***************************************************************************)
(* The graph object of service/src/graph.c as its session sees it: the     *)
(* pointer the session keeps and the state of the object behind it.        *)
(*   "NULL"   no graph object                                              *)
(*   "FREED"  the pointer is kept, the object has been freed               *)
(* and otherwise the state_t of a live object.  Each operator gives the    *)
(* set of possible results [g, ok] of one call; every function returns     *)
(* -EINVAL for NULL, and a call on a freed object is undefined.  The       *)
(* configuration of the graph's modules, which graph_prepare, graph_add    *)
(* and graph_change carry out, is part of whether the call fails.          *)
(***************************************************************************)
EXTENDS AgmDevice

GraphState == {"OPENED", "PREPARED", "STARTED", "STOPPED"}

Graph == GraphState \cup {"NULL", "FREED"}

(* One call into GSL on g that brings the object to state to when it succeeds. *)
GslCall(g, to, c) ==
  CASE g = "NULL"       -> {[g |-> g, ok |-> FALSE]}
    [] g = "FREED"      -> {[g |-> g, ok |-> ok] : ok \in BOOLEAN}
    [] g \in GraphState -> {[g |-> IF ok THEN to ELSE g, ok |-> ok] : ok \in Ret(c)}

(* The caller's pointer is only assigned when the open succeeds.           *)
graph_open(g) == {[g |-> IF ok THEN "OPENED" ELSE g, ok |-> ok] : ok \in Ret("gsl_open")}

graph_add(g) == GslCall(g, g, "gsl_add")

graph_change(g) == GslCall(g, g, "gsl_change")

graph_remove(g) == GslCall(g, g, "gsl_remove")

graph_set_config(g) == GslCall(g, g, "gsl_config")

graph_prepare(g) ==
  IF g = "PREPARED" THEN {[g |-> g, ok |-> TRUE]}
                    ELSE GslCall(g, "PREPARED", "gsl_prepare")

graph_start(g) == GslCall(g, "STARTED", "gsl_start")

(* A stop of the whole graph: the state becomes STOPPED even if GSL fails. *)
graph_stop(g) ==
  CASE g = "STOPPED"               -> {[g |-> g, ok |-> TRUE]}
    [] g \in {"OPENED", "PREPARED"} -> {[g |-> g, ok |-> FALSE]}
    [] g = "STARTED"               -> {[g |-> "STOPPED", ok |-> ok] : ok \in Ret("gsl_stop")}
    [] OTHER                       -> GslCall(g, g, "gsl_stop")

(* The object is freed whatever GSL answers; the caller keeps its pointer. *)
graph_close(g) ==
  IF g = "NULL" THEN {[g |-> g, ok |-> FALSE]}
                ELSE {[g |-> "FREED", ok |-> ok] : ok \in Ret("gsl_close")}
=============================================================================
