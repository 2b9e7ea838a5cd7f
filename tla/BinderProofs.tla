---------------------------- MODULE BinderProofs ----------------------------
(***************************************************************************)
(* What the binder servers keep for any number of clients, sessions and    *)
(* threads.                                                                *)
(*                                                                         *)
(* The server of SwBinders, when a client has one call in the server at a  *)
(* time, never closes a session under its owner, and its records are the   *)
(* sessions open.  The lock is not used: a client's own calls are one      *)
(* after another and its death is told when they are over.                 *)
(*                                                                         *)
(* The server of HwBinders, where no client dies in a call, leaves no      *)
(* callback of the dead behind; where in addition no call of a client      *)
(* overtakes another, it closes no session under its owner.                *)
(***************************************************************************)
EXTENDS SwBinderServer, HwBinderServer, ListFacts

(* A call that is between the service and the record.                      *)
Writing(c, s) ==
  \E t \in Threads : /\ thr[t].op = "open" /\ thr[t].pc # "service"
                     /\ thr[t].c = c /\ thr[t].s = s

Erasing(c, s) ==
  \E t \in Threads : /\ thr[t].op = "close" /\ thr[t].pc # "service"
                     /\ thr[t].c = c /\ thr[t].s = s

(* The tasks that a thread of this server has.                             *)
SwTask ==
  [op: {"register"}, c: Clients, s: {None}, pc: {"link", "edit"}, id: Nat, waits: BOOLEAN]
  \cup [op: {"unregister"}, c: Clients, s: {None}, pc: {"edit"}, id: Nat, waits: BOOLEAN]
  \cup [op: {"open"}, c: Clients, s: Sessions, pc: {"service", "find", "edit", "unlock"},
        id: Nat, waits: BOOLEAN]
  \cup [op: {"close"}, c: Clients, s: Sessions, pc: {"service", "find", "edit"},
        id: Nat, waits: BOOLEAN]
  \cup [op: {"died"}, c: Clients, s: {None}, pc: {"close"}, id: Nat, waits: BOOLEAN]

SwTypes ==
  /\ alive \subseteq Clients /\ owner \in [Sessions -> Clients \cup {None}]
  /\ has \in [Clients -> SUBSET Sessions]
  /\ thr \in [Threads -> SwTask \cup {Idle}]
  /\ linked \subseteq Clients /\ deaths \subseteq linked
  /\ Known \subseteq Clients
  /\ g_client_list \in [Known -> Seq(Sessions)]

(* A client has at most one call, or one notification, in the server.      *)
OneCall ==
  \A t, u \in Threads : thr[t].c = thr[u].c /\ thr[t].c # None => t = u

(* A call is one of a living client; it opens what nobody has open, and    *)
(* closes what its client has open.  A notification is of a dead one.      *)
CallFits(k) ==
  /\ k.op = "died" => k.c \notin alive
  /\ k.op \in {"register", "unregister", "open", "close"} => k.c \in alive
  /\ k.op = "open" /\ k.pc # "service" => owner[k.s] = k.c
  /\ k.op = "close" /\ k.pc = "service" => owner[k.s] = k.c
  /\ k.op = "close" /\ k.pc # "service" => owner[k.s] # k.c

(* A death is told once, of a client that has no call left; the dead have  *)
(* no handles, the living have those of their own sessions.                *)
ClientFits(c) ==
  /\ c \in deaths => c \notin alive /\ Working(c) = {}
  /\ c \notin alive => has[c] = {}
  /\ \A s \in has[c] : owner[s] = c \/ Erasing(c, s)

(* A client's record names each of its sessions once, and no other's.      *)
RecordFits(c, r) ==
  /\ IsInjective(r)
  /\ \A s \in ToSet(r) : (owner[s] = c \/ Erasing(c, s)) /\ ~Writing(c, s)

SwInv ==
  /\ SwTypes /\ OneCall
  /\ \A t \in Threads : CallFits(thr[t])
  /\ \A c \in Clients : ClientFits(c)
  /\ \A c \in Known : RecordFits(c, g_client_list[c])

(* Nothing is missing from a record.  A client is linked to before it      *)
(* opens, and is recorded anew only when it has nothing open.              *)
CompleteInv ==
  /\ \A c \in Known, s \in Sessions :
       owner[s] = c => s \in ToSet(g_client_list[c]) \/ Writing(c, s)
  /\ \A c \in alive \ linked, s \in Sessions : owner[s] # c
  /\ \A t \in Threads : thr[t].op = "register" => \A s \in Sessions : owner[s] # thr[t].c
  /\ \A t \in Threads : thr[t].op = "open" => thr[t].c \in linked
  /\ \A t \in Threads : thr[t].op = "open" /\ thr[t].pc = "unlock" => thr[t].c \notin Known

-----------------------------------------------------------------------------
(* Every step keeps the invariant.                                         *)

LEMMA SwInitInv ==
  ASSUME IpcInit, SwInit PROVE SwInv /\ CompleteInv
<1>1. Known = {} /\ g_client_list \in [Known -> Seq(Sessions)]
  BY DEF SwInit, Known
<1>2. SwTypes
  BY <1>1 DEF IpcInit, SwTypes
<1>3. \A t \in Threads : thr[t].op = "idle" /\ thr[t].c = None
  BY DEF IpcInit, Idle
<1> QED BY <1>1, <1>2, <1>3, IpcAssumption
        DEF IpcInit, SwInv, CompleteInv, OneCall, CallFits, ClientFits, Erasing, None

(* A thread takes a call of a client that has none in the server.          *)
LEMMA CallTaken ==
  ASSUME SwInv, Races \subseteq {"exit_open"},
         NEW t \in Threads, NEW c \in Clients, SwCall(t, c)
  PROVE  \E k \in SwTask :
           /\ thr[t] = Idle /\ Working(c) = {} /\ c \in alive
           /\ thr' = [thr EXCEPT ![t] = k] /\ k.c = c
           /\ k.op \in {"register", "unregister", "open", "close"}
           /\ k.op = "register" => c \notin linked
           /\ k.op = "open" => k.pc = "service" /\ c \in linked
           /\ k.op = "close" => k.pc = "service" /\ k.s \in has[c]
           /\ UNCHANGED <<alive, owner, has, linked, deaths>> /\ UNCHANGED swvars
<1> DEFINE K(op, s, pc) == [op |-> op, c |-> c, s |-> s, pc |-> pc, id |-> 0, waits |-> TRUE]
<1>1. ASSUME NEW op, NEW s, NEW pc, Begin(t, c, op, s, pc)
      PROVE  /\ thr[t] = Idle /\ Working(c) = {} /\ c \in alive
             /\ thr' = [thr EXCEPT ![t] = K(op, s, pc)]
             /\ UNCHANGED <<alive, owner, has, linked, deaths>>
  BY <1>1 DEF Begin
<1>2. \A op, s, pc : /\ K(op, s, pc).op = op /\ K(op, s, pc).s = s
                    /\ K(op, s, pc).pc = pc /\ K(op, s, pc).c = c
  OBVIOUS
<1>3. /\ K("register", None, "link") \in SwTask /\ K("unregister", None, "edit") \in SwTask
      /\ \A s \in Sessions : K("open", s, "service") \in SwTask /\ K("close", s, "service") \in SwTask
  BY DEF SwTask
<1> HIDE DEF K
<1>4. UNCHANGED swvars /\ has[c] \subseteq Sessions
  BY DEF SwCall, SwInv, SwTypes
<1>5. CASE c \notin linked /\ Begin(t, c, "register", None, "link")
  BY <1>1, <1>2, <1>3, <1>4, <1>5
<1>6. CASE Begin(t, c, "unregister", None, "edit")
  BY <1>1, <1>2, <1>3, <1>4, <1>6
<1>7. CASE \E s \in Sessions : c \in linked /\ Begin(t, c, "open", s, "service")
  BY <1>1, <1>2, <1>3, <1>4, <1>7
<1>8. CASE \E s \in has[c] : Begin(t, c, "close", s, "service")
  BY <1>1, <1>2, <1>3, <1>4, <1>8
<1> QED BY <1>5, <1>6, <1>7, <1>8 DEF SwCall

LEMMA CallInv ==
  ASSUME SwInv, Races \subseteq {"exit_open"},
         NEW t \in Threads, NEW c \in Clients, SwCall(t, c)
  PROVE  SwInv'
<1> USE DEF None
<1>1. PICK k \in SwTask :
        /\ thr[t] = Idle /\ Working(c) = {} /\ c \in alive
        /\ thr' = [thr EXCEPT ![t] = k] /\ k.c = c
        /\ k.op \in {"register", "unregister", "open", "close"}
        /\ k.op = "open" => k.pc = "service"
        /\ k.op = "close" => k.pc = "service" /\ k.s \in has[c]
        /\ UNCHANGED <<alive, owner, has, linked, deaths>> /\ UNCHANGED swvars
  BY CallTaken
<1>2. SwTypes'
  BY <1>1 DEF SwInv, SwTypes, swvars, Known
<1>3. OneCall'
  BY <1>1 DEF SwInv, SwTypes, OneCall, Working
<1>4. \A x \in Clients : \A s :
        (Writing(x, s)' <=> Writing(x, s)) /\ (Erasing(x, s)' <=> Erasing(x, s))
  BY <1>1 DEF SwInv, SwTypes, Writing, Erasing, Idle
<1>5. \A u \in Threads : CallFits(thr[u])'
  BY <1>1 DEF SwInv, SwTypes, CallFits, ClientFits, Erasing, Working
<1>6. \A x \in Clients : ClientFits(x)'
  BY <1>1, <1>4 DEF SwInv, SwTypes, ClientFits, Working
<1>7. \A x \in Known' : RecordFits(x, g_client_list[x])'
  BY <1>1, <1>4 DEF SwInv, SwTypes, RecordFits, swvars, Known, ToSet
<1> QED BY <1>2, <1>3, <1>5, <1>6, <1>7 DEF SwInv

(* The one call of a client.                                               *)
LEMMA OnlyCall ==
  ASSUME SwInv, NEW t \in Threads, thr[t].op # "idle"
  PROVE  /\ thr[t] \in SwTask /\ thr[t].c \in Clients /\ thr[t].c # None
         /\ CallFits(thr[t])
         /\ \A u \in Threads \ {t} : thr[u].c # thr[t].c
<1>1. thr[t] \in SwTask
  BY DEF SwInv, SwTypes, Idle
<1>2. thr[t].c \in Clients
  BY <1>1 DEF SwTask
<1> QED BY <1>1, <1>2, IpcAssumption DEF SwInv, OneCall, None

(* A call goes on to its next step, or returns.                            *)
LEMMA GoesOn ==
  ASSUME SwInv, NEW t \in Threads, NEW pc, thr[t] \in SwTask, Goto(t, pc),
         \/ thr[t].op = "register" /\ pc = "edit"
         \/ thr[t].op = "open" /\ pc \in {"find", "edit", "unlock"}
         \/ thr[t].op = "close" /\ pc \in {"find", "edit"}
  PROVE  \E k \in SwTask : /\ thr' = [thr EXCEPT ![t] = k] /\ k.op = thr[t].op
                           /\ k.c = thr[t].c /\ k.s = thr[t].s /\ k.pc = pc
<1> DEFINE k == [thr[t] EXCEPT !.pc = pc]
<1>1. k \in SwTask /\ k.op = thr[t].op /\ k.c = thr[t].c /\ k.s = thr[t].s /\ k.pc = pc
  BY DEF SwTask
<1>2. thr' = [thr EXCEPT ![t] = k]
  BY DEF Goto
<1> QED BY <1>1, <1>2

LEMMA Returns ==
  ASSUME NEW t \in Threads, Done(t)
  PROVE  thr' = [thr EXCEPT ![t] = Idle] /\ Idle.op = "idle" /\ Idle.c = None
  BY DEF Done, Idle

LEMMA OneCallKept ==
  ASSUME SwInv, NEW t \in Threads, NEW k, thr' = [thr EXCEPT ![t] = k],
         k.c = None \/ k.c = thr[t].c
  PROVE  OneCall'
  BY DEF SwInv, SwTypes, OneCall

LEMMA RegisterInv ==
  ASSUME SwInv, NEW t \in Threads, agm_register_client(t)
  PROVE  SwInv'
<1> USE DEF None
<1> DEFINE c == thr[t].c
<1>0. /\ thr[t] \in SwTask /\ c \in Clients /\ c \in alive /\ thr[t].op = "register"
      /\ CallFits(thr[t]) /\ \A u \in Threads \ {t} : thr[u].c # c
  BY OnlyCall DEF agm_register_client, At, CallFits
<1>1. PICK k \in SwTask \cup {Idle} :
        /\ thr' = [thr EXCEPT ![t] = k]
        /\ k.op = "register" => k.c = c
        /\ k.op # "register" => k.op = "idle" /\ k.c = None
  <2>1. CASE Goto(t, "edit")
    BY <1>0, <2>1, GoesOn
  <2>2. CASE Done(t)
    BY <2>2, Returns
  <2> QED BY <2>1, <2>2 DEF agm_register_client
<1>2. /\ UNCHANGED <<alive, owner, has, deaths>>
      /\ linked' \in {linked, linked \cup {c}}
      /\ \/ UNCHANGED g_client_list
         \/ g_client_list' = [x \in Known \cup {c} |-> IF x = c THEN <<>> ELSE g_client_list[x]]
  BY DEF agm_register_client, swvars
<1>3. SwTypes'
  <2>1. Known' \subseteq Clients /\ g_client_list' \in [Known' -> Seq(Sessions)]
    <3>1. CASE UNCHANGED g_client_list
      BY <3>1 DEF SwInv, SwTypes, Known
    <3>2. CASE g_client_list' = [x \in Known \cup {c} |-> IF x = c THEN <<>> ELSE g_client_list[x]]
      <4>1. Known' = Known \cup {c}
        BY <3>2 DEF Known
      <4> QED BY <1>0, <3>2, <4>1 DEF SwInv, SwTypes
    <3> QED BY <1>2, <3>1, <3>2
  <2> QED BY <1>0, <1>1, <1>2, <2>1 DEF SwInv, SwTypes
<1> HIDE DEF c
<1>4. OneCall'
  BY <1>0, <1>1, OneCallKept DEF c
<1>5. \A x \in Clients : \A s :
        (Writing(x, s)' <=> Writing(x, s)) /\ (Erasing(x, s)' <=> Erasing(x, s))
  BY <1>0, <1>1 DEF SwInv, SwTypes, Writing, Erasing
<1>6. \A u \in Threads : CallFits(thr[u])'
  BY <1>0, <1>1, <1>2 DEF SwInv, SwTypes, CallFits
<1>7. \A x \in Clients : ClientFits(x)'
  BY <1>0, <1>1, <1>2, <1>5, IpcAssumption DEF SwInv, SwTypes, ClientFits, Working
<1>8. \A x \in Known' : RecordFits(x, g_client_list[x])'
  <2>1. CASE UNCHANGED g_client_list
    BY <1>2, <1>5, <2>1 DEF SwInv, SwTypes, RecordFits, Known
  <2>2. CASE g_client_list' = [x \in Known \cup {c} |-> IF x = c THEN <<>> ELSE g_client_list[x]]
    <3>1. /\ Known' = Known \cup {c} /\ g_client_list'[c] = <<>>
          /\ \A x \in Known \ {c} : g_client_list'[x] = g_client_list[x]
      BY <2>2 DEF Known
    <3> QED BY <1>0, <1>2, <1>5, <3>1, NoElems DEF SwInv, SwTypes, RecordFits
  <2> QED BY <1>2, <2>1, <2>2
<1> QED BY <1>3, <1>4, <1>6, <1>7, <1>8 DEF SwInv

LEMMA UnregisterInv ==
  ASSUME SwInv, NEW t \in Threads, agm_unregister_client(t)
  PROVE  SwInv'
<1> USE DEF None
<1> DEFINE c == thr[t].c
<1>0. /\ thr[t] \in SwTask /\ c \in Clients /\ c \in alive /\ thr[t].op = "unregister"
      /\ CallFits(thr[t]) /\ \A u \in Threads \ {t} : thr[u].c # c
  BY OnlyCall DEF agm_unregister_client, At, CallFits
<1>1. thr' = [thr EXCEPT ![t] = Idle] /\ Idle.op = "idle" /\ Idle.c = None
  BY Returns DEF agm_unregister_client
<1>2. /\ linked' = linked \ {c} /\ deaths' = deaths \ {c} /\ alive' = alive \ {c}
      /\ has' = [has EXCEPT ![c] = {}] /\ owner' = owner
      /\ Known' = Known \ {c} /\ g_client_list' = [k \in Known \ {c} |-> g_client_list[k]]
  BY DEF agm_unregister_client, Forget, Known
<1> HIDE DEF c
<1>3. SwTypes'
  BY <1>0, <1>1, <1>2 DEF SwInv, SwTypes
<1>4. OneCall'
  BY <1>0, <1>1, OneCallKept
<1>5. \A x \in Clients : \A s :
        (Writing(x, s)' <=> Writing(x, s)) /\ (Erasing(x, s)' <=> Erasing(x, s))
  BY <1>0, <1>1 DEF SwInv, SwTypes, Writing, Erasing
<1>6. \A u \in Threads : CallFits(thr[u])'
  BY <1>0, <1>1, <1>2 DEF SwInv, SwTypes, CallFits
<1>7. \A x \in Clients : ClientFits(x)'
  BY <1>0, <1>1, <1>2, <1>5, IpcAssumption DEF SwInv, SwTypes, ClientFits, Working
<1>8. \A x \in Known' : RecordFits(x, g_client_list[x])'
  BY <1>0, <1>2, <1>5 DEF SwInv, SwTypes, RecordFits
<1> QED BY <1>3, <1>4, <1>6, <1>7, <1>8 DEF SwInv

LEMMA OpenInv ==
  ASSUME SwInv, NEW t \in Threads, ipc_agm_session_open(t)
  PROVE  SwInv'
<1> USE DEF None
<1> DEFINE c == thr[t].c
           s == thr[t].s
<1>0. /\ thr[t] \in SwTask /\ c \in Clients /\ c \in alive /\ thr[t].op = "open"
      /\ thr[t].pc = "service" /\ s \in Sessions
      /\ CallFits(thr[t]) /\ \A u \in Threads \ {t} : thr[u].c # c
  <2>1. thr[t].op = "open" /\ thr[t].pc = "service"
    BY DEF ipc_agm_session_open, At
  <2>2. thr[t] \in SwTask => thr[t].s \in Sessions
    BY <2>1 DEF SwTask
  <2> QED BY <2>1, <2>2, OnlyCall DEF CallFits
<1>1. UNCHANGED <<alive, has, linked, deaths, g_client_list, Known>>
  BY DEF ipc_agm_session_open, swvars, Known
<1>2. CASE Done(t) /\ UNCHANGED owner
  <2>1. thr' = [thr EXCEPT ![t] = Idle] /\ Idle.op = "idle" /\ Idle.c = None
    BY <1>2, Returns
  <2> HIDE DEF c, s
  <2>2. SwTypes'
    BY <1>1, <1>2, <2>1 DEF SwInv, SwTypes
  <2>3. OneCall'
    BY <2>1, OneCallKept
  <2>4. \A x \in Clients : \A y :
          (Writing(x, y)' <=> Writing(x, y)) /\ (Erasing(x, y)' <=> Erasing(x, y))
    BY <1>0, <2>1 DEF SwInv, SwTypes, Writing, Erasing
  <2>5. \A u \in Threads : CallFits(thr[u])'
    BY <1>0, <1>1, <1>2, <2>1 DEF SwInv, SwTypes, CallFits
  <2>6. \A x \in Clients : ClientFits(x)'
    BY <1>0, <1>1, <1>2, <2>1, <2>4, IpcAssumption DEF SwInv, SwTypes, ClientFits, Working
  <2>7. \A x \in Known' : RecordFits(x, g_client_list[x])'
    BY <1>1, <1>2, <2>4 DEF SwInv, SwTypes, RecordFits
  <2> QED BY <2>2, <2>3, <2>5, <2>6, <2>7 DEF SwInv
<1>3. CASE agm_session_open(c, s) /\ Goto(t, "find")
  <2>1. PICK k \in SwTask : /\ thr' = [thr EXCEPT ![t] = k] /\ k.op = "open"
                            /\ k.c = c /\ k.s = s /\ k.pc = "find"
    BY <1>0, <1>3, GoesOn
  <2>2. owner[s] = None /\ owner' = [owner EXCEPT ![s] = c]
    BY <1>3 DEF agm_session_open
  <2>3. OneCall'
    BY <2>1, OneCallKept
  <2> HIDE DEF c, s
  <2>4. SwTypes'
    BY <1>0, <1>1, <2>1, <2>2 DEF SwInv, SwTypes
  <2>5. \A x \in Clients : \A y : /\ Writing(x, y)' => Writing(x, y) \/ (x = c /\ y = s)
                                  /\ Erasing(x, y)' <=> Erasing(x, y)
    BY <1>0, <2>1 DEF SwInv, SwTypes, Writing, Erasing
  <2>6. \A y : ~Erasing(c, y)
    BY <1>0 DEF Erasing, c
  <2>7. \A u \in Threads : CallFits(thr[u])'
    BY <1>0, <1>1, <2>1, <2>2, IpcAssumption DEF SwInv, SwTypes, CallFits, SwTask, Idle
  <2>8. \A x \in Clients : ClientFits(x)'
    BY <1>0, <1>1, <2>1, <2>2, <2>5, IpcAssumption DEF SwInv, SwTypes, ClientFits, Working
  <2>9. \A x \in Known' : RecordFits(x, g_client_list[x])'
    <3>1. SUFFICES ASSUME NEW x \in Known, NEW y \in ToSet(g_client_list[x])
                   PROVE  (owner'[y] = x \/ Erasing(x, y)) /\ ~Writing(x, y)'
      BY <1>1, <2>5 DEF SwInv, SwTypes, RecordFits
    <3>2. x \in Clients /\ x # None /\ y \in Sessions
          /\ (owner[y] = x \/ Erasing(x, y)) /\ ~Writing(x, y)
      BY IpcAssumption DEF SwInv, SwTypes, RecordFits, ToSet
    <3> QED BY <2>2, <2>5, <2>6, <3>2 DEF SwInv, SwTypes
  <2> QED BY <2>3, <2>4, <2>7, <2>8, <2>9 DEF SwInv
<1> QED BY <1>2, <1>3 DEF ipc_agm_session_open

LEMMA CloseInv ==
  ASSUME SwInv, NEW t \in Threads, ipc_agm_session_close(t)
  PROVE  SwInv'
<1> USE DEF None
<1> DEFINE c == thr[t].c
           s == thr[t].s
<1>0. /\ thr[t] \in SwTask /\ c \in Clients /\ c \in alive /\ thr[t].op = "close"
      /\ thr[t].pc = "service" /\ s \in Sessions /\ owner[s] = c
      /\ \A u \in Threads \ {t} : thr[u].c # c
  <2>1. thr[t].op = "close" /\ thr[t].pc = "service"
    BY DEF ipc_agm_session_close, At
  <2>2. thr[t] \in SwTask => thr[t].s \in Sessions
    BY <2>1 DEF SwTask
  <2> QED BY <2>1, <2>2, OnlyCall DEF CallFits
<1>1. UNCHANGED <<alive, has, linked, deaths, g_client_list, Known>>
  BY DEF ipc_agm_session_close, swvars, Known
<1>2. PICK k \in SwTask : /\ thr' = [thr EXCEPT ![t] = k] /\ k.op = "close"
                          /\ k.c = c /\ k.s = s /\ k.pc = "find"
  BY <1>0, GoesOn DEF ipc_agm_session_close
<1>3. owner' = [owner EXCEPT ![s] = None]
  BY DEF ipc_agm_session_close, agm_session_close
<1>4. OneCall'
  BY <1>2, OneCallKept
<1> HIDE DEF c, s
<1>5. SwTypes'
  BY <1>0, <1>1, <1>2, <1>3 DEF SwInv, SwTypes
<1>6. \A x \in Clients : \A y : /\ Writing(x, y)' <=> Writing(x, y)
                                /\ Erasing(x, y)' <=> Erasing(x, y) \/ (x = c /\ y = s)
  BY <1>0, <1>2 DEF SwInv, SwTypes, Writing, Erasing
<1>7. \A u \in Threads : CallFits(thr[u])'
  BY <1>0, <1>1, <1>2, <1>3, IpcAssumption DEF SwInv, SwTypes, CallFits, SwTask, Idle
<1>8. \A x \in Clients : ClientFits(x)'
  BY <1>0, <1>1, <1>2, <1>3, <1>6, IpcAssumption DEF SwInv, SwTypes, ClientFits, Working
<1>9. \A x \in Known' : RecordFits(x, g_client_list[x])'
  <2>1. SUFFICES ASSUME NEW x \in Known, NEW y \in ToSet(g_client_list[x])
                 PROVE  (owner'[y] = x \/ Erasing(x, y)') /\ ~Writing(x, y)
    BY <1>1, <1>6 DEF SwInv, SwTypes, RecordFits
  <2>2. x \in Clients /\ y \in Sessions /\ (owner[y] = x \/ Erasing(x, y)) /\ ~Writing(x, y)
    BY DEF SwInv, SwTypes, RecordFits, ToSet
  <2> QED BY <1>0, <1>3, <1>6, <2>2 DEF SwInv, SwTypes
<1> QED BY <1>4, <1>5, <1>7, <1>8, <1>9 DEF SwInv

(* A call past the service: its client has no other.                       *)
LEMMA PastService ==
  ASSUME SwInv, NEW t \in Threads,
         thr[t].op \in {"open", "close"}, thr[t].pc # "service"
  PROVE  /\ thr[t] \in SwTask /\ thr[t].c \in Clients /\ thr[t].c \in alive
         /\ thr[t].s \in Sessions
         /\ thr[t].op = "open" => owner[thr[t].s] = thr[t].c
         /\ thr[t].op = "close" => owner[thr[t].s] # thr[t].c
         /\ \A u \in Threads \ {t} : thr[u].c # thr[t].c
<1>1. thr[t] \in SwTask => thr[t].s \in Sessions
  BY DEF SwTask
<1> QED BY <1>1, OnlyCall DEF CallFits

(* The reply to an open or a close, with the record it leaves: at most the *)
(* session opened is new to it, and the one closed is not in it.           *)
LEMMA ReplyInv ==
  ASSUME SwInv, NEW t \in Threads, Replies(t),
         thr[t].op \in {"open", "close"}, thr[t].pc # "service",
         UNCHANGED <<alive, owner, linked, deaths, Known>>,
         g_client_list' \in [Known -> Seq(Sessions)],
         \A x \in Known \ {thr[t].c} : g_client_list'[x] = g_client_list[x],
         thr[t].c \in Known =>
           /\ IsInjective(g_client_list'[thr[t].c])
           /\ ToSet(g_client_list'[thr[t].c]) \subseteq
                IF thr[t].op = "open" THEN ToSet(g_client_list[thr[t].c]) \cup {thr[t].s}
                ELSE ToSet(g_client_list[thr[t].c]) \ {thr[t].s}
  PROVE  SwInv'
<1> USE DEF None
<1>c. PICK c, s : c = thr[t].c /\ s = thr[t].s
  OBVIOUS
<1>0. /\ thr[t] \in SwTask /\ c \in Clients /\ c \in alive /\ s \in Sessions
      /\ thr[t].op = "open" => owner[s] = c
      /\ thr[t].op = "close" => owner[s] # c
      /\ \A u \in Threads \ {t} : thr[u].c # c
  BY <1>c, PastService
<1>1. thr' = [thr EXCEPT ![t] = Idle] /\ Idle.op = "idle" /\ Idle.c = None
  BY Returns DEF Replies
<1>2. has' = [has EXCEPT ![c] = IF thr[t].op = "open" THEN has[c] \cup {s} ELSE has[c] \ {s}]
  BY <1>c, <1>0 DEF Replies, Given, SwInv, SwTypes
<1>3. OneCall'
  BY <1>1, OneCallKept
<1>4. \A y : /\ Erasing(c, y) => thr[t].op = "close" /\ y = s
             /\ ~Writing(c, y)' /\ ~Erasing(c, y)'
  BY <1>c, <1>0, <1>1, IpcAssumption DEF SwInv, SwTypes, Writing, Erasing
<1>5. \A x \in Clients \ {c} : \A y :
        (Writing(x, y)' <=> Writing(x, y)) /\ (Erasing(x, y)' <=> Erasing(x, y))
  BY <1>c, <1>0, <1>1 DEF SwInv, SwTypes, Writing, Erasing
<1>6. SwTypes'
  BY <1>0, <1>1, <1>2 DEF SwInv, SwTypes
<1>7. \A u \in Threads : CallFits(thr[u])'
  BY <1>0, <1>1 DEF SwInv, SwTypes, CallFits
<1>8. \A x \in Clients : ClientFits(x)'
  <2>1. ASSUME NEW x \in Clients \ {c} PROVE ClientFits(x)'
    BY <1>0, <1>1, <1>2, <1>5, IpcAssumption DEF SwInv, SwTypes, ClientFits, Working
  <2>2. ClientFits(c)'
    BY <1>0, <1>1, <1>2, <1>4, IpcAssumption DEF SwInv, SwTypes, ClientFits, Working
  <2> QED BY <2>1, <2>2
<1>9. \A x \in Known' : RecordFits(x, g_client_list[x])'
  <2>1. ASSUME NEW x \in Known \ {c} PROVE RecordFits(x, g_client_list[x])'
    BY <1>c, <1>0, <1>5 DEF SwInv, SwTypes, RecordFits
  <2>2. ASSUME c \in Known PROVE RecordFits(c, g_client_list[c])'
    <3>1. \A y \in ToSet(g_client_list[c]) : owner[y] = c \/ (thr[t].op = "close" /\ y = s)
      BY <1>4, <2>2 DEF SwInv, RecordFits
    <3>2. IsInjective(g_client_list'[c])
          /\ \A y \in ToSet(g_client_list'[c]) : owner[y] = c
      BY <1>c, <1>0, <2>2, <3>1
    <3> QED BY <1>0, <1>4, <3>2 DEF RecordFits
  <2> QED BY <2>1, <2>2
<1> QED BY <1>3, <1>6, <1>7, <1>8, <1>9 DEF SwInv

LEMMA FindInv ==
  ASSUME SwInv, NEW t \in Threads, get_client_handle_from_list(t)
  PROVE  SwInv'
<1> USE DEF None
<1> DEFINE c == thr[t].c
           s == thr[t].s
<1>0. /\ thr[t] \in SwTask /\ c \in Clients /\ c \in alive /\ s \in Sessions
      /\ thr[t].op \in {"open", "close"} /\ thr[t].pc # "service"
      /\ thr[t].op = "open" => owner[s] = c
      /\ thr[t].op = "close" => owner[s] # c
      /\ \A u \in Threads \ {t} : thr[u].c # c
  BY PastService DEF get_client_handle_from_list
<1>1. UNCHANGED <<alive, owner, linked, deaths, g_client_list, Known>>
  BY DEF get_client_handle_from_list, swvars, Known
<1>2. CASE Replies(t) /\ thr[t].op = "close" /\ c \notin Known
  BY <1>0, <1>1, <1>2, ReplyInv DEF SwInv, SwTypes
<1>3. CASE UNCHANGED has /\ (Goto(t, "edit") \/ (thr[t].op = "open" /\ Goto(t, "unlock")))
  <2>1. PICK k \in SwTask : /\ thr' = [thr EXCEPT ![t] = k] /\ k.op = thr[t].op
                            /\ k.c = c /\ k.s = s /\ k.pc # "service"
    BY <1>0, <1>3, GoesOn
  <2>2. OneCall'
    BY <2>1, OneCallKept
  <2>3. \A x \in Clients : \A y :
          (Writing(x, y)' <=> Writing(x, y)) /\ (Erasing(x, y)' <=> Erasing(x, y))
    BY <1>0, <2>1 DEF SwInv, SwTypes, Writing, Erasing
  <2> HIDE DEF c, s
  <2>4. SwTypes'
    BY <1>0, <1>1, <1>3, <2>1 DEF SwInv, SwTypes
  <2>5. \A u \in Threads : CallFits(thr[u])'
    BY <1>0, <1>1, <2>1 DEF SwInv, SwTypes, CallFits
  <2>6. \A x \in Clients : ClientFits(x)'
    BY <1>0, <1>1, <1>3, <2>1, <2>3 DEF SwInv, SwTypes, ClientFits, Working
  <2>7. \A x \in Known' : RecordFits(x, g_client_list[x])'
    BY <1>1, <2>3 DEF SwInv, SwTypes, RecordFits
  <2> QED BY <2>2, <2>4, <2>5, <2>6, <2>7 DEF SwInv
<1> QED BY <1>0, <1>2, <1>3 DEF get_client_handle_from_list

(* The three replies that come after the record was looked up.             *)
LEMMA RecordInv ==
  ASSUME SwInv, NEW t \in Threads,
         UnlockUnknown(t) \/ agm_add_session_obj_handle(t) \/ agm_remove_session_obj_handle(t)
  PROVE  SwInv'
<1> DEFINE c == thr[t].c
           s == thr[t].s
<1>0. /\ thr[t].op \in {"open", "close"} /\ thr[t].pc # "service"
      /\ Replies(t) /\ UNCHANGED <<alive, owner, linked, deaths>>
  BY DEF UnlockUnknown, agm_add_session_obj_handle, agm_remove_session_obj_handle, At
<1>1. /\ c \in Clients /\ s \in Sessions
      /\ thr[t].op = "open" => owner[s] = c
      /\ \A u \in Threads \ {t} : thr[u].c # c
  BY <1>0, PastService
<1>2. g_client_list \in [Known -> Seq(Sessions)]
      /\ \A x \in Known : IsInjective(g_client_list[x]) /\ \A y \in ToSet(g_client_list[x]) : ~Writing(x, y)
  BY DEF SwInv, SwTypes, RecordFits
<1>3. CASE UnlockUnknown(t)
  <2>1. g_client_list' = g_client_list /\ Known' = Known /\ thr[t].op = "open"
    BY <1>3 DEF UnlockUnknown, Known, At
  <2> QED BY <1>0, <1>2, <2>1, ReplyInv
<1>4. CASE agm_add_session_obj_handle(t)
  <2>0. thr[t].op = "open"
    BY <1>4 DEF agm_add_session_obj_handle, At
  <2>1. CASE g_client_list' = g_client_list
    <3>1. Known' = Known
      BY <2>1 DEF Known
    <3> QED BY <1>0, <1>2, <2>0, <2>1, <3>1, ReplyInv
  <2>2. CASE c \in Known /\ g_client_list' = [g_client_list EXCEPT ![c] = Append(@, s)]
    <3>1. s \notin ToSet(g_client_list[c])
      BY <1>0, <1>2, <2>0, <2>2 DEF Writing
    <3>2. /\ IsInjective(Append(g_client_list[c], s)) /\ Append(g_client_list[c], s) \in Seq(Sessions)
          /\ ToSet(Append(g_client_list[c], s)) = ToSet(g_client_list[c]) \cup {s}
      BY <1>1, <1>2, <2>2, <3>1, AppendElems
    <3> HIDE DEF c, s
    <3>3. /\ Known' = Known /\ g_client_list' \in [Known -> Seq(Sessions)]
          /\ g_client_list'[c] = Append(g_client_list[c], s)
          /\ \A x \in Known \ {c} : g_client_list'[x] = g_client_list[x]
      BY <1>2, <2>2, <3>2 DEF Known
    <3> QED BY <1>0, <2>0, <3>2, <3>3, ReplyInv DEF c, s
  <2> QED BY <1>4, <2>1, <2>2 DEF agm_add_session_obj_handle
<1>5. CASE agm_remove_session_obj_handle(t)
  <2>0. thr[t].op = "close"
    BY <1>5 DEF agm_remove_session_obj_handle, At
  <2>1. CASE c \notin Known /\ g_client_list' = g_client_list
    <3>1. Known' = Known
      BY <2>1 DEF Known
    <3> QED BY <1>0, <1>2, <2>0, <2>1, <3>1, ReplyInv
  <2>2. CASE c \in Known /\ g_client_list' = [g_client_list EXCEPT ![c] = RemoveFirst(@, s)]
    <3>1. /\ IsInjective(RemoveFirst(g_client_list[c], s)) /\ RemoveFirst(g_client_list[c], s) \in Seq(Sessions)
          /\ ToSet(RemoveFirst(g_client_list[c], s)) = ToSet(g_client_list[c]) \ {s}
      BY <1>1, <1>2, <2>2, RemoveElems
    <3> HIDE DEF c, s
    <3>2. /\ Known' = Known /\ g_client_list' \in [Known -> Seq(Sessions)]
          /\ g_client_list'[c] = RemoveFirst(g_client_list[c], s)
          /\ \A x \in Known \ {c} : g_client_list'[x] = g_client_list[x]
      BY <1>2, <2>2, <3>1 DEF Known
    <3> QED BY <1>0, <2>0, <3>1, <3>2, ReplyInv DEF c, s
  <2> QED BY <1>5, <2>1, <2>2 DEF agm_remove_session_obj_handle
<1> QED BY <1>3, <1>4, <1>5

(* The notifier takes a death, of a client that has no call left.          *)
LEMMA ToldInv ==
  ASSUME SwInv, NEW t \in Threads, NEW c \in Clients, binderDied(t, c)
  PROVE  SwInv'
<1> USE DEF None
<1>1. PICK k \in SwTask :
        /\ thr' = [thr EXCEPT ![t] = k] /\ k.op = "died" /\ k.c = c /\ thr[t] = Idle
  <2> DEFINE k == [op |-> "died", c |-> c, s |-> None, pc |-> "close", id |-> 0, waits |-> FALSE]
  <2>1. k \in SwTask /\ k.op = "died" /\ k.c = c
    BY DEF SwTask
  <2>2. thr' = [thr EXCEPT ![t] = k] /\ thr[t] = Idle
    BY DEF binderDied
  <2> QED BY <2>1, <2>2
<1>2. /\ c \in deaths /\ deaths' = deaths \ {c}
      /\ UNCHANGED <<alive, owner, has, linked, g_client_list, Known>>
  BY DEF binderDied, Known
<1>3. c \notin alive /\ Working(c) = {}
  BY <1>2 DEF SwInv, ClientFits
<1>4. SwTypes'
  BY <1>1, <1>2 DEF SwInv, SwTypes
<1>5. OneCall'
  BY <1>1, <1>3 DEF SwInv, SwTypes, OneCall, Working
<1>6. \A x \in Clients : \A s :
        (Writing(x, s)' <=> Writing(x, s)) /\ (Erasing(x, s)' <=> Erasing(x, s))
  BY <1>1 DEF SwInv, SwTypes, Writing, Erasing, Idle
<1>7. \A u \in Threads : CallFits(thr[u])'
  BY <1>1, <1>2, <1>3 DEF SwInv, SwTypes, CallFits
<1>8. \A x \in Clients : ClientFits(x)'
  BY <1>1, <1>2, <1>6 DEF SwInv, SwTypes, ClientFits, Working
<1>9. \A x \in Known' : RecordFits(x, g_client_list[x])'
  BY <1>2, <1>6 DEF SwInv, SwTypes, RecordFits
<1> QED BY <1>4, <1>5, <1>7, <1>8, <1>9 DEF SwInv

(* What the notifier finds: the client is dead and nobody works for it, so *)
(* every handle recorded for it is that of a session it still owns.        *)
LEMMA NotifierFinds ==
  ASSUME SwInv, NEW t \in Threads, thr[t].op = "died"
  PROVE  /\ thr[t] \in SwTask /\ thr[t].c \in Clients \ alive
         /\ \A u \in Threads \ {t} : thr[u].c # thr[t].c
         /\ thr[t].c \in Known =>
              \A s \in ToSet(g_client_list[thr[t].c]) : owner[s] = thr[t].c /\ s \in Sessions
<1>1. /\ thr[t] \in SwTask /\ thr[t].c \in Clients \ alive
      /\ \A u \in Threads \ {t} : thr[u].c # thr[t].c
  BY OnlyCall DEF CallFits
<1>2. \A s : ~Erasing(thr[t].c, s)
  BY <1>1 DEF Erasing
<1>3. ASSUME NEW x \in Known, NEW s \in ToSet(g_client_list[x]) PROVE s \in Sessions
  BY DEF SwInv, SwTypes, ToSet
<1> QED BY <1>1, <1>2, <1>3 DEF SwInv, RecordFits

LEMMA NotifierInv ==
  ASSUME SwInv, NEW t \in Threads, binderDied_closes(t)
  PROVE  SwInv'
<1> USE DEF None
<1>c. PICK c : c = thr[t].c
  OBVIOUS
<1>0. /\ thr[t] \in SwTask /\ c \in Clients \ alive /\ thr[t].op = "died"
      /\ \A u \in Threads \ {t} : thr[u].c # c
      /\ c \in Known => \A s \in ToSet(g_client_list[c]) : owner[s] = c /\ s \in Sessions
  BY <1>c, NotifierFinds DEF binderDied_closes, At
<1>1. UNCHANGED <<alive, has, linked, deaths>> /\ has[c] = {}
  BY <1>0 DEF binderDied_closes, SwInv, ClientFits
<1>2. CASE c \in Known /\ g_client_list[c] # <<>>
  <2>1. PICK s : s = Head(g_client_list[c])
    OBVIOUS
  <2>2. /\ owner' = [owner EXCEPT ![s] = None]
        /\ g_client_list' = [g_client_list EXCEPT ![c] = Tail(@)] /\ thr' = thr
    BY <1>c, <1>2, <2>1 DEF binderDied_closes, agm_session_close
  <2>3. g_client_list \in [Known -> Seq(Sessions)]
        /\ \A x \in Known : IsInjective(g_client_list[x])
    BY DEF SwInv, SwTypes, RecordFits
  <2>4. /\ IsInjective(Tail(g_client_list[c])) /\ Tail(g_client_list[c]) \in Seq(Sessions)
        /\ s \in ToSet(g_client_list[c])
        /\ ToSet(Tail(g_client_list[c])) = ToSet(g_client_list[c]) \ {s}
    BY <1>2, <2>1, <2>3, TailElems
  <2>5. owner[s] = c /\ s \in Sessions
    BY <1>0, <1>2, <2>4
  <2>6. /\ Known' = Known /\ g_client_list' \in [Known -> Seq(Sessions)]
        /\ g_client_list'[c] = Tail(g_client_list[c])
        /\ \A x \in Known \ {c} : g_client_list'[x] = g_client_list[x]
    BY <1>2, <2>2, <2>3, <2>4 DEF Known
  <2>7. SwTypes'
    BY <1>1, <2>2, <2>6 DEF SwInv, SwTypes
  <2>8. OneCall'
    BY <2>2 DEF SwInv, OneCall
  <2>9. \A x, y : (Writing(x, y)' <=> Writing(x, y)) /\ (Erasing(x, y)' <=> Erasing(x, y))
    BY <2>2 DEF Writing, Erasing
  <2>10. \A u \in Threads : CallFits(thr[u])'
    <3>1. \A u \in Threads : thr[u].op \in {"open", "close"} =>
            thr[u].c \in Clients /\ thr[u].c # c /\ thr[u].s \in Sessions
      BY <1>0 DEF SwInv, SwTypes, SwTask, Idle
    <3> QED BY <1>0, <1>1, <2>2, <2>5, <3>1, IpcAssumption DEF SwInv, SwTypes, CallFits
  <2>11. \A x \in Clients : ClientFits(x)'
    BY <1>1, <2>2, <2>5, <2>9 DEF SwInv, SwTypes, ClientFits, Working
  <2>12. \A x \in Known' : RecordFits(x, g_client_list[x])'
    <3>1. ASSUME NEW x \in Known \ {c} PROVE RecordFits(x, g_client_list[x])'
      <4>1. \A y \in ToSet(g_client_list[x]) : y \in Sessions
        BY <2>3 DEF ToSet
      <4> QED BY <2>2, <2>5, <2>6, <2>9, <4>1 DEF SwInv, SwTypes, RecordFits
    <3>2. RecordFits(c, g_client_list[c])'
      BY <1>0, <1>2, <2>2, <2>4, <2>6, <2>9 DEF SwInv, SwTypes, RecordFits
    <3> QED BY <2>6, <3>1, <3>2
  <2> QED BY <2>7, <2>8, <2>10, <2>11, <2>12 DEF SwInv
<1>3. CASE ~(c \in Known /\ g_client_list[c] # <<>>)
  <2>1. /\ thr' = [thr EXCEPT ![t] = Idle] /\ Idle.op = "idle" /\ Idle.c = None
        /\ owner' = owner /\ g_client_list' = [k \in Known \ {c} |-> g_client_list[k]]
    BY <1>c, <1>3, Returns DEF binderDied_closes, Forget
  <2>2. Known' = Known \ {c}
    BY <2>1 DEF Known
  <2>3. SwTypes'
    BY <1>1, <2>1, <2>2 DEF SwInv, SwTypes
  <2>4. OneCall'
    BY <2>1, OneCallKept
  <2>5. \A x \in Clients : \A y :
          (Writing(x, y)' <=> Writing(x, y)) /\ (Erasing(x, y)' <=> Erasing(x, y))
    BY <1>0, <2>1 DEF SwInv, SwTypes, Writing, Erasing
  <2>6. \A u \in Threads : CallFits(thr[u])'
    BY <1>0, <1>1, <2>1 DEF SwInv, SwTypes, CallFits
  <2>7. \A x \in Clients : ClientFits(x)'
    BY <1>0, <1>1, <2>1, <2>5, IpcAssumption DEF SwInv, SwTypes, ClientFits, Working
  <2>8. \A x \in Known' : RecordFits(x, g_client_list[x])'
    BY <2>1, <2>2, <2>5 DEF SwInv, SwTypes, RecordFits
  <2> QED BY <2>3, <2>4, <2>6, <2>7, <2>8 DEF SwInv
<1> QED BY <1>2, <1>3

LEMMA DieInv ==
  ASSUME SwInv, Races \subseteq {"exit_open"}, NEW c \in Clients, Die(c), UNCHANGED swvars
  PROVE  SwInv'
<1> USE DEF None
<1>1. /\ Working(c) = {} /\ c \in alive /\ alive' = alive \ {c}
      /\ has' = [has EXCEPT ![c] = {}] /\ deaths' = deaths \cup ({c} \cap linked)
      /\ UNCHANGED <<owner, thr, linked, g_client_list, Known>>
  BY DEF Die, swvars, Known
<1>2. SwTypes'
  BY <1>1 DEF SwInv, SwTypes
<1>3. OneCall'
  BY <1>1 DEF SwInv, OneCall
<1>4. \A x, y : (Writing(x, y)' <=> Writing(x, y)) /\ (Erasing(x, y)' <=> Erasing(x, y))
  BY <1>1 DEF Writing, Erasing
<1>5. \A u \in Threads : CallFits(thr[u])'
  BY <1>1 DEF SwInv, SwTypes, CallFits, Working
<1>6. \A x \in Clients : ClientFits(x)'
  BY <1>1, <1>4 DEF SwInv, SwTypes, ClientFits, Working
<1>7. \A x \in Known' : RecordFits(x, g_client_list[x])'
  BY <1>1, <1>4 DEF SwInv, SwTypes, RecordFits
<1> QED BY <1>2, <1>3, <1>5, <1>6, <1>7 DEF SwInv

LEMMA RebornInv ==
  ASSUME SwInv, NEW c \in Clients, Reborn(c), UNCHANGED swvars
  PROVE  SwInv'
<1> USE DEF None
<1>1. /\ Working(c) = {} /\ c \notin deaths /\ alive' = alive \cup {c} /\ linked' = linked \ {c}
      /\ UNCHANGED <<owner, has, thr, deaths, g_client_list, Known>>
  BY DEF Reborn, swvars, Known
<1>2. SwTypes'
  BY <1>1 DEF SwInv, SwTypes
<1>3. OneCall'
  BY <1>1 DEF SwInv, OneCall
<1>4. \A x, y : (Writing(x, y)' <=> Writing(x, y)) /\ (Erasing(x, y)' <=> Erasing(x, y))
  BY <1>1 DEF Writing, Erasing
<1>5. \A u \in Threads : CallFits(thr[u])'
  BY <1>1 DEF SwInv, SwTypes, CallFits, Working
<1>6. \A x \in Clients : ClientFits(x)'
  BY <1>1, <1>4 DEF SwInv, SwTypes, ClientFits, Working
<1>7. \A x \in Known' : RecordFits(x, g_client_list[x])'
  BY <1>1, <1>4 DEF SwInv, SwTypes, RecordFits
<1> QED BY <1>2, <1>3, <1>5, <1>6, <1>7 DEF SwInv

LEMMA SwStepInv ==
  ASSUME SwInv, Races \subseteq {"exit_open"}, [SwNext]_<<cvars, swvars>>
  PROVE  SwInv'
<1>1. CASE \E t \in Threads, c \in Clients : SwCall(t, c)
  BY <1>1, CallInv
<1>2. CASE \E t \in Threads : SwStep(t)
  BY <1>2, RegisterInv, UnregisterInv, OpenInv, CloseInv, FindInv, RecordInv, NotifierInv
     DEF SwStep
<1>3. CASE \E t \in Threads, c \in Clients : binderDied(t, c)
  BY <1>3, ToldInv
<1>4. CASE \E c \in Clients : Die(c) /\ UNCHANGED swvars
  BY <1>4, DieInv
<1>5. CASE \E c \in Clients : Reborn(c) /\ UNCHANGED swvars
  BY <1>5, RebornInv
<1>6. CASE UNCHANGED <<cvars, swvars>>
  BY <1>6 DEF cvars, swvars, SwInv, SwTypes, OneCall, CallFits, ClientFits, Working, RecordFits,
              Writing, Erasing, Known
<1> QED BY <1>1, <1>2, <1>3, <1>4, <1>5, <1>6 DEF SwNext

-----------------------------------------------------------------------------
(* The promise of ClientSessions.                                          *)

LEMMA AskedKept ==
  ASSUME SwInv, NEW t \in Threads, NEW k, thr' = [thr EXCEPT ![t] = k],
         \/ thr[t].op # "close" /\ k.op # "close"
         \/ thr[t].op = "close" /\ k.op = "close" /\ k.c = thr[t].c /\ k.s = thr[t].s
  PROVE  Asked' = Asked
  BY DEF SwInv, SwTypes, Asked

LEMMA AskedMore ==
  ASSUME SwInv, NEW t \in Threads, NEW k, thr' = [thr EXCEPT ![t] = k],
         thr[t].op # "close", k.op = "close"
  PROVE  Asked' = Asked \cup {<<k.c, k.s>>}
  BY DEF SwInv, SwTypes, Asked

LEMMA AskedLess ==
  ASSUME SwInv, NEW t \in Threads, thr' = [thr EXCEPT ![t] = Idle], thr[t].op = "close"
  PROVE  /\ <<thr[t].c, thr[t].s>> \in Asked
         /\ Asked' = Asked \ {<<thr[t].c, thr[t].s>>}
<1>1. \A u \in Threads \ {t} : thr[u].c # thr[t].c
  BY OnlyCall
<1>2. Idle.op # "close"
  BY DEF Idle
<1> QED BY <1>1, <1>2 DEF SwInv, SwTypes, Asked

(* The reply to a close is the answer to what was asked, and no other      *)
(* reply is seen by the promise.                                           *)
LEMMA ReplyPromised ==
  ASSUME SwInv, NEW t \in Threads, Replies(t),
         thr[t].op \in {"open", "close"}, thr[t].pc # "service", UNCHANGED <<alive, owner>>
  PROVE  Promise!Next \/ UNCHANGED <<alive, owner, Asked>>
<1>1. thr' = [thr EXCEPT ![t] = Idle] /\ Idle.op = "idle"
  BY Returns DEF Replies
<1>2. CASE thr[t].op = "open"
  BY <1>1, <1>2, AskedKept
<1>3. CASE thr[t].op = "close"
  <2>1. thr[t].c \in Clients /\ thr[t].s \in Sessions /\ owner[thr[t].s] # thr[t].c
    BY <1>3, PastService
  <2>2. <<thr[t].c, thr[t].s>> \in Asked /\ Asked' = Asked \ {<<thr[t].c, thr[t].s>>}
    BY <1>1, <1>3, AskedLess
  <2>3. Promise!Answer(thr[t].c, thr[t].s)
    BY <2>1, <2>2 DEF Promise!Answer
  <2> QED BY <2>1, <2>3 DEF Promise!Next
<1> QED BY <1>2, <1>3

LEMMA StepPromised ==
  ASSUME SwInv, NEW t \in Threads, SwStep(t)
  PROVE  Promise!Next \/ UNCHANGED <<alive, owner, Asked>>
<1>1. CASE agm_register_client(t)
  <2>0. thr[t].op = "register" /\ UNCHANGED <<alive, owner>>
    BY <1>1 DEF agm_register_client, At
  <2>1. CASE Goto(t, "edit")
    BY <2>0, <2>1, OnlyCall, GoesOn, AskedKept
  <2>2. CASE Done(t)
    BY <2>0, <2>2, Returns, AskedKept
  <2> QED BY <1>1, <2>0, <2>1, <2>2 DEF agm_register_client
<1>2. CASE agm_unregister_client(t)
  <2>1. /\ thr[t].op = "unregister" /\ owner' = owner /\ alive' = alive \ {thr[t].c}
        /\ thr' = [thr EXCEPT ![t] = Idle] /\ Idle.op = "idle"
    BY <1>2, Returns DEF agm_unregister_client, At
  <2>2. thr[t].c \in Clients /\ thr[t].c \in alive
    BY <2>1, OnlyCall DEF CallFits
  <2>3. Asked' = Asked
    BY <2>1, AskedKept
  <2>4. Promise!Die(thr[t].c)
    BY <2>1, <2>2, <2>3 DEF Promise!Die
  <2> QED BY <2>2, <2>4 DEF Promise!Next
<1>3. CASE ipc_agm_session_open(t)
  <2>0. thr[t].op = "open" /\ thr[t].pc = "service" /\ alive' = alive
    BY <1>3 DEF ipc_agm_session_open, At
  <2>1. thr[t] \in SwTask /\ thr[t].c \in Clients
    BY <2>0, OnlyCall
  <2>2. thr[t].s \in Sessions
    BY <2>0, <2>1 DEF SwTask
  <2>3. CASE Done(t) /\ UNCHANGED owner
    BY <2>0, <2>3, Returns, AskedKept
  <2>4. CASE agm_session_open(thr[t].c, thr[t].s) /\ Goto(t, "find")
    <3>1. Asked' = Asked
      BY <2>0, <2>1, <2>4, GoesOn, AskedKept
    <3>2. Promise!Open(thr[t].c, thr[t].s)
      BY <2>0, <2>4, <3>1 DEF Promise!Open, agm_session_open, None, Promise!None
    <3> QED BY <2>1, <2>2, <3>2 DEF Promise!Next
  <2> QED BY <1>3, <2>3, <2>4 DEF ipc_agm_session_open
<1>4. CASE ipc_agm_session_close(t)
  <2>0. thr[t].op = "close" /\ thr[t].pc = "service" /\ alive' = alive
        /\ agm_session_close(thr[t].s) /\ Goto(t, "find")
    BY <1>4 DEF ipc_agm_session_close, At
  <2>1. thr[t] \in SwTask /\ thr[t].c \in Clients /\ owner[thr[t].s] = thr[t].c
    BY <2>0, OnlyCall DEF CallFits
  <2>2. thr[t].s \in Sessions
    BY <2>0, <2>1 DEF SwTask
  <2>3. Asked' = Asked
    BY <2>0, <2>1, GoesOn, AskedKept
  <2>4. <<thr[t].c, thr[t].s>> \in Asked
    BY <2>0 DEF Asked
  <2>5. Promise!Close(thr[t].c, thr[t].s)
    BY <2>0, <2>1, <2>3, <2>4 DEF Promise!Close, agm_session_close, None, Promise!None
  <2> QED BY <2>1, <2>2, <2>5 DEF Promise!Next
<1>5. CASE get_client_handle_from_list(t)
  <2>0. thr[t].op \in {"open", "close"} /\ thr[t].pc # "service" /\ UNCHANGED <<alive, owner>>
    BY <1>5 DEF get_client_handle_from_list
  <2>1. CASE Replies(t)
    BY <2>0, <2>1, ReplyPromised
  <2>2. CASE Goto(t, "edit") \/ (thr[t].op = "open" /\ Goto(t, "unlock"))
    <3>1. thr[t] \in SwTask
      BY <2>0, PastService
    <3>2. PICK k \in SwTask : /\ thr' = [thr EXCEPT ![t] = k] /\ k.op = thr[t].op
                              /\ k.c = thr[t].c /\ k.s = thr[t].s
      BY <2>0, <2>2, <3>1, GoesOn
    <3> QED BY <2>0, <3>2, AskedKept
  <2> QED BY <1>5, <2>1, <2>2 DEF get_client_handle_from_list
<1>6. CASE UnlockUnknown(t) \/ agm_add_session_obj_handle(t) \/ agm_remove_session_obj_handle(t)
  BY <1>6, ReplyPromised
     DEF UnlockUnknown, agm_add_session_obj_handle, agm_remove_session_obj_handle, At
<1>7. CASE binderDied_closes(t)
  <2>0. thr[t].op = "died" /\ alive' = alive
    BY <1>7 DEF binderDied_closes, At
  <2>1. /\ thr[t].c \in Clients \ alive
        /\ thr[t].c \in Known =>
             \A s \in ToSet(g_client_list[thr[t].c]) : owner[s] = thr[t].c /\ s \in Sessions
    BY <2>0, NotifierFinds
  <2>2. CASE thr[t].c \in Known /\ g_client_list[thr[t].c] # <<>>
    <3> DEFINE s == Head(g_client_list[thr[t].c])
    <3>1. thr' = thr /\ owner' = [owner EXCEPT ![s] = None]
      BY <1>7, <2>2 DEF binderDied_closes, agm_session_close
    <3>2. s \in ToSet(g_client_list[thr[t].c])
      BY <2>2, TailElems DEF SwInv, SwTypes, RecordFits
    <3>3. Asked' = Asked
      BY <3>1 DEF Asked
    <3>4. s \in Sessions /\ owner[s] \in Clients \ alive
      BY <2>1, <2>2, <3>2
    <3>5. Promise!Reap(s)
      BY <2>0, <3>1, <3>3, <3>4, IpcAssumption DEF Promise!Reap, None, Promise!None
    <3> QED BY <3>4, <3>5 DEF Promise!Next
  <2>3. CASE ~(thr[t].c \in Known /\ g_client_list[thr[t].c] # <<>>)
    <3>1. Done(t) /\ owner' = owner
      BY <1>7, <2>3 DEF binderDied_closes
    <3> QED BY <2>0, <3>1, Returns, AskedKept
  <2> QED BY <2>2, <2>3
<1> QED BY <1>1, <1>2, <1>3, <1>4, <1>5, <1>6, <1>7 DEF SwStep

LEMMA NextPromised ==
  ASSUME SwInv, Races \subseteq {"exit_open"}, [SwNext]_<<cvars, swvars>>
  PROVE  [Promise!Next]_<<alive, owner, Asked>>
<1>1. ASSUME NEW t \in Threads, NEW c \in Clients, SwCall(t, c)
      PROVE  [Promise!Next]_<<alive, owner, Asked>>
  <2>1. PICK k \in SwTask :
          /\ thr[t] = Idle /\ Working(c) = {} /\ c \in alive
          /\ thr' = [thr EXCEPT ![t] = k] /\ k.c = c
          /\ k.op = "close" => k.s \in has[c]
          /\ UNCHANGED <<alive, owner>>
    BY <1>1, CallTaken
  <2>2. thr[t].op # "close"
    BY <2>1 DEF Idle
  <2>3. CASE k.op # "close"
    BY <2>1, <2>2, <2>3, AskedKept
  <2>4. CASE k.op = "close"
    <3>1. Asked' = Asked \cup {<<c, k.s>>}
      BY <2>1, <2>2, <2>4, AskedMore
    <3>2. k.s \in Sessions /\ owner[k.s] = c
      BY <2>1, <2>4 DEF SwInv, SwTypes, ClientFits, Erasing, Working
    <3>3. Promise!Ask(c, k.s)
      BY <2>1, <3>1, <3>2 DEF Promise!Ask
    <3> QED BY <3>2, <3>3 DEF Promise!Next
  <2> QED BY <2>3, <2>4
<1>2. ASSUME NEW t \in Threads, SwStep(t) PROVE [Promise!Next]_<<alive, owner, Asked>>
  BY <1>2, StepPromised
<1>3. ASSUME NEW t \in Threads, NEW c \in Clients, binderDied(t, c)
      PROVE  [Promise!Next]_<<alive, owner, Asked>>
  <2> DEFINE k == [op |-> "died", c |-> c, s |-> None, pc |-> "close", id |-> 0, waits |-> FALSE]
  <2>1. k.op = "died"
    OBVIOUS
  <2>2. UNCHANGED <<alive, owner>> /\ thr[t].op # "close" /\ thr' = [thr EXCEPT ![t] = k]
    BY <1>3 DEF binderDied, Idle
  <2> HIDE DEF k
  <2> QED BY <2>1, <2>2, AskedKept
<1>4. ASSUME NEW c \in Clients, Die(c) PROVE [Promise!Next]_<<alive, owner, Asked>>
  <2>1. Promise!Die(c)
    BY <1>4 DEF Die, Promise!Die, Asked
  <2> QED BY <2>1 DEF Promise!Next
<1>5. ASSUME NEW c \in Clients, Reborn(c) PROVE [Promise!Next]_<<alive, owner, Asked>>
  <2>1. \A s : <<c, s>> \notin Asked
    BY <1>5 DEF Reborn, Working, Asked
  <2>2. Promise!Reborn(c)
    BY <1>5, <2>1 DEF Reborn, Promise!Reborn, Asked
  <2> QED BY <2>2 DEF Promise!Next
<1>6. CASE UNCHANGED <<cvars, swvars>>
  BY <1>6 DEF cvars, Asked
<1> QED BY <1>1, <1>2, <1>3, <1>4, <1>5, <1>6 DEF SwNext

(* However the threads of the server interleave, whatever allocations fail *)
(* and also when clients exit with sessions open, the binder server closes *)
(* a session only when its owner has asked for it or is dead               *)
(* (agm_death_notifier.cpp, ipc_proxy_server.cpp), provided that a client's *)
(* calls do not overtake each other and its death is told after them.      *)
THEOREM SwKeepsPromise ==
  ASSUME Races \subseteq {"exit_open"}
  PROVE  SwSpec => SessionsStayOwned
<1>1. IpcInit /\ SwInit => Promise!Init
  BY DEF IpcInit, Promise!Init, Asked, Idle, None, Promise!None
<1>2. IpcInit /\ SwInit => SwInv
  BY SwInitInv
<1>3. SwInv /\ [SwNext]_<<cvars, swvars>> => SwInv'
  BY SwStepInv
<1>4. SwInv /\ [SwNext]_<<cvars, swvars>> => [Promise!Next]_<<alive, owner, Asked>>
  BY NextPromised
<1> QED BY <1>1, <1>2, <1>3, <1>4, PTL DEF SwSpec, SessionsStayOwned, Promise!Spec

-----------------------------------------------------------------------------
(* Nothing is missing from the records.                                    *)

LEMMA ReplyComplete ==
  ASSUME SwInv, CompleteInv, NEW t \in Threads, Replies(t),
         thr[t].op \in {"open", "close"}, thr[t].pc # "service",
         UNCHANGED <<alive, owner, linked, Known>>,
         \A x \in Known \ {thr[t].c} : g_client_list'[x] = g_client_list[x],
         thr[t].c \in Known =>
           IF thr[t].op = "open"
           THEN ToSet(g_client_list[thr[t].c]) \cup {thr[t].s} \subseteq ToSet(g_client_list'[thr[t].c])
           ELSE ToSet(g_client_list[thr[t].c]) \ {thr[t].s} \subseteq ToSet(g_client_list'[thr[t].c])
  PROVE  CompleteInv'
<1>c. PICK c, s : c = thr[t].c /\ s = thr[t].s
  OBVIOUS
<1>0. /\ c \in Clients /\ s \in Sessions
      /\ thr[t].op = "close" => owner[s] # c
      /\ \A u \in Threads \ {t} : thr[u].c # c
  BY <1>c, PastService
<1>1. thr' = [thr EXCEPT ![t] = Idle] /\ Idle.op = "idle"
  BY Returns DEF Replies
<1>2. \A y : Writing(c, y) => thr[t].op = "open" /\ y = s
  BY <1>c, <1>0 DEF Writing
<1>3. \A x \in Clients \ {c} : \A y : Writing(x, y)' <=> Writing(x, y)
  BY <1>c, <1>0, <1>1 DEF SwInv, SwTypes, Writing
<1>4. ASSUME NEW x \in Known, NEW y \in Sessions, owner[y] = x
      PROVE  y \in ToSet(g_client_list'[x]) \/ Writing(x, y)'
  <2>0. (y \in ToSet(g_client_list[x]) \/ Writing(x, y)) /\ x \in Clients
    BY <1>4 DEF CompleteInv, SwInv, SwTypes
  <2>1. CASE x = c
    BY <1>c, <1>0, <1>2, <1>4, <2>0, <2>1
  <2>2. CASE x # c
    BY <1>c, <1>3, <2>0, <2>2
  <2> QED BY <2>1, <2>2
<1>5. \A u \in Threads : thr'[u].op # "idle" => u # t /\ thr'[u] = thr[u]
  BY <1>1 DEF SwInv, SwTypes
<1> QED BY <1>4, <1>5 DEF CompleteInv

LEMMA StepComplete ==
  ASSUME SwInv, CompleteInv, "handle" \notin FailingIpc, NEW t \in Threads, SwStep(t)
  PROVE  CompleteInv'
<1> USE DEF None
<1>c. PICK c, s : c = thr[t].c /\ s = thr[t].s
  OBVIOUS
<1>1. CASE agm_register_client(t)
  <2>0. /\ thr[t] \in SwTask /\ c \in Clients /\ c \in alive /\ thr[t].op = "register"
        /\ \A u \in Threads \ {t} : thr[u].c # c
        /\ \A y \in Sessions : owner[y] # c
    BY <1>c, <1>1, OnlyCall DEF agm_register_client, At, CallFits, CompleteInv
  <2>1. PICK k \in SwTask \cup {Idle} :
          /\ thr' = [thr EXCEPT ![t] = k]
          /\ k.op = "register" => k.c = c
          /\ k.op # "register" => k.op = "idle"
    <3>1. CASE Goto(t, "edit")
      BY <1>c, <2>0, <3>1, GoesOn
    <3>2. CASE Done(t)
      BY <3>2, Returns
    <3> QED BY <1>1, <3>1, <3>2 DEF agm_register_client
  <2>2. /\ UNCHANGED <<alive, owner>> /\ linked \subseteq linked'
        /\ Known' \in {Known, Known \cup {c}}
        /\ \A x \in Known' \ {c} : g_client_list'[x] = g_client_list[x]
    BY <1>c, <1>1 DEF agm_register_client, swvars, Known
  <2>3. \A x \in Clients : \A y : Writing(x, y)' <=> Writing(x, y)
    BY <2>0, <2>1 DEF SwInv, SwTypes, Writing
  <2>4. ASSUME NEW x \in Known', NEW y \in Sessions, owner'[y] = x
        PROVE  y \in ToSet(g_client_list'[x]) \/ Writing(x, y)'
    BY <2>0, <2>2, <2>3, <2>4 DEF CompleteInv, SwInv, SwTypes
  <2>5. \A u \in Threads \ {t} : thr'[u] = thr[u] /\ thr'[t] = k
    BY <2>1 DEF SwInv, SwTypes
  <2> QED BY <1>c, <2>0, <2>1, <2>2, <2>4, <2>5 DEF CompleteInv
<1>2. CASE agm_unregister_client(t)
  <2>0. /\ c \in Clients /\ thr[t].op = "unregister"
        /\ \A u \in Threads \ {t} : thr[u].c # c
    BY <1>c, <1>2, OnlyCall DEF agm_unregister_client, At
  <2>1. thr' = [thr EXCEPT ![t] = Idle] /\ Idle.op = "idle"
    BY <1>2, Returns DEF agm_unregister_client
  <2>2. /\ linked' = linked \ {c} /\ alive' = alive \ {c} /\ owner' = owner
        /\ Known' = Known \ {c} /\ \A x \in Known' : g_client_list'[x] = g_client_list[x]
    BY <1>c, <1>2 DEF agm_unregister_client, Forget, Known
  <2>3. \A x, y : Writing(x, y)' <=> Writing(x, y)
    BY <2>0, <2>1 DEF SwInv, SwTypes, Writing
  <2>4. \A u \in Threads : thr'[u].op # "idle" => u # t /\ thr'[u] = thr[u]
    BY <2>1 DEF SwInv, SwTypes
  <2> QED BY <2>0, <2>2, <2>3, <2>4 DEF CompleteInv
<1>3. CASE ipc_agm_session_open(t)
  <2>0. /\ thr[t] \in SwTask /\ c \in Clients /\ c \in linked /\ thr[t].op = "open"
        /\ thr[t].pc = "service" /\ \A u \in Threads \ {t} : thr[u].c # c
    BY <1>c, <1>3, OnlyCall DEF ipc_agm_session_open, At, CompleteInv
  <2>1. UNCHANGED <<alive, linked, g_client_list, Known>>
    BY <1>3 DEF ipc_agm_session_open, swvars, Known
  <2>2. CASE Done(t) /\ UNCHANGED owner
    <3>1. thr' = [thr EXCEPT ![t] = Idle] /\ Idle.op = "idle"
      BY <2>2, Returns
    <3>2. \A x, y : Writing(x, y)' <=> Writing(x, y)
      BY <2>0, <3>1 DEF SwInv, SwTypes, Writing
    <3>3. \A u \in Threads : thr'[u].op # "idle" => u # t /\ thr'[u] = thr[u]
      BY <3>1 DEF SwInv, SwTypes
    <3> QED BY <2>1, <2>2, <3>2, <3>3 DEF CompleteInv
  <2>3. CASE agm_session_open(c, s) /\ Goto(t, "find")
    <3>1. PICK k \in SwTask : /\ thr' = [thr EXCEPT ![t] = k] /\ k.op = "open"
                              /\ k.c = c /\ k.s = s /\ k.pc = "find"
      BY <1>c, <2>0, <2>3, GoesOn
    <3>2. owner' = [owner EXCEPT ![s] = c]
      BY <2>3 DEF agm_session_open
    <3>3. \A x, y : Writing(x, y)' <=> Writing(x, y) \/ (x = c /\ y = s)
      BY <2>0, <3>1 DEF SwInv, SwTypes, Writing
    <3>4. \A y \in Sessions : owner'[y] = owner[y] \/ (y = s /\ owner'[y] = c)
      BY <3>2 DEF SwInv, SwTypes
    <3>5. thr'[t] = k /\ \A u \in Threads \ {t} : thr'[u] = thr[u]
      BY <3>1 DEF SwInv, SwTypes
    <3> QED BY <2>0, <2>1, <3>1, <3>3, <3>4, <3>5 DEF CompleteInv
  <2> QED BY <1>c, <1>3, <2>2, <2>3 DEF ipc_agm_session_open
<1>4. CASE ipc_agm_session_close(t)
  <2>0. thr[t] \in SwTask /\ c \in Clients /\ thr[t].op = "close"
    BY <1>c, <1>4, OnlyCall DEF ipc_agm_session_close, At
  <2>1. UNCHANGED <<alive, linked, g_client_list, Known>> /\ owner' = [owner EXCEPT ![s] = None]
    BY <1>c, <1>4 DEF ipc_agm_session_close, swvars, Known, agm_session_close
  <2>2. PICK k \in SwTask : thr' = [thr EXCEPT ![t] = k] /\ k.op = "close"
    BY <1>4, <2>0, GoesOn DEF ipc_agm_session_close
  <2>3. \A x, y : Writing(x, y)' <=> Writing(x, y)
    BY <2>0, <2>2 DEF SwInv, SwTypes, Writing
  <2>4. \A y \in Sessions : owner'[y] \in {owner[y], None}
    BY <2>1 DEF SwInv, SwTypes
  <2>5. /\ \A u \in Threads : thr'[u].op \in {"open", "register"} => u # t /\ thr'[u] = thr[u]
        /\ \A u \in Threads : thr[u].op = "register" => thr[u].c \in Clients
    BY <2>2, OnlyCall DEF SwInv, SwTypes
  <2> QED BY <2>1, <2>3, <2>4, <2>5, IpcAssumption DEF CompleteInv, SwInv, SwTypes
<1>5. CASE get_client_handle_from_list(t)
  <2>0. /\ thr[t].op \in {"open", "close"} /\ thr[t].pc # "service" /\ thr[t] \in SwTask
        /\ UNCHANGED <<alive, owner, linked, g_client_list, Known>>
    BY <1>5, PastService DEF get_client_handle_from_list, swvars, Known
  <2>1. CASE Replies(t) /\ thr[t].op = "close" /\ c \notin Known
    BY <1>c, <2>0, <2>1, ReplyComplete
  <2>2. CASE Goto(t, "edit") \/ (thr[t].op = "open" /\ c \notin Known /\ Goto(t, "unlock"))
    <3>1. PICK k \in SwTask : /\ thr' = [thr EXCEPT ![t] = k] /\ k.op = thr[t].op
                              /\ k.c = c /\ k.s = s /\ k.pc # "service"
                              /\ k.op = "open" /\ k.pc = "unlock" => c \notin Known
      BY <1>c, <2>0, <2>2, GoesOn
    <3>2. \A x, y : Writing(x, y)' <=> Writing(x, y)
      BY <1>c, <2>0, <3>1 DEF SwInv, SwTypes, Writing
    <3>3. thr'[t] = k /\ \A u \in Threads \ {t} : thr'[u] = thr[u]
      BY <3>1 DEF SwInv, SwTypes
    <3> QED BY <1>c, <2>0, <3>1, <3>2, <3>3 DEF CompleteInv
  <2> QED BY <1>c, <1>5, <2>1, <2>2 DEF get_client_handle_from_list
<1>6. CASE UnlockUnknown(t)
  <2>1. /\ thr[t].op = "open" /\ thr[t].pc # "service" /\ Replies(t) /\ c \notin Known
        /\ UNCHANGED <<alive, owner, linked, g_client_list, Known>>
    BY <1>c, <1>6 DEF UnlockUnknown, At, Known, CompleteInv
  <2> QED BY <1>c, <2>1, ReplyComplete
<1>7. CASE agm_add_session_obj_handle(t)
  <2>1. /\ thr[t].op = "open" /\ thr[t].pc # "service" /\ Replies(t)
        /\ UNCHANGED <<alive, owner, linked>>
        /\ g_client_list' = IF c \notin Known THEN g_client_list
                            ELSE [g_client_list EXCEPT ![c] = Append(@, s)]
    BY <1>c, <1>7 DEF agm_add_session_obj_handle, At, Allocated
  <2>2. Known' = Known /\ \A x \in Known \ {c} : g_client_list'[x] = g_client_list[x]
    BY <2>1 DEF Known
  <2>3. ASSUME c \in Known PROVE ToSet(g_client_list[c]) \cup {s} \subseteq ToSet(g_client_list'[c])
    <3>1. /\ g_client_list[c] \in Seq(Sessions) /\ s \in Sessions
          /\ IsInjective(g_client_list[c]) /\ s \notin ToSet(g_client_list[c])
      BY <1>c, <2>1, <2>3, PastService DEF SwInv, SwTypes, RecordFits, Writing
    <3>2. g_client_list'[c] = Append(g_client_list[c], s)
      BY <2>1, <2>3 DEF Known
    <3> QED BY <3>1, <3>2, AppendElems
  <2> QED BY <1>c, <2>1, <2>2, <2>3, ReplyComplete
<1>8. CASE agm_remove_session_obj_handle(t)
  <2>1. /\ thr[t].op = "close" /\ thr[t].pc # "service" /\ Replies(t)
        /\ UNCHANGED <<alive, owner, linked>>
        /\ g_client_list' = IF c \notin Known THEN g_client_list
                            ELSE [g_client_list EXCEPT ![c] = RemoveFirst(@, s)]
    BY <1>c, <1>8 DEF agm_remove_session_obj_handle, At
  <2>2. Known' = Known /\ \A x \in Known \ {c} : g_client_list'[x] = g_client_list[x]
    BY <2>1 DEF Known
  <2>3. ASSUME c \in Known PROVE ToSet(g_client_list[c]) \ {s} \subseteq ToSet(g_client_list'[c])
    <3>1. g_client_list[c] \in Seq(Sessions) /\ IsInjective(g_client_list[c])
      BY <2>3 DEF SwInv, SwTypes, RecordFits
    <3>2. g_client_list'[c] = RemoveFirst(g_client_list[c], s)
      BY <2>1, <2>3 DEF Known
    <3> QED BY <3>1, <3>2, RemoveElems
  <2> QED BY <1>c, <2>1, <2>2, <2>3, ReplyComplete
<1>9. CASE binderDied_closes(t)
  <2>0. /\ c \in Clients \ alive /\ thr[t].op = "died"
        /\ UNCHANGED <<alive, linked>>
    BY <1>c, <1>9, NotifierFinds DEF binderDied_closes, At
  <2>1. CASE c \in Known /\ g_client_list[c] # <<>>
    <3> DEFINE h == Head(g_client_list[c])
    <3>1. /\ owner' = [owner EXCEPT ![h] = None] /\ thr' = thr
          /\ g_client_list' = [g_client_list EXCEPT ![c] = Tail(@)]
      BY <1>c, <1>9, <2>1 DEF binderDied_closes, agm_session_close
    <3>2. ToSet(Tail(g_client_list[c])) = ToSet(g_client_list[c]) \ {h}
      BY <2>1, TailElems DEF SwInv, SwTypes, RecordFits
    <3>3. /\ Known' = Known /\ g_client_list'[c] = Tail(g_client_list[c])
          /\ \A x \in Known \ {c} : g_client_list'[x] = g_client_list[x]
      BY <2>1, <3>1 DEF Known
    <3> HIDE DEF h
    <3>4. \A y \in Sessions : owner'[y] = IF y = h THEN None ELSE owner[y]
      BY <3>1 DEF SwInv, SwTypes
    <3>5. \A x, y : Writing(x, y)' <=> Writing(x, y)
      BY <3>1 DEF Writing
    <3>6. None \notin Known' /\ None \notin alive
          /\ \A u \in Threads : thr[u].op = "register" => thr[u].c # None
      BY <3>3, IpcAssumption, OnlyCall DEF SwInv, SwTypes
    <3> QED BY <2>0, <3>1, <3>2, <3>3, <3>4, <3>5, <3>6 DEF CompleteInv
  <2>2. CASE ~(c \in Known /\ g_client_list[c] # <<>>)
    <3>1. /\ thr' = [thr EXCEPT ![t] = Idle] /\ Idle.op = "idle"
          /\ owner' = owner /\ g_client_list' = [k \in Known \ {c} |-> g_client_list[k]]
      BY <1>c, <1>9, <2>2, Returns DEF binderDied_closes, Forget
    <3>2. Known' = Known \ {c}
      BY <3>1 DEF Known
    <3>3. \A x, y : Writing(x, y)' <=> Writing(x, y)
      BY <2>0, <3>1 DEF SwInv, SwTypes, Writing
    <3>4. \A u \in Threads : thr'[u].op # "idle" => u # t /\ thr'[u] = thr[u]
      BY <3>1 DEF SwInv, SwTypes
    <3> QED BY <2>0, <3>1, <3>2, <3>3, <3>4 DEF CompleteInv
  <2> QED BY <2>1, <2>2
<1> QED BY <1>1, <1>2, <1>3, <1>4, <1>5, <1>6, <1>7, <1>8, <1>9 DEF SwStep

LEMMA NextComplete ==
  ASSUME SwInv, CompleteInv, Races \subseteq {"exit_open"}, "handle" \notin FailingIpc,
         [SwNext]_<<cvars, swvars>>
  PROVE  CompleteInv'
<1>1. ASSUME NEW t \in Threads, NEW c \in Clients, SwCall(t, c) PROVE CompleteInv'
  <2>1. PICK k \in SwTask :
          /\ thr[t] = Idle /\ c \in alive /\ thr' = [thr EXCEPT ![t] = k] /\ k.c = c
          /\ k.op = "register" => c \notin linked
          /\ k.op = "open" => k.pc = "service" /\ c \in linked
          /\ UNCHANGED <<alive, owner, linked>> /\ UNCHANGED swvars
    BY <1>1, CallTaken
  <2>2. UNCHANGED <<g_client_list, Known>>
    BY <2>1 DEF swvars, Known
  <2>3. \A x, y : Writing(x, y)' <=> Writing(x, y)
    BY <2>1 DEF SwInv, SwTypes, Writing, Idle
  <2>4. thr'[t] = k /\ \A u \in Threads \ {t} : thr'[u] = thr[u]
    BY <2>1 DEF SwInv, SwTypes
  <2> QED BY <2>1, <2>2, <2>3, <2>4 DEF CompleteInv
<1>2. ASSUME NEW t \in Threads, SwStep(t) PROVE CompleteInv'
  BY <1>2, StepComplete
<1>3. ASSUME NEW t \in Threads, NEW c \in Clients, binderDied(t, c) PROVE CompleteInv'
  <2> DEFINE k == [op |-> "died", c |-> c, s |-> None, pc |-> "close", id |-> 0, waits |-> FALSE]
  <2>1. k.op = "died"
    OBVIOUS
  <2>2. UNCHANGED <<alive, owner, linked, g_client_list, Known>>
        /\ thr[t] = Idle /\ thr' = [thr EXCEPT ![t] = k]
    BY <1>3 DEF binderDied, Known
  <2> HIDE DEF k
  <2>3. \A x, y : Writing(x, y)' <=> Writing(x, y)
    BY <2>1, <2>2 DEF SwInv, SwTypes, Writing, Idle
  <2>4. \A u \in Threads : thr'[u].op # "died" => u # t /\ thr'[u] = thr[u]
    BY <2>1, <2>2 DEF SwInv, SwTypes
  <2> QED BY <2>2, <2>3, <2>4 DEF CompleteInv
<1>4. ASSUME NEW c \in Clients, Die(c), UNCHANGED swvars PROVE CompleteInv'
  BY <1>4 DEF Die, swvars, Known, CompleteInv, Writing
<1>5. ASSUME NEW c \in Clients, c \notin Known, Reborn(c), UNCHANGED swvars PROVE CompleteInv'
  BY <1>5 DEF Reborn, Working, swvars, Known, CompleteInv, Writing
<1>6. CASE UNCHANGED <<cvars, swvars>>
  BY <1>6 DEF cvars, swvars, Known, CompleteInv, Writing
<1> QED BY <1>1, <1>2, <1>3, <1>4, <1>5, <1>6 DEF SwNext

(* When no handle is lost for want of memory, the record of every client   *)
(* that has no call in the server is exactly the set of its open sessions, *)
(* whatever the other clients' calls and deaths do meanwhile: the notifier *)
(* will close all of them and nothing else.                                *)
THEOREM SwRecordsMatch ==
  ASSUME Races \subseteq {"exit_open"}, "handle" \notin FailingIpc
  PROVE  SwSpec => []RecordsMatch
<1>1. IpcInit /\ SwInit => SwInv /\ CompleteInv
  BY SwInitInv
<1>2. SwInv /\ CompleteInv /\ [SwNext]_<<cvars, swvars>> => (SwInv /\ CompleteInv)'
  BY SwStepInv, NextComplete
<1>3. SwInv /\ CompleteInv => RecordsMatch
  <2> SUFFICES ASSUME SwInv, CompleteInv, NEW c \in Known, Working(c) = {}
               PROVE  ToSet(g_client_list[c]) = {s \in Sessions : owner[s] = c}
    BY DEF RecordsMatch
  <2>1. \A s : ~Writing(c, s) /\ ~Erasing(c, s)
    BY DEF Writing, Erasing, Working
  <2>2. \A s \in ToSet(g_client_list[c]) : s \in Sessions
    BY DEF SwInv, SwTypes, ToSet
  <2> QED BY <2>1, <2>2 DEF SwInv, CompleteInv, RecordFits
<1> QED BY <1>1, <1>2, <1>3, PTL DEF SwSpec

-----------------------------------------------------------------------------
(* The hardware binder server.                                             *)

(* The tasks that a thread of this server has.                             *)
HwTask ==
  [op: {"open", "close", "del_cb"}, c: Clients, s: Sessions, pc: {"list", "service"},
   id: Nat, waits: BOOLEAN]
  \cup [op: {"add_cb"}, c: Clients, s: Sessions, pc: {"link", "list", "service"},
        id: Nat, waits: BOOLEAN]
  \cup [op: {"died"}, c: Clients, s: {None}, pc: {"list", "close"}, id: Nat, waits: BOOLEAN]

HwCalls == {"open", "close", "add_cb", "del_cb"}

CbTypes ==
  /\ alive \subseteq Clients /\ linked \subseteq Clients /\ deaths \subseteq Clients
  /\ thr \in [Threads -> HwTask \cup {Idle}]
  /\ has \in [Clients -> SUBSET Sessions]
  /\ clbk_data_list \in Seq(SrvrClbk) /\ made \in Nat

(* A registration is that of a living client, whose death will be told     *)
(* once it is past the link, and which the list names before the service   *)
(* does.                                                                   *)
RegistrationFits(k) ==
  /\ k.op \in HwCalls => k.c \in alive
  /\ k.op = "add_cb" /\ k.pc # "link" => k.c \in linked
  /\ k.op = "add_cb" /\ k.pc = "service" =>
       [id |-> k.id, c |-> k.c, s |-> k.s] \in ToSet(clbk_data_list)

(* A callback of the service is on the list, where the notifier will find  *)
(* it, and the death of its client is told or will be.                     *)
CallbackFits(r) ==
  /\ r \in ToSet(clbk_data_list)
  /\ r.c \in deaths \/ r.c \in alive \cap linked

CbInv ==
  /\ CbTypes
  /\ \A c \in deaths : c \notin alive
  /\ \A t \in Threads : RegistrationFits(thr[t])
  /\ \A r \in cbs : CallbackFits(r)

(* Whether the handle of a session is about to be recorded, or was taken   *)
(* from the list and its session is still to be closed.                    *)
HwPending(c, s) ==
  \E t \in Threads : /\ thr[t].c = c /\ thr[t].s = s
                     /\ \/ thr[t].op = "open" /\ thr[t].pc = "list"
                        \/ thr[t].op = "close" /\ thr[t].pc = "service"

HwTypes ==
  /\ CbTypes
  /\ owner \in [Sessions -> Clients \cup {None}]
  /\ Recorded \subseteq Clients /\ client_list \in [Recorded -> Seq(Sessions)]

(* A call is one of a living client, which owns what it closes and what it *)
(* is about to record.  A notification is of a dead one.                   *)
HwCallFits(k) ==
  /\ k.op = "died" => k.c \notin alive
  /\ k.op \in HwCalls => k.c \in alive
  /\ k.op = "open" /\ k.pc = "list" => owner[k.s] = k.c
  /\ k.op = "close" => owner[k.s] = k.c

HwClientFits(c) ==
  /\ c \in deaths => c \notin alive /\ Working(c) = {}
  /\ c \notin alive => has[c] = {}
  /\ \A s \in has[c] : owner[s] = c

(* The handles recorded for a client are those of sessions that it owns,   *)
(* each once.                                                              *)
HwRecordFits(c, r) ==
  IsInjective(r) /\ \A s \in ToSet(r) : owner[s] = c /\ ~HwPending(c, s)

HwInv ==
  /\ HwTypes /\ OneCall
  /\ \A t \in Threads : HwCallFits(thr[t])
  /\ \A c \in Clients : HwClientFits(c)
  /\ \A c \in Recorded : HwRecordFits(c, client_list[c])

-----------------------------------------------------------------------------
(* No callback is left behind.                                             *)

(* A thread takes a call.                                                  *)
LEMMA HwCallTaken ==
  ASSUME CbTypes, NEW t \in Threads, NEW c \in Clients, HwCall(t, c)
  PROVE  \E k \in HwTask :
           /\ thr[t] = Idle /\ c \in alive
           /\ "overtake" \notin Races => Working(c) = {}
           /\ thr' = [thr EXCEPT ![t] = k] /\ k.c = c /\ k.op \in HwCalls
           /\ k.op = "add_cb" => k.pc = "link"
           /\ k.op = "open" => k.pc = "service"
           /\ k.op = "close" => k.pc = "list" /\ k.s \in has[c]
           /\ UNCHANGED <<alive, owner, has, linked, deaths>> /\ UNCHANGED hwvars
<1> DEFINE K(op, s, pc) == [op |-> op, c |-> c, s |-> s, pc |-> pc, id |-> 0, waits |-> TRUE]
<1>1. ASSUME NEW op, NEW s, NEW pc, Begin(t, c, op, s, pc)
      PROVE  /\ thr[t] = Idle /\ c \in alive
             /\ "overtake" \notin Races => Working(c) = {}
             /\ thr' = [thr EXCEPT ![t] = K(op, s, pc)]
             /\ UNCHANGED <<alive, owner, has, linked, deaths>>
  BY <1>1 DEF Begin
<1>2. \A op, s, pc : /\ K(op, s, pc).op = op /\ K(op, s, pc).s = s
                    /\ K(op, s, pc).pc = pc /\ K(op, s, pc).c = c
  OBVIOUS
<1>3. \A s \in Sessions :
        /\ K("add_cb", s, "link") \in HwTask /\ K("del_cb", s, "list") \in HwTask
        /\ K("open", s, "service") \in HwTask /\ K("close", s, "list") \in HwTask
  BY DEF HwTask
<1> HIDE DEF K
<1>4. UNCHANGED hwvars /\ has[c] \subseteq Sessions /\ CbSessions \subseteq Sessions
  BY HwAssumption DEF HwCall, CbTypes
<1>5. CASE \E s \in CbSessions : Begin(t, c, "add_cb", s, "link")
  BY <1>1, <1>2, <1>3, <1>4, <1>5 DEF HwCalls
<1>6. CASE \E s \in CbSessions : Begin(t, c, "del_cb", s, "list")
  BY <1>1, <1>2, <1>3, <1>4, <1>6 DEF HwCalls
<1>7. CASE \E s \in Sessions \ has[c] : Begin(t, c, "open", s, "service")
  BY <1>1, <1>2, <1>3, <1>4, <1>7 DEF HwCalls
<1>8. CASE \E s \in has[c] : Begin(t, c, "close", s, "list")
  BY <1>1, <1>2, <1>3, <1>4, <1>8 DEF HwCalls
<1> QED BY <1>5, <1>6, <1>7, <1>8 DEF HwCall

LEMMA HwTasks ==
  ASSUME CbTypes, NEW t \in Threads, thr[t].op # "idle"
  PROVE  /\ thr[t] \in HwTask /\ thr[t].c \in Clients /\ thr[t].id \in Nat
         /\ thr[t].op \in HwCalls \cup {"died"}
         /\ thr[t].op \in HwCalls => thr[t].s \in Sessions
<1>1. thr[t] \in HwTask
  BY DEF CbTypes, Idle
<1> QED BY <1>1 DEF HwTask, HwCalls

(* A step of a thread, as what its task becomes.                           *)
LEMMA HwMoves ==
  ASSUME CbTypes, NEW t \in Threads, HwStep(t)
  PROVE  /\ thr[t].op # "idle"
         /\ \E k \in HwTask \cup {Idle} :
              /\ thr' = [thr EXCEPT ![t] = k]
              /\ \/ k = Idle /\ k.op = "idle" /\ k.c = None
                 \/ k.op = thr[t].op /\ k.c = thr[t].c /\ k.s = thr[t].s
<1> DEFINE Next1(k) == \/ k = Idle /\ k.op = "idle" /\ k.c = None
                       \/ k.op = thr[t].op /\ k.c = thr[t].c /\ k.s = thr[t].s
<1>0. thr[t].op \in HwCalls \cup {"died"} /\ thr[t].op # "idle"
  BY DEF HwStep, HwOpen, add_handle_to_list, HwClose, HwRegister, HwDeregister,
         serviceDied_closes, At, HwCalls
<1>1. /\ thr[t] \in HwTask /\ thr[t].c \in Clients /\ thr[t].id \in Nat
      /\ thr[t].op \in HwCalls => thr[t].s \in Sessions
  BY <1>0, HwTasks
<1>2. ASSUME Done(t)
      PROVE  \E k \in HwTask \cup {Idle} : thr' = [thr EXCEPT ![t] = k] /\ Next1(k)
  BY <1>2, Returns
<1>3. ASSUME NEW pc, Goto(t, pc),
             \/ thr[t].op \in HwCalls /\ pc \in {"list", "service"}
             \/ thr[t].op = "died" /\ pc = "close"
      PROVE  \E k \in HwTask \cup {Idle} : thr' = [thr EXCEPT ![t] = k] /\ Next1(k)
  <2> DEFINE k == [thr[t] EXCEPT !.pc = pc]
  <2>1. k \in HwTask /\ Next1(k)
    BY <1>1, <1>3 DEF HwTask, HwCalls
  <2>2. thr' = [thr EXCEPT ![t] = k]
    BY <1>3 DEF Goto
  <2> QED BY <2>1, <2>2
<1>4. CASE HwOpen(t)
  <2>1. CASE thr' = [thr EXCEPT ![t].pc = "list", ![t].waits = FALSE]
    <3> DEFINE k == [thr[t] EXCEPT !.pc = "list", !.waits = FALSE]
    <3>0. thr[t].op = "open"
      BY <1>4 DEF HwOpen, At
    <3>1. k \in HwTask /\ Next1(k)
      BY <1>1, <3>0 DEF HwTask, HwCalls
    <3>2. thr' = [thr EXCEPT ![t] = k]
      BY <2>1 DEF CbTypes
    <3> QED BY <1>0, <3>1, <3>2
  <2>2. CASE Done(t)
    BY <1>0, <1>2, <2>2
  <2> QED BY <1>4, <2>1, <2>2 DEF HwOpen
<1>5. CASE add_handle_to_list(t)
  BY <1>0, <1>2, <1>5 DEF add_handle_to_list
<1>6. CASE HwClose(t)
  <2>1. CASE At(t, "close", "list") /\ Goto(t, "service")
    <3>1. thr[t].op \in HwCalls
      BY <2>1 DEF At, HwCalls
    <3> QED BY <1>0, <1>3, <2>1, <3>1
  <2>2. CASE Done(t)
    BY <1>0, <1>2, <2>2
  <2> QED BY <1>6, <2>1, <2>2 DEF HwClose
<1>7. CASE HwRegister(t)
  <2>0. thr[t].op = "add_cb" /\ "add_cb" \in HwCalls
    BY <1>7 DEF HwRegister, At, HwCalls
  <2>1. CASE Goto(t, "list")
    BY <1>0, <1>3, <2>0, <2>1
  <2>2. CASE thr' = [thr EXCEPT ![t].pc = "service", ![t].id = made]
    <3> DEFINE k == [thr[t] EXCEPT !.pc = "service", !.id = made]
    <3>1. k \in HwTask /\ Next1(k)
      BY <1>1, <2>0 DEF HwTask, HwCalls, CbTypes
    <3>2. thr' = [thr EXCEPT ![t] = k]
      BY <2>2 DEF CbTypes
    <3> QED BY <1>0, <3>1, <3>2
  <2>3. CASE Done(t)
    BY <1>0, <1>2, <2>3
  <2> QED BY <1>7, <2>1, <2>2, <2>3 DEF HwRegister
<1>8. CASE HwDeregister(t)
  <2>0. thr[t].op = "del_cb" /\ "del_cb" \in HwCalls
    BY <1>8 DEF HwDeregister, At, HwCalls
  <2> DEFINE mine == {i \in DOMAIN clbk_data_list :
                        clbk_data_list[i].s = thr[t].s
                        /\ Data[clbk_data_list[i].c] = Data[thr[t].c]}
             m == clbk_data_list[Max(mine)].id
  <2>1. CASE mine # {} /\ thr' = [thr EXCEPT ![t].pc = "service", ![t].id = m]
    <3>1. Max(mine) \in mine
      <4>1. Len(clbk_data_list) \in Nat /\ DOMAIN clbk_data_list = 1..Len(clbk_data_list)
        BY LenProperties DEF CbTypes
      <4>2. mine \in SUBSET (1..Len(clbk_data_list))
        BY <4>1
      <4> HIDE DEF mine
      <4> QED BY <2>1, <4>1, <4>2, GreatestPlace
    <3>2. m \in Nat
      <4>1. PICK i \in DOMAIN clbk_data_list : i = Max(mine)
        BY <3>1, Zenon
      <4> HIDE DEF mine
      <4>2. clbk_data_list[i] \in SrvrClbk
        BY DEF CbTypes
      <4> QED BY <4>1, <4>2 DEF SrvrClbk
    <3> HIDE DEF m
    <3> DEFINE k == [thr[t] EXCEPT !.pc = "service", !.id = m]
    <3>3. k \in HwTask /\ Next1(k)
      BY <1>1, <2>0, <3>2 DEF HwTask, HwCalls
    <3>4. thr' = [thr EXCEPT ![t] = k]
      BY <2>1 DEF CbTypes
    <3> QED BY <1>0, <3>3, <3>4
  <2>2. CASE Done(t)
    BY <1>0, <1>2, <2>2
  <2> QED BY <1>8, <2>1, <2>2 DEF HwDeregister
<1>9. CASE serviceDied_closes(t)
  <2>0. thr[t].op = "died"
    BY <1>9 DEF serviceDied_closes, At
  <2>1. CASE Goto(t, "close")
    BY <1>0, <1>3, <2>0, <2>1
  <2>2. CASE thr' = thr
    BY <1>0, <1>1, <2>2 DEF CbTypes
  <2>3. CASE Done(t)
    BY <1>0, <1>2, <2>3
  <2> QED BY <1>9, <2>1, <2>2, <2>3 DEF serviceDied_closes
<1> QED BY <1>4, <1>5, <1>6, <1>7, <1>8, <1>9 DEF HwStep

(* What a step of a thread does to the callbacks, by the record that its   *)
(* task is about.                                                          *)
LEMMA HwCallbacks ==
  ASSUME CbTypes, NEW t \in Threads, HwStep(t)
  PROVE  /\ UNCHANGED <<alive, deaths>>
         /\ has' \in [Clients -> SUBSET Sessions]
         /\ thr[t].op # "add_cb" =>
              UNCHANGED <<linked, clbk_data_list, made>> /\ cbs' \subseteq cbs
         /\ thr[t].op = "add_cb" => thr[t].pc \in {"link", "list", "service"}
         /\ At(t, "add_cb", "link") =>
              /\ linked' = IF thr[t].c \in alive THEN linked \cup {thr[t].c} ELSE linked
              /\ Goto(t, "list") /\ UNCHANGED <<clbk_data_list, made, cbs>>
         /\ At(t, "add_cb", "list") =>
              /\ UNCHANGED <<linked, cbs>>
              /\ \/ /\ clbk_data_list' = Append(clbk_data_list,
                                              [id |-> made, c |-> thr[t].c, s |-> thr[t].s])
                    /\ made' = made + 1
                    /\ thr' = [thr EXCEPT ![t].pc = "service", ![t].id = made]
                 \/ Done(t) /\ UNCHANGED <<clbk_data_list, made>>
         /\ At(t, "add_cb", "service") =>
              /\ cbs' = cbs \cup {[id |-> thr[t].id, c |-> thr[t].c, s |-> thr[t].s]}
              /\ Done(t) /\ UNCHANGED <<linked, clbk_data_list, made>>
<1>1. CASE HwOpen(t)
  <2>1. thr[t].op = "open" /\ has \in [Clients -> SUBSET Sessions]
    BY <1>1 DEF HwOpen, At, CbTypes
  <2>2. thr[t].c \in Clients /\ thr[t].s \in Sessions
    BY <2>1, HwTasks DEF HwCalls
  <2> QED BY <1>1, <2>1, <2>2 DEF HwOpen, hwvars, Given, At
<1>2. CASE add_handle_to_list(t)
  BY <1>2 DEF add_handle_to_list, At, CbTypes
<1>3. CASE HwClose(t)
  <2>1. thr[t].op = "close" /\ has \in [Clients -> SUBSET Sessions]
    BY <1>3 DEF HwClose, At, CbTypes
  <2>2. thr[t].c \in Clients
    BY <2>1, HwTasks
  <2> QED BY <1>3, <2>1, <2>2 DEF HwClose, hwvars, At
<1>4. CASE HwRegister(t)
  <2>0. has' = has /\ UNCHANGED <<alive, deaths>> /\ has \in [Clients -> SUBSET Sessions]
    BY <1>4 DEF HwRegister, CbTypes
  <2>1. CASE At(t, "add_cb", "link")
    BY <1>4, <2>0, <2>1 DEF HwRegister, hwvars, At
  <2>2. CASE At(t, "add_cb", "list")
    BY <1>4, <2>0, <2>2 DEF HwRegister, At
  <2>3. CASE At(t, "add_cb", "service")
    BY <1>4, <2>0, <2>3 DEF HwRegister, At
  <2> QED BY <1>4, <2>1, <2>2, <2>3 DEF HwRegister
<1>5. CASE HwDeregister(t)
  <2>1. UNCHANGED <<alive, deaths, linked, has, clbk_data_list, made>> /\ thr[t].op = "del_cb"
    BY <1>5 DEF HwDeregister, hwvars, At
  <2>2. cbs' \subseteq cbs
    BY <1>5 DEF HwDeregister, hwvars
  <2> QED BY <2>1, <2>2 DEF CbTypes, At
<1>6. CASE serviceDied_closes(t)
  <2>1. UNCHANGED <<alive, deaths, linked, has, clbk_data_list, made, cbs>> /\ thr[t].op = "died"
    BY <1>6 DEF serviceDied_closes, At
  <2> QED BY <2>1 DEF CbTypes, At
<1> QED BY <1>1, <1>2, <1>3, <1>4, <1>5, <1>6 DEF HwStep

(* A list with one record more.                                            *)
LEMMA LongerList ==
  ASSUME NEW S, NEW q \in Seq(S), NEW e \in S
  PROVE  /\ Append(q, e) \in Seq(S)
         /\ \A x : x \in ToSet(Append(q, e)) <=> x \in ToSet(q) \/ x = e
<1> DEFINE r == Append(q, e)
<1>1. /\ r \in Seq(S) /\ Len(q) \in Nat
      /\ DOMAIN q = 1..Len(q) /\ DOMAIN r = 1..(Len(q) + 1)
      /\ r[Len(q) + 1] = e /\ \A i \in 1..Len(q) : r[i] = q[i]
  BY AppendProperties, LenProperties
<1> HIDE DEF r
<1>2. ASSUME NEW x, x \in ToSet(r) PROVE x \in ToSet(q) \/ x = e
  BY <1>1, <1>2 DEF ToSet
<1>3. ASSUME NEW x, x \in ToSet(q) \/ x = e PROVE x \in ToSet(r)
  BY <1>1, <1>3 DEF ToSet
<1> QED BY <1>1, <1>2, <1>3 DEF r

LEMMA HwStepTypes ==
  ASSUME CbTypes, NEW t \in Threads, HwStep(t)
  PROVE  CbTypes'
<1>1. thr' \in [Threads -> HwTask \cup {Idle}]
  BY HwMoves DEF CbTypes
<1>2. alive' = alive /\ deaths' = deaths /\ has' \in [Clients -> SUBSET Sessions]
  BY HwCallbacks
<1>3. linked' \subseteq Clients /\ made' \in Nat
  <2>1. linked' \in {linked, linked \cup (alive \cap {thr[t].c})} /\ made' \in {made, made + 1}
    BY HwCallbacks DEF At
  <2> QED BY <2>1 DEF CbTypes
<1>4. clbk_data_list' \in Seq(SrvrClbk)
  <2>1. CASE clbk_data_list' = clbk_data_list
    BY <2>1 DEF CbTypes
  <2>2. CASE At(t, "add_cb", "list")
             /\ clbk_data_list' = Append(clbk_data_list,
                                         [id |-> made, c |-> thr[t].c, s |-> thr[t].s])
    <3>1. thr[t].c \in Clients /\ thr[t].s \in Sessions /\ made \in Nat
      BY <2>2, HwTasks DEF At, HwCalls, CbTypes
    <3>2. [id |-> made, c |-> thr[t].c, s |-> thr[t].s] \in SrvrClbk
      BY <3>1 DEF SrvrClbk
    <3> QED BY <2>2, <3>2, LongerList DEF CbTypes
  <2> QED BY <2>1, <2>2, HwCallbacks DEF At
<1> QED BY <1>1, <1>2, <1>3, <1>4 DEF CbTypes

LEMMA HwStepCbInv ==
  ASSUME CbInv, NEW t \in Threads, HwStep(t)
  PROVE  CbInv'
<1> DEFINE rec(i, k) == [id |-> i, c |-> k.c, s |-> k.s]
<1>0. CbTypes
  BY DEF CbInv
<1>1. CbTypes'
  BY <1>0, HwStepTypes
<1>2. UNCHANGED <<alive, deaths>> /\ linked \subseteq linked'
      /\ \A x : x \in ToSet(clbk_data_list) => x \in ToSet(clbk_data_list')
  <2>1. linked \subseteq linked' /\ UNCHANGED <<alive, deaths>>
    BY <1>0, HwCallbacks DEF At
  <2>2. CASE clbk_data_list' = clbk_data_list
    BY <2>1, <2>2
  <2>3. CASE At(t, "add_cb", "list") /\ clbk_data_list' = Append(clbk_data_list, rec(made, thr[t]))
    <3>1. thr[t].c \in Clients /\ thr[t].s \in Sessions /\ made \in Nat
      BY <1>0, <2>3, HwTasks DEF At, HwCalls, CbTypes
    <3>2. rec(made, thr[t]) \in SrvrClbk
      BY <3>1 DEF SrvrClbk
    <3> HIDE DEF rec
    <3> QED BY <1>0, <2>1, <2>3, <3>2, LongerList DEF CbTypes
  <2> QED BY <1>0, <2>2, <2>3, HwCallbacks DEF At
<1>3. PICK k \in HwTask \cup {Idle} :
        /\ thr' = [thr EXCEPT ![t] = k]
        /\ \/ k = Idle /\ k.op = "idle"
           \/ k.op = thr[t].op /\ k.c = thr[t].c /\ k.s = thr[t].s
  BY <1>0, HwMoves
<1>4. thr'[t] = k /\ \A u \in Threads \ {t} : thr'[u] = thr[u]
  BY <1>0, <1>3 DEF CbTypes
<1>5. RegistrationFits(thr[t]) /\ thr[t].op # "idle"
  BY <1>0, HwMoves DEF CbInv
<1>6. RegistrationFits(k)'
  <2>1. CASE k.op = "idle"
    BY <2>1 DEF RegistrationFits, HwCalls
  <2>2. CASE k.op = thr[t].op /\ k.c = thr[t].c /\ k.s = thr[t].s /\ k.op # "add_cb"
    BY <1>2, <1>5, <2>2 DEF RegistrationFits
  <2>3. CASE k.op = "add_cb" /\ thr[t].op = "add_cb" /\ k.c = thr[t].c /\ k.s = thr[t].s
    <3>0. thr[t].c \in alive /\ thr[t].c \in Clients /\ thr[t].s \in Sessions /\ made \in Nat
      BY <1>0, <1>5, <2>3, HwTasks DEF RegistrationFits, HwCalls, CbTypes
    <3>1. CASE At(t, "add_cb", "link")
      <4>1. linked' = linked \cup {thr[t].c} /\ Goto(t, "list")
        BY <1>0, <3>0, <3>1, HwCallbacks
      <4>2. k.pc = "list"
        BY <1>0, <1>4, <1>5, <4>1, HwTasks DEF CbTypes, HwTask, Goto
      <4> QED BY <1>2, <2>3, <3>0, <4>1, <4>2 DEF RegistrationFits
    <3>2. CASE /\ At(t, "add_cb", "list")
               /\ clbk_data_list' = Append(clbk_data_list, rec(made, thr[t]))
               /\ thr' = [thr EXCEPT ![t].pc = "service", ![t].id = made]
      <4>1. k.id = made /\ k.pc = "service"
        BY <1>0, <1>4, <2>3, <3>2, HwTasks DEF CbTypes, HwTask
      <4>2. thr[t].c \in linked
        BY <1>5, <2>3, <3>2 DEF RegistrationFits, At
      <4>3. rec(made, thr[t]) \in SrvrClbk
        BY <3>0 DEF SrvrClbk
      <4>4. rec(made, thr[t]) \in ToSet(clbk_data_list')
        <5> HIDE DEF rec
        <5> QED BY <1>0, <3>2, <4>3, LongerList DEF CbTypes
      <4> QED BY <1>2, <2>3, <3>0, <4>1, <4>2, <4>4 DEF RegistrationFits
    <3>3. ASSUME Done(t) PROVE FALSE
      <4>1. k = Idle
        BY <1>0, <1>4, <3>3 DEF Done, CbTypes
      <4> QED BY <2>3, <4>1 DEF Idle
    <3> QED BY <1>0, <2>3, <3>1, <3>2, <3>3, HwCallbacks DEF At
  <2> QED BY <1>3, <2>1, <2>2, <2>3
<1>7. \A u \in Threads : RegistrationFits(thr[u])'
  <2>1. ASSUME NEW u \in Threads \ {t} PROVE RegistrationFits(thr[u])'
    BY <1>2, <1>4 DEF CbInv, RegistrationFits
  <2> QED BY <1>4, <1>6, <2>1 DEF RegistrationFits
<1>8. \A r \in cbs' : CallbackFits(r)'
  <2>1. \A r \in cbs : CallbackFits(r)'
    BY <1>2 DEF CbInv, CallbackFits
  <2>2. CASE cbs' \subseteq cbs
    BY <2>1, <2>2
  <2>3. CASE At(t, "add_cb", "service")
    <3>0. PICK r : r = rec(thr[t].id, thr[t])
      OBVIOUS
    <3>1. r \in ToSet(clbk_data_list) /\ r.c \in alive \cap linked
      BY <1>5, <2>3, <3>0 DEF RegistrationFits, At, HwCalls
    <3>2. CallbackFits(r)'
      BY <1>2, <3>1 DEF CallbackFits
    <3>3. cbs' = cbs \cup {r}
      BY <1>0, <2>3, <3>0, HwCallbacks
    <3> HIDE DEF rec
    <3> QED BY <2>1, <3>2, <3>3
  <2> QED BY <1>0, <2>2, <2>3, HwCallbacks DEF At
<1> QED BY <1>1, <1>2, <1>7, <1>8 DEF CbInv


(* The notifier takes a death: what it takes from the service is what it   *)
(* takes from the list.                                                    *)
LEMMA HwToldTypes ==
  ASSUME CbTypes, NEW t \in Threads, NEW c \in Clients, serviceDied(t, c)
  PROVE  /\ CbTypes'
         /\ \A x : x \in ToSet(clbk_data_list') <=> x \in ToSet(clbk_data_list) /\ x.c # c
         /\ \E k \in HwTask : /\ thr' = [thr EXCEPT ![t] = k] /\ thr[t] = Idle
                              /\ k.op = "died" /\ k.c = c
<1> DEFINE I == {i \in DOMAIN clbk_data_list : clbk_data_list[i].c # c}
           k == [op |-> "died", c |-> c, s |-> None, pc |-> "list", id |-> 0, waits |-> FALSE]
<1>1. k \in HwTask /\ k.op = "died" /\ k.c = c
  BY DEF HwTask
<1>2. thr' = [thr EXCEPT ![t] = k] /\ thr[t] = Idle
      /\ deaths' = deaths \ {c} /\ UNCHANGED <<alive, has, linked, made>>
      /\ clbk_data_list' = Kept(clbk_data_list, I)
  BY DEF serviceDied
<1> HIDE DEF k
<1>3. I \in SUBSET DOMAIN clbk_data_list
  OBVIOUS
<1>4. \A i : i \in I <=> i \in DOMAIN clbk_data_list /\ clbk_data_list[i].c # c
  OBVIOUS
<1> HIDE DEF I
<1>5. /\ clbk_data_list' \in Seq(SrvrClbk)
      /\ \A x : x \in ToSet(clbk_data_list') <=> \E i \in I : clbk_data_list[i] = x
  BY <1>2, <1>3, KeptElems DEF CbTypes
<1>6. \A x : x \in ToSet(clbk_data_list') <=> x \in ToSet(clbk_data_list) /\ x.c # c
  BY <1>4, <1>5 DEF ToSet
<1>7. CbTypes'
  BY <1>1, <1>2, <1>5 DEF CbTypes
<1> QED BY <1>1, <1>2, <1>6, <1>7

LEMMA HwToldCbInv ==
  ASSUME CbInv, NEW t \in Threads, NEW c \in Clients, serviceDied(t, c)
  PROVE  CbInv'
<1>0. CbTypes /\ c \in deaths /\ c \notin alive
  BY DEF CbInv, serviceDied
<1>1. CbTypes' /\ \A x : x \in ToSet(clbk_data_list') <=> x \in ToSet(clbk_data_list) /\ x.c # c
  BY <1>0, HwToldTypes
<1>2. PICK k \in HwTask : thr' = [thr EXCEPT ![t] = k] /\ k.op = "died"
  BY <1>0, HwToldTypes
<1>3. /\ deaths' = deaths \ {c} /\ UNCHANGED <<alive, linked>>
      /\ cbs' = cbs \ {r \in ToSet(clbk_data_list) : r.c = c}
  BY DEF serviceDied
<1>4. \A u \in Threads : RegistrationFits(thr[u])'
  <2>1. ASSUME NEW u \in Threads \ {t} PROVE RegistrationFits(thr[u])'
    <3>1. thr'[u] = thr[u] /\ RegistrationFits(thr[u])
      BY <1>0, <1>2 DEF CbInv, CbTypes
    <3>2. thr[u].op \in HwCalls => thr[u].c # c
      BY <1>0, <3>1 DEF RegistrationFits
    <3>3. "add_cb" \in HwCalls
      BY DEF HwCalls
    <3> QED BY <1>1, <1>3, <3>1, <3>2, <3>3 DEF RegistrationFits
  <2>2. thr'[t].op = "died"
    BY <1>0, <1>2 DEF CbTypes
  <2>3. RegistrationFits(thr[t])'
    BY <2>2 DEF RegistrationFits, HwCalls
  <2> QED BY <2>1, <2>3
<1>5. \A r \in cbs' : CallbackFits(r)'
  <2>1. SUFFICES ASSUME NEW r \in cbs' PROVE CallbackFits(r)'
    OBVIOUS
  <2>2. r \in cbs /\ CallbackFits(r)
    BY <1>3 DEF CbInv
  <2>3. r.c # c
    BY <1>3, <2>2 DEF CallbackFits
  <2> QED BY <1>1, <1>3, <2>2, <2>3 DEF CallbackFits
<1> QED BY <1>1, <1>3, <1>4, <1>5 DEF CbInv

LEMMA HwCallCbInv ==
  ASSUME CbInv, NEW t \in Threads, NEW c \in Clients, HwCall(t, c)
  PROVE  CbInv'
<1>0. CbTypes
  BY DEF CbInv
<1>1. PICK k \in HwTask :
        /\ c \in alive /\ thr' = [thr EXCEPT ![t] = k] /\ k.c = c
        /\ k.op = "add_cb" => k.pc = "link"
        /\ UNCHANGED <<alive, has, linked, deaths>> /\ UNCHANGED hwvars
  BY <1>0, HwCallTaken
<1>2. UNCHANGED <<clbk_data_list, cbs, made>>
  BY <1>1 DEF hwvars
<1>3. CbTypes'
  BY <1>0, <1>1, <1>2 DEF CbTypes
<1>4. \A u \in Threads : RegistrationFits(thr[u])'
  <2>1. ASSUME NEW u \in Threads \ {t} PROVE RegistrationFits(thr[u])'
    BY <1>0, <1>1, <1>2 DEF CbInv, CbTypes, RegistrationFits
  <2>2. thr'[t] = k
    BY <1>0, <1>1 DEF CbTypes
  <2>3. RegistrationFits(thr[t])'
    BY <1>1, <2>2 DEF RegistrationFits
  <2> QED BY <2>1, <2>3
<1> QED BY <1>1, <1>2, <1>3, <1>4 DEF CbInv, CallbackFits

(* A client dies when no call of it is in the server: its callbacks are of *)
(* the dead that are told.                                                 *)
LEMMA HwDieCbInv ==
  ASSUME CbInv, "death_in_call" \notin Races, NEW c \in Clients, Die(c), UNCHANGED hwvars
  PROVE  CbInv'
<1>1. /\ c \in alive /\ Working(c) = {} /\ alive' = alive \ {c}
      /\ deaths' = deaths \cup ({c} \cap linked) /\ has' = [has EXCEPT ![c] = {}]
      /\ UNCHANGED <<thr, linked, clbk_data_list, cbs, made>>
  BY DEF Die, hwvars
<1>2. CbTypes'
  BY <1>1 DEF CbInv, CbTypes
<1>3. \A u \in Threads : RegistrationFits(thr[u])'
  BY <1>1 DEF CbInv, RegistrationFits, Working
<1>4. \A r \in cbs' : CallbackFits(r)'
  BY <1>1 DEF CbInv, CallbackFits
<1> QED BY <1>1, <1>2, <1>3, <1>4 DEF CbInv

LEMMA HwRebornCbInv ==
  ASSUME CbInv, NEW c \in Clients, HwReborn(c)
  PROVE  CbInv'
<1>1. /\ Working(c) = {} /\ alive' = alive \cup {c} /\ linked' = linked \ {c}
      /\ c \notin alive \cup deaths /\ \A r \in cbs : r.c # c
      /\ UNCHANGED <<has, thr, deaths, clbk_data_list, cbs, made>>
  BY DEF HwReborn, Reborn, hwvars
<1>2. CbTypes'
  BY <1>1 DEF CbInv, CbTypes
<1>3. \A u \in Threads : RegistrationFits(thr[u])'
  BY <1>1 DEF CbInv, RegistrationFits, Working
<1>4. \A r \in cbs' : CallbackFits(r)'
  BY <1>1 DEF CbInv, CallbackFits
<1> QED BY <1>1, <1>2, <1>3, <1>4 DEF CbInv

(* Whatever the threads, the registrations and the deaths do, also where a *)
(* client's calls overtake each other and allocations fail, the service    *)
(* keeps no callback of a client that is dead and whose death was handled  *)
(* (serviceDied), provided that no client dies in the middle of a call.    *)
THEOREM NoCallbackLeftBehind ==
  ASSUME "death_in_call" \notin Races
  PROVE  HwSpec => []CallbacksOfTheLiving
<1>1. IpcInit /\ HwInit => CbInv
  <2>1. SUFFICES ASSUME IpcInit, HwInit PROVE CbInv
    OBVIOUS
  <2>2. CbTypes
    BY <2>1 DEF IpcInit, HwInit, CbTypes
  <2>3. \A t \in Threads : thr[t].op = "idle"
    BY <2>1 DEF IpcInit, Idle
  <2> QED BY <2>1, <2>2, <2>3 DEF IpcInit, HwInit, CbInv, RegistrationFits, HwCalls
<1>2. CbInv /\ [HwNext]_<<cvars, hwvars>> => CbInv'
  <2>1. SUFFICES ASSUME CbInv, [HwNext]_<<cvars, hwvars>> PROVE CbInv'
    OBVIOUS
  <2>2. CASE UNCHANGED <<cvars, hwvars>>
    BY <2>1, <2>2 DEF cvars, hwvars, CbInv, CbTypes, RegistrationFits, CallbackFits
  <2>3. CASE HwNext
    BY <2>1, <2>3, HwStepCbInv, HwToldCbInv, HwCallCbInv, HwDieCbInv, HwRebornCbInv DEF HwNext
  <2> QED BY <2>1, <2>2, <2>3
<1>3. CbInv => CallbacksOfTheLiving
  BY DEF CbInv, CallbackFits, CallbacksOfTheLiving
<1> QED BY <1>1, <1>2, <1>3, PTL DEF HwSpec

-----------------------------------------------------------------------------
(* No session is closed under its owner: every step keeps HwInv.           *)

LEMMA HwOnlyCall ==
  ASSUME HwInv, NEW t \in Threads, thr[t].op # "idle"
  PROVE  /\ thr[t] \in HwTask /\ thr[t].c \in Clients /\ thr[t].c # None
         /\ thr[t].op \in HwCalls \cup {"died"}
         /\ thr[t].op \in HwCalls => thr[t].s \in Sessions /\ thr[t].c \in alive
         /\ HwCallFits(thr[t])
         /\ \A u \in Threads \ {t} : thr[u].c # thr[t].c
<1>1. CbTypes /\ HwCallFits(thr[t])
  BY DEF HwInv, HwTypes
<1>2. /\ thr[t] \in HwTask /\ thr[t].c \in Clients
      /\ thr[t].op \in HwCalls \cup {"died"}
      /\ thr[t].op \in HwCalls => thr[t].s \in Sessions
  BY <1>1, HwTasks
<1> QED BY <1>1, <1>2, IpcAssumption DEF HwInv, OneCall, None, HwCallFits

LEMMA HwOneCallKept ==
  ASSUME HwInv, NEW t \in Threads, NEW k, thr' = [thr EXCEPT ![t] = k],
         k.c = None \/ k.c = thr[t].c
  PROVE  OneCall'
  BY DEF HwInv, HwTypes, CbTypes, OneCall

(* What is recorded are sessions.                                          *)
LEMMA HwRecordedSessions ==
  ASSUME HwTypes, NEW x \in Recorded, NEW y \in ToSet(client_list[x])
  PROVE  x \in Clients /\ y \in Sessions
  BY DEF HwTypes, ToSet

(* A step that only moves a thread.                                        *)
LEMMA HwThreadOnly ==
  ASSUME HwInv, CbTypes', NEW t \in Threads, thr[t].op # "idle", NEW k,
         thr' = [thr EXCEPT ![t] = k],
         \/ k = Idle
         \/ k.op = thr[t].op /\ k.c = thr[t].c /\ k.s = thr[t].s /\ k.op \notin {"open", "close"},
         UNCHANGED <<alive, owner, has, deaths, client_list>>
  PROVE  HwInv'
<1>0. k.c = None \/ k.c = thr[t].c
  BY DEF Idle
<1>1. OneCall'
  BY <1>0, HwOneCallKept
<1>2. HwTypes'
  BY DEF HwInv, HwTypes, Recorded
<1>3. thr'[t] = k /\ \A u \in Threads \ {t} : thr'[u] = thr[u]
  BY DEF HwInv, HwTypes, CbTypes
<1>4. k.op \notin {"open", "close"}
  BY DEF Idle
<1>5. \A x, y : HwPending(x, y)' => HwPending(x, y)
  BY <1>3, <1>4 DEF HwPending
<1>6. \A u \in Threads : HwCallFits(thr[u])'
  <2>1. ASSUME NEW u \in Threads \ {t} PROVE HwCallFits(thr[u])'
    BY <1>3 DEF HwInv, HwCallFits
  <2>2. HwCallFits(thr[t])'
    BY <1>3, <1>4 DEF HwInv, HwCallFits, Idle, HwCalls
  <2> QED BY <2>1, <2>2
<1>7. \A x \in Clients : HwClientFits(x)'
  <2>1. \A x \in Clients : Working(x)' \subseteq Working(x)
    BY <1>0, <1>3, IpcAssumption DEF Working, None
  <2> QED BY <2>1 DEF HwInv, HwClientFits
<1>8. \A x \in Recorded' : HwRecordFits(x, client_list[x])'
  BY <1>5 DEF HwInv, HwRecordFits, Recorded
<1> QED BY <1>1, <1>2, <1>6, <1>7, <1>8 DEF HwInv

LEMMA HwOpenInv ==
  ASSUME HwInv, NEW t \in Threads, HwOpen(t)
  PROVE  HwInv'
<1>c. PICK c, s : c = thr[t].c /\ s = thr[t].s
  OBVIOUS
<1>0. /\ thr[t].op = "open" /\ thr[t].pc = "service" /\ thr[t] \in HwTask
      /\ c \in Clients /\ c \in alive /\ s \in Sessions /\ c # None
      /\ \A u \in Threads \ {t} : thr[u].c # c
  BY <1>c, HwOnlyCall DEF HwOpen, At, HwCalls
<1>t. CbTypes'
  BY HwStepTypes DEF HwInv, HwTypes, HwStep
<1>1. UNCHANGED <<alive, linked, deaths, client_list>> /\ Recorded' = Recorded
  BY DEF HwOpen, hwvars, Recorded
<1>2. CASE Done(t) /\ UNCHANGED <<owner, has>>
  BY <1>0, <1>t, <1>1, <1>2, Returns, HwThreadOnly
<1>3. CASE /\ agm_session_open(c, s) /\ has' = Given(c, s)
           /\ thr' = [thr EXCEPT ![t].pc = "list", ![t].waits = FALSE]
  <2>1. owner[s] = None /\ owner' = [owner EXCEPT ![s] = c]
        /\ has' = [has EXCEPT ![c] = has[c] \cup {s}]
    BY <1>0, <1>3 DEF agm_session_open, Given
  <2>2. /\ thr'[t].op = "open" /\ thr'[t].pc = "list" /\ thr'[t].c = c /\ thr'[t].s = s
        /\ \A u \in Threads \ {t} : thr'[u] = thr[u]
    BY <1>c, <1>0, <1>3 DEF HwInv, HwTypes, CbTypes, HwTask
  <2>3. OneCall'
    BY <1>c, <2>2 DEF HwInv, OneCall
  <2>4. HwTypes'
    BY <1>t, <1>0, <1>1, <2>1 DEF HwInv, HwTypes
  <2>5. \A x, y : HwPending(x, y)' => HwPending(x, y) \/ (x = c /\ y = s)
    BY <2>2 DEF HwPending
  <2>6. \A u \in Threads : HwCallFits(thr[u])'
    <3>1. ASSUME NEW u \in Threads \ {t} PROVE HwCallFits(thr[u])'
      <4>1. thr'[u] = thr[u] /\ HwCallFits(thr[u])
        BY <2>2 DEF HwInv
      <4>2. CASE thr[u].op \in {"open", "close"}
        <5>1. thr[u].c # None /\ thr[u].s \in Sessions
          BY <4>2, HwOnlyCall DEF HwCalls
        <5> QED BY <1>1, <2>1, <4>1, <4>2, <5>1 DEF HwCallFits, HwInv, HwTypes
      <4>3. CASE thr[u].op \notin {"open", "close"}
        BY <1>1, <4>1, <4>3 DEF HwCallFits
      <4> QED BY <4>2, <4>3
    <3>2. HwCallFits(thr[t])'
      BY <1>0, <1>1, <2>1, <2>2 DEF HwCallFits, HwInv, HwTypes
    <3> QED BY <3>1, <3>2
  <2>7. \A x \in Clients : HwClientFits(x)'
    <3>1. ASSUME NEW x \in Clients PROVE HwClientFits(x)'
      <4>0. HwClientFits(x) /\ has[x] \subseteq Sessions /\ x # None
        BY IpcAssumption DEF HwInv, HwTypes, CbTypes, None
      <4>1. Working(x)' = Working(x)
        BY <1>c, <2>2 DEF Working
      <4>2. \A y \in has[x] : owner'[y] = x
        BY <2>1, <4>0 DEF HwClientFits, HwInv, HwTypes
      <4>3. has'[x] = IF x = c THEN has[x] \cup {s} ELSE has[x]
        BY <2>1 DEF HwInv, HwTypes, CbTypes
      <4>4. owner'[s] = c
        BY <1>0, <2>1 DEF HwInv, HwTypes
      <4> QED BY <1>0, <1>1, <4>0, <4>1, <4>2, <4>3, <4>4 DEF HwClientFits
    <3> QED BY <3>1
  <2>8. \A x \in Recorded' : HwRecordFits(x, client_list[x])'
    <3>1. SUFFICES ASSUME NEW x \in Recorded, NEW y \in ToSet(client_list[x])
                   PROVE  owner'[y] = x /\ ~HwPending(x, y)'
      BY <1>1 DEF HwInv, HwRecordFits
    <3>2. x \in Clients /\ y \in Sessions /\ x # None /\ owner[y] = x /\ ~HwPending(x, y)
      BY IpcAssumption, HwRecordedSessions DEF HwInv, HwRecordFits, None
    <3> QED BY <2>1, <2>5, <3>2 DEF HwInv, HwTypes
  <2> QED BY <2>3, <2>4, <2>6, <2>7, <2>8 DEF HwInv
<1> QED BY <1>c, <1>2, <1>3 DEF HwOpen

(* A thread returns; the records of its client change.                     *)
LEMMA HwRecordInv ==
  ASSUME HwInv, CbTypes', NEW t \in Threads, thr[t].op # "idle", Done(t),
         UNCHANGED <<alive, owner, has, deaths>>,
         Recorded' \subseteq Clients, client_list' \in [Recorded' -> Seq(Sessions)],
         \A x \in Recorded' :
           \/ x \in Recorded /\ client_list'[x] = client_list[x]
           \/ /\ IsInjective(client_list'[x])
              /\ \A y \in ToSet(client_list'[x]) :
                   owner[y] = x /\ (~HwPending(x, y) \/ (x = thr[t].c /\ y = thr[t].s))
  PROVE  HwInv'
<1>0. \A u \in Threads \ {t} : thr[u].c # thr[t].c
  BY HwOnlyCall
<1>1. thr'[t].c = None /\ thr'[t].op = "idle" /\ \A u \in Threads \ {t} : thr'[u] = thr[u]
  BY Returns DEF HwInv, HwTypes, CbTypes
<1>2. OneCall'
  BY Returns, HwOneCallKept
<1>3. HwTypes'
  BY DEF HwInv, HwTypes
<1>4. \A x, y : HwPending(x, y)' => HwPending(x, y) /\ x # thr[t].c
  BY <1>0, <1>1 DEF HwPending
<1>5. \A u \in Threads : HwCallFits(thr[u])'
  <2>1. ASSUME NEW u \in Threads \ {t} PROVE HwCallFits(thr[u])'
    BY <1>1 DEF HwInv, HwCallFits
  <2>2. HwCallFits(thr[t])'
    BY <1>1 DEF HwCallFits, HwCalls
  <2> QED BY <2>1, <2>2
<1>6. \A x \in Clients : HwClientFits(x)'
  <2>1. \A x \in Clients : Working(x)' \subseteq Working(x)
    BY <1>1, IpcAssumption DEF Working, None
  <2> QED BY <2>1 DEF HwInv, HwClientFits
<1>7. \A x \in Recorded' : HwRecordFits(x, client_list[x])'
  BY <1>4 DEF HwInv, HwRecordFits
<1> QED BY <1>2, <1>3, <1>5, <1>6, <1>7 DEF HwInv

LEMMA HwAddInv ==
  ASSUME HwInv, NEW t \in Threads, add_handle_to_list(t)
  PROVE  HwInv'
<1>c. PICK c, s : c = thr[t].c /\ s = thr[t].s
  OBVIOUS
<1>0. /\ thr[t].op = "open" /\ thr[t].pc = "list"
      /\ c \in Clients /\ s \in Sessions /\ owner[s] = c
  BY <1>c, HwOnlyCall DEF add_handle_to_list, At, HwCalls, HwCallFits
<1>t. CbTypes' /\ Done(t) /\ UNCHANGED <<alive, owner, has, deaths>>
  BY HwStepTypes DEF HwInv, HwTypes, HwStep, add_handle_to_list
<1>1. /\ client_list \in [Recorded -> Seq(Sessions)] /\ Recorded \subseteq Clients
      /\ \A x \in Recorded : HwRecordFits(x, client_list[x])
  BY DEF HwInv, HwTypes
<1>2. CASE client_list' = client_list
  <2>1. Recorded' = Recorded
    BY <1>2 DEF Recorded
  <2> QED BY <1>0, <1>t, <1>1, <1>2, <2>1, HwRecordInv
<1>3. ASSUME NEW new \in {<<s>>, <<>>},
             client_list' = [x \in Recorded \cup {c} |->
                               IF x # c THEN client_list[x]
                               ELSE IF c \in Recorded THEN client_list[c] \o new ELSE new]
      PROVE  HwInv'
  <2>1. Recorded' = Recorded \cup {c}
    BY <1>3 DEF Recorded
  <2>2. HwPending(c, s)
    BY <1>c, <1>0 DEF HwPending
  <2> DEFINE r == IF c \in Recorded THEN client_list[c] \o new ELSE new
  <2>3. /\ r \in Seq(Sessions) /\ IsInjective(r)
        /\ \A y \in ToSet(r) : y = s \/ (c \in Recorded /\ y \in ToSet(client_list[c]))
    <3>1. CASE c \in Recorded
      <4>1. s \notin ToSet(client_list[c]) /\ IsInjective(client_list[c])
        BY <1>1, <2>2, <3>1 DEF HwRecordFits
      <4>2. PICK q \in Seq(Sessions) : q = client_list[c]
        BY <1>1, <3>1
      <4>3. /\ q \o new \in Seq(Sessions) /\ IsInjective(q \o new)
            /\ \A y \in ToSet(q \o new) : y \in ToSet(q) \/ y = s
        <5>1. IsInjective(q) /\ s \notin ToSet(q)
          BY <4>1, <4>2
        <5> QED BY <1>0, <5>1, AddedElems
      <4> QED BY <3>1, <4>2, <4>3
    <3>2. CASE c \notin Recorded
      <4>1. <<>> \in Seq(Sessions) /\ IsInjective(<<>>) /\ ToSet(<<>>) = {}
        BY NoElems
      <4>2. <<>> \o new \in Seq(Sessions) /\ IsInjective(<<>> \o new)
            /\ \A y \in ToSet(<<>> \o new) : y = s
        BY <1>0, <4>1, AddedElems
      <4>3. <<>> \o new = new
        BY <1>0
      <4> QED BY <3>2, <4>2, <4>3
    <3> QED BY <3>1, <3>2
  <2>4. /\ client_list'[c] = r
        /\ \A x \in Recorded \ {c} : client_list'[x] = client_list[x]
        /\ client_list' \in [Recorded' -> Seq(Sessions)] /\ Recorded' \subseteq Clients
    BY <1>0, <1>1, <1>3, <2>1, <2>3
  <2> HIDE DEF r
  <2>5. \A y \in ToSet(r) : owner[y] = c /\ (~HwPending(c, y) \/ y = s)
    BY <1>0, <1>1, <2>3 DEF HwRecordFits
  <2>6. \A x \in Recorded' :
          \/ x \in Recorded /\ client_list'[x] = client_list[x]
          \/ /\ IsInjective(client_list'[x])
             /\ \A y \in ToSet(client_list'[x]) :
                  owner[y] = x /\ (~HwPending(x, y) \/ (x = thr[t].c /\ y = thr[t].s))
    BY <1>c, <2>1, <2>3, <2>4, <2>5
  <2> QED BY <1>0, <1>t, <2>4, <2>6, HwRecordInv
<1>4. \/ client_list' = client_list
      \/ \E new \in {<<s>>, <<>>} :
           client_list' = [x \in Recorded \cup {c} |->
                             IF x # c THEN client_list[x]
                             ELSE IF c \in Recorded THEN client_list[c] \o new ELSE new]
  BY <1>c DEF add_handle_to_list
<1> QED BY <1>2, <1>3, <1>4

(* A close takes its handle from the list and then closes the session.     *)
LEMMA HwCloseInv ==
  ASSUME HwInv, NEW t \in Threads, HwClose(t)
  PROVE  HwInv'
<1>c. PICK c, s : c = thr[t].c /\ s = thr[t].s
  OBVIOUS
<1>0. /\ thr[t].op = "close" /\ thr[t] \in HwTask /\ c # None
      /\ c \in Clients /\ c \in alive /\ s \in Sessions /\ owner[s] = c
      /\ \A u \in Threads \ {t} : thr[u].c # c
  BY <1>c, HwOnlyCall DEF HwClose, At, HwCalls, HwCallFits
<1>t. CbTypes' /\ UNCHANGED <<alive, linked, deaths>>
  BY HwStepTypes DEF HwInv, HwTypes, HwStep, HwClose
<1>1. /\ client_list \in [Recorded -> Seq(Sessions)] /\ Recorded \subseteq Clients
      /\ \A x \in Recorded : HwRecordFits(x, client_list[x])
  BY DEF HwInv, HwTypes
<1>2. CASE At(t, "close", "list")
  <2> DEFINE stay(k) == {i \in DOMAIN client_list[k] : client_list[k][i] # s}
             left == [k \in Recorded |-> Kept(client_list[k], stay(k))]
  <2>1. /\ client_list' = [k \in {r \in Recorded : left[r] # <<>>} |-> left[k]]
        /\ Goto(t, "service") /\ UNCHANGED <<owner, has>>
    BY <1>c, <1>2 DEF HwClose, At
  <2>2. ASSUME NEW x \in Recorded
        PROVE  /\ left[x] \in Seq(Sessions) /\ IsInjective(left[x])
               /\ \A y \in ToSet(left[x]) : y \in ToSet(client_list[x]) /\ y # s
    <3>1. IsInjective(client_list[x]) /\ client_list[x] \in Seq(Sessions)
      BY <1>1 DEF HwRecordFits
    <3>2. stay(x) \in SUBSET DOMAIN client_list[x]
          /\ \A i \in stay(x) : client_list[x][i] \in ToSet(client_list[x]) /\ client_list[x][i] # s
      BY DEF ToSet
    <3>3. left[x] = Kept(client_list[x], stay(x))
      OBVIOUS
    <3> HIDE DEF stay, left
    <3>4. /\ left[x] \in Seq(Sessions) /\ IsInjective(left[x])
          /\ \A y : y \in ToSet(left[x]) <=> \E i \in stay(x) : client_list[x][i] = y
      BY <3>1, <3>2, <3>3, KeptElems
    <3> QED BY <3>2, <3>4
  <2> HIDE DEF left
  <2>3. /\ Recorded' \subseteq Recorded /\ \A x \in Recorded' : client_list'[x] = left[x]
        /\ client_list' \in [Recorded' -> Seq(Sessions)]
    <3>1. Recorded' = {r \in Recorded : left[r] # <<>>}
      BY <2>1 DEF Recorded
    <3> QED BY <2>1, <2>2, <3>1
  <2>4. /\ thr'[t].op = "close" /\ thr'[t].c = c /\ thr'[t].s = s
        /\ \A u \in Threads \ {t} : thr'[u] = thr[u]
    BY <1>c, <1>0, <2>1 DEF HwInv, HwTypes, CbTypes, HwTask, Goto
  <2>5. OneCall'
    BY <1>c, <2>4 DEF HwInv, OneCall
  <2>6. HwTypes'
    BY <1>t, <1>1, <2>1, <2>3 DEF HwInv, HwTypes
  <2>7. \A x, y : HwPending(x, y)' => HwPending(x, y) \/ (x = c /\ y = s)
    BY <2>4 DEF HwPending
  <2>8. \A u \in Threads : HwCallFits(thr[u])'
    <3>1. ASSUME NEW u \in Threads \ {t} PROVE HwCallFits(thr[u])'
      BY <1>t, <2>1, <2>4 DEF HwInv, HwCallFits
    <3>2. HwCallFits(thr[t])'
      BY <1>0, <1>t, <2>1, <2>4 DEF HwCallFits
    <3> QED BY <3>1, <3>2
  <2>9. \A x \in Clients : HwClientFits(x)'
    <3>1. \A x : Working(x)' = Working(x)
      BY <1>c, <2>4 DEF Working
    <3> QED BY <1>t, <2>1, <3>1 DEF HwInv, HwClientFits
  <2>10. \A x \in Recorded' : HwRecordFits(x, client_list[x])'
    <3>1. SUFFICES ASSUME NEW x \in Recorded' PROVE HwRecordFits(x, client_list[x])'
      OBVIOUS
    <3>2. x \in Recorded /\ client_list'[x] = left[x] /\ HwRecordFits(x, client_list[x])
      BY <1>1, <2>3
    <3> QED BY <2>1, <2>2, <2>7, <3>2 DEF HwRecordFits
  <2> QED BY <2>5, <2>6, <2>8, <2>9, <2>10 DEF HwInv
<1>3. CASE At(t, "close", "service")
  <2>1. /\ owner' = [owner EXCEPT ![s] = None] /\ has' = [has EXCEPT ![c] = has[c] \ {s}]
        /\ Done(t) /\ client_list' = client_list /\ Recorded' = Recorded
    BY <1>c, <1>3 DEF HwClose, At, agm_session_close, hwvars, Recorded
  <2>2. /\ thr'[t].op = "idle" /\ thr'[t].c = None
        /\ \A u \in Threads \ {t} : thr'[u] = thr[u]
    BY <2>1, Returns DEF HwInv, HwTypes, CbTypes
  <2>3. OneCall'
    BY <2>1, Returns, HwOneCallKept
  <2>4. HwTypes'
    BY <1>t, <2>1 DEF HwInv, HwTypes
  <2>5. \A x, y : HwPending(x, y)' => HwPending(x, y)
    BY <2>2 DEF HwPending
  <2>6. \A u \in Threads : HwCallFits(thr[u])'
    <3>1. ASSUME NEW u \in Threads \ {t} PROVE HwCallFits(thr[u])'
      <4>1. thr'[u] = thr[u] /\ HwCallFits(thr[u]) /\ thr[u].c # c
        BY <1>0, <2>2 DEF HwInv
      <4>2. CASE thr[u].op \in {"open", "close"}
        <5>1. thr[u].s \in Sessions
          BY <4>2, HwOnlyCall DEF HwCalls
        <5> QED BY <1>0, <1>t, <2>1, <4>1, <4>2, <5>1 DEF HwCallFits, HwInv, HwTypes
      <4>3. CASE thr[u].op \notin {"open", "close"}
        BY <1>t, <4>1, <4>3 DEF HwCallFits
      <4> QED BY <4>2, <4>3
    <3>2. HwCallFits(thr[t])'
      BY <2>2 DEF HwCallFits, HwCalls
    <3> QED BY <3>1, <3>2
  <2>7. \A x \in Clients : HwClientFits(x)'
    <3>1. ASSUME NEW x \in Clients PROVE HwClientFits(x)'
      <4>0. HwClientFits(x) /\ has[x] \subseteq Sessions /\ x # None
        BY IpcAssumption DEF HwInv, HwTypes, CbTypes, None
      <4>1. Working(x)' \subseteq Working(x)
        BY <2>2, <4>0 DEF Working
      <4>2. has'[x] = IF x = c THEN has[x] \ {s} ELSE has[x]
        BY <2>1 DEF HwInv, HwTypes, CbTypes
      <4>3. \A y \in has'[x] : y # s /\ y \in has[x]
        BY <1>0, <4>0, <4>2 DEF HwClientFits
      <4>4. \A y \in has'[x] : owner'[y] = x
        BY <2>1, <4>0, <4>3 DEF HwClientFits, HwInv, HwTypes
      <4> QED BY <1>t, <4>0, <4>1, <4>2, <4>4 DEF HwClientFits
    <3> QED BY <3>1
  <2>8. \A x \in Recorded' : HwRecordFits(x, client_list[x])'
    <3>1. SUFFICES ASSUME NEW x \in Recorded, NEW y \in ToSet(client_list[x])
                   PROVE  owner'[y] = x /\ ~HwPending(x, y)'
      BY <1>1, <2>1 DEF HwRecordFits
    <3>2. y \in Sessions /\ owner[y] = x /\ ~HwPending(x, y)
      BY <1>1, HwRecordedSessions DEF HwInv, HwRecordFits
    <3>3. HwPending(c, s)
      BY <1>c, <1>3 DEF HwPending, At
    <3> QED BY <1>0, <2>1, <2>5, <3>2, <3>3 DEF HwInv, HwTypes
  <2> QED BY <2>3, <2>4, <2>6, <2>7, <2>8 DEF HwInv
<1> QED BY <1>2, <1>3 DEF HwClose

LEMMA HwRegistrationsInv ==
  ASSUME HwInv, NEW t \in Threads, HwRegister(t) \/ HwDeregister(t)
  PROVE  HwInv'
<1>1. /\ thr[t].op \in {"add_cb", "del_cb"}
      /\ UNCHANGED <<alive, owner, has, deaths, client_list>>
  BY DEF HwRegister, HwDeregister, At, hwvars
<1>2. CbTypes' /\ CbTypes
  BY HwStepTypes DEF HwInv, HwTypes, HwStep
<1>3. PICK k \in HwTask \cup {Idle} :
        /\ thr' = [thr EXCEPT ![t] = k]
        /\ \/ k = Idle
           \/ k.op = thr[t].op /\ k.c = thr[t].c /\ k.s = thr[t].s
  BY <1>2, HwMoves DEF HwStep
<1> QED BY <1>1, <1>2, <1>3, HwThreadOnly

(* What the notifier finds on the list are sessions of the dead client.    *)
LEMMA HwNotifierInv ==
  ASSUME HwInv, NEW t \in Threads, serviceDied_closes(t)
  PROVE  HwInv'
<1>c. PICK c : c = thr[t].c
  OBVIOUS
<1>0. /\ thr[t].op = "died" /\ c \in Clients /\ c \notin alive /\ has[c] = {}
      /\ \A u \in Threads \ {t} : thr[u].c # c
  <2>1. thr[t].op = "died"
    BY DEF serviceDied_closes, At
  <2> QED BY <1>c, <2>1, HwOnlyCall DEF HwCallFits, HwInv, HwClientFits
<1>t. CbTypes' /\ CbTypes /\ UNCHANGED <<alive, has, linked, deaths>>
  BY HwStepTypes DEF HwInv, HwTypes, HwStep, serviceDied_closes
<1>1. /\ client_list \in [Recorded -> Seq(Sessions)] /\ Recorded \subseteq Clients
      /\ \A x \in Recorded : HwRecordFits(x, client_list[x])
  BY DEF HwInv, HwTypes
<1>2. CASE At(t, "died", "list")
  <2>1. UNCHANGED <<alive, owner, has, deaths, client_list>>
    BY <1>2 DEF serviceDied_closes, At
  <2>2. PICK k \in HwTask \cup {Idle} :
          /\ thr' = [thr EXCEPT ![t] = k]
          /\ \/ k = Idle
             \/ k.op = thr[t].op /\ k.c = thr[t].c /\ k.s = thr[t].s
    BY <1>t, HwMoves DEF HwStep
  <2> QED BY <1>0, <1>t, <2>1, <2>2, HwThreadOnly
<1>3. CASE At(t, "died", "close") /\ c \in Recorded /\ client_list[c] # <<>>
  <2>0. PICK s : s = Head(client_list[c])
    OBVIOUS
  <2>1. /\ owner' = [owner EXCEPT ![s] = None] /\ thr' = thr
        /\ client_list' = [client_list EXCEPT ![c] = Tail(@)]
    BY <1>c, <1>3, <2>0 DEF serviceDied_closes, At, agm_session_close
  <2>2. /\ IsInjective(Tail(client_list[c])) /\ Tail(client_list[c]) \in Seq(Sessions)
        /\ s \in ToSet(client_list[c])
        /\ ToSet(Tail(client_list[c])) = ToSet(client_list[c]) \ {s}
    BY <1>1, <1>3, <2>0, TailElems DEF HwRecordFits
  <2>3. s \in Sessions /\ owner[s] = c
    BY <1>1, <1>3, <2>2, HwRecordedSessions DEF HwInv, HwRecordFits
  <2>4. /\ Recorded' = Recorded /\ client_list' \in [Recorded -> Seq(Sessions)]
        /\ client_list'[c] = Tail(client_list[c])
        /\ \A x \in Recorded \ {c} : client_list'[x] = client_list[x]
    BY <1>1, <1>3, <2>1, <2>2 DEF Recorded
  <2>5. HwTypes'
    BY <1>t, <1>1, <2>1, <2>4 DEF HwInv, HwTypes
  <2>6. \A x, y : HwPending(x, y)' <=> HwPending(x, y)
    BY <2>1 DEF HwPending
  <2>7. \A u \in Threads : HwCallFits(thr[u])'
    <3>1. SUFFICES ASSUME NEW u \in Threads PROVE HwCallFits(thr[u])'
      OBVIOUS
    <3>2. HwCallFits(thr[u])
      BY DEF HwInv
    <3>3. CASE thr[u].op \in {"open", "close"}
      <4>1. thr[u].s \in Sessions /\ thr[u].c # c
        BY <1>0, <3>3, HwOnlyCall DEF HwCalls
      <4> QED BY <1>t, <2>1, <2>3, <3>2, <3>3, <4>1 DEF HwCallFits, HwInv, HwTypes
    <3>4. CASE thr[u].op \notin {"open", "close"}
      BY <1>t, <2>1, <3>2, <3>4 DEF HwCallFits
    <3> QED BY <3>3, <3>4
  <2>8. \A x \in Clients : HwClientFits(x)'
    <3>1. ASSUME NEW x \in Clients PROVE HwClientFits(x)'
      <4>0. HwClientFits(x) /\ has[x] \subseteq Sessions
        BY DEF HwInv, HwTypes, CbTypes
      <4>1. \A y \in has[x] : y # s
        BY <1>0, <2>3, <4>0 DEF HwClientFits
      <4>2. \A y \in has[x] : owner'[y] = owner[y]
        BY <2>1, <4>0, <4>1 DEF HwInv, HwTypes
      <4>3. Working(x)' = Working(x)
        BY <2>1 DEF Working
      <4> QED BY <1>t, <4>0, <4>2, <4>3 DEF HwClientFits
    <3> QED BY <3>1
  <2>9. \A x \in Recorded' : HwRecordFits(x, client_list[x])'
    <3>1. ASSUME NEW x \in Recorded, NEW y \in ToSet(client_list'[x])
          PROVE  owner'[y] = x /\ ~HwPending(x, y)'
      <4>1. y \in ToSet(client_list[x]) /\ (x = c => y # s)
        BY <2>2, <2>4
      <4>2. y \in Sessions /\ owner[y] = x /\ ~HwPending(x, y)
        BY <1>1, <4>1, HwRecordedSessions DEF HwInv, HwRecordFits
      <4> QED BY <2>1, <2>3, <2>6, <4>1, <4>2 DEF HwInv, HwTypes
    <3>2. \A x \in Recorded : IsInjective(client_list'[x])
      BY <1>1, <2>2, <2>4 DEF HwRecordFits
    <3> QED BY <2>4, <3>1, <3>2 DEF HwRecordFits
  <2>10. OneCall'
    BY <2>1 DEF HwInv, OneCall
  <2> QED BY <2>5, <2>7, <2>8, <2>9, <2>10 DEF HwInv
<1>4. CASE At(t, "died", "close") /\ ~(c \in Recorded /\ client_list[c] # <<>>)
  <2>1. /\ client_list' = [k \in Recorded \ {c} |-> client_list[k]]
        /\ Done(t) /\ UNCHANGED owner
    BY <1>c, <1>4 DEF serviceDied_closes, At
  <2>2. Recorded' = Recorded \ {c}
    BY <2>1 DEF Recorded
  <2> QED BY <1>0, <1>t, <1>1, <2>1, <2>2, HwRecordInv
<1> QED BY <1>c, <1>2, <1>3, <1>4 DEF serviceDied_closes

LEMMA HwCallInv ==
  ASSUME HwInv, Races \subseteq {"exit_open"},
         NEW t \in Threads, NEW c \in Clients, HwCall(t, c)
  PROVE  HwInv'
<1>0. CbTypes /\ c # None
  BY IpcAssumption DEF HwInv, HwTypes, None
<1>1. PICK k \in HwTask :
        /\ thr[t] = Idle /\ c \in alive /\ Working(c) = {}
        /\ thr' = [thr EXCEPT ![t] = k] /\ k.c = c /\ k.op \in HwCalls
        /\ k.op = "open" => k.pc = "service"
        /\ k.op = "close" => k.pc = "list" /\ k.s \in has[c]
        /\ UNCHANGED <<alive, owner, has, linked, deaths>> /\ UNCHANGED hwvars
  BY <1>0, HwCallTaken
<1>2. UNCHANGED <<client_list, clbk_data_list, made>> /\ Recorded' = Recorded
  BY <1>1 DEF hwvars, Recorded
<1>3. thr'[t] = k /\ \A u \in Threads \ {t} : thr'[u] = thr[u] /\ thr[u].c # c
  BY <1>0, <1>1 DEF CbTypes, Working
<1>4. HwTypes'
  BY <1>1, <1>2 DEF HwInv, HwTypes, CbTypes
<1>5. OneCall'
  BY <1>1, <1>3 DEF HwInv, OneCall
<1>6. \A x, y : HwPending(x, y)' => HwPending(x, y)
  BY <1>1, <1>3 DEF HwPending
<1>7. \A u \in Threads : HwCallFits(thr[u])'
  <2>1. ASSUME NEW u \in Threads \ {t} PROVE HwCallFits(thr[u])'
    BY <1>1, <1>3 DEF HwInv, HwCallFits
  <2>2. k.op = "close" => owner[k.s] = c
    BY <1>1 DEF HwInv, HwClientFits
  <2>3. HwCallFits(thr[t])'
    BY <1>1, <1>3, <2>2 DEF HwCallFits, HwCalls
  <2> QED BY <2>1, <2>3
<1>8. \A x \in Clients : HwClientFits(x)'
  <2>1. \A x \in Clients \ {c} : Working(x)' = Working(x)
    BY <1>1, <1>3, IpcAssumption DEF Working, Idle, None
  <2>2. c \notin deaths
    BY <1>1 DEF HwInv, HwClientFits
  <2> QED BY <1>1, <2>1, <2>2 DEF HwInv, HwClientFits
<1>9. \A x \in Recorded' : HwRecordFits(x, client_list[x])'
  BY <1>1, <1>2, <1>6 DEF HwInv, HwRecordFits
<1> QED BY <1>4, <1>5, <1>7, <1>8, <1>9 DEF HwInv

LEMMA HwToldInv ==
  ASSUME HwInv, NEW t \in Threads, NEW c \in Clients, serviceDied(t, c)
  PROVE  HwInv'
<1>0. CbTypes /\ c # None /\ c \in deaths /\ c \notin alive /\ Working(c) = {}
  BY IpcAssumption DEF HwInv, HwTypes, None, HwClientFits, serviceDied
<1>1. PICK k \in HwTask : /\ thr' = [thr EXCEPT ![t] = k] /\ thr[t] = Idle
                          /\ k.op = "died" /\ k.c = c
  BY <1>0, HwToldTypes
<1>2. /\ UNCHANGED <<alive, owner, has, linked, client_list>> /\ deaths' = deaths \ {c}
      /\ Recorded' = Recorded
  BY DEF serviceDied, Recorded
<1>3. thr'[t] = k /\ \A u \in Threads \ {t} : thr'[u] = thr[u] /\ thr[u].c # c
  BY <1>0, <1>1 DEF CbTypes, Working
<1>4. HwTypes'
  BY <1>0, <1>2, HwToldTypes DEF HwInv, HwTypes
<1>5. OneCall'
  BY <1>1, <1>3 DEF HwInv, OneCall
<1>6. \A x, y : HwPending(x, y)' => HwPending(x, y)
  BY <1>1, <1>3 DEF HwPending
<1>7. \A u \in Threads : HwCallFits(thr[u])'
  <2>1. ASSUME NEW u \in Threads \ {t} PROVE HwCallFits(thr[u])'
    BY <1>2, <1>3 DEF HwInv, HwCallFits
  <2>2. HwCallFits(thr[t])'
    BY <1>0, <1>1, <1>2, <1>3 DEF HwCallFits, HwCalls
  <2> QED BY <2>1, <2>2
<1>8. \A x \in Clients : HwClientFits(x)'
  <2>1. \A x \in Clients \ {c} : Working(x)' = Working(x)
    BY <1>1, <1>3, IpcAssumption DEF Working, Idle, None
  <2> QED BY <1>2, <2>1 DEF HwInv, HwClientFits
<1>9. \A x \in Recorded' : HwRecordFits(x, client_list[x])'
  BY <1>2, <1>6 DEF HwInv, HwRecordFits
<1> QED BY <1>4, <1>5, <1>7, <1>8, <1>9 DEF HwInv

LEMMA HwDieInv ==
  ASSUME HwInv, Races \subseteq {"exit_open"}, NEW c \in Clients, Die(c), UNCHANGED hwvars
  PROVE  HwInv'
<1>1. /\ Working(c) = {} /\ c \in alive /\ alive' = alive \ {c}
      /\ has' = [has EXCEPT ![c] = {}] /\ deaths' = deaths \cup ({c} \cap linked)
      /\ UNCHANGED <<owner, thr, linked, client_list, clbk_data_list, made, Recorded>>
  BY DEF Die, hwvars, Recorded
<1>2. HwTypes'
  BY <1>1 DEF HwInv, HwTypes, CbTypes
<1>3. OneCall' /\ \A x : Working(x)' = Working(x)
  BY <1>1 DEF HwInv, OneCall, Working
<1>4. \A x, y : HwPending(x, y)' <=> HwPending(x, y)
  BY <1>1 DEF HwPending
<1>5. \A u \in Threads : HwCallFits(thr[u])'
  BY <1>1 DEF HwInv, HwCallFits, Working
<1>6. \A x \in Clients : HwClientFits(x)'
  BY <1>1, <1>3 DEF HwInv, HwTypes, CbTypes, HwClientFits
<1>7. \A x \in Recorded' : HwRecordFits(x, client_list[x])'
  BY <1>1, <1>4 DEF HwInv, HwRecordFits
<1> QED BY <1>2, <1>3, <1>5, <1>6, <1>7 DEF HwInv

LEMMA HwRebornInv ==
  ASSUME HwInv, NEW c \in Clients, HwReborn(c)
  PROVE  HwInv'
<1>1. /\ Working(c) = {} /\ c \notin deaths /\ alive' = alive \cup {c} /\ linked' = linked \ {c}
      /\ UNCHANGED <<owner, has, thr, deaths, client_list, clbk_data_list, made, Recorded>>
  BY DEF HwReborn, Reborn, hwvars, Recorded
<1>2. HwTypes'
  BY <1>1 DEF HwInv, HwTypes, CbTypes
<1>3. OneCall' /\ \A x : Working(x)' = Working(x)
  BY <1>1 DEF HwInv, OneCall, Working
<1>4. \A x, y : HwPending(x, y)' <=> HwPending(x, y)
  BY <1>1 DEF HwPending
<1>5. \A u \in Threads : HwCallFits(thr[u])'
  BY <1>1 DEF HwInv, HwCallFits, Working
<1>6. \A x \in Clients : HwClientFits(x)'
  BY <1>1, <1>3 DEF HwInv, HwClientFits
<1>7. \A x \in Recorded' : HwRecordFits(x, client_list[x])'
  BY <1>1, <1>4 DEF HwInv, HwRecordFits
<1> QED BY <1>2, <1>3, <1>5, <1>6, <1>7 DEF HwInv

LEMMA HwStepInv ==
  ASSUME HwInv, Races \subseteq {"exit_open"}, [HwNext]_<<cvars, hwvars>>
  PROVE  HwInv'
<1>1. CASE \E t \in Threads : HwStep(t)
  BY <1>1, HwOpenInv, HwAddInv, HwCloseInv, HwRegistrationsInv, HwNotifierInv DEF HwStep
<1>2. CASE UNCHANGED <<cvars, hwvars>>
  BY <1>2 DEF cvars, hwvars, HwInv, HwTypes, CbTypes, OneCall, HwCallFits, HwClientFits, Working,
              HwRecordFits, HwPending, Recorded
<1> QED BY <1>1, <1>2, HwCallInv, HwToldInv, HwDieInv, HwRebornInv DEF HwNext

-----------------------------------------------------------------------------
(* The promise of ClientSessions.                                          *)

LEMMA HwAskedKept ==
  ASSUME HwInv, NEW t \in Threads, NEW k, thr' = [thr EXCEPT ![t] = k],
         \/ thr[t].op # "close" /\ k.op # "close"
         \/ thr[t].op = "close" /\ k.op = "close" /\ k.c = thr[t].c /\ k.s = thr[t].s
  PROVE  Asked' = Asked
  BY DEF HwInv, HwTypes, CbTypes, Asked

LEMMA HwAskedMore ==
  ASSUME HwInv, NEW t \in Threads, NEW k, thr' = [thr EXCEPT ![t] = k],
         thr[t].op # "close", k.op = "close"
  PROVE  Asked' = Asked \cup {<<k.c, k.s>>}
  BY DEF HwInv, HwTypes, CbTypes, Asked

LEMMA HwAskedLess ==
  ASSUME HwInv, NEW t \in Threads, thr' = [thr EXCEPT ![t] = Idle], thr[t].op = "close"
  PROVE  /\ <<thr[t].c, thr[t].s>> \in Asked
         /\ Asked' = Asked \ {<<thr[t].c, thr[t].s>>}
<1>1. \A u \in Threads \ {t} : thr[u].c # thr[t].c
  BY HwOnlyCall
<1>2. Idle.op # "close"
  BY DEF Idle
<1> QED BY <1>1, <1>2 DEF HwInv, HwTypes, CbTypes, Asked

LEMMA HwStepPromised ==
  ASSUME HwInv, NEW t \in Threads, HwStep(t)
  PROVE  Promise!Next \/ UNCHANGED <<alive, owner, Asked>>
<1>0. PICK k \in HwTask \cup {Idle} :
        /\ thr' = [thr EXCEPT ![t] = k] /\ thr[t].op # "idle"
        /\ \/ k = Idle /\ k.op = "idle"
           \/ k.op = thr[t].op /\ k.c = thr[t].c /\ k.s = thr[t].s
  BY HwMoves DEF HwInv, HwTypes
<1>1. alive' = alive
  BY HwCallbacks DEF HwInv, HwTypes
<1>2. thr[t].op # "close" => Asked' = Asked
  BY <1>0, HwAskedKept
<1>3. CASE owner' = owner /\ thr[t].op # "close"
  BY <1>1, <1>2, <1>3
<1>4. CASE HwOpen(t)
  <2>1. thr[t].op = "open" /\ thr[t].c \in Clients /\ thr[t].s \in Sessions
    BY <1>4, HwOnlyCall DEF HwOpen, At, HwCalls
  <2>2. CASE agm_session_open(thr[t].c, thr[t].s)
    <3>1. Promise!Open(thr[t].c, thr[t].s)
      BY <1>1, <1>2, <2>1, <2>2 DEF Promise!Open, agm_session_open, None, Promise!None
    <3> QED BY <2>1, <3>1 DEF Promise!Next
  <2>3. CASE owner' = owner
    BY <1>3, <2>1, <2>3
  <2> QED BY <1>4, <2>2, <2>3 DEF HwOpen
<1>5. CASE HwClose(t) /\ At(t, "close", "list")
  <2>1. owner' = owner /\ Goto(t, "service") /\ thr[t].op = "close"
    BY <1>5 DEF HwClose, At
  <2>2. thr'[t].op = "close"
    BY <2>1, HwOnlyCall DEF HwInv, HwTypes, CbTypes, HwTask, Goto
  <2>3. k.op = "close"
    BY <1>0, <2>2 DEF HwInv, HwTypes, CbTypes
  <2>4. Asked' = Asked
    BY <1>0, <2>1, <2>3, HwAskedKept
  <2> QED BY <1>1, <2>1, <2>4
<1>6. CASE HwClose(t) /\ At(t, "close", "service")
  <2>1. thr[t].op = "close" /\ agm_session_close(thr[t].s) /\ Done(t)
    BY <1>6 DEF HwClose, At
  <2>2. thr[t].c \in Clients /\ thr[t].s \in Sessions /\ owner[thr[t].s] = thr[t].c
    BY <2>1, HwOnlyCall DEF HwCallFits, HwCalls
  <2>3. <<thr[t].c, thr[t].s>> \in Asked /\ Asked' = Asked \ {<<thr[t].c, thr[t].s>>}
    BY <2>1, HwAskedLess DEF Done
  <2>4. Promise!Close(thr[t].c, thr[t].s)
    BY <1>1, <2>1, <2>2, <2>3 DEF Promise!Close, agm_session_close, None, Promise!None
  <2> QED BY <2>2, <2>4 DEF Promise!Next
<1>7. CASE serviceDied_closes(t)
  <2>0. thr[t].op = "died"
    BY <1>7 DEF serviceDied_closes, At
  <2>1. thr[t].c \in Clients \ alive
    BY <2>0, HwOnlyCall DEF HwCallFits
  <2>2. CASE /\ thr[t].c \in Recorded /\ client_list[thr[t].c] # <<>>
             /\ agm_session_close(Head(client_list[thr[t].c]))
    <3> DEFINE s == Head(client_list[thr[t].c])
    <3>1. owner' = [owner EXCEPT ![s] = None]
      BY <2>2 DEF agm_session_close
    <3>2. s \in ToSet(client_list[thr[t].c])
      BY <2>2, TailElems DEF HwInv, HwTypes, HwRecordFits
    <3>3. s \in Sessions /\ owner[s] = thr[t].c
      BY <2>2, <3>2, HwRecordedSessions DEF HwInv, HwRecordFits
    <3>4. Promise!Reap(s)
      BY <1>1, <1>2, <2>0, <2>1, <3>1, <3>3, IpcAssumption DEF Promise!Reap, None, Promise!None
    <3> QED BY <3>3, <3>4 DEF Promise!Next
  <2>3. CASE owner' = owner
    BY <1>3, <2>0, <2>3
  <2> QED BY <1>7, <2>2, <2>3 DEF serviceDied_closes
<1>8. CASE add_handle_to_list(t) \/ HwRegister(t) \/ HwDeregister(t)
  BY <1>3, <1>8 DEF add_handle_to_list, HwRegister, HwDeregister, At
<1> QED BY <1>4, <1>5, <1>6, <1>7, <1>8 DEF HwStep, HwClose

LEMMA HwNextPromised ==
  ASSUME HwInv, Races \subseteq {"exit_open"}, [HwNext]_<<cvars, hwvars>>
  PROVE  [Promise!Next]_<<alive, owner, Asked>>
<1>1. ASSUME NEW t \in Threads, NEW c \in Clients, HwCall(t, c)
      PROVE  [Promise!Next]_<<alive, owner, Asked>>
  <2>1. PICK k \in HwTask :
          /\ thr[t] = Idle /\ c \in alive
          /\ thr' = [thr EXCEPT ![t] = k] /\ k.c = c
          /\ k.op = "close" => k.s \in has[c]
          /\ UNCHANGED <<alive, owner>>
    BY <1>1, HwCallTaken DEF HwInv, HwTypes
  <2>2. thr[t].op # "close"
    BY <2>1 DEF Idle
  <2>3. CASE k.op # "close"
    BY <2>1, <2>2, <2>3, HwAskedKept
  <2>4. CASE k.op = "close"
    <3>1. Asked' = Asked \cup {<<c, k.s>>}
      BY <2>1, <2>2, <2>4, HwAskedMore
    <3>2. k.s \in Sessions /\ owner[k.s] = c
      BY <2>1, <2>4 DEF HwInv, HwTypes, CbTypes, HwClientFits
    <3>3. Promise!Ask(c, k.s)
      BY <2>1, <3>1, <3>2 DEF Promise!Ask
    <3> QED BY <3>2, <3>3 DEF Promise!Next
  <2> QED BY <2>3, <2>4
<1>2. ASSUME NEW t \in Threads, HwStep(t) PROVE [Promise!Next]_<<alive, owner, Asked>>
  BY <1>2, HwStepPromised
<1>3. ASSUME NEW t \in Threads, NEW c \in Clients, serviceDied(t, c)
      PROVE  [Promise!Next]_<<alive, owner, Asked>>
  <2>1. PICK k \in HwTask : /\ thr' = [thr EXCEPT ![t] = k] /\ thr[t] = Idle /\ k.op = "died"
    BY <1>3, HwToldTypes DEF HwInv, HwTypes
  <2>2. UNCHANGED <<alive, owner>> /\ thr[t].op # "close"
    BY <1>3, <2>1 DEF serviceDied, Idle
  <2> QED BY <2>1, <2>2, HwAskedKept
<1>4. ASSUME NEW c \in Clients, Die(c) PROVE [Promise!Next]_<<alive, owner, Asked>>
  <2>1. Promise!Die(c)
    BY <1>4 DEF Die, Promise!Die, Asked
  <2> QED BY <2>1 DEF Promise!Next
<1>5. ASSUME NEW c \in Clients, HwReborn(c) PROVE [Promise!Next]_<<alive, owner, Asked>>
  <2>1. \A s : <<c, s>> \notin Asked
    BY <1>5 DEF HwReborn, Reborn, Working, Asked
  <2>2. Promise!Reborn(c)
    BY <1>5, <2>1 DEF HwReborn, Reborn, Promise!Reborn, Asked
  <2> QED BY <2>2 DEF Promise!Next
<1>6. CASE UNCHANGED <<cvars, hwvars>>
  BY <1>6 DEF cvars, Asked
<1> QED BY <1>1, <1>2, <1>3, <1>4, <1>5, <1>6 DEF HwNext

(* However the threads of the server interleave, whatever allocations fail *)
(* and whoever dies, the hardware binder server closes a session only when *)
(* its owner has asked for it or is dead (ipc_agm_session_close,           *)
(* serviceDied), provided that a client's calls do not overtake each other *)
(* and none is in the server when it dies.  The first proviso is needed:   *)
(* the reply to an open is sent before its handle is recorded.             *)
THEOREM HwKeepsPromise ==
  ASSUME Races \subseteq {"exit_open"}
  PROVE  HwSpec => SessionsStayOwned
<1>1. IpcInit /\ HwInit => Promise!Init
  BY DEF IpcInit, Promise!Init, Asked, Idle, None, Promise!None
<1>2. IpcInit /\ HwInit => HwInv
  <2>1. SUFFICES ASSUME IpcInit, HwInit PROVE HwInv
    OBVIOUS
  <2>2. Recorded = {} /\ client_list \in [Recorded -> Seq(Sessions)]
    BY <2>1 DEF HwInit, Recorded
  <2>3. HwTypes
    BY <2>1, <2>2 DEF IpcInit, HwInit, HwTypes, CbTypes
  <2>4. \A t \in Threads : thr[t].op = "idle" /\ thr[t].c = None
    BY <2>1 DEF IpcInit, Idle
  <2> QED BY <2>1, <2>2, <2>3, <2>4 DEF IpcInit, HwInv, OneCall, HwCallFits, HwCalls, HwClientFits
<1>3. HwInv /\ [HwNext]_<<cvars, hwvars>> => HwInv'
  BY HwStepInv
<1>4. HwInv /\ [HwNext]_<<cvars, hwvars>> => [Promise!Next]_<<alive, owner, Asked>>
  BY HwNextPromised
<1> QED BY <1>1, <1>2, <1>3, <1>4, PTL DEF HwSpec, SessionsStayOwned, Promise!Spec
=============================================================================
