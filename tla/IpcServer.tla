----------------------------- MODULE IpcServer ------------------------------
(***************************************************************************)
(* What the binder servers share: clients that call, die and come again,   *)
(* the threads of the server, and the sessions of the service behind it.   *)
(* A session object outlives its sessions, so a handle is the session.     *)
(***************************************************************************)
EXTENDS Naturals, FiniteSets, SequencesExt

CONSTANTS
  Clients, Sessions,
  Threads,  \* the server's threads
  FailingIpc, \* the records whose allocation can fail: "client", "process", "handle", "callback"
  Races     \* which of "death_in_call", "exit_open", "overtake" can happen

(* Nobody is nothing: an owner or a holder is told from its absence.       *)
ASSUME IpcAssumption == "none" \notin Clients \cup Sessions \cup Threads

VARIABLES
  alive,    \* the clients that live
  owner,    \* who opened each session (CLOSED: None)
  has,      \* the handles each client has been given
  thr,      \* what each thread is doing
  linked,   \* the clients whose death will be notified
  deaths    \* the deaths notified and not handled

cvars == <<alive, owner, has, thr, linked, deaths>>

None == "none"

Idle == [op |-> "idle", c |-> None]

Task == [op: {"register", "unregister", "open", "close", "add_cb", "del_cb", "died"},
         c: Clients, s: Sessions \cup {None}, pc: STRING, id: Nat, waits: BOOLEAN]

IpcInit ==
  /\ alive = Clients /\ owner = [s \in Sessions |-> None]
  /\ has = [c \in Clients |-> {}]
  /\ thr = [t \in Threads |-> Idle]
  /\ linked = {} /\ deaths = {}

Working(c) == {t \in Threads : thr[t].c = c}

Waiting(c) == {t \in Working(c) : thr[t].waits}

At(t, op, pc) == thr[t].op = op /\ thr[t].pc = pc

Goto(t, pc) == thr' = [thr EXCEPT ![t].pc = pc]

Done(t) == thr' = [thr EXCEPT ![t] = Idle]

Allocated(what) == IF what \in FailingIpc THEN BOOLEAN ELSE {TRUE}

(* A thread takes the call of a client that waits for no other.            *)
Begin(t, c, op, s, pc) ==
  /\ thr[t] = Idle /\ c \in alive /\ Waiting(c) = {}
  /\ "overtake" \notin Races => Working(c) = {}
  /\ thr' = [thr EXCEPT ![t] = [op |-> op, c |-> c, s |-> s, pc |-> pc, id |-> 0,
                                waits |-> TRUE]]
  /\ UNCHANGED <<alive, owner, has, linked, deaths>>

(* The reply to an open: a client that is still there has its handle.      *)
Given(c, s) == [has EXCEPT ![c] = IF c \in alive THEN @ \cup {s} ELSE @]

(* The service's open and close, whatever the caller.                      *)
agm_session_open(c, s) == owner[s] = None /\ owner' = [owner EXCEPT ![s] = c]

agm_session_close(s) == owner' = [owner EXCEPT ![s] = None]

Die(c) ==
  /\ c \in alive
  /\ "death_in_call" \notin Races => Working(c) = {}
  /\ alive' = alive \ {c} /\ has' = [has EXCEPT ![c] = {}]
  /\ deaths' = deaths \cup ({c} \cap linked)
  /\ UNCHANGED <<owner, thr, linked>>

(* A new process, under the name of one of which nothing is left.          *)
Reborn(c) ==
  /\ c \notin alive \cup deaths /\ Working(c) = {} /\ \A s \in Sessions : owner[s] # c
  /\ alive' = alive \cup {c} /\ linked' = linked \ {c}
  /\ UNCHANGED <<owner, has, thr, deaths>>

-----------------------------------------------------------------------------
(* A close is asked for while a thread is at it.                           *)
Asked == {<<thr[t].c, thr[t].s>> : t \in {u \in Threads : thr[u].op = "close"}}

Promise == INSTANCE ClientSessions WITH asked <- Asked

(* The server keeps the promise of ClientSessions: whatever the threads,   *)
(* the calls and the deaths do, no session is closed under a living client *)
(* that has not asked for it (agm_death_notifier.cpp binderDied,           *)
(* agm_server_wrapper.cpp serviceDied).                                    *)
SessionsStayOwned == Promise!Spec
=============================================================================
