--------------------------- MODULE SwBinderServer ---------------------------
(***************************************************************************)
(* The binder server (agm_death_notifier.cpp, ipc_proxy_server.cpp): the    *)
(* clients it knows, the session handles it has recorded for each, and the *)
(* notifier that closes them when the client's binder dies.                *)
(***************************************************************************)
EXTENDS IpcServer

VARIABLES
  g_client_list,       \* the handles recorded for each client known
  g_client_list_lock

swvars == <<g_client_list, g_client_list_lock>>

Known == DOMAIN g_client_list

Forget(c) == [k \in Known \ {c} |-> g_client_list[k]]

SwTypeOK ==
  /\ alive \subseteq Clients /\ owner \in [Sessions -> Clients \cup {None}]
  /\ has \in [Clients -> SUBSET Sessions]
  /\ thr \in [Threads -> Task \cup {Idle}]
  /\ linked \subseteq Clients /\ deaths \subseteq linked
  /\ Known \subseteq Clients
  /\ \A c \in Known : g_client_list[c] \in Seq(Sessions) /\ Len(g_client_list[c]) <= Cardinality(Sessions)
  /\ g_client_list_lock \in Threads \cup {None}

SwInit == g_client_list = [c \in {} |-> <<>>] /\ g_client_list_lock = None

LockFree == g_client_list_lock = None

-----------------------------------------------------------------------------
(* The calls a client makes: its proxy registers it when it is made and    *)
(* unregisters it when the process exits.                                  *)
SwCall(t, c) ==
  /\ \/ c \notin linked /\ Begin(t, c, "register", None, "link")
     \/ /\ c \in linked /\ ("exit_open" \notin Races => has[c] = {})
        /\ Begin(t, c, "unregister", None, "edit")
     \/ \E s \in Sessions \ has[c] : c \in linked /\ Begin(t, c, "open", s, "service")
     \/ \E s \in has[c] : Begin(t, c, "close", s, "service")
  /\ UNCHANGED swvars

(* A binder that is dead already cannot be linked to.                      *)
agm_register_client(t) ==
  LET c == thr[t].c
  IN \/ /\ At(t, "register", "link")
        /\ linked' = IF c \in alive THEN linked \cup {c} ELSE linked
        /\ Goto(t, "edit")
        /\ UNCHANGED <<alive, owner, has, deaths, swvars>>
     \/ /\ At(t, "register", "edit") /\ LockFree
        /\ \E ok \in Allocated("client") :
             g_client_list' = IF ~ok THEN g_client_list
                              ELSE [k \in Known \cup {c} |-> IF k = c THEN <<>> ELSE g_client_list[k]]
        /\ Done(t)
        /\ UNCHANGED <<alive, owner, has, linked, deaths, g_client_list_lock>>

(* The process exits after it has unregistered; the handles recorded for   *)
(* it are dropped with the record.                                         *)
agm_unregister_client(t) ==
  LET c == thr[t].c
  IN /\ At(t, "unregister", "edit") /\ LockFree
     /\ linked' = linked \ {c} /\ deaths' = deaths \ {c}
     /\ g_client_list' = Forget(c)
     /\ alive' = alive \ {c} /\ has' = [has EXCEPT ![c] = {}]
     /\ Done(t)
     /\ UNCHANGED <<owner, g_client_list_lock>>

(* OPEN and CLOSE: first the service, then the record.                     *)
ipc_agm_session_open(t) ==
  /\ At(t, "open", "service")
  /\ \/ agm_session_open(thr[t].c, thr[t].s) /\ Goto(t, "find") /\ UNCHANGED has
     \/ Done(t) /\ UNCHANGED <<owner, has>>
  /\ UNCHANGED <<alive, linked, deaths, swvars>>

ipc_agm_session_close(t) ==
  /\ At(t, "close", "service")
  /\ agm_session_close(thr[t].s)
  /\ Goto(t, "find")
  /\ UNCHANGED <<alive, has, linked, deaths, swvars>>

(* The reply to an open gives the handle; the reply to a close ends it.    *)
Replies(t) ==
  /\ Done(t)
  /\ has' = IF thr[t].op = "open" THEN Given(thr[t].c, thr[t].s)
            ELSE [has EXCEPT ![thr[t].c] = @ \ {thr[t].s}]

(* The record is looked up under the lock and used under the lock, but     *)
(* not under the same one.  A client that is not known makes the open      *)
(* release a lock it does not hold.                                        *)
get_client_handle_from_list(t) ==
  /\ thr[t].op \in {"open", "close"} /\ thr[t].pc = "find" /\ LockFree
  /\ IF thr[t].c \in Known THEN Goto(t, "edit") /\ UNCHANGED has
     ELSE IF thr[t].op = "open" THEN Goto(t, "unlock") /\ UNCHANGED has
     ELSE Replies(t)
  /\ UNCHANGED <<alive, owner, linked, deaths, swvars>>

UnlockUnknown(t) ==
  /\ At(t, "open", "unlock")
  /\ g_client_list_lock' = None
  /\ Replies(t)
  /\ UNCHANGED <<alive, owner, linked, deaths, g_client_list>>

(* A record that was freed since it was looked up takes the write along.   *)
(* Without memory the open succeeds and the handle is not recorded.        *)
agm_add_session_obj_handle(t) ==
  /\ At(t, "open", "edit") /\ LockFree
  /\ \E ok \in Allocated("handle") :
       g_client_list' = IF thr[t].c \notin Known \/ ~ok THEN g_client_list
                        ELSE [g_client_list EXCEPT ![thr[t].c] = Append(@, thr[t].s)]
  /\ Replies(t)
  /\ UNCHANGED <<alive, owner, linked, deaths, g_client_list_lock>>

\* Mutant: the record of a closed session stays.
BugRemoveForgets(t) ==
  /\ At(t, "close", "edit") /\ LockFree
  /\ Replies(t)
  /\ UNCHANGED <<alive, owner, linked, deaths, swvars>>

agm_remove_session_obj_handle(t) ==
  /\ At(t, "close", "edit") /\ LockFree
  /\ g_client_list' = IF thr[t].c \notin Known THEN g_client_list
                      ELSE [g_client_list EXCEPT ![thr[t].c] = RemoveFirst(@, thr[t].s)]
  /\ Replies(t)
  /\ UNCHANGED <<alive, owner, linked, deaths, g_client_list_lock>>

-----------------------------------------------------------------------------
(* The notifier closes, under the lock, every handle of the client whose   *)
(* binder died.                                                            *)
binderDied(t, c) ==
  /\ c \in deaths /\ thr[t] = Idle /\ LockFree
  /\ g_client_list_lock' = t
  /\ deaths' = deaths \ {c}
  /\ thr' = [thr EXCEPT ![t] = [op |-> "died", c |-> c, s |-> None, pc |-> "close", id |-> 0,
                                waits |-> FALSE]]
  /\ UNCHANGED <<alive, owner, has, linked, g_client_list>>

\* Mutant: the notifier closes the first handle only.
BugClosesFirst(t) ==
  LET c == thr[t].c
  IN /\ At(t, "died", "close")
     /\ g_client_list_lock' = None /\ Done(t)
     /\ g_client_list' = Forget(c)
     /\ IF c \in Known /\ g_client_list[c] # <<>> THEN agm_session_close(Head(g_client_list[c]))
        ELSE UNCHANGED owner
     /\ UNCHANGED <<alive, has, linked, deaths>>

binderDied_closes(t) ==
  LET c == thr[t].c
  IN /\ At(t, "died", "close")
     /\ IF c \in Known /\ g_client_list[c] # <<>>
        THEN /\ agm_session_close(Head(g_client_list[c]))
             /\ g_client_list' = [g_client_list EXCEPT ![c] = Tail(@)]
             /\ UNCHANGED <<thr, g_client_list_lock>>
        ELSE /\ g_client_list' = Forget(c)
             /\ g_client_list_lock' = None /\ Done(t)
             /\ UNCHANGED owner
     /\ UNCHANGED <<alive, has, linked, deaths>>

-----------------------------------------------------------------------------
SwStep(t) ==
  \/ agm_register_client(t) \/ agm_unregister_client(t)
  \/ ipc_agm_session_open(t) \/ ipc_agm_session_close(t)
  \/ get_client_handle_from_list(t) \/ UnlockUnknown(t)
  \/ agm_add_session_obj_handle(t) \/ agm_remove_session_obj_handle(t)
  \/ binderDied_closes(t)

SwNext ==
  \/ \E t \in Threads, c \in Clients : SwCall(t, c)
  \/ \E t \in Threads : SwStep(t)
  \/ \E t \in Threads, c \in Clients : binderDied(t, c)
  \/ \E c \in Clients : Die(c) /\ UNCHANGED swvars
  \/ \E c \in Clients : c \notin Known /\ Reborn(c) /\ UNCHANGED swvars

(* Mutexes are handed on, threads run, and deaths are told.                *)
SwFairness ==
  /\ \A t \in Threads : SF_<<cvars, swvars>>(SwStep(t))
  /\ \A c \in Clients : SF_<<cvars, swvars>>(\E t \in Threads : binderDied(t, c))

SwSpec == IpcInit /\ SwInit /\ [][SwNext]_<<cvars, swvars>> /\ SwFairness

-----------------------------------------------------------------------------
(* The handles recorded for a client are the sessions it has open, except  *)
(* while a call of it, or the notifier, is between the service and the     *)
(* record (ipc_proxy_server.cpp OPEN and CLOSE): a record too many would   *)
(* close another client's session, one too few would leave a session open. *)
RecordsMatch ==
  \A c \in Known : Working(c) = {} =>
    ToSet(g_client_list[c]) = {s \in Sessions : owner[s] = c}
=============================================================================
