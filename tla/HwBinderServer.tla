--------------------------- MODULE HwBinderServer ---------------------------
(***************************************************************************)
(* The hardware binder server (HwBinders agm_server_wrapper.cpp): handles  *)
(* recorded by process, callbacks recorded by registration, and the        *)
(* notifier that gives both back.  A client is linked to death by its      *)
(* callbacks only.                                                         *)
(***************************************************************************)
EXTENDS IpcServer, Lists

CONSTANTS
  Data,    \* the client data each client passes with its callbacks
  CbSessions, \* the sessions callbacks are registered for
  MaxCbs   \* bound: registrations ever made

(* Callbacks are registered for sessions.                                  *)
ASSUME HwAssumption == CbSessions \subseteq Sessions

VARIABLES
  client_list,       \* the handles recorded for each process
  client_list_lock,
  clbk_data_list,    \* the callbacks recorded, in order
  cbs,               \* the callbacks the service has
  made               \* registrations ever made

hwvars == <<client_list, client_list_lock, clbk_data_list, cbs, made>>

Recorded == DOMAIN client_list

SrvrClbk == [id: Nat, c: Clients, s: Sessions]

HwTypeOK ==
  /\ thr \in [Threads -> Task \cup {Idle}]
  /\ Recorded \subseteq Clients /\ \A c \in Recorded : client_list[c] \in Seq(Sessions)
  /\ client_list_lock \in Threads \cup {None}
  /\ ToSet(clbk_data_list) \cup cbs \subseteq SrvrClbk
  /\ \A c \in Recorded : client_list_lock = None => client_list[c] # <<>>

HwInit ==
  /\ client_list = [c \in {} |-> <<>>] /\ client_list_lock = None
  /\ clbk_data_list = <<>> /\ cbs = {} /\ made = 0

HwLockFree == client_list_lock = None

-----------------------------------------------------------------------------
HwCall(t, c) ==
  /\ \/ \E s \in CbSessions : made < MaxCbs /\ Begin(t, c, "add_cb", s, "link")
     \/ \E s \in CbSessions : Begin(t, c, "del_cb", s, "list")
     \/ \E s \in Sessions \ has[c] : Begin(t, c, "open", s, "service")
     \/ \E s \in has[c] : Begin(t, c, "close", s, "list")
  /\ UNCHANGED hwvars

(* The reply is sent before the handle is recorded.                        *)
HwOpen(t) ==
  LET c == thr[t].c  s == thr[t].s
  IN /\ At(t, "open", "service")
     /\ \/ /\ agm_session_open(c, s)
           /\ has' = Given(c, s)
           /\ thr' = [thr EXCEPT ![t].pc = "list", ![t].waits = FALSE]
        \/ Done(t) /\ UNCHANGED <<owner, has>>
     /\ UNCHANGED <<alive, linked, deaths, hwvars>>

(* A record of the process is allocated whether it has one or not; without *)
(* memory for it, or for the handle, the handle is not recorded.           *)
add_handle_to_list(t) ==
  LET c == thr[t].c  s == thr[t].s
  IN /\ At(t, "open", "list") /\ HwLockFree
     /\ \E ok_process \in Allocated("process"), ok_handle \in Allocated("handle") :
          LET new == IF ok_handle THEN <<s>> ELSE <<>> IN
          client_list' = IF ~ok_process THEN client_list
                         ELSE [k \in Recorded \cup {c} |->
                                 IF k # c THEN client_list[k]
                                 ELSE IF c \in Recorded THEN client_list[c] \o new ELSE new]
     /\ Done(t)
     /\ UNCHANGED <<alive, owner, has, linked, deaths, client_list_lock, clbk_data_list, cbs, made>>

\* Mutant: the handle of a closed session stays recorded.
BugCloseKeepsRecord(t) ==
  \/ /\ At(t, "close", "list") /\ HwLockFree
     /\ Goto(t, "service")
     /\ UNCHANGED <<alive, owner, has, linked, deaths, hwvars>>
  \/ /\ At(t, "close", "service")
     /\ agm_session_close(thr[t].s)
     /\ has' = [has EXCEPT ![thr[t].c] = @ \ {thr[t].s}]
     /\ Done(t)
     /\ UNCHANGED <<alive, linked, deaths, hwvars>>

(* The handle is taken from whichever process has it, and processes that   *)
(* have none left are dropped; then the service is called.                 *)
HwClose(t) ==
  LET s == thr[t].s
      stay(k) == {i \in DOMAIN client_list[k] : client_list[k][i] # s}
      left == [k \in Recorded |-> Kept(client_list[k], stay(k))]
  IN \/ /\ At(t, "close", "list") /\ HwLockFree
        /\ client_list' = [k \in {r \in Recorded : left[r] # <<>>} |-> left[k]]
        /\ Goto(t, "service")
        /\ UNCHANGED <<alive, owner, has, linked, deaths, client_list_lock, clbk_data_list, cbs,
                       made>>
     \/ /\ At(t, "close", "service")
        /\ agm_session_close(s)
        /\ has' = [has EXCEPT ![thr[t].c] = @ \ {s}]
        /\ Done(t)
        /\ UNCHANGED <<alive, linked, deaths, hwvars>>

(* Registering: link, record, then tell the service.                       *)
HwRegister(t) ==
  LET c == thr[t].c
      r == [id |-> made, c |-> c, s |-> thr[t].s]
  IN \/ /\ At(t, "add_cb", "link")
        /\ linked' = IF c \in alive THEN linked \cup {c} ELSE linked
        /\ Goto(t, "list")
        /\ UNCHANGED <<alive, owner, has, deaths, hwvars>>
     \/ /\ At(t, "add_cb", "list") /\ made < MaxCbs
        /\ \E ok \in Allocated("callback") :
             IF ok THEN /\ clbk_data_list' = Append(clbk_data_list, r) /\ made' = made + 1
                        /\ thr' = [thr EXCEPT ![t].pc = "service", ![t].id = made]
             ELSE Done(t) /\ UNCHANGED <<clbk_data_list, made>>
        /\ UNCHANGED <<alive, owner, has, linked, deaths, client_list, client_list_lock, cbs>>
     \/ /\ At(t, "add_cb", "service")
        /\ cbs' = cbs \cup {[r EXCEPT !.id = thr[t].id]}
        /\ Done(t)
        /\ UNCHANGED <<alive, owner, has, linked, deaths, client_list, client_list_lock,
                       clbk_data_list, made>>

(* Deregistering: the last record with this session and client data, which *)
(* stays on the list.  Where there is none the service is given a pointer  *)
(* that was never set, and finds nothing to deregister.                    *)
HwDeregister(t) ==
  LET c == thr[t].c
      mine == {i \in DOMAIN clbk_data_list :
                 clbk_data_list[i].s = thr[t].s /\ Data[clbk_data_list[i].c] = Data[c]}
  IN \/ /\ At(t, "del_cb", "list")
        /\ IF mine = {} THEN Done(t)
           ELSE thr' = [thr EXCEPT ![t].pc = "service", ![t].id = clbk_data_list[Max(mine)].id]
        /\ UNCHANGED <<alive, owner, has, linked, deaths, hwvars>>
     \/ /\ At(t, "del_cb", "service")
        /\ cbs' = {r \in cbs : r.id # thr[t].id}
        /\ Done(t)
        /\ UNCHANGED <<alive, owner, has, linked, deaths, client_list, client_list_lock,
                       clbk_data_list, made>>

-----------------------------------------------------------------------------
\* Mutant: the notifier stops at the first callback of the process.
BugDeregistersFirst(t, c) ==
  LET mine == SelectSeq(clbk_data_list, LAMBDA r : r.c = c)
  IN /\ c \in deaths /\ thr[t] = Idle
     /\ cbs' = IF mine = <<>> THEN cbs ELSE cbs \ {Head(mine)}
     /\ clbk_data_list' = SelectSeq(clbk_data_list, LAMBDA r : r.c # c)
     /\ deaths' = deaths \ {c}
     /\ thr' = [thr EXCEPT ![t] = [op |-> "died", c |-> c, s |-> None, pc |-> "list", id |-> 0,
                                   waits |-> FALSE]]
     /\ UNCHANGED <<alive, owner, has, linked, client_list, client_list_lock, made>>

(* The notifier: first the callbacks of the process, then its handles.     *)
serviceDied(t, c) ==
  /\ c \in deaths /\ thr[t] = Idle
  /\ cbs' = cbs \ {r \in ToSet(clbk_data_list) : r.c = c}
  /\ clbk_data_list' = Kept(clbk_data_list, {i \in DOMAIN clbk_data_list :
                                               clbk_data_list[i].c # c})
  /\ deaths' = deaths \ {c}
  /\ thr' = [thr EXCEPT ![t] = [op |-> "died", c |-> c, s |-> None, pc |-> "list", id |-> 0,
                                waits |-> FALSE]]
  /\ UNCHANGED <<alive, owner, has, linked, client_list, client_list_lock, made>>

serviceDied_closes(t) ==
  LET c == thr[t].c
  IN \/ /\ At(t, "died", "list") /\ HwLockFree
        /\ client_list_lock' = t
        /\ Goto(t, "close")
        /\ UNCHANGED <<alive, owner, has, linked, deaths, client_list, clbk_data_list, cbs, made>>
     \/ /\ At(t, "died", "close")
        /\ IF c \in Recorded /\ client_list[c] # <<>>
           THEN /\ agm_session_close(Head(client_list[c]))
                /\ client_list' = [client_list EXCEPT ![c] = Tail(@)]
                /\ UNCHANGED <<thr, client_list_lock>>
           ELSE /\ client_list' = [k \in Recorded \ {c} |-> client_list[k]]
                /\ client_list_lock' = None
                /\ Done(t)
                /\ UNCHANGED owner
        /\ UNCHANGED <<alive, has, linked, deaths, clbk_data_list, cbs, made>>

-----------------------------------------------------------------------------
HwStep(t) ==
  \/ HwOpen(t) \/ add_handle_to_list(t) \/ HwClose(t)
  \/ HwRegister(t) \/ HwDeregister(t) \/ serviceDied_closes(t)

(* Nothing of the old process is left when its name is used again.         *)
HwReborn(c) ==
  /\ c \notin Recorded /\ \A r \in ToSet(clbk_data_list) \cup cbs : r.c # c
  /\ Reborn(c) /\ UNCHANGED hwvars

HwNext ==
  \/ \E t \in Threads, c \in Clients : HwCall(t, c)
  \/ \E t \in Threads : HwStep(t)
  \/ \E t \in Threads, c \in Clients : serviceDied(t, c)
  \/ \E c \in Clients : Die(c) /\ UNCHANGED hwvars
  \/ \E c \in Clients : HwReborn(c)

HwFairness ==
  /\ \A t \in Threads : SF_<<cvars, hwvars>>(HwStep(t))
  /\ \A c \in Clients : SF_<<cvars, hwvars>>(\E t \in Threads : serviceDied(t, c))

HwSpec == IpcInit /\ HwInit /\ [][HwNext]_<<cvars, hwvars>> /\ HwFairness

-----------------------------------------------------------------------------
(* No callback goes to a client that is dead and buried: whatever order    *)
(* registrations, deregistrations and deaths take, the notifier leaves     *)
(* none of a client's callbacks with the service (serviceDied).            *)
CallbacksOfTheLiving ==
  \A r \in cbs : r.c \in alive \cup deaths
=============================================================================
