-------------------------------- MODULE MCIpc --------------------------------
(***************************************************************************)
(* The servers that put the service behind a process boundary: one run     *)
(* explores the binder server, the hardware binder server and the calls    *)
(* themselves; part says which.                                            *)
(***************************************************************************)
EXTENDS SwBinderServer, HwBinderServer, IpcCalls

VARIABLE part

(* Each client passes data of its own with its callbacks.                  *)
DataOfClients == [c \in Clients |-> c]

vars == <<cvars, swvars, hwvars, wvars, part>>

ServersInit ==
  /\ part \in {"sw", "hw", "calls"}
  /\ IpcInit /\ SwInit /\ HwInit /\ IpcCallsInit

ServersNext ==
  /\ \/ part = "sw" /\ SwNext /\ UNCHANGED <<hwvars, wvars>>
     \/ part = "hw" /\ HwNext /\ UNCHANGED <<swvars, wvars>>
     \/ part = "calls" /\ IpcCallsNext /\ UNCHANGED <<cvars, swvars, hwvars>>
  /\ UNCHANGED part

(* Mutexes are handed on, threads run and deaths are told.                 *)
Step(t) ==
  \/ part = "sw" /\ SwStep(t) /\ UNCHANGED <<hwvars, wvars, part>>
  \/ part = "hw" /\ HwStep(t) /\ UNCHANGED <<swvars, wvars, part>>

Told(c) ==
  \/ part = "sw" /\ (\E t \in Threads : binderDied(t, c)) /\ UNCHANGED <<hwvars, wvars, part>>
  \/ part = "hw" /\ (\E t \in Threads : serviceDied(t, c)) /\ UNCHANGED <<swvars, wvars, part>>

ServersFairness ==
  /\ \A t \in Threads : SF_vars(Step(t))
  /\ \A c \in Clients : SF_vars(Told(c))

ServersSpec == ServersInit /\ [][ServersNext]_vars /\ ServersFairness

HwOnlySpec == ServersInit /\ part = "hw" /\ [][ServersNext]_vars /\ ServersFairness

-----------------------------------------------------------------------------
(* The sessions of a client whose death is told are closed, however its    *)
(* handles were recorded, whoever holds the lock and whatever the other    *)
(* threads do.  The binder server does it for the clients it knows         *)
(* (binderDied), the hardware binder server for all (serviceDied).         *)
DeadReleased ==
  \A c \in Clients :
    (c \in deaths /\ (part = "sw" => c \in Known)) ~> (\A s \in Sessions : owner[s] # c)
=============================================================================
