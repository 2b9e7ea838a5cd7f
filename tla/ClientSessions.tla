--------------------------- MODULE ClientSessions ---------------------------
(***************************************************************************)
(* What a server of the AGM service promises its clients: a session belongs *)
(* to the client that opened it, and is closed when that client asks for it *)
(* or, once that client is dead, by the server.  The binder servers         *)
(* implement it.                                                           *)
(***************************************************************************)
CONSTANTS Clients, Sessions

VARIABLES
  alive,  \* the clients that live
  owner,  \* who opened each session
  asked   \* the closes that clients have asked for and not been answered

None == "none"

Init == alive = Clients /\ owner = [s \in Sessions |-> None] /\ asked = {}

(* A call may outlive the client that made it.                             *)
Open(c, s) ==
  /\ owner[s] = None
  /\ owner' = [owner EXCEPT ![s] = c]
  /\ UNCHANGED <<alive, asked>>

Ask(c, s) ==
  /\ c \in alive /\ owner[s] = c
  /\ asked' = asked \cup {<<c, s>>}
  /\ UNCHANGED <<alive, owner>>

Close(c, s) ==
  /\ <<c, s>> \in asked /\ owner[s] = c
  /\ owner' = [owner EXCEPT ![s] = None]
  /\ asked' \in {asked, asked \ {<<c, s>>}}
  /\ UNCHANGED alive

Answer(c, s) ==
  /\ <<c, s>> \in asked /\ owner[s] # c
  /\ asked' = asked \ {<<c, s>>}
  /\ UNCHANGED <<alive, owner>>

(* The server closes what a dead client has left open.                     *)
Reap(s) ==
  /\ owner[s] # None /\ owner[s] \notin alive
  /\ owner' = [owner EXCEPT ![s] = None]
  /\ UNCHANGED <<alive, asked>>

Die(c) == c \in alive /\ alive' = alive \ {c} /\ UNCHANGED <<owner, asked>>

(* A new client, under the name of one of which nothing is left.           *)
Reborn(c) ==
  /\ c \notin alive /\ \A s \in Sessions : owner[s] # c /\ <<c, s>> \notin asked
  /\ alive' = alive \cup {c}
  /\ UNCHANGED <<owner, asked>>

Next ==
  \/ \E c \in Clients, s \in Sessions : Open(c, s) \/ Ask(c, s) \/ Close(c, s) \/ Answer(c, s)
  \/ \E s \in Sessions : Reap(s)
  \/ \E c \in Clients : Die(c) \/ Reborn(c)

Spec == Init /\ [][Next]_<<alive, owner, asked>>
=============================================================================
