------------------------------ MODULE IpcCalls ------------------------------
(***************************************************************************)
(* One call of a client, from its arguments to its result, over the binder *)
(* and over D-Bus: written, read, served, answered and read again.         *)
(***************************************************************************)
EXTENDS BinderWire, DBusWire

CONSTANTS
  WireSizes,    \* the sizes clients pass with their calls
  FailingWire   \* the library calls that can fail in the stub: "calloc"

(* Sizes are of something: an empty allocation does not fail.              *)
ASSUME WireAssumption == WireSizes \subseteq Nat \ {0}

VARIABLES
  call,   \* the call: how it goes, which, its size, what the service makes of it
  step,   \* "idle", "sent", "served", "returned"
  wire,   \* what is on its way
  got,    \* what the service got, by parameter
  ret     \* what the client got, by output

wvars == <<call, step, wire, got, ret>>

(* Some structures have a fixed size.                                      *)
SizesOf(c) ==
  [size |-> c.size, given |-> c.given, no_size |-> 0,
   sizeof_session |-> 3, sizeof_media |-> 2, sizeof_buffer |-> 1]

Outcomes(via, code) ==
  (IF code = "EVENT" THEN {"done"} ELSE {"done", "failed"}) \cup
    (IF "calloc" \in FailingWire /\ via = "binder" /\ code \in AllocatingCases THEN {"nomem"} ELSE {})

(* The calls that give back less than they were asked for; a list is asked *)
(* for with the size the service gave.                                     *)
Partial == {"READ", "WRITE", "AgmSessionRead", "AgmSessionWrite"}

WireCalls ==
  {c \in [via: {"binder", "dbus"}, code: DOMAIN Bp \cup DOMAIN DBusClient, size: WireSizes,
          given: UNION {0..n : n \in WireSizes}, out: {"done", "failed", "nomem"}] :
     /\ c.code \in (IF c.via = "binder" THEN DOMAIN Bp ELSE DOMAIN DBusClient)
     /\ c.given \in (IF c.code \in Partial THEN 0..c.size ELSE {c.size})
     /\ c.out \in Outcomes(c.via, c.code)}

NoCall == [via |-> "none"]

IpcCallsInit == call = NoCall /\ step = "idle" /\ wire = <<>> /\ got = <<>> /\ ret = <<>>

(* The client writes its arguments and waits.                              *)
transact ==
  /\ step = "idle"
  /\ call' \in WireCalls
  /\ wire' = IF call'.via = "binder" THEN WriteParcel(Bp[call'.code].sends, SizesOf(call'))
             ELSE DBusClient[call'.code].call
  /\ step' = "sent"
  /\ UNCHANGED <<got, ret>>

(* The stub reads, calls the service, and replies.  The reply of a service *)
(* that is not answered is a parcel with nothing in it.                    *)
onTransact ==
  /\ step = "sent" /\ call.via = "binder"
  /\ LET bn == Bn[call.code] IN
     /\ got' = IF call.out = "nomem" THEN <<>>
               ELSE ReadParcel(bn.reads, wire, SizesOf(call), {})
     /\ wire' = WriteParcel(bn[call.out], SizesOf(call))
  /\ step' = "served"
  /\ UNCHANGED <<call, ret>>

(* A proxy takes the reply whatever the transaction returned; a read that  *)
(* failed is not taken further than its result.                            *)
reply_read ==
  /\ step = "served" /\ call.via = "binder"
  /\ LET takes == Bp[call.code].takes
         all == ReadParcel(takes, wire, SizesOf(call), {"size"})
     IN ret' = IF call.code = "READ" /\ all[1][2] = "rc" /\ call.out # "done" THEN <<all[1]>>
               ELSE all
  /\ step' = "returned"
  /\ UNCHANGED <<call, wire, got>>

(* The handler checks the signature, reads, calls the service and replies, *)
(* with an error where either went wrong.                                  *)
server_message_handler ==
  /\ step = "sent" /\ call.via = "dbus"
  /\ LET m == DBusServer[call.code] IN
     /\ got' = IF wire.sig # m.call.sig THEN <<>>
               ELSE [i \in DOMAIN m.call.args |-> <<m.call.args[i], wire.args[i]>>]
     /\ wire' = IF wire.sig # m.call.sig \/ call.out # "done" THEN Message("error", <<>>)
                ELSE IF call.code \in agm_dbus_remove_interface_crashes THEN Message(NoReply, <<>>)
                ELSE m.reply
  /\ step' = "served"
  /\ UNCHANGED <<call, ret>>

(* The client takes an error, or the lack of an answer, for -EINVAL.       *)
g_dbus_proxy_call_sync ==
  /\ step = "served" /\ call.via = "dbus"
  /\ LET m == DBusClient[call.code] IN
     ret' = IF wire.sig \in {"error", NoReply} THEN <<<<"rc", "rc">>>>
            ELSE <<<<"rc", Zero>>>> \o
                 [i \in DOMAIN m.reply.args |->
                    <<m.reply.args[i], IF wire.sig = m.reply.sig THEN wire.args[i] ELSE Torn>>]
  /\ step' = "returned"
  /\ UNCHANGED <<call, wire, got>>

Returned ==
  /\ step = "returned"
  /\ call' = NoCall /\ step' = "idle" /\ wire' = <<>> /\ got' = <<>> /\ ret' = <<>>

IpcCallsNext ==
  \/ transact \/ onTransact \/ reply_read
  \/ server_message_handler \/ g_dbus_proxy_call_sync \/ Returned

IpcCallsSpec == IpcCallsInit /\ [][IpcCallsNext]_wvars

-----------------------------------------------------------------------------
(* The client's result is an error when it reads the result the server     *)
(* wrote and that is one; over D-Bus, when there is no answer to read.     *)
Succeeded ==
  /\ \A i \in DOMAIN ret : ret[i] = <<"rc", "rc">> => call.via = "binder" /\ call.out = "done"
  /\ ~\E i \in DOMAIN ret : ret[i] = <<"rc", Torn>>

(* A client that copies a blob the reply does not have does not return.    *)
Crashes ==
  /\ call.via = "binder"
  /\ \E i \in DOMAIN ret : Bp[call.code].takes[i].t = "blob" /\ ret[i][2] = Zero

(* The calls whose lack of memory the client never learns of: the reply    *)
(* is empty, or shorter than what it takes.                                *)
LostErrors == {"WRITE", "REG_EVENT", "REG_CB", "SESSION_AIF_SET_PARAMS", "AIF_SET_PARAMS", "EVENT"}

(* What the service gets for each of its parameters is what the client     *)
(* passed for it, whatever the sizes: the stub reads the parcel where the  *)
(* proxy wrote it (ipc_proxy_server.cpp onTransact), and the handler reads *)
(* the message in the client's order (agm_server_wrapper_dbus.cpp).        *)
ArgumentsArrive ==
  step = "served" /\ call.out # "nomem" =>
    /\ \A i \in DOMAIN got : got[i][1] = got[i][2]
    /\ Len(got) = IF call.via = "binder" THEN Len(Bn[call.code].reads)
                  ELSE Len(DBusServer[call.code].call.args)

(* A client is told that a call succeeded only if the service has done it, *)
(* and then has what the service gave, also where the service gave less    *)
(* than it was asked for.  The exceptions are the calls that lose the      *)
(* error of an allocation (ipc_proxy_server.cpp:1013 and the cases that    *)
(* return -ENOMEM).                                                        *)
NoFalseSuccess ==
  step = "returned" /\ Succeeded /\ ~Crashes =>
    \/ call.out = "done" /\ \A i \in DOMAIN ret : ret[i][2] \in {ret[i][1], Zero}
                         /\ (ret[i][2] = Zero => ret[i][1] = "rc")
    \/ call.out = "nomem" /\ call.code \in LostErrors
=============================================================================
