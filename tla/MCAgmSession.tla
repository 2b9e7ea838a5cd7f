---------------------------- MODULE MCAgmSession ----------------------------
(* Instances of AgmSession for TLC: a playback session and a capture       *)
(* session, or two playback sessions, over shared devices.                 *)
EXTENDS AgmSessionInv, TLC

CONSTANTS s1, s2, d1, d2

RxTx == s1 :> "RX" @@ s2 :> "TX"

OneRx == s1 :> "RX"

OneTx == s1 :> "TX"

(* Both sessions share d1; s2 is also connected to d2.                     *)
SharedLinks == {<<s1, d1>>, <<s2, d1>>, <<s2, d2>>}

OneDevice == {<<s1, d1>>, <<s2, d1>>}

OneSession == {<<s1, d1>>, <<s1, d2>>}

(* The capture session s2 may loop back to s1 and take d1 as echo reference. *)
CaptureLoopback == {<<s2, s1>>}

CaptureEcRef == {<<s2, d1>>}

OwnEcRef == {<<s1, d2>>}

AllCalls == PcmCalls \cup GslCalls
=============================================================================
