---------------------------- MODULE ServiceProofs ----------------------------
(***************************************************************************)
(* Proofs about the service of any number of devices, sessions and         *)
(* threads: how it comes up and goes down, what the calls and events that  *)
(* run at once find, and what the metadata of any number of interfaces     *)
(* are merged to.                                                          *)
(***************************************************************************)
EXTENDS AgmCalls, AgmInit, Metadata, ListFacts

-----------------------------------------------------------------------------
(* Coming up and going down.                                               *)

(* Nothing is held.                                                        *)
Released == ~gsl /\ ~sess_pool /\ device_list.mem # "live"

(* The list has a device for each number the count covers.                 *)
CountedDevices ==
  /\ num_audio_intfs > 0
  /\ \A i \in 1..num_audio_intfs :
       /\ i \in DOMAIN device_list.objs
       /\ Live(device_list.objs[i]) /\ device_list.objs[i] # Invalid

InitInv ==
  /\ card \in Seq(Names) /\ num_audio_intfs \in Nat
  /\ pc \in {"idle", "device", "sleep", "graph", "pool"}
  /\ agm_initialized => pc = "idle"
  /\ pc \in {"idle", "device", "sleep"} /\ ~agm_initialized => Released
  /\ pc \in {"graph", "pool"} \/ agm_initialized => CountedDevices
  /\ pc = "graph" => ~gsl /\ ~sess_pool
  /\ pc = "pool" => ~sess_pool

(* An endpoint that was understood is one of the interfaces.               *)
LEMMA EndpointIsLive ==
  ASSUME NEW n, populate_device_hw_ep_info(n) # Invalid
  PROVE  Live(populate_device_hw_ep_info(n))
<1> DEFINE r == populate_device_hw_ep_info(n)
           intf == populate_hw_ep_intf(Head(n))
<1>1. ASSUME NEW i, NEW v
      PROVE  \/ populate_cdc_dma_i2s_tdm_pcm_ep_info(i, v) = Invalid
             \/ populate_cdc_dma_i2s_tdm_pcm_ep_info(i, v).intf = i
  BY DEF populate_cdc_dma_i2s_tdm_pcm_ep_info
<1>2. ASSUME NEW i, NEW v
      PROVE  \/ populate_slim_dp_usb_ep_info(i, v) = Invalid
             \/ populate_slim_dp_usb_ep_info(i, v).intf = i
  BY DEF populate_slim_dp_usb_ep_info
<1>3. ASSUME NEW v
      PROVE  \/ populate_pcm_rt_proxy_ep_info(v) = Invalid
             \/ populate_pcm_rt_proxy_ep_info(v).intf = "PCM_RT_PROXY"
  BY DEF populate_pcm_rt_proxy_ep_info
<1> HIDE DEF intf
<1>4. r = CASE intf \in {"CODEC_DMA", "MI2S", "TDM", "AUXPCM"} ->
                 populate_cdc_dma_i2s_tdm_pcm_ep_info(intf, Tail(n))
            [] intf \in {"SLIMBUS", "DISPLAY_PORT", "USB_AUDIO"} ->
                 populate_slim_dp_usb_ep_info(intf, Tail(n))
            [] intf = "PCM_RT_PROXY" -> populate_pcm_rt_proxy_ep_info(Tail(n))
            [] OTHER -> Invalid
  BY DEF populate_device_hw_ep_info, intf
<1> HIDE DEF r
<1>5. r # Invalid
  BY DEF r
<1>6. r.intf \in {"CODEC_DMA", "MI2S", "TDM", "AUXPCM", "SLIMBUS", "DISPLAY_PORT", "USB_AUDIO",
                  "PCM_RT_PROXY"}
  <2>1. CASE intf \in {"CODEC_DMA", "MI2S", "TDM", "AUXPCM"}
    BY <1>1, <1>4, <1>5, <2>1
  <2>2. CASE intf \in {"SLIMBUS", "DISPLAY_PORT", "USB_AUDIO"}
    BY <1>2, <1>4, <1>5, <2>2
  <2>3. CASE intf = "PCM_RT_PROXY"
    BY <1>3, <1>4, <1>5, <2>3
  <2>4. CASE intf \notin {"CODEC_DMA", "MI2S", "TDM", "AUXPCM", "SLIMBUS", "DISPLAY_PORT",
                          "USB_AUDIO", "PCM_RT_PROXY"}
    BY <1>4, <1>5, <2>4
  <2> QED BY <2>1, <2>2, <2>3, <2>4
<1>7. r # NULL /\ r # Freed
  BY <1>6 DEF NULL, Freed
<1> QED BY <1>7 DEF Live, r

(* The first of the slots are the endpoints of the card.                   *)
LEMMA ListedFits ==
  ASSUME NEW S, card \in Seq(S), NEW total \in Nat, total >= Len(card)
  PROVE  /\ ValidCount \in Nat
         /\ \A i \in 1..ValidCount :
              /\ i \in DOMAIN Listed(total)
              /\ Live(Listed(total)[i]) /\ Listed(total)[i] # Invalid
<1> DEFINE K == Kept(card, ValidLines)
<1>1. ValidLines \in SUBSET DOMAIN card /\ DOMAIN card = 1..Len(card) /\ Len(card) \in Nat
  BY DEF ValidLines
<1>2. IsFiniteSet(1..Len(card)) /\ Cardinality(1..Len(card)) = Len(card)
  <2>1. PICK n \in Nat : n = Len(card)
    BY <1>1
  <2>2. IsFiniteSet(1..n) /\ Cardinality(1..n) = IF 1 > n THEN 0 ELSE n - 1 + 1
    BY FS_Interval
  <2> QED BY <2>1, <2>2
<1>3. IsFiniteSet(ValidLines) /\ ValidCount <= Len(card)
  <2>1. IsFiniteSet(ValidLines) /\ Cardinality(ValidLines) <= Cardinality(1..Len(card))
    BY <1>1, <1>2, FS_Subset
  <2> QED BY <1>2, <2>1 DEF ValidCount
<1>4. ValidCount \in Nat
  BY <1>3, FS_CardinalityType DEF ValidCount
<1>5. /\ K \in Seq(S) /\ Len(K) = ValidCount
      /\ \A x : x \in ToSet(K) <=> \E i \in ValidLines : card[i] = x
  BY <1>1, KeptElems DEF ValidCount
<1>6. ASSUME NEW i \in 1..ValidCount
      PROVE  populate_device_hw_ep_info(K[i]) # Invalid
  <2> HIDE DEF K
  <2>1. K[i] \in ToSet(K)
    BY <1>5 DEF ToSet
  <2>2. PICK j \in ValidLines : card[j] = K[i]
    BY <1>5, <2>1
  <2> QED BY <2>2 DEF ValidLines
<1>7. ASSUME NEW i \in 1..ValidCount
      PROVE  i \in DOMAIN Listed(total) /\ Listed(total)[i] = populate_device_hw_ep_info(K[i])
  BY <1>1, <1>3, <1>4 DEF Listed
<1> HIDE DEF K
<1> QED BY <1>4, <1>6, <1>7, EndpointIsLive

LEMMA InitStarts == InitInit => InitInv
<1> SUFFICES ASSUME InitInit PROVE InitInv
  OBVIOUS
<1>1. card \in Seq(Names)
  <2>1. PICK n \in 0..MaxLines : card \in [1..n -> Names]
    BY DEF InitInit, Cards
  <2> QED BY <2>1, SeqDef
<1> QED BY <1>1 DEF InitInit, InitInv, Released

LEMMA CardRead ==
  ASSUME InitInv, parse_snd_card
  PROVE  InitInv'
<1> DEFINE total == num_audio_intfs + Len(card)
<1>1. /\ pc = "device" /\ UNCHANGED <<card, agm_initialized, gsl, sess_pool>>
      /\ card \in Seq(Names) /\ num_audio_intfs \in Nat /\ Len(card) \in Nat
      /\ ~agm_initialized /\ ~gsl /\ ~sess_pool /\ device_list.mem # "live"
  BY DEF parse_snd_card, InitInv, Released
<1>2. total \in Nat /\ total >= Len(card)
  BY <1>1
<1>3. /\ ValidCount \in Nat
      /\ \A i \in 1..ValidCount : /\ i \in DOMAIN Listed(total)
                                  /\ Live(Listed(total)[i]) /\ Listed(total)[i] # Invalid
  <2> HIDE DEF total
  <2> QED BY <1>1, <1>2, ListedFits
<1>4. \/ pc' = "idle" /\ UNCHANGED <<num_audio_intfs, device_list>>
      \/ /\ pc' \in {"idle", "sleep"} /\ num_audio_intfs' = total
         /\ device_list'.mem \in {"null", "freed"}
      \/ /\ pc' = "graph" /\ num_audio_intfs' = ValidCount /\ ValidCount # 0
         /\ device_list' = [mem |-> "live", objs |-> Listed(total)]
  BY DEF parse_snd_card
<1>5. CASE pc' = "idle" /\ UNCHANGED <<num_audio_intfs, device_list>>
  BY <1>1, <1>5 DEF InitInv, Released
<1>6. CASE /\ pc' \in {"idle", "sleep"} /\ num_audio_intfs' = total
           /\ device_list'.mem \in {"null", "freed"}
  BY <1>1, <1>2, <1>6 DEF InitInv, Released
<1>7. CASE /\ pc' = "graph" /\ num_audio_intfs' = ValidCount /\ ValidCount # 0
           /\ device_list' = [mem |-> "live", objs |-> Listed(total)]
  <2>1. CountedDevices'
    <3>1. device_list'.objs = Listed(total)
      BY <1>7
    <3> HIDE DEF total
    <3> QED BY <1>3, <1>7, <3>1 DEF CountedDevices, Live, NULL, Freed, Invalid
  <2> QED BY <1>1, <1>3, <1>7, <2>1 DEF InitInv
<1> QED BY <1>4, <1>5, <1>6, <1>7

LEMMA InitKeepsInv == InitInv /\ [InitNext]_ivars => InitInv'
<1> SUFFICES ASSUME InitInv, [InitNext]_ivars PROVE InitInv'
  OBVIOUS
<1> USE DEF InitInv
<1>1. CASE CardChanges
  <2>1. card' \in Seq(Names)
    <3>1. card' \in Cards
      BY <1>1 DEF CardChanges
    <3>2. PICK n \in 0..MaxLines : card' \in [1..n -> Names]
      BY <3>1 DEF Cards
    <3> QED BY <3>2, SeqDef
  <2> QED BY <1>1, <2>1 DEF CardChanges, Released, CountedDevices
<1>2. CASE agm_init
  BY <1>2 DEF agm_init, Released, CountedDevices
<1>3. CASE device_init
  BY <1>3 DEF device_init, Released, CountedDevices
<1>4. CASE graph_init
  <2>1. /\ pc = "graph" /\ CountedDevices /\ ~agm_initialized /\ ~sess_pool
        /\ UNCHANGED <<card, agm_initialized, num_audio_intfs, sess_pool>>
    BY <1>4 DEF graph_init
  <2>2. \/ gsl' /\ pc' = "pool" /\ device_list' = device_list
        \/ ~gsl' /\ pc' = "idle" /\ device_list' = device_deinit
    BY <1>4 DEF graph_init, Result
  <2>3. CASE gsl' /\ pc' = "pool" /\ device_list' = device_list
    BY <2>1, <2>3 DEF CountedDevices
  <2>4. CASE ~gsl' /\ pc' = "idle" /\ device_list' = device_deinit
    BY <2>1, <2>4 DEF Released, device_deinit
  <2> QED BY <2>2, <2>3, <2>4
<1>5. CASE session_pool_init
  <2>1. /\ pc = "pool" /\ CountedDevices
        /\ UNCHANGED <<card, num_audio_intfs>> /\ pc' = "idle"
    BY <1>5 DEF session_pool_init
  <2>2. \/ agm_initialized' /\ device_list' = device_list
        \/ ~agm_initialized' /\ ~gsl' /\ ~sess_pool' /\ device_list' = device_deinit
    BY <1>5 DEF session_pool_init, Result
  <2>3. CASE agm_initialized' /\ device_list' = device_list
    BY <2>1, <2>3 DEF CountedDevices
  <2>4. CASE ~agm_initialized' /\ ~gsl' /\ ~sess_pool' /\ device_list' = device_deinit
    BY <2>1, <2>4 DEF Released, device_deinit
  <2> QED BY <2>2, <2>3, <2>4
<1>6. CASE session_obj_deinit
  <2>1. /\ pc = "idle" /\ UNCHANGED <<card, num_audio_intfs, pc>>
        /\ ~sess_pool' /\ ~gsl' /\ ~agm_initialized' /\ device_list' = device_deinit
    BY <1>6 DEF session_obj_deinit
  <2> QED BY <2>1 DEF Released, device_deinit
<1>7. CASE ats_init_thread \/ ats_init \/ UNCHANGED ivars
  BY <1>7 DEF ats_init_thread, ats_init, ivars, Released, CountedDevices
<1> QED BY <1>1, <1>2, <1>3, <1>4, <1>5, <1>6, <1>7, CardRead DEF InitNext, InitSteps

(* A service that is down holds neither GSL, nor the session pool, nor a   *)
(* list of devices, whichever step of agm_init failed, however often.      *)
THEOREM DownReleased == InitSpec => []DownHoldsNothing
<1>1. InitInv => DownHoldsNothing
  BY DEF InitInv, Released, DownHoldsNothing
<1> QED BY <1>1, InitStarts, InitKeepsInv, PTL DEF InitSpec

(* Every interface that a running service lists can be looked up and is an *)
(* endpoint, for any sound card: a retry of device_init or an earlier life *)
(* of the service leaves no stale count and no hole (parse_snd_card).      *)
THEOREM DevicesResolve == InitSpec => []ListedDevicesResolve
<1>1. InitInv => ListedDevicesResolve
  <2> SUFFICES ASSUME InitInv, agm_initialized PROVE ListedDevicesResolve
    BY DEF ListedDevicesResolve
  <2>1. CountedDevices /\ num_audio_intfs \in Nat
    BY DEF InitInv
  <2>2. ASSUME NEW i \in device_get_aif_info_list(num_audio_intfs)
        PROVE  device_get_obj(i - 1) = device_list.objs[i] /\ i \in 1..num_audio_intfs
    <3>1. i \in 1..num_audio_intfs /\ ~(i - 1 > num_audio_intfs) /\ (i - 1) + 1 = i
      BY <2>1 DEF device_get_aif_info_list
    <3> QED BY <2>1, <3>1 DEF device_get_obj, CountedDevices
  <2> QED BY <2>1, <2>2 DEF CountedDevices, ListedDevicesResolve
<1> QED BY <1>1, InitStarts, InitKeepsInv, PTL DEF InitSpec

-----------------------------------------------------------------------------
(* The calls and their stacks.                                             *)

(* What each kind of call has for arguments, and where it can stand.       *)
FrameArgs(f) ==
  /\ f.op # "deinit" => f.s \in Sessions
  /\ f.op = "deinit" => f.pc \in {"free", "free_next"}
  /\ f.op = "set_params" => f.arg \in Payloads
  /\ f.op \in {"register_cb", "deregister_cb"} => f.arg \in Clients
  /\ f.op = "loopback" => f.arg \in Sessions \cup {None}
  /\ f.op = "event" => f.arg \in EventTypes /\ f.pc \in {"pool", "cb_lock", "deliver", "in_cb"}
  /\ f.pc \in {"pool", "deliver", "in_cb"} => f.op = "event"
  /\ f.pc = "in_cb" => f.left # <<>>

StackTypes ==
  /\ stack \in [Threads -> Seq(Frame)]
  /\ \A t \in Threads : \A i \in 1..Len(stack[t]) : FrameArgs(stack[t][i])

(* The call that is innermost goes on, or returns.                         *)
Pops(t) == stack[t] # <<>> /\ Return(t)

Moves(t, f) ==
  /\ stack[t] # <<>> /\ stack' = [stack EXCEPT ![t][1] = f]
  /\ f.op = stack[t][1].op /\ f.s = stack[t][1].s /\ f.arg = stack[t][1].arg

LEMMA HeadFrame ==
  ASSUME StackTypes, NEW t \in Threads, stack[t] # <<>>
  PROVE  /\ Head(stack[t]) = stack[t][1] /\ stack[t][1] \in Frame /\ FrameArgs(stack[t][1])
         /\ Len(stack[t]) \in Nat \ {0} /\ 1 \in 1..Len(stack[t])
<1>1. stack[t] \in Seq(Frame) /\ stack[t] # <<>>
  BY DEF StackTypes
<1>2. /\ Head(stack[t]) = stack[t][1] /\ stack[t][1] \in Frame
      /\ Len(stack[t]) \in Nat \ {0} /\ 1 \in 1..Len(stack[t])
  BY <1>1
<1> QED BY <1>2 DEF StackTypes

LEMMA PopPlaces ==
  ASSUME StackTypes, NEW t \in Threads, Pops(t)
  PROVE  /\ StackTypes'
         /\ Len(stack'[t]) = Len(stack[t]) - 1
         /\ \A i \in 1..Len(stack'[t]) : i + 1 \in 1..Len(stack[t]) /\ stack'[t][i] = stack[t][i + 1]
         /\ \A u \in Threads \ {t} : stack'[u] = stack[u]
<1>1. stack[t] \in Seq(Frame) /\ stack[t] # <<>> /\ Len(stack[t]) \in Nat
  BY DEF StackTypes, Pops
<1>2. PICK q : q = Tail(stack[t])
  OBVIOUS
<1>3. q \in Seq(Frame) /\ Len(q) = Len(stack[t]) - 1 /\ \A i \in 1..Len(q) : i + 1 \in 1..Len(stack[t]) /\ q[i] = stack[t][i + 1]
  BY <1>1, <1>2
<1>4. stack' \in [Threads -> Seq(Frame)] /\ stack'[t] = q /\ \A u \in Threads \ {t} : stack'[u] = stack[u]
  BY <1>2, <1>3 DEF StackTypes, Pops, Return
<1>5. \A u \in Threads : \A i \in 1..Len(stack'[u]) : FrameArgs(stack'[u][i])
  BY <1>3, <1>4 DEF StackTypes
<1>6. StackTypes'
  BY <1>4, <1>5 DEF StackTypes, FrameArgs
<1> QED BY <1>3, <1>4, <1>6

LEMMA MovePlaces ==
  ASSUME StackTypes, NEW t \in Threads, NEW f \in Frame, FrameArgs(f), Moves(t, f)
  PROVE  /\ StackTypes'
         /\ Len(stack'[t]) = Len(stack[t]) /\ Len(stack[t]) \in Nat \ {0} /\ stack'[t][1] = f
         /\ \A i \in 1..Len(stack[t]) : i # 1 => stack'[t][i] = stack[t][i]
         /\ \A u \in Threads \ {t} : stack'[u] = stack[u]
<1>1. stack[t] \in Seq(Frame) /\ stack[t] # <<>> /\ Len(stack[t]) \in Nat \ {0}
  BY DEF StackTypes, Moves
<1>2. PICK q : q = [stack[t] EXCEPT ![1] = f]
  OBVIOUS
<1>3. /\ q \in Seq(Frame) /\ Len(q) = Len(stack[t]) /\ q[1] = f
      /\ \A i \in 1..Len(stack[t]) : i # 1 => q[i] = stack[t][i]
  BY <1>1, <1>2
<1>4. stack' \in [Threads -> Seq(Frame)] /\ stack'[t] = q /\ \A u \in Threads \ {t} : stack'[u] = stack[u]
  BY <1>2, <1>3 DEF StackTypes, Moves
<1>5. \A u \in Threads : \A i \in 1..Len(stack'[u]) : FrameArgs(stack'[u][i])
  BY <1>3, <1>4 DEF StackTypes
<1>6. StackTypes'
  BY <1>4, <1>5 DEF StackTypes, FrameArgs
<1> QED BY <1>1, <1>3, <1>4, <1>6

LEMMA PushPlaces ==
  ASSUME StackTypes, NEW t \in Threads, NEW f \in Frame, FrameArgs(f), NEW q \in Seq(Frame),
         \A i \in 1..Len(q) : FrameArgs(q[i]), stack' = [stack EXCEPT ![t] = <<f>> \o q]
  PROVE  /\ StackTypes'
         /\ Len(stack'[t]) = Len(q) + 1 /\ stack'[t][1] = f
         /\ \A i \in 2..Len(stack'[t]) : i - 1 \in 1..Len(q) /\ stack'[t][i] = q[i - 1]
         /\ \A u \in Threads \ {t} : stack'[u] = stack[u]
<1>1. Len(q) \in Nat
  OBVIOUS
<1>2. PICK r : r = <<f>> \o q
  OBVIOUS
<1>3. /\ r \in Seq(Frame) /\ Len(r) = Len(q) + 1 /\ r[1] = f
      /\ \A i \in 2..Len(r) : i - 1 \in 1..Len(q) /\ r[i] = q[i - 1]
  BY <1>1, <1>2
<1>4. stack' \in [Threads -> Seq(Frame)] /\ stack'[t] = r /\ \A u \in Threads \ {t} : stack'[u] = stack[u]
  BY <1>2, <1>3 DEF StackTypes
<1>5. \A i \in 1..Len(r) : FrameArgs(r[i])
  BY <1>1, <1>3
<1>6. \A u \in Threads : \A i \in 1..Len(stack'[u]) : FrameArgs(stack'[u][i])
  BY <1>4, <1>5 DEF StackTypes
<1>7. StackTypes'
  BY <1>4, <1>6 DEF StackTypes, FrameArgs
<1> QED BY <1>3, <1>4, <1>7

(* A step that leaves the callbacks alone: the call that takes it returns  *)
(* or goes on, and is not an event that is delivered.                      *)
Quiet(t) ==
  /\ UNCHANGED <<cb_pool, cb_pool_lock>>
  /\ \/ Pops(t) /\ stack[t][1].pc \notin {"deliver", "in_cb"}
     \/ \E f \in Frame : /\ Moves(t, f) /\ FrameArgs(f)
                         /\ {f.pc, stack[t][1].pc} \cap {"deliver", "in_cb"} = {}

LEMMA GoesTo ==
  ASSUME StackTypes, NEW t \in Threads, stack[t] # <<>>, stack[t][1].op # "deinit",
         NEW p \in {"body", "loopback", "use", "cb_lock"}, Goto(t, p),
         stack[t][1].op = "event" => stack[t][1].pc = "pool" /\ p = "cb_lock",
         UNCHANGED <<cb_pool, cb_pool_lock>>
  PROVE  Quiet(t)
<1>1. PICK h \in Frame : h = stack[t][1] /\ FrameArgs(h)
  BY HeadFrame
<1>2. PICK f : f = [h EXCEPT !.pc = p]
  OBVIOUS
<1>3. f \in Frame /\ f.op = h.op /\ f.s = h.s /\ f.arg = h.arg /\ f.pc = p
  BY <1>1, <1>2 DEF Frame
<1>4. FrameArgs(f) /\ h.pc \notin {"deliver", "in_cb"} /\ f.pc \notin {"deliver", "in_cb"}
  BY <1>1, <1>3 DEF FrameArgs
<1>5. Moves(t, f)
  BY <1>1, <1>2, <1>3 DEF Moves, Goto
<1> QED BY <1>1, <1>3, <1>4, <1>5 DEF Quiet

LEMMA HandledQuiet ==
  ASSUME StackTypes, NEW t \in Threads, NEW op, Handled(t, op)
  PROVE  Quiet(t) /\ Pops(t) /\ stack[t][1].op = op /\ stack[t][1].pc = "body"
<1>1. stack[t] # <<>> /\ Head(stack[t]) = stack[t][1]
  BY HeadFrame DEF Handled, Body, At
<1>2. Pops(t) /\ stack[t][1].op = op /\ stack[t][1].pc = "body" /\ UNCHANGED <<cb_pool, cb_pool_lock>>
  BY <1>1 DEF Handled, Body, At, Pops
<1> QED BY <1>2 DEF Quiet

(* Every step but the three that touch the callbacks is quiet.             *)
LEMMA StepsQuiet ==
  ASSUME StackTypes, sess \in [Sessions -> SessionObj], NEW t \in Threads, Step(t)
  PROVE  Quiet(t) \/ session_obj_register_cb(t) \/ session_pool_free(t) \/ graph_event_cb(t)
<1>0. stack[t] # <<>> => Head(stack[t]) = stack[t][1] /\ FrameArgs(stack[t][1])
  BY HeadFrame
<1>1. CASE session_obj_get_from_pool(t)
  <2> DEFINE p == IF stack[t][1].op \in {"register_cb", "deregister_cb"} THEN "cb_lock" ELSE "body"
  <2>1. /\ stack[t] # <<>> /\ stack[t][1].pc = "get" /\ Goto(t, p)
        /\ UNCHANGED <<cb_pool, cb_pool_lock>>
    BY <1>0, <1>1 DEF session_obj_get_from_pool
  <2>2. stack[t][1].op # "event" /\ stack[t][1].op # "deinit"
    BY <1>0, <2>1 DEF FrameArgs
  <2>3. p \in {"body", "loopback", "use", "cb_lock"}
    OBVIOUS
  <2> HIDE DEF p
  <2> QED BY <2>1, <2>2, <2>3, GoesTo
<1>2. ASSUME NEW op, Handled(t, op) PROVE Quiet(t)
  BY <1>2, HandledQuiet
<1>3. CASE \/ session_obj_open(t) \/ session_obj_start(t) \/ session_obj_stop(t)
           \/ session_obj_close(t) \/ session_obj_set_sess_params(t)
           \/ session_obj_set_sess_metadata(t) \/ session_obj_set_sess_aif_metadata(t)
           \/ session_obj_get_tag_with_module_info(t) \/ session_obj_set_config(t)
  BY <1>2, <1>3 DEF session_obj_open, session_obj_start, session_obj_stop, session_obj_close,
       session_obj_set_sess_params, session_obj_set_sess_metadata,
       session_obj_set_sess_aif_metadata, session_obj_get_tag_with_module_info,
       session_obj_set_config
<1>4. CASE \/ session_obj_get_sess_params(t) \/ session_obj_set_sess_aif_params_with_tag(t)
           \/ session_obj_set_sess_aif_cal(t) \/ session_obj_register_for_events(t)
           \/ session_obj_hw_processed_buff_cnt(t) \/ session_obj_eos(t)
           \/ session_obj_get_timestamp(t) \/ session_obj_buffer_timestamp(t)
           \/ session_obj_get_sess_buf_info(t) \/ session_obj_pause(t) \/ session_obj_resume(t)
  BY <1>2, <1>4 DEF GraphCall, session_obj_get_sess_params,
       session_obj_set_sess_aif_params_with_tag, session_obj_set_sess_aif_cal,
       session_obj_register_for_events, session_obj_hw_processed_buff_cnt, session_obj_eos,
       session_obj_get_timestamp, session_obj_buffer_timestamp, session_obj_get_sess_buf_info,
       session_obj_pause, session_obj_resume
<1>5. CASE session_obj_set_loopback(t)
  <2>1. /\ stack[t] # <<>> /\ stack[t][1].op = "loopback" /\ stack[t][1].pc = "body"
        /\ Goto(t, "loopback") \/ Return(t)
        /\ UNCHANGED <<cb_pool, cb_pool_lock>>
    BY <1>0, <1>5 DEF session_obj_set_loopback, Body, At
  <2> QED BY <2>1, GoesTo DEF Quiet, Pops
<1>6. CASE session_set_loopback(t)
  <2>1. /\ stack[t] # <<>> /\ stack[t][1].pc = "loopback"
        /\ Return(t) /\ UNCHANGED <<cb_pool, cb_pool_lock>>
    BY <1>0, <1>6 DEF session_set_loopback, At
  <2> QED BY <2>1 DEF Quiet, Pops
<1>7. ASSUME NEW op, op \in {"read", "write"}, Checked(t, op) PROVE Quiet(t)
  <2>1. /\ stack[t] # <<>> /\ stack[t][1].op = op /\ stack[t][1].pc = "body"
        /\ Goto(t, "use") \/ Return(t)
        /\ UNCHANGED <<cb_pool, cb_pool_lock>>
    BY <1>0, <1>7 DEF Checked, Body, At
  <2> QED BY <1>7, <2>1, GoesTo DEF Quiet, Pops
<1>8. CASE graph_read(t) \/ graph_write(t)
  <2>1. PICK h \in Frame : h = stack[t][1] /\ FrameArgs(h)
    BY <1>8, HeadFrame DEF graph_read, graph_write, Fetched, At
  <2>2. /\ stack[t] # <<>> /\ h.op \in {"read", "write"} /\ h.pc = "use"
        /\ UNCHANGED <<cb_pool, cb_pool_lock>>
        /\ \/ Return(t)
           \/ /\ sess[h.s].graph.id # 0
              /\ stack' = [stack EXCEPT ![t][1].pc = "transfer", ![t][1].g = sess[h.s].graph.id]
    BY <1>0, <1>8, <2>1 DEF graph_read, graph_write, Fetched, At
  <2>3. CASE Return(t)
    BY <2>1, <2>2, <2>3 DEF Quiet, Pops
  <2>4. CASE stack' = [stack EXCEPT ![t][1].pc = "transfer", ![t][1].g = sess[h.s].graph.id]
    <3>1. PICK g \in Nat : g = sess[h.s].graph.id
      <4>1. h.s \in Sessions
        BY <2>1, <2>2 DEF FrameArgs
      <4> QED BY <4>1 DEF SessionObj, GraphObj
    <3>2. PICK f : f = [h EXCEPT !.pc = "transfer", !.g = g]
      OBVIOUS
    <3>3. f \in Frame /\ f.op = h.op /\ f.s = h.s /\ f.arg = h.arg /\ f.pc = "transfer"
      BY <2>1, <3>2 DEF Frame
    <3>4. FrameArgs(f)
      BY <2>1, <2>2, <3>3 DEF FrameArgs
    <3>5. stack' = [stack EXCEPT ![t][1] = f]
      BY <2>1, <2>4, <3>1, <3>2
    <3>6. Moves(t, f)
      BY <2>1, <2>2, <3>3, <3>5 DEF Moves
    <3> QED BY <2>1, <2>2, <3>3, <3>4, <3>6 DEF Quiet
  <2> QED BY <2>2, <2>3, <2>4
<1>9. CASE gsl_transfer(t)
  BY <1>0, <1>9 DEF gsl_transfer, Quiet, Pops
<1>10. CASE session_obj_retrieve_from_pool(t)
  <2>1. /\ stack[t] # <<>> /\ stack[t][1].op = "event" /\ stack[t][1].pc = "pool"
        /\ Goto(t, "cb_lock") \/ Return(t)
        /\ UNCHANGED <<cb_pool, cb_pool_lock>>
    BY <1>0, <1>10 DEF session_obj_retrieve_from_pool, At
  <2> QED BY <2>1, GoesTo DEF Quiet, Pops
<1>11. CASE session_obj_read(t) \/ session_obj_write(t)
  BY <1>7, <1>11 DEF session_obj_read, session_obj_write
<1> QED BY <1>1, <1>3, <1>4, <1>5, <1>6, <1>8, <1>9, <1>10, <1>11 DEF Step

-----------------------------------------------------------------------------
(* The sessions, and the parameters that their clients rely on.            *)

(* A closed session has cached what its client relies on; an open one has  *)
(* a graph that was sent it, and nothing cached.                           *)
Fits(r, w) ==
  IF r.state = "CLOSED" THEN r.params = w
  ELSE r.params = None /\ r.graph.config = w /\ r.graph.id # 0 /\ ~r.graph.freed

SessInv ==
  /\ sess \in [Sessions -> SessionObj]
  /\ wanted \in [Sessions -> Payloads \cup {None}]
  /\ \A s \in Sessions : Fits(sess[s], wanted[s])

(* What a step of t closes: the session of its call, or any when it frees  *)
(* the pool.                                                               *)
Closes(t, s) ==
  /\ stack[t] # <<>>
  /\ \/ stack[t][1].op = "close" /\ stack[t][1].s = s /\ Pops(t)
     \/ stack[t][1].op = "deinit"

ClosedBy(t) ==
  \A s \in Sessions : sess'[s].state = "CLOSED" => sess[s].state = "CLOSED" \/ Closes(t, s)

LEMMA OneSession ==
  ASSUME SessInv, NEW s \in Sessions, NEW r \in SessionObj, NEW w \in Payloads \cup {None},
         Fits(r, w), SetSession(s, r),
         wanted' = [wanted EXCEPT ![s] = w] \/ (UNCHANGED wanted /\ w = wanted[s]),
         NEW t, r.state = "CLOSED" => sess[s].state = "CLOSED" \/ Closes(t, s)
  PROVE  SessInv' /\ ClosedBy(t)
<1>1. /\ sess' \in [Sessions -> SessionObj] /\ sess'[s] = r
      /\ \A x \in Sessions \ {s} : sess'[x] = sess[x]
  BY DEF SessInv, SetSession
<1>2. /\ wanted' \in [Sessions -> Payloads \cup {None}] /\ wanted'[s] = w
      /\ \A x \in Sessions \ {s} : wanted'[x] = wanted[x]
  BY DEF SessInv
<1>3. \A x \in Sessions : Fits(sess'[x], wanted'[x])
  BY <1>1, <1>2 DEF SessInv
<1>4. SessInv'
  BY <1>1, <1>2, <1>3 DEF SessInv, Fits
<1>5. ClosedBy(t)
  BY <1>1 DEF ClosedBy
<1> QED BY <1>4, <1>5

LEMMA NoSession ==
  ASSUME SessInv, UNCHANGED <<sess, wanted>>, NEW t
  PROVE  SessInv' /\ ClosedBy(t)
BY DEF SessInv, Fits, ClosedBy

LEMMA OpenSessions ==
  ASSUME StackTypes, SessInv, NEW t \in Threads, session_obj_open(t)
  PROVE  SessInv' /\ ClosedBy(t)
<1>1. PICK h \in Frame : h = stack[t][1] /\ FrameArgs(h)
  BY HandledQuiet, HeadFrame DEF session_obj_open, Pops
<1>2. h = Head(stack[t]) /\ h.op = "open" /\ UNCHANGED wanted
  BY <1>1, HandledQuiet, HeadFrame DEF session_obj_open, Pops
<1>3. PICK s \in Sessions : s = h.s
  BY <1>1, <1>2 DEF FrameArgs
<1>4. PICK obj \in SessionObj : obj = sess[s]
  BY DEF SessInv
<1>5. PICK fresh : fresh = [NoGraph EXCEPT !.id = obj.opens + 1, !.config = obj.params]
  OBVIOUS
<1>6. fresh \in GraphObj /\ fresh.id # 0 /\ ~fresh.freed /\ fresh.config = obj.params
  <2>1. obj.opens \in Nat /\ obj.params \in Payloads \cup {None}
    BY <1>4 DEF SessionObj
  <2>2. PICK n \in Nat \ {0}, p \in Payloads \cup {None} : n = obj.opens + 1 /\ p = obj.params
    BY <2>1
  <2>3. NoGraph \in GraphObj /\ ~NoGraph.freed
    BY DEF NoGraph, GraphObj
  <2>4. fresh = [NoGraph EXCEPT !.id = n, !.config = p]
    BY <1>5, <2>2
  <2>5. fresh \in GraphObj /\ fresh.id = n /\ fresh.freed = NoGraph.freed /\ fresh.config = p
    BY <2>3, <2>4 DEF GraphObj
  <2> QED BY <2>2, <2>3, <2>5
<1>7. \/ UNCHANGED sess
      \/ /\ obj.state = "CLOSED"
         /\ \/ SetSession(s, obj)
            \/ SetSession(s, [obj EXCEPT !.graph = [fresh EXCEPT !.freed = TRUE, !.config = None],
                                         !.opens = @ + 1])
            \/ SetSession(s, [obj EXCEPT !.state = "OPENED", !.graph = fresh, !.params = None,
                                         !.opens = @ + 1])
  BY <1>2, <1>3, <1>4, <1>5 DEF session_obj_open
<1>8. PICK w \in Payloads \cup {None} : w = wanted[s]
  BY DEF SessInv
<1>9. Fits(obj, w)
  BY <1>4, <1>8 DEF SessInv
<1>10. CASE UNCHANGED sess
  BY <1>2, <1>10, NoSession
<1>11. CASE obj.state = "CLOSED" /\ SetSession(s, obj)
  BY <1>2, <1>4, <1>8, <1>9, <1>11, OneSession
<1>12. CASE /\ obj.state = "CLOSED"
            /\ SetSession(s, [obj EXCEPT !.graph = [fresh EXCEPT !.freed = TRUE, !.config = None],
                                         !.opens = @ + 1])
  <2>1. PICK r : r = [obj EXCEPT !.graph = [fresh EXCEPT !.freed = TRUE, !.config = None],
                                 !.opens = @ + 1]
    OBVIOUS
  <2>2. r \in SessionObj /\ r.state = "CLOSED" /\ r.params = obj.params
    <3>1. PICK g \in GraphObj : g = [fresh EXCEPT !.freed = TRUE, !.config = None]
      BY <1>6 DEF GraphObj
    <3>2. PICK n \in Nat : n = obj.opens + 1
      BY <1>4 DEF SessionObj
    <3>3. r = [obj EXCEPT !.graph = g, !.opens = n]
      BY <2>1, <3>1, <3>2
    <3> QED BY <1>4, <1>12, <3>3 DEF SessionObj
  <2>3. Fits(r, w) /\ SetSession(s, r)
    BY <1>9, <1>12, <2>1, <2>2 DEF Fits
  <2> QED BY <1>2, <1>4, <1>8, <1>12, <2>2, <2>3, OneSession
<1>13. CASE /\ obj.state = "CLOSED"
            /\ SetSession(s, [obj EXCEPT !.state = "OPENED", !.graph = fresh, !.params = None,
                                         !.opens = @ + 1])
  <2>1. PICK r : r = [obj EXCEPT !.state = "OPENED", !.graph = fresh, !.params = None,
                                 !.opens = @ + 1]
    OBVIOUS
  <2>2. r \in SessionObj /\ r.state = "OPENED" /\ r.params = None /\ r.graph = fresh
    <3>1. PICK n \in Nat : n = obj.opens + 1
      BY <1>4 DEF SessionObj
    <3>2. r = [obj EXCEPT !.state = "OPENED", !.graph = fresh, !.params = None, !.opens = n]
      BY <2>1, <3>1
    <3> QED BY <1>4, <1>6, <3>2 DEF SessionObj
  <2>3. Fits(r, w) /\ SetSession(s, r)
    BY <1>6, <1>9, <1>13, <2>1, <2>2 DEF Fits
  <2> QED BY <1>2, <1>4, <1>8, <2>2, <2>3, OneSession
<1> QED BY <1>7, <1>10, <1>11, <1>12, <1>13

LEMMA RunSessions ==
  ASSUME StackTypes, SessInv, NEW t \in Threads,
         session_obj_start(t) \/ session_obj_stop(t) \/ session_obj_close(t)
  PROVE  SessInv' /\ ClosedBy(t)
<1>1. PICK h \in Frame : h = stack[t][1] /\ FrameArgs(h)
  BY HandledQuiet, HeadFrame DEF session_obj_start, session_obj_stop, session_obj_close, Pops
<1>2. stack[t] # <<>> /\ Pops(t) /\ h = Head(stack[t]) /\ h.op \in {"start", "stop", "close"}
  BY <1>1, HandledQuiet, HeadFrame
     DEF session_obj_start, session_obj_stop, session_obj_close, Pops
<1>3. PICK s \in Sessions : s = h.s
  BY <1>1, <1>2 DEF FrameArgs
<1>4. PICK obj \in SessionObj : obj = sess[s]
  BY DEF SessInv
<1>5. PICK w \in Payloads \cup {None} : w = wanted[s]
  BY DEF SessInv
<1>6. Fits(obj, w)
  BY <1>4, <1>5 DEF SessInv
<1>7. CASE session_obj_start(t) \/ session_obj_stop(t)
  <2>1. UNCHANGED wanted
    BY <1>7 DEF session_obj_start, session_obj_stop
  <2>2. PICK r : /\ SetSession(s, r)
                 /\ \/ r = obj
                    \/ obj.state # "CLOSED" /\ r = [obj EXCEPT !.state = "STARTED"]
                    \/ obj.state # "CLOSED" /\ r = [obj EXCEPT !.state = "STOPPED"]
    BY <1>2, <1>3, <1>4, <1>7 DEF session_obj_start, session_obj_stop
  <2>3. /\ r \in SessionObj /\ r.params = obj.params /\ r.graph = obj.graph
        /\ r.state = "CLOSED" <=> obj.state = "CLOSED"
    <3>1. CASE r = obj
      BY <1>4, <3>1
    <3>2. CASE obj.state # "CLOSED" /\ r = [obj EXCEPT !.state = "STARTED"]
      BY <1>4, <3>2 DEF SessionObj
    <3>3. CASE obj.state # "CLOSED" /\ r = [obj EXCEPT !.state = "STOPPED"]
      BY <1>4, <3>3 DEF SessionObj
    <3> QED BY <2>2, <3>1, <3>2, <3>3
  <2>4. Fits(r, w)
    BY <1>6, <2>3 DEF Fits
  <2> QED BY <1>4, <1>5, <2>1, <2>2, <2>3, <2>4, OneSession
<1>8. CASE session_obj_close(t)
  <2>1. h.op = "close"
    BY <1>1, <1>8, HandledQuiet DEF session_obj_close
  <2>2. CASE UNCHANGED <<sess, wanted>>
    BY <2>2, NoSession
  <2>3. CASE /\ SetSession(s, [obj EXCEPT !.state = "CLOSED", !.graph = NoGraph])
             /\ wanted' = [wanted EXCEPT ![s] = None] /\ obj.state # "CLOSED"
    <3>1. PICK r : r = [obj EXCEPT !.state = "CLOSED", !.graph = NoGraph]
      OBVIOUS
    <3>2. r \in SessionObj /\ r.state = "CLOSED" /\ r.params = obj.params
      BY <1>4, <3>1 DEF SessionObj, GraphObj, NoGraph
    <3>3. Fits(r, None) /\ SetSession(s, r)
      BY <1>6, <2>3, <3>1, <3>2 DEF Fits
    <3>4. Closes(t, s)
      BY <1>1, <1>2, <1>3, <2>1 DEF Closes
    <3>5. None \in Payloads \cup {None}
      OBVIOUS
    <3> QED BY <2>3, <3>2, <3>3, <3>4, <3>5, OneSession
  <2> QED BY <1>2, <1>3, <1>4, <1>8, <2>2, <2>3 DEF session_obj_close
<1> QED BY <1>7, <1>8

LEMMA ParamSessions ==
  ASSUME StackTypes, SessInv, NEW t \in Threads, session_obj_set_sess_params(t)
  PROVE  SessInv' /\ ClosedBy(t)
<1>1. PICK h \in Frame : h = stack[t][1] /\ FrameArgs(h)
  BY HandledQuiet, HeadFrame DEF session_obj_set_sess_params, Pops
<1>2. h = Head(stack[t]) /\ h.op = "set_params"
  BY <1>1, HandledQuiet, HeadFrame DEF session_obj_set_sess_params, Pops
<1>3. PICK s \in Sessions, a \in Payloads : s = h.s /\ a = h.arg
  BY <1>1, <1>2 DEF FrameArgs
<1>4. PICK obj \in SessionObj : obj = sess[s]
  BY DEF SessInv
<1>5. PICK w \in Payloads \cup {None} : w = wanted[s]
  BY DEF SessInv
<1>6. Fits(obj, w)
  BY <1>4, <1>5 DEF SessInv
<1>7. PICK copied, sent :
        /\ SetSession(s, [obj EXCEPT
             !.params = IF obj.state = "CLOSED" /\ copied THEN a ELSE None,
             !.graph.config = IF obj.state # "CLOSED" /\ copied /\ sent THEN a ELSE @])
        /\ wanted' = [wanted EXCEPT ![s] =
                        IF copied /\ (obj.state = "CLOSED" \/ sent) THEN a
                        ELSE IF obj.state = "CLOSED" THEN None ELSE @]
  BY <1>2, <1>3, <1>4 DEF session_obj_set_sess_params
<1>8. PICK p \in Payloads \cup {None} : p = IF obj.state = "CLOSED" /\ copied THEN a ELSE None
  OBVIOUS
<1>9. PICK c \in Payloads \cup {None} :
        c = IF obj.state # "CLOSED" /\ copied /\ sent THEN a ELSE obj.graph.config
  BY <1>4 DEF SessionObj, GraphObj
<1>10. PICK v \in Payloads \cup {None} :
         v = IF copied /\ (obj.state = "CLOSED" \/ sent) THEN a
             ELSE IF obj.state = "CLOSED" THEN None ELSE w
  OBVIOUS
<1>11. PICK g : g = [obj.graph EXCEPT !.config = c]
  OBVIOUS
<1>12. g \in GraphObj /\ g.id = obj.graph.id /\ g.freed = obj.graph.freed /\ g.config = c
  <2>1. obj.graph \in GraphObj
    BY <1>4 DEF SessionObj
  <2> QED BY <1>9, <1>11, <2>1 DEF GraphObj
<1>13. PICK r : r = [obj EXCEPT !.params = p, !.graph = g]
  OBVIOUS
<1>14. r \in SessionObj /\ r.state = obj.state /\ r.params = p /\ r.graph = g
  BY <1>4, <1>8, <1>12, <1>13 DEF SessionObj
<1>15. SetSession(s, r) /\ wanted' = [wanted EXCEPT ![s] = v]
  <2>1. [obj EXCEPT !.params = p, !.graph.config = c] = r
    BY <1>4, <1>11, <1>13 DEF SessionObj
  <2> QED BY <1>5, <1>7, <1>8, <1>9, <1>10, <2>1
<1>16. Fits(r, v)
  <2>1. CASE obj.state = "CLOSED"
    BY <1>8, <1>10, <1>14, <2>1 DEF Fits
  <2>2. CASE obj.state # "CLOSED"
    BY <1>6, <1>8, <1>9, <1>10, <1>12, <1>14, <2>2 DEF Fits
  <2> QED BY <2>1, <2>2
<1> QED BY <1>4, <1>14, <1>15, <1>16, OneSession

LEMMA LoopSessions ==
  ASSUME StackTypes, SessInv, NEW t \in Threads,
         session_obj_set_loopback(t) \/ session_set_loopback(t)
  PROVE  SessInv' /\ ClosedBy(t)
<1>1. PICK h \in Frame : h = stack[t][1] /\ FrameArgs(h) /\ h = Head(stack[t]) /\ h.op = "loopback"
  BY HeadFrame DEF session_obj_set_loopback, session_set_loopback, Body, At
<1>2. PICK s \in Sessions, a \in Sessions \cup {None} : s = h.s /\ a = h.arg
  BY <1>1 DEF FrameArgs
<1>3. PICK obj \in SessionObj : obj = sess[s]
  BY DEF SessInv
<1>4. PICK w \in Payloads \cup {None} : w = wanted[s]
  BY DEF SessInv
<1>5. PICK r : SetSession(s, r) /\ (r = obj \/ r = [obj EXCEPT !.loopback = a])
  BY <1>1, <1>2, <1>3 DEF session_obj_set_loopback, session_set_loopback
<1>6. r \in SessionObj /\ r.state = obj.state /\ r.params = obj.params /\ r.graph = obj.graph
  <2>1. CASE r = obj
    BY <1>3, <2>1
  <2>2. CASE r = [obj EXCEPT !.loopback = a]
    BY <1>3, <2>2 DEF SessionObj
  <2> QED BY <1>5, <2>1, <2>2
<1>7. Fits(r, w)
  BY <1>3, <1>4, <1>6 DEF SessInv, Fits
<1>8. UNCHANGED wanted
  BY DEF session_obj_set_loopback, session_set_loopback
<1> QED BY <1>3, <1>4, <1>5, <1>6, <1>7, <1>8, OneSession

LEMMA FreeSessions ==
  ASSUME StackTypes, SessInv, NEW t \in Threads, session_pool_free(t)
  PROVE  SessInv' /\ ClosedBy(t)
<1>1. stack[t] # <<>> /\ Head(stack[t]) = stack[t][1] /\ stack[t][1].op = "deinit"
  BY HeadFrame DEF session_pool_free, At
<1>2. CASE UNCHANGED <<sess, wanted>>
  BY <1>2, NoSession
<1>3. CASE \E s : /\ SetSession(s, [session_obj_create EXCEPT !.opens = sess[s].opens])
                  /\ wanted' = [wanted EXCEPT ![s] = None]
  <2>1. PICK s : /\ SetSession(s, [session_obj_create EXCEPT !.opens = sess[s].opens])
                 /\ wanted' = [wanted EXCEPT ![s] = None]
    BY <1>3
  <2>0. CASE s \notin Sessions
    <3>1. UNCHANGED <<sess, wanted>>
      BY <2>0, <2>1 DEF SetSession, SessInv
    <3> QED BY <3>1, NoSession
  <2> SUFFICES ASSUME s \in Sessions PROVE SessInv' /\ ClosedBy(t)
    BY <2>0
  <2>2. PICK n \in Nat : n = sess[s].opens
    BY DEF SessInv, SessionObj
  <2>3. PICK r : r = [session_obj_create EXCEPT !.opens = n]
    OBVIOUS
  <2>4. session_obj_create \in SessionObj
    <3>1. NoGraph \in GraphObj
      BY DEF NoGraph, GraphObj
    <3> QED BY <3>1 DEF session_obj_create, SessionObj
  <2>5. session_obj_create.state = "CLOSED" /\ session_obj_create.params = None
    BY DEF session_obj_create
  <2>6. r \in SessionObj /\ r.state = "CLOSED" /\ r.params = None
    BY <2>2, <2>3, <2>4, <2>5 DEF SessionObj
  <2>7. Fits(r, None) /\ Closes(t, s) /\ None \in Payloads \cup {None}
    BY <1>1, <2>6 DEF Fits, Closes
  <2> QED BY <2>1, <2>2, <2>3, <2>6, <2>7, OneSession
<1> QED BY <1>2, <1>3 DEF session_pool_free

(* Whatever a call does, what its client relies on is kept, and only close *)
(* and deinit close a session.                                             *)
LEMMA StepSessions ==
  ASSUME StackTypes, SessInv, NEW t \in Threads, Step(t)
  PROVE  SessInv' /\ ClosedBy(t)
<1>1. CASE session_obj_open(t) \/ session_obj_set_sess_params(t) \/ session_pool_free(t)
  BY <1>1, OpenSessions, ParamSessions, FreeSessions
<1>2. CASE session_obj_start(t) \/ session_obj_stop(t) \/ session_obj_close(t)
  BY <1>2, RunSessions
<1>3. CASE session_obj_set_loopback(t) \/ session_set_loopback(t)
  BY <1>3, LoopSessions
<1>4. CASE \/ session_obj_get_from_pool(t)
           \/ session_obj_set_sess_metadata(t) \/ session_obj_set_sess_aif_metadata(t)
           \/ session_obj_get_tag_with_module_info(t) \/ session_obj_set_config(t)
           \/ session_obj_read(t) \/ session_obj_write(t) \/ graph_read(t) \/ graph_write(t)
           \/ gsl_transfer(t) \/ session_obj_register_cb(t) \/ session_obj_retrieve_from_pool(t)
           \/ graph_event_cb(t)
  <2>1. UNCHANGED <<sess, wanted>>
    BY <1>4 DEF session_obj_get_from_pool, session_obj_set_sess_metadata,
         session_obj_set_sess_aif_metadata, session_obj_get_tag_with_module_info,
         session_obj_set_config, session_obj_read, session_obj_write, Checked, graph_read,
         graph_write, Fetched, gsl_transfer, session_obj_register_cb,
         session_obj_retrieve_from_pool, graph_event_cb
  <2> QED BY <2>1, NoSession
<1>5. CASE \/ session_obj_get_sess_params(t) \/ session_obj_set_sess_aif_params_with_tag(t)
           \/ session_obj_set_sess_aif_cal(t) \/ session_obj_register_for_events(t)
           \/ session_obj_hw_processed_buff_cnt(t) \/ session_obj_eos(t)
           \/ session_obj_get_timestamp(t) \/ session_obj_buffer_timestamp(t)
           \/ session_obj_get_sess_buf_info(t) \/ session_obj_pause(t) \/ session_obj_resume(t)
  <2>1. UNCHANGED <<sess, wanted>>
    BY <1>5 DEF GraphCall, session_obj_get_sess_params,
         session_obj_set_sess_aif_params_with_tag, session_obj_set_sess_aif_cal,
         session_obj_register_for_events, session_obj_hw_processed_buff_cnt, session_obj_eos,
         session_obj_get_timestamp, session_obj_buffer_timestamp, session_obj_get_sess_buf_info,
         session_obj_pause, session_obj_resume
  <2> QED BY <2>1, NoSession
<1> QED BY <1>1, <1>2, <1>3, <1>4, <1>5 DEF Step

-----------------------------------------------------------------------------
(* The callbacks, and the steps that touch them.                           *)

CbTypes ==
  /\ cb_pool \in [Sessions -> Seq(Clients \X EventTypes)]
  /\ cb_pool_lock \in [Sessions -> Threads \cup {None}]

(* The callbacks of session s change, whose lock nobody holds.             *)
Registers(t) ==
  /\ Pops(t) /\ stack[t][1].pc = "cb_lock" /\ UNCHANGED cb_pool_lock
  /\ cb_pool_lock[stack[t][1].s] = None
  /\ \E q \in Seq(Clients \X EventTypes) : cb_pool' = [cb_pool EXCEPT ![stack[t][1].s] = q]

(* deinit drops callbacks, whoever holds their lock.                       *)
Drops(t) ==
  /\ stack[t] # <<>> /\ stack[t][1].op = "deinit" /\ UNCHANGED cb_pool_lock
  /\ UNCHANGED cb_pool \/ \E s : cb_pool' = [cb_pool EXCEPT ![s] = <<>>]
  /\ \/ Pops(t) \/ UNCHANGED stack
     \/ \E f \in Frame : Moves(t, f) /\ FrameArgs(f) /\ f.pc \notin {"deliver", "in_cb"}

(* An event takes the lock, runs the next of the callbacks it found under  *)
(* the lock, or gives the lock back when none is left.                     *)
Takes(t, f) ==
  /\ Moves(t, f) /\ FrameArgs(f) /\ stack[t][1].pc = "cb_lock"
  /\ cb_pool_lock[f.s] = None /\ cb_pool_lock' = [cb_pool_lock EXCEPT ![f.s] = t]
  /\ ToSet(f.left) \subseteq ToSet(cb_pool[f.s])

Runs(t, f) ==
  /\ Moves(t, f) /\ FrameArgs(f) /\ stack[t][1].pc \in {"deliver", "in_cb"}
  /\ UNCHANGED cb_pool_lock
  /\ ToSet(f.left) \subseteq ToSet(stack[t][1].left)

Delivers(t) ==
  /\ stack[t] # <<>> /\ stack[t][1].op = "event" /\ stack[t][1].s \in Sessions
  /\ UNCHANGED cb_pool
  /\ \/ \E f \in Frame : Takes(t, f) \/ Runs(t, f)
     \/ /\ Pops(t) /\ stack[t][1].pc = "deliver"
        /\ cb_pool_lock' = [cb_pool_lock EXCEPT ![stack[t][1].s] = None]

LEMMA RegisterSteps ==
  ASSUME StackTypes, CbTypes, NEW t \in Threads, session_obj_register_cb(t)
  PROVE  Registers(t)
<1>1. PICK h \in Frame : h = stack[t][1] /\ FrameArgs(h)
  BY HeadFrame DEF session_obj_register_cb, At
<1>2. /\ h = Head(stack[t]) /\ h.op \in {"register_cb", "deregister_cb"} /\ h.pc = "cb_lock"
      /\ cb_pool_lock[h.s] = None /\ UNCHANGED cb_pool_lock /\ Pops(t)
  BY <1>1, HeadFrame DEF session_obj_register_cb, At, Pops
<1>3. PICK s \in Sessions, a \in Clients : s = h.s /\ a = h.arg
  BY <1>1, <1>2 DEF FrameArgs
<1>4. PICK p \in Seq(Clients \X EventTypes) : p = cb_pool[s]
  BY DEF CbTypes
<1>5. PICK ev \in EventTypes, ok \in Outcome("calloc") :
        cb_pool' = [cb_pool EXCEPT ![Head(stack[t]).s] =
                      IF ~ok THEN @
                      ELSE IF Head(stack[t]).op = "deregister_cb"
                      THEN Kept(@, {i \in DOMAIN @ : @[i] # <<Head(stack[t]).arg, ev>>})
                      ELSE IF Len(@) < MaxCbs THEN Append(@, <<Head(stack[t]).arg, ev>>) ELSE @]
  BY Zenon DEF session_obj_register_cb
<1> DEFINE I == {i \in DOMAIN cb_pool[Head(stack[t]).s] :
                   cb_pool[Head(stack[t]).s][i] # <<Head(stack[t]).arg, ev>>}
           K == Kept(cb_pool[Head(stack[t]).s], I)
<1>6. \E q : /\ cb_pool' = [cb_pool EXCEPT ![Head(stack[t]).s] = q]
             /\ q \in {cb_pool[Head(stack[t]).s], K,
                       Append(cb_pool[Head(stack[t]).s], <<Head(stack[t]).arg, ev>>)}
  BY <1>5
<1>7. K \in Seq(Clients \X EventTypes)
  <2>1. cb_pool[Head(stack[t]).s] = p
    BY <1>2, <1>3, <1>4
  <2>2. I \in SUBSET DOMAIN p
    BY <2>1
  <2> HIDE DEF I
  <2> QED BY <1>4, <2>1, <2>2, KeptElems
<1> HIDE DEF K, I
<1>8. Append(p, <<a, ev>>) \in Seq(Clients \X EventTypes)
  <2>1. <<a, ev>> \in Clients \X EventTypes
    BY <1>3, <1>5
  <2> QED BY <1>4, <2>1, AppendProperties
<1>9. \E q \in Seq(Clients \X EventTypes) : cb_pool' = [cb_pool EXCEPT ![s] = q]
  BY <1>2, <1>3, <1>4, <1>6, <1>7, <1>8
<1> QED BY <1>1, <1>2, <1>3, <1>9 DEF Registers

LEMMA FreeSteps ==
  ASSUME StackTypes, NEW t \in Threads, session_pool_free(t)
  PROVE  Drops(t)
<1>1. PICK h \in Frame : h = stack[t][1] /\ FrameArgs(h)
  BY HeadFrame DEF session_pool_free, At
<1>2. stack[t] # <<>> /\ h.op = "deinit" /\ UNCHANGED cb_pool_lock
  BY <1>1, HeadFrame DEF session_pool_free, At
<1>3. CASE Goto(t, "free_next") /\ UNCHANGED cb_pool
  <2>1. PICK f : f = [h EXCEPT !.pc = "free_next"]
    OBVIOUS
  <2>2. f \in Frame /\ f.op = h.op /\ f.s = h.s /\ f.arg = h.arg /\ f.pc = "free_next"
    BY <1>1, <2>1 DEF Frame
  <2>3. FrameArgs(f) /\ Moves(t, f)
    BY <1>1, <1>2, <1>3, <2>1, <2>2 DEF FrameArgs, Moves, Goto
  <2> QED BY <1>1, <1>2, <1>3, <2>2, <2>3 DEF Drops
<1>4. CASE UNCHANGED stack /\ \E s : cb_pool' = [cb_pool EXCEPT ![s] = <<>>]
  BY <1>1, <1>2, <1>4 DEF Drops
<1>5. CASE Return(t) /\ UNCHANGED cb_pool
  BY <1>1, <1>2, <1>5 DEF Drops, Pops
<1> QED BY <1>3, <1>4, <1>5 DEF session_pool_free

LEMMA EventSteps ==
  ASSUME StackTypes, CbTypes, NEW t \in Threads, graph_event_cb(t)
  PROVE  Delivers(t)
<1>1. PICK h \in Frame : h = stack[t][1] /\ FrameArgs(h)
  BY HeadFrame DEF graph_event_cb, At
<1>2. stack[t] # <<>> /\ h = Head(stack[t]) /\ h.op = "event" /\ UNCHANGED cb_pool
  BY <1>1, HeadFrame DEF graph_event_cb, At
<1>3. PICK s \in Sessions : s = h.s
  BY <1>1, <1>2 DEF FrameArgs
<1>4. PICK p \in Seq(Clients \X EventTypes) : p = cb_pool[s]
  BY DEF CbTypes
<1>5. PICK l \in Seq(Clients \X EventTypes) : l = h.left
  BY <1>1 DEF Frame
<1>6. CASE /\ h.pc = "cb_lock" /\ cb_pool_lock[s] = None
           /\ cb_pool_lock' = [cb_pool_lock EXCEPT ![s] = t]
           /\ stack' = [stack EXCEPT ![t][1].pc = "deliver", ![t][1].left = Matching(h)]
  <2>1. PICK I \in SUBSET DOMAIN p : I = {i \in DOMAIN p : p[i][2] = h.arg}
    OBVIOUS
  <2>2. PICK m : m = Kept(p, I)
    OBVIOUS
  <2>3. m \in Seq(Clients \X EventTypes) /\ ToSet(m) \subseteq ToSet(p)
    <3>1. /\ m \in Seq(Clients \X EventTypes)
          /\ \A x : x \in ToSet(m) <=> \E i \in I : p[i] = x
      BY <1>4, <2>1, <2>2, KeptElems, SMTT(60)
    <3>2. \A i \in I : p[i] \in ToSet(p)
      BY <2>1 DEF ToSet
    <3> QED BY <3>1, <3>2
  <2>4. m = Matching(h)
    BY <1>3, <1>4, <2>1, <2>2 DEF Matching
  <2>5. PICK f : f = [h EXCEPT !.pc = "deliver", !.left = m]
    OBVIOUS
  <2>6. f \in Frame /\ f.op = h.op /\ f.s = h.s /\ f.arg = h.arg /\ f.pc = "deliver" /\ f.left = m
    BY <1>1, <2>3, <2>5 DEF Frame
  <2>7. FrameArgs(f)
    BY <1>1, <1>2, <2>6 DEF FrameArgs
  <2>8. Moves(t, f)
    BY <1>1, <1>2, <1>6, <2>4, <2>5, <2>6 DEF Moves
  <2>9. Takes(t, f)
    BY <1>1, <1>3, <1>4, <1>6, <2>3, <2>6, <2>7, <2>8 DEF Takes
  <2> QED BY <1>1, <1>2, <1>3, <2>6, <2>9 DEF Delivers
<1>7. CASE /\ h.pc = "deliver" /\ h.left # <<>> /\ UNCHANGED cb_pool_lock
           /\ stack' = [stack EXCEPT ![t][1].pc = "in_cb", ![t][1].g = 0]
  <2>1. PICK f : f = [h EXCEPT !.pc = "in_cb", !.g = 0]
    OBVIOUS
  <2>2. /\ f \in Frame /\ f.op = h.op /\ f.s = h.s /\ f.arg = h.arg /\ f.pc = "in_cb"
        /\ f.left = h.left
    BY <1>1, <2>1 DEF Frame
  <2>3. FrameArgs(f)
    BY <1>1, <1>2, <1>7, <2>2 DEF FrameArgs
  <2>4. Moves(t, f)
    BY <1>1, <1>2, <1>7, <2>1, <2>2 DEF Moves
  <2>5. Runs(t, f)
    BY <1>1, <1>7, <2>2, <2>3, <2>4 DEF Runs
  <2> QED BY <1>1, <1>2, <1>3, <2>2, <2>5 DEF Delivers
<1>8. CASE /\ h.pc = "in_cb" /\ UNCHANGED cb_pool_lock
           /\ stack' = [stack EXCEPT ![t][1].pc = "deliver", ![t][1].left = Tail(@)]
  <2>1. PICK m : m = Tail(l)
    OBVIOUS
  <2>2. m \in Seq(Clients \X EventTypes) /\ ToSet(m) \subseteq ToSet(l)
    <3>1. l # <<>>
      BY <1>1, <1>5, <1>8 DEF FrameArgs
    <3>2. /\ m \in Seq(Clients \X EventTypes) /\ Len(m) = Len(l) - 1
          /\ \A i \in 1..Len(m) : i + 1 \in 1..Len(l) /\ m[i] = l[i + 1]
      BY <1>5, <2>1, <3>1
    <3>3. DOMAIN m = 1..Len(m) /\ DOMAIN l = 1..Len(l)
      BY <1>5, <3>2
    <3> QED BY <3>2, <3>3 DEF ToSet
  <2>3. PICK f : f = [h EXCEPT !.pc = "deliver", !.left = m]
    OBVIOUS
  <2>4. f \in Frame /\ f.op = h.op /\ f.s = h.s /\ f.arg = h.arg /\ f.pc = "deliver" /\ f.left = m
    BY <1>1, <2>2, <2>3 DEF Frame
  <2>5. FrameArgs(f)
    BY <1>1, <1>2, <2>4 DEF FrameArgs
  <2>6. Moves(t, f)
    BY <1>1, <1>2, <1>5, <1>8, <2>1, <2>3, <2>4 DEF Moves
  <2>7. Runs(t, f)
    BY <1>1, <1>5, <1>8, <2>2, <2>4, <2>5, <2>6 DEF Runs
  <2> QED BY <1>1, <1>2, <1>3, <2>4, <2>7 DEF Delivers
<1>9. CASE /\ h.pc = "deliver" /\ Return(t)
           /\ cb_pool_lock' = [cb_pool_lock EXCEPT ![s] = None]
  BY <1>1, <1>2, <1>3, <1>9 DEF Delivers, Pops
<1> QED BY <1>2, <1>3, <1>6, <1>7, <1>8, <1>9 DEF graph_event_cb, At

-----------------------------------------------------------------------------
(* What every step leaves of the calls in progress.                        *)

CallTypes == StackTypes /\ CbTypes /\ SessInv

(* A call that has been made goes on: its thread's stack keeps its calls,  *)
(* or loses the innermost.                                                 *)
Carried(t) ==
  /\ \A u \in Threads \ {t} : stack'[u] = stack[u]
  /\ Len(stack[t]) \in Nat \ {0}
  /\ \/ /\ Len(stack'[t]) = Len(stack[t])
        /\ \A i \in 1..Len(stack[t]) : /\ stack'[t][i].op = stack[t][i].op
                                       /\ stack'[t][i].s = stack[t][i].s
     \/ /\ Len(stack'[t]) = Len(stack[t]) - 1
        /\ \A i \in 1..Len(stack'[t]) : stack'[t][i] = stack[t][i + 1]

(* A call of op on s, or an event of s, is new on the stack of t.          *)
Enters(t, op, s) ==
  /\ UNCHANGED <<cb_pool, cb_pool_lock, sess, wanted>>
  /\ \A u \in Threads \ {t} : stack'[u] = stack[u]
  /\ Len(stack'[t]) = Len(stack[t]) + 1
  /\ stack'[t][1].op = op /\ stack'[t][1].s = s /\ stack'[t][1].pc \notin {"deliver", "in_cb"}
  /\ \A i \in 1..Len(stack[t]) :
       /\ stack'[t][i + 1].op = stack[t][i].op /\ stack'[t][i + 1].s = stack[t][i].s
       /\ stack'[t][i + 1].pc = stack[t][i].pc /\ stack'[t][i + 1].left = stack[t][i].left

LEMMA GoesOn ==
  ASSUME StackTypes, NEW t \in Threads, stack[t] # <<>>,
         \/ Pops(t) \/ UNCHANGED stack
         \/ \E f \in Frame : Moves(t, f) /\ FrameArgs(f)
  PROVE  StackTypes' /\ Carried(t)
<1>1. Len(stack[t]) \in Nat \ {0} /\ FrameArgs(stack[t][1])
  BY HeadFrame
<1>2. CASE Pops(t)
  BY <1>1, <1>2, PopPlaces DEF Carried
<1>3. CASE UNCHANGED stack
  BY <1>1, <1>3 DEF Carried, StackTypes, FrameArgs
<1>4. CASE \E f \in Frame : Moves(t, f) /\ FrameArgs(f)
  <2>1. PICK f \in Frame : Moves(t, f) /\ FrameArgs(f)
    BY <1>4
  <2>2. f.op = stack[t][1].op /\ f.s = stack[t][1].s
    BY <2>1 DEF Moves
  <2>3. /\ StackTypes'
        /\ Len(stack'[t]) = Len(stack[t]) /\ stack'[t][1] = f
        /\ \A i \in 1..Len(stack[t]) : i # 1 => stack'[t][i] = stack[t][i]
        /\ \A u \in Threads \ {t} : stack'[u] = stack[u]
    BY <2>1, MovePlaces
  <2> QED BY <1>1, <2>2, <2>3 DEF Carried
<1> QED BY <1>2, <1>3, <1>4

LEMMA StepGoesOn ==
  ASSUME CallTypes, NEW t \in Threads, Step(t)
  PROVE  /\ CallTypes' /\ Carried(t) /\ ClosedBy(t)
         /\ Quiet(t) \/ Registers(t) \/ Drops(t) \/ Delivers(t)
<1>1. StackTypes /\ CbTypes /\ SessInv /\ sess \in [Sessions -> SessionObj]
  BY DEF CallTypes, SessInv
<1>2. SessInv' /\ ClosedBy(t)
  BY <1>1, StepSessions
<1>3. Quiet(t) \/ Registers(t) \/ Drops(t) \/ Delivers(t)
  BY <1>1, StepsQuiet, RegisterSteps, FreeSteps, EventSteps
<1>4. /\ stack[t] # <<>>
      /\ \/ Pops(t) \/ UNCHANGED stack
         \/ \E f \in Frame : Moves(t, f) /\ FrameArgs(f)
  BY <1>3 DEF Quiet, Registers, Drops, Delivers, Takes, Runs, Pops, Moves
<1>5. StackTypes' /\ Carried(t)
  BY <1>1, <1>4, GoesOn
<1>6. CbTypes'
  <2>1. CASE Quiet(t)
    BY <1>1, <2>1 DEF Quiet, CbTypes
  <2>2. CASE Registers(t)
    BY <1>1, <2>2 DEF Registers, CbTypes
  <2>3. CASE Drops(t)
    <3>1. <<>> \in Seq(Clients \X EventTypes)
      OBVIOUS
    <3> QED BY <1>1, <2>3, <3>1 DEF Drops, CbTypes
  <2>4. CASE Delivers(t)
    <3>1. UNCHANGED cb_pool
      BY <2>4 DEF Delivers
    <3>2. \/ cb_pool_lock' = cb_pool_lock
          \/ \E s : cb_pool_lock' = [cb_pool_lock EXCEPT ![s] = t]
          \/ \E s : cb_pool_lock' = [cb_pool_lock EXCEPT ![s] = None]
      BY <2>4 DEF Delivers, Takes, Runs
    <3> QED BY <1>1, <3>1, <3>2 DEF CbTypes
  <2> QED BY <1>3, <2>1, <2>2, <2>3, <2>4
<1> QED BY <1>2, <1>3, <1>5, <1>6 DEF CallTypes

LEMMA CallEnters ==
  ASSUME CallTypes, NEW t \in Threads, NEW op \in ById \cup ByHandle, NEW s \in Sessions,
         Call(t, op, s)
  PROVE  CallTypes' /\ Enters(t, op, s)
<1>1. StackTypes /\ CbTypes /\ SessInv
  BY DEF CallTypes
<1>2. UNCHANGED <<cb_pool, cb_pool_lock, sess, wanted>>
  BY DEF Call
<1>3. PICK p \in {"get", "body"} : p = IF op \in ById THEN "get" ELSE "body"
  OBVIOUS
<1>4. PICK below : below = IF stack[t] = <<>> THEN <<>>
                           ELSE <<[Head(stack[t]) EXCEPT !.g = 1]>> \o Tail(stack[t])
  OBVIOUS
<1>5. PICK a \in Args(op) :
        stack' = [stack EXCEPT ![t] =
          <<[op |-> op, s |-> s, pc |-> p, arg |-> a, g |-> 0, left |-> <<>>]>> \o below]
  BY <1>3, <1>4 DEF Call
<1>6. PICK f : f = [op |-> op, s |-> s, pc |-> p, arg |-> a, g |-> 0, left |-> <<>>]
  OBVIOUS
<1>7. op \notin {"event", "deinit"}
  BY DEF ById, ByHandle, MetadataCalls, ParamCalls, EventCalls, EdgeCalls, QueryCalls
<1>8. /\ a \in Clients \cup Payloads \cup Sessions \cup {None}
      /\ op = "set_params" => a \in Payloads
      /\ op \in {"register_cb", "deregister_cb"} => a \in Clients
      /\ op = "loopback" => a \in Sessions \cup {None}
  BY DEF Args
<1>9. f \in Frame
  <2>1. <<>> \in Seq(Clients \X EventTypes)
    OBVIOUS
  <2>2. a \in Clients \cup Payloads \cup Sessions \cup EventTypes \cup {None}
    BY <1>8
  <2> QED BY <1>3, <1>6, <2>1, <2>2 DEF Frame
<1>10. f.op = op /\ f.s = s /\ f.pc = p /\ f.arg = a
  BY <1>6
<1>11. FrameArgs(f)
  BY <1>3, <1>7, <1>8, <1>10 DEF FrameArgs
<1>12. stack[t] \in Seq(Frame) /\ \A i \in 1..Len(stack[t]) : FrameArgs(stack[t][i])
  BY <1>1 DEF StackTypes
<1>13. /\ below \in Seq(Frame) /\ Len(below) = Len(stack[t])
       /\ \A i \in 1..Len(below) :
            /\ FrameArgs(below[i])
            /\ below[i].op = stack[t][i].op /\ below[i].s = stack[t][i].s
            /\ below[i].pc = stack[t][i].pc /\ below[i].left = stack[t][i].left
  <2>1. CASE stack[t] = <<>>
    BY <1>4, <2>1
  <2>2. CASE stack[t] # <<>>
    <3>1. PICK h \in Frame : h = Head(stack[t]) /\ h = stack[t][1] /\ FrameArgs(h)
      BY <1>1, <2>2, HeadFrame
    <3>2. PICK k : k = [h EXCEPT !.g = 1]
      OBVIOUS
    <3>3. /\ k \in Frame /\ k.op = h.op /\ k.s = h.s /\ k.pc = h.pc /\ k.arg = h.arg
          /\ k.left = h.left
      BY <3>1, <3>2 DEF Frame
    <3>4. FrameArgs(k)
      BY <3>1, <3>3 DEF FrameArgs
    <3>5. PICK r : r = Tail(stack[t])
      OBVIOUS
    <3>6. /\ r \in Seq(Frame) /\ Len(r) = Len(stack[t]) - 1 /\ Len(stack[t]) \in Nat
          /\ \A i \in 1..Len(r) : r[i] = stack[t][i + 1]
      BY <1>12, <2>2, <3>5
    <3>7. below = <<k>> \o r
      BY <1>4, <2>2, <3>1, <3>2, <3>5
    <3>8. below \in Seq(Frame) /\ Len(below) = Len(stack[t]) /\ below[1] = k
      BY <3>3, <3>6, <3>7
    <3>9. \A i \in 1..Len(below) : i # 1 => below[i] = stack[t][i]
      BY <3>3, <3>6, <3>7
    <3> QED BY <1>12, <3>1, <3>3, <3>4, <3>8, <3>9
  <2> QED BY <2>1, <2>2
<1>14. stack' = [stack EXCEPT ![t] = <<f>> \o below]
  BY <1>5, <1>6
<1>15. /\ StackTypes'
       /\ Len(stack'[t]) = Len(below) + 1 /\ stack'[t][1] = f
       /\ \A i \in 2..Len(stack'[t]) : i - 1 \in 1..Len(below) /\ stack'[t][i] = below[i - 1]
       /\ \A u \in Threads \ {t} : stack'[u] = stack[u]
  BY <1>1, <1>9, <1>11, <1>13, <1>14, PushPlaces
<1>16. \A i \in 1..Len(stack[t]) : stack'[t][i + 1] = below[i]
  BY <1>12, <1>13, <1>15
<1>17. Enters(t, op, s)
  BY <1>2, <1>3, <1>10, <1>13, <1>15, <1>16 DEF Enters
<1>18. CbTypes' /\ SessInv'
  BY <1>1, <1>2, NoSession DEF CbTypes
<1> QED BY <1>15, <1>17, <1>18 DEF CallTypes

LEMMA PushedPlaces ==
  ASSUME StackTypes, NEW t \in Threads, NEW f \in Frame, FrameArgs(f), Push(t, f)
  PROVE  /\ StackTypes'
         /\ Len(stack'[t]) = Len(stack[t]) + 1 /\ stack'[t][1] = f
         /\ \A u \in Threads \ {t} : stack'[u] = stack[u]
<1>1. PICK q \in Seq(Frame) : q = stack[t]
  BY DEF StackTypes
<1>2. \A i \in 1..Len(q) : FrameArgs(q[i])
  BY <1>1 DEF StackTypes
<1>3. stack' = [stack EXCEPT ![t] = <<f>> \o q]
  BY <1>1 DEF Push
<1>4. /\ StackTypes'
      /\ Len(stack'[t]) = Len(q) + 1 /\ stack'[t][1] = f
      /\ \A u \in Threads \ {t} : stack'[u] = stack[u]
  BY <1>2, <1>3, PushPlaces, ZenonT(60)
<1> QED BY <1>1, <1>4

(* deinit and events are new on an empty stack.                            *)
LEMMA EventEnters ==
  ASSUME CallTypes, NEW t \in Threads, stack[t] = <<>>, NEW f \in Frame, FrameArgs(f), Push(t, f),
         f.pc \notin {"deliver", "in_cb"}, UNCHANGED <<cb_pool, cb_pool_lock, sess, wanted>>
  PROVE  CallTypes' /\ Enters(t, f.op, f.s) /\ Len(stack[t]) = 0
<1>1. StackTypes /\ CbTypes /\ SessInv
  BY DEF CallTypes
<1>2. Len(stack[t]) = 0
  OBVIOUS
<1>3. /\ StackTypes'
      /\ Len(stack'[t]) = Len(stack[t]) + 1 /\ stack'[t][1] = f
      /\ \A u \in Threads \ {t} : stack'[u] = stack[u]
  BY <1>1, PushedPlaces
<1>4. Enters(t, f.op, f.s)
  BY <1>2, <1>3 DEF Enters
<1>5. CbTypes' /\ SessInv'
  BY <1>1, NoSession DEF CbTypes
<1> QED BY <1>2, <1>3, <1>4, <1>5 DEF CallTypes

LEMMA DeinitEnters ==
  ASSUME CallTypes, NEW t \in Threads, agm_deinit(t)
  PROVE  CallTypes' /\ Enters(t, "deinit", None) /\ Len(stack[t]) = 0
<1>1. PICK f : f = [op |-> "deinit", s |-> None, pc |-> "free", arg |-> None, g |-> 0,
                    left |-> <<>>]
  OBVIOUS
<1>2. f \in Frame
  <2>1. <<>> \in Seq(Clients \X EventTypes)
    OBVIOUS
  <2> QED BY <1>1, <2>1 DEF Frame
<1>3. f.op = "deinit" /\ f.s = None /\ f.pc = "free"
  BY <1>1
<1>4. FrameArgs(f) /\ Push(t, f) /\ stack[t] = <<>>
  BY <1>1, <1>3 DEF FrameArgs, agm_deinit
<1>5. UNCHANGED <<cb_pool, cb_pool_lock, sess, wanted>>
  BY DEF agm_deinit
<1>6. CallTypes' /\ Enters(t, f.op, f.s) /\ Len(stack[t]) = 0
  BY <1>2, <1>3, <1>4, <1>5, EventEnters
<1> QED BY <1>3, <1>6

LEMMA GslEnters ==
  ASSUME CallTypes, NEW t \in Threads, NEW s \in Sessions, NEW ev \in EventTypes, gsl_event(t, s, ev)
  PROVE  CallTypes' /\ Enters(t, "event", s) /\ Len(stack[t]) = 0
<1>1. PICK f : f = [op |-> "event", s |-> s, pc |-> "pool", arg |-> ev, g |-> 0, left |-> <<>>]
  OBVIOUS
<1>2. f \in Frame
  <2>1. <<>> \in Seq(Clients \X EventTypes)
    OBVIOUS
  <2> QED BY <1>1, <2>1 DEF Frame
<1>3. f.op = "event" /\ f.s = s /\ f.pc = "pool" /\ f.arg = ev
  BY <1>1
<1>4. FrameArgs(f) /\ Push(t, f) /\ stack[t] = <<>>
  BY <1>1, <1>3 DEF FrameArgs, gsl_event
<1>5. UNCHANGED <<cb_pool, cb_pool_lock, sess, wanted>>
  BY DEF gsl_event
<1>6. CallTypes' /\ Enters(t, f.op, f.s) /\ Len(stack[t]) = 0
  BY <1>2, <1>3, <1>4, <1>5, EventEnters
<1> QED BY <1>3, <1>6

LEMMA AtAPlace ==
  ASSUME StackTypes, NEW t \in Threads
  PROVE  /\ Len(stack[t]) \in Nat
         /\ \A i \in 1..Len(stack[t]) : stack[t][i] \in Frames(t)
         /\ \A f \in Frames(t) : \E i \in 1..Len(stack[t]) : f = stack[t][i]
<1>1. stack[t] \in Seq(Frame)
  BY DEF StackTypes
<1>2. DOMAIN stack[t] = 1..Len(stack[t]) /\ Len(stack[t]) \in Nat
  BY <1>1
<1> QED BY <1>2 DEF Frames, Range

-----------------------------------------------------------------------------
(* Events run on the threads of GSL, below the calls their callbacks make. *)
EventsLast ==
  \A t \in Threads : \A i \in 1..Len(stack[t]) : stack[t][i].op = "event" => i = Len(stack[t])

(* The client that shuts the service down makes the only call.             *)
DeinitAlone ==
  \A t \in Threads : \A i \in 1..Len(stack[t]) :
    stack[t][i].op = "deinit" =>
      Len(stack[t]) = 1 /\ \A u \in Threads \ {t} : Len(stack[u]) = 0

(* An event that runs callbacks holds the lock of the list it found them   *)
(* in, and they are still on it.                                           *)
Held ==
  \A t \in Threads : \A i \in 1..Len(stack[t]) :
    stack[t][i].pc \in {"deliver", "in_cb"} =>
      /\ cb_pool_lock[stack[t][i].s] = t
      /\ ToSet(stack[t][i].left) \subseteq ToSet(cb_pool[stack[t][i].s])

LEMMA CallsStart ==
  ASSUME Init PROVE CallTypes /\ EventsLast /\ DeinitAlone /\ Held
<1>1. \A t \in Threads : stack[t] \in Seq(Frame) /\ Len(stack[t]) = 0
  BY DEF Init
<1>2. StackTypes
  BY <1>1 DEF Init, StackTypes
<1>3. CbTypes
  <2>1. <<>> \in Seq(Clients \X EventTypes)
    OBVIOUS
  <2> QED BY <2>1 DEF Init, CbTypes
<1>4. SessInv
  <2>1. session_obj_create \in SessionObj
    <3>1. NoGraph \in GraphObj
      BY DEF NoGraph, GraphObj
    <3> QED BY <3>1 DEF session_obj_create, SessionObj
  <2>2. Fits(session_obj_create, None)
    BY DEF Fits, session_obj_create
  <2>3. \A s \in Sessions : sess[s] = session_obj_create /\ wanted[s] = None
    BY DEF Init
  <2>4. sess \in [Sessions -> SessionObj] /\ wanted \in [Sessions -> Payloads \cup {None}]
    BY <2>1 DEF Init
  <2> QED BY <2>2, <2>3, <2>4 DEF SessInv
<1>5. EventsLast /\ DeinitAlone /\ Held
  BY <1>1 DEF EventsLast, DeinitAlone, Held
<1> QED BY <1>2, <1>3, <1>4, <1>5 DEF CallTypes

LEMMA CallsTyped == CallTypes /\ [Next]_vars => CallTypes'
<1> SUFFICES ASSUME CallTypes, [Next]_vars PROVE CallTypes'
  OBVIOUS
<1>1. CASE Next
  BY <1>1, StepGoesOn, CallEnters, DeinitEnters, GslEnters DEF Next
<1>2. CASE UNCHANGED vars
  BY <1>2, NoSession, ZenonT(60) DEF vars, CallTypes, StackTypes, FrameArgs, CbTypes
<1> QED BY <1>1, <1>2

(* Once a session is open and no call on it runs, its graph was sent the   *)
(* parameters set last, for any number of sessions and threads, whichever  *)
(* of the opens and sets failed (session_obj_set_sess_params,              *)
(* session_obj_open).                                                      *)
THEOREM ParamsArrive == Spec => []ParamsReachGraph
<1>1. CallTypes => ParamsReachGraph
  BY DEF CallTypes, SessInv, Fits, ParamsReachGraph
<1> QED BY <1>1, CallsStart, CallsTyped, PTL DEF Spec

-----------------------------------------------------------------------------
LEMMA EventsStayLast ==
  ASSUME CallTypes, EventsLast, NEW t \in Threads,
         \/ Carried(t)
         \/ \E op, s : Enters(t, op, s) /\ (op # "event" \/ Len(stack[t]) = 0)
  PROVE  EventsLast'
<1>1. \A u \in Threads : Len(stack[u]) \in Nat
  BY AtAPlace DEF CallTypes
<1> SUFFICES ASSUME NEW u \in Threads, NEW i \in 1..Len(stack'[u]), stack'[u][i].op = "event"
             PROVE  i = Len(stack'[u])
  BY DEF EventsLast
<1>2. CASE u # t
  BY <1>2 DEF EventsLast, Carried, Enters
<1>3. CASE u = t /\ Carried(t)
  <2>1. CASE /\ Len(stack'[t]) = Len(stack[t])
             /\ \A j \in 1..Len(stack[t]) : stack'[t][j].op = stack[t][j].op
    BY <1>3, <2>1 DEF EventsLast
  <2>2. CASE /\ Len(stack'[t]) = Len(stack[t]) - 1
             /\ \A j \in 1..Len(stack'[t]) : stack'[t][j] = stack[t][j + 1]
    <3>1. i + 1 \in 1..Len(stack[t]) /\ stack[t][i + 1].op = "event"
      BY <1>1, <1>3, <2>2
    <3> QED BY <1>1, <1>3, <2>2, <3>1 DEF EventsLast
  <2> QED BY <1>3, <2>1, <2>2 DEF Carried
<1>4. CASE u = t /\ \E op, s : Enters(t, op, s) /\ (op # "event" \/ Len(stack[t]) = 0)
  <2>1. PICK op, s : Enters(t, op, s) /\ (op # "event" \/ Len(stack[t]) = 0)
    BY <1>4
  <2>2. CASE i = 1
    <3>1. stack'[t][1].op = op /\ Len(stack'[t]) = Len(stack[t]) + 1
      BY <2>1 DEF Enters
    <3>2. Len(stack[t]) = 0
      BY <1>4, <2>1, <2>2, <3>1
    <3> QED BY <1>4, <2>2, <3>1, <3>2
  <2>3. CASE i # 1
    <3>1. PICK j \in 1..Len(stack[t]) : i = j + 1
      <4>1. i - 1 \in 1..Len(stack[t]) /\ i = (i - 1) + 1
        BY <1>1, <1>4, <2>1, <2>3 DEF Enters
      <4> QED BY <4>1
    <3>2. stack[t][j].op = "event"
      BY <1>4, <2>1, <3>1 DEF Enters
    <3>3. j = Len(stack[t])
      BY <3>2 DEF EventsLast
    <3> QED BY <1>1, <1>4, <2>1, <3>1, <3>3 DEF Enters
  <2> QED BY <2>2, <2>3
<1> QED BY <1>2, <1>3, <1>4

LEMMA StepAlone ==
  ASSUME CallTypes, DeinitAlone, NEW t \in Threads, Carried(t)
  PROVE  DeinitAlone'
<1>1. \A u \in Threads : Len(stack[u]) \in Nat
  BY AtAPlace DEF CallTypes
<1> SUFFICES ASSUME NEW u \in Threads, NEW i \in 1..Len(stack'[u]), stack'[u][i].op = "deinit"
             PROVE  Len(stack'[u]) = 1 /\ \A v \in Threads \ {u} : Len(stack'[v]) = 0
  BY DEF DeinitAlone
<1>2. CASE u # t
  <2>1. Len(stack[t]) = 0
    BY <1>2 DEF DeinitAlone, Carried
  <2> QED BY <2>1 DEF Carried
<1>3. CASE u = t
  <2>1. CASE /\ Len(stack'[t]) = Len(stack[t])
             /\ \A j \in 1..Len(stack[t]) : stack'[t][j].op = stack[t][j].op
    BY <1>3, <2>1 DEF DeinitAlone, Carried
  <2>2. CASE /\ Len(stack'[t]) = Len(stack[t]) - 1
             /\ \A j \in 1..Len(stack'[t]) : stack'[t][j] = stack[t][j + 1]
    <3>1. i + 1 \in 1..Len(stack[t]) /\ stack[t][i + 1].op = "deinit"
      BY <1>1, <1>3, <2>2
    <3>2. Len(stack[t]) = 1
      BY <3>1 DEF DeinitAlone
    <3> QED BY <1>3, <2>2, <3>2
  <2> QED BY <1>3, <2>1, <2>2 DEF Carried
<1> QED BY <1>2, <1>3

LEMMA EnterAlone ==
  ASSUME CallTypes, NEW t \in Threads, NEW op, NEW s, Enters(t, op, s),
         ~DeinitRuns,
         op = "deinit" => \A u \in Threads : Len(stack[u]) = 0
  PROVE  DeinitAlone'
<1>1. \A u \in Threads : Len(stack[u]) \in Nat
  BY AtAPlace DEF CallTypes
<1>2. ASSUME NEW u \in Threads, NEW i \in 1..Len(stack[u]) PROVE stack[u][i].op # "deinit"
  BY <1>2, AtAPlace DEF CallTypes, DeinitRuns
<1> SUFFICES ASSUME NEW u \in Threads, NEW i \in 1..Len(stack'[u]), stack'[u][i].op = "deinit"
             PROVE  Len(stack'[u]) = 1 /\ \A v \in Threads \ {u} : Len(stack'[v]) = 0
  BY DEF DeinitAlone
<1>3. u = t
  BY <1>2 DEF Enters
<1>4. i = 1
  <2> SUFFICES ASSUME i # 1 PROVE FALSE
    OBVIOUS
  <2>1. PICK j \in 1..Len(stack[t]) : i = j + 1
    <3>1. i - 1 \in 1..Len(stack[t]) /\ i = (i - 1) + 1
      BY <1>1, <1>3 DEF Enters
    <3> QED BY <3>1
  <2>2. stack[t][j].op = "deinit"
    BY <1>3, <2>1 DEF Enters
  <2> QED BY <1>2, <2>2
<1>5. op = "deinit"
  BY <1>3, <1>4 DEF Enters
<1>6. Len(stack[t]) = 0 /\ \A v \in Threads \ {t} : Len(stack[v]) = 0
  BY <1>5
<1>7. Len(stack'[t]) = 1
  BY <1>6 DEF Enters
<1>8. \A v \in Threads \ {t} : Len(stack'[v]) = 0
  BY <1>6 DEF Enters
<1> QED BY <1>3, <1>7, <1>8

(* The session of an event that runs callbacks, and its lock.              *)
LEMMA Holder ==
  ASSUME CallTypes, Held, NEW t \in Threads, NEW i \in 1..Len(stack[t]),
         stack[t][i].pc \in {"deliver", "in_cb"}
  PROVE  /\ stack[t][i].s \in Sessions
         /\ cb_pool_lock[stack[t][i].s] = t /\ cb_pool_lock[stack[t][i].s] # None
         /\ ToSet(stack[t][i].left) \subseteq ToSet(cb_pool[stack[t][i].s])
<1>1. FrameArgs(stack[t][i])
  BY DEF CallTypes, StackTypes
<1>2. stack[t][i].s \in Sessions
  BY <1>1 DEF FrameArgs
<1>3. t # None
  BY CallsAssumption DEF None
<1> QED BY <1>2, <1>3 DEF Held

LEMMA QuietHeld ==
  ASSUME CallTypes, Held, NEW t \in Threads, Quiet(t)
  PROVE  Held'
<1>1. StackTypes
  BY DEF CallTypes
<1>2. cb_pool' = cb_pool /\ cb_pool_lock' = cb_pool_lock
  BY DEF Quiet
<1> SUFFICES ASSUME NEW u \in Threads, NEW i \in 1..Len(stack'[u]),
                    stack'[u][i].pc \in {"deliver", "in_cb"}
             PROVE  /\ cb_pool_lock'[stack'[u][i].s] = u
                    /\ ToSet(stack'[u][i].left) \subseteq ToSet(cb_pool'[stack'[u][i].s])
  BY DEF Held, ToSet
<1> SUFFICES \E j \in 1..Len(stack[u]) : stack[u][j] = stack'[u][i]
  BY <1>2 DEF Held
<1>3. CASE Pops(t)
  <2>1. \A j \in 1..Len(stack'[t]) : j + 1 \in 1..Len(stack[t]) /\ stack'[t][j] = stack[t][j + 1]
    BY <1>1, <1>3, PopPlaces
  <2>2. \A v \in Threads \ {t} : stack'[v] = stack[v]
    BY <1>1, <1>3, PopPlaces
  <2>3. CASE u = t
    BY <2>1, <2>3
  <2>4. CASE u # t
    BY <2>2, <2>4
  <2> QED BY <2>3, <2>4
<1>4. CASE \E f \in Frame : /\ Moves(t, f) /\ FrameArgs(f)
                            /\ {f.pc, stack[t][1].pc} \cap {"deliver", "in_cb"} = {}
  <2>1. PICK f \in Frame : Moves(t, f) /\ FrameArgs(f) /\ f.pc \notin {"deliver", "in_cb"}
    BY <1>4
  <2>2. /\ Len(stack'[t]) = Len(stack[t]) /\ stack'[t][1] = f
        /\ \A j \in 1..Len(stack[t]) : j # 1 => stack'[t][j] = stack[t][j]
        /\ \A v \in Threads \ {t} : stack'[v] = stack[v]
    BY <1>1, <2>1, MovePlaces
  <2>3. CASE u = t
    <3>1. i # 1
      BY <2>1, <2>2, <2>3
    <3> QED BY <2>2, <2>3, <3>1
  <2>4. CASE u # t
    BY <2>2, <2>4
  <2> QED BY <2>3, <2>4
<1> QED BY <1>3, <1>4 DEF Quiet

LEMMA RegisterHeld ==
  ASSUME CallTypes, Held, NEW t \in Threads, Registers(t)
  PROVE  Held'
<1>1. StackTypes /\ Pops(t)
  BY DEF CallTypes, Registers
<1>2. PICK s : s = stack[t][1].s
  OBVIOUS
<1>3. /\ cb_pool_lock' = cb_pool_lock /\ cb_pool_lock[s] = None
      /\ \E q : cb_pool' = [cb_pool EXCEPT ![s] = q]
  BY <1>2 DEF Registers
<1>4. \A x \in Sessions \ {s} : cb_pool'[x] = cb_pool[x]
  BY <1>3 DEF CallTypes, CbTypes
<1>5. /\ \A j \in 1..Len(stack'[t]) : /\ j + 1 \in 1..Len(stack[t])
                                      /\ stack'[t][j] = stack[t][j + 1]
      /\ \A v \in Threads \ {t} : stack'[v] = stack[v]
  BY <1>1, PopPlaces
<1> SUFFICES ASSUME NEW u \in Threads, NEW i \in 1..Len(stack'[u]),
                    stack'[u][i].pc \in {"deliver", "in_cb"}
             PROVE  /\ cb_pool_lock'[stack'[u][i].s] = u
                    /\ ToSet(stack'[u][i].left) \subseteq ToSet(cb_pool'[stack'[u][i].s])
  BY DEF Held, ToSet
<1>6. PICK j \in 1..Len(stack[u]) : stack[u][j] = stack'[u][i]
  <2>1. CASE u = t
    BY <1>5, <2>1
  <2>2. CASE u # t
    BY <1>5, <2>2
  <2> QED BY <2>1, <2>2
<1>7. /\ stack[u][j].s \in Sessions /\ cb_pool_lock[stack[u][j].s] = u
      /\ cb_pool_lock[stack[u][j].s] # None
      /\ ToSet(stack[u][j].left) \subseteq ToSet(cb_pool[stack[u][j].s])
  BY <1>6, Holder
<1>8. stack[u][j].s # s
  BY <1>3, <1>7
<1> QED BY <1>3, <1>4, <1>6, <1>7, <1>8

LEMMA DropHeld ==
  ASSUME CallTypes, CallTypes', DeinitAlone, NEW t \in Threads, Drops(t), Carried(t)
  PROVE  Held'
<1>1. stack[t][1].op = "deinit" /\ 1 \in 1..Len(stack[t])
  BY HeadFrame DEF Drops, CallTypes
<1>2. Len(stack[t]) = 1 /\ \A u \in Threads \ {t} : Len(stack[u]) = 0
  BY <1>1 DEF DeinitAlone
<1>3. ASSUME NEW u \in Threads, NEW i \in 1..Len(stack'[u])
      PROVE  stack'[u][i].op = "deinit"
  <2>1. u = t
    BY <1>2 DEF Carried
  <2>2. Len(stack'[t]) = 1 /\ i = 1
    <3>1. Len(stack'[t]) = 1 \/ Len(stack'[t]) = 0
      BY <1>2 DEF Carried
    <3>2. PICK n : n = Len(stack'[t])
      OBVIOUS
    <3>3. i \in 1..n
      BY <2>1, <3>2
    <3>4. n = 1 \/ n = 0
      BY <3>1, <3>2
    <3>5. n = 1 /\ i = 1
      BY <3>3, <3>4
    <3> QED BY <3>2, <3>5
  <2> QED BY <1>1, <1>2, <2>1, <2>2 DEF Carried
<1>4. ASSUME NEW u \in Threads, NEW i \in 1..Len(stack'[u])
      PROVE  stack'[u][i].pc \notin {"deliver", "in_cb"}
  <2>1. FrameArgs(stack'[u][i])
    BY DEF CallTypes, StackTypes, FrameArgs
  <2> QED BY <1>3, <2>1 DEF FrameArgs
<1> QED BY <1>4 DEF Held

LEMMA DeliverHeld ==
  ASSUME CallTypes, EventsLast, Held, NEW t \in Threads, Delivers(t)
  PROVE  Held'
<1>1. StackTypes /\ stack[t] # <<>> /\ cb_pool' = cb_pool
  BY DEF CallTypes, Delivers
<1>2. PICK s \in Sessions : s = stack[t][1].s
  BY DEF Delivers
<1>3. 1 \in 1..Len(stack[t]) /\ Len(stack[t]) = 1
  BY <1>1, HeadFrame DEF Delivers, EventsLast
<1>4. cb_pool_lock \in [Sessions -> Threads \cup {None}]
  BY DEF CallTypes, CbTypes
<1> SUFFICES ASSUME NEW u \in Threads, NEW i \in 1..Len(stack'[u]),
                    stack'[u][i].pc \in {"deliver", "in_cb"}
             PROVE  /\ cb_pool_lock'[stack'[u][i].s] = u
                    /\ ToSet(stack'[u][i].left) \subseteq ToSet(cb_pool'[stack'[u][i].s])
  BY DEF Held, ToSet
<1> SUFFICES /\ cb_pool_lock'[stack'[u][i].s] = u
             /\ ToSet(stack'[u][i].left) \subseteq ToSet(cb_pool[stack'[u][i].s])
  BY <1>1
<1>5. CASE \E f \in Frame : Takes(t, f)
  <2>1. PICK f \in Frame : Takes(t, f)
    BY <1>5
  <2>2. /\ Moves(t, f) /\ FrameArgs(f) /\ f.s = s
        /\ cb_pool_lock[s] = None /\ cb_pool_lock' = [cb_pool_lock EXCEPT ![s] = t]
        /\ ToSet(f.left) \subseteq ToSet(cb_pool[s])
    BY <1>2, <2>1 DEF Takes, Moves
  <2>3. /\ Len(stack'[t]) = Len(stack[t]) /\ stack'[t][1] = f
        /\ \A v \in Threads \ {t} : stack'[v] = stack[v]
    BY <1>1, <2>2, MovePlaces
  <2>4. CASE u = t
    <3>1. stack'[u][i] = f
      BY <1>3, <2>3, <2>4
    <3> QED BY <1>4, <2>2, <2>4, <3>1
  <2>5. CASE u # t
    <3>1. stack'[u] = stack[u]
      BY <2>3, <2>5
    <3>2. /\ stack[u][i].s \in Sessions /\ cb_pool_lock[stack[u][i].s] = u
          /\ cb_pool_lock[stack[u][i].s] # None
          /\ ToSet(stack[u][i].left) \subseteq ToSet(cb_pool[stack[u][i].s])
      BY <3>1, Holder
    <3>3. stack[u][i].s # s
      BY <2>2, <3>2
    <3> QED BY <1>4, <2>2, <3>1, <3>2, <3>3
  <2> QED BY <2>4, <2>5
<1>6. CASE \E f \in Frame : Runs(t, f)
  <2>1. PICK f \in Frame : Runs(t, f)
    BY <1>6
  <2>2. /\ Moves(t, f) /\ FrameArgs(f) /\ f.s = s /\ cb_pool_lock' = cb_pool_lock
        /\ stack[t][1].pc \in {"deliver", "in_cb"}
        /\ ToSet(f.left) \subseteq ToSet(stack[t][1].left)
    BY <1>2, <2>1 DEF Runs, Moves
  <2>3. /\ Len(stack'[t]) = Len(stack[t]) /\ stack'[t][1] = f
        /\ \A v \in Threads \ {t} : stack'[v] = stack[v]
    BY <1>1, <2>2, MovePlaces
  <2>4. CASE u = t
    <3>1. stack'[u][i] = f
      BY <1>3, <2>3, <2>4
    <3>2. cb_pool_lock[s] = t /\ ToSet(stack[t][1].left) \subseteq ToSet(cb_pool[s])
      BY <1>2, <1>3, <2>2, Holder
    <3> QED BY <2>2, <2>4, <3>1, <3>2
  <2>5. CASE u # t
    <3>1. stack'[u] = stack[u]
      BY <2>3, <2>5
    <3> QED BY <2>2, <3>1 DEF Held
  <2> QED BY <2>4, <2>5
<1>7. CASE /\ Pops(t) /\ stack[t][1].pc = "deliver"
           /\ cb_pool_lock' = [cb_pool_lock EXCEPT ![s] = None]
  <2>1. Len(stack'[t]) = Len(stack[t]) - 1 /\ \A v \in Threads \ {t} : stack'[v] = stack[v]
    BY <1>1, <1>7, PopPlaces
  <2>2. u # t
    BY <1>3, <2>1
  <2>3. stack'[u] = stack[u]
    BY <2>1, <2>2
  <2>4. cb_pool_lock[s] = t
    BY <1>2, <1>3, <1>7, Holder
  <2>5. /\ stack[u][i].s \in Sessions /\ cb_pool_lock[stack[u][i].s] = u
        /\ ToSet(stack[u][i].left) \subseteq ToSet(cb_pool[stack[u][i].s])
    BY <2>3, Holder
  <2>6. stack[u][i].s # s
    BY <2>2, <2>4, <2>5
  <2> QED BY <1>4, <1>7, <2>3, <2>5, <2>6
<1> QED BY <1>2, <1>5, <1>6, <1>7 DEF Delivers

LEMMA EnterHeld ==
  ASSUME CallTypes, Held, NEW t \in Threads, NEW op, NEW s, Enters(t, op, s)
  PROVE  Held'
<1>1. Len(stack[t]) \in Nat
  BY AtAPlace DEF CallTypes
<1>2. cb_pool' = cb_pool /\ cb_pool_lock' = cb_pool_lock
  BY DEF Enters
<1> SUFFICES ASSUME NEW u \in Threads, NEW i \in 1..Len(stack'[u]),
                    stack'[u][i].pc \in {"deliver", "in_cb"}
             PROVE  /\ cb_pool_lock'[stack'[u][i].s] = u
                    /\ ToSet(stack'[u][i].left) \subseteq ToSet(cb_pool'[stack'[u][i].s])
  BY DEF Held, ToSet
<1> SUFFICES /\ cb_pool_lock[stack'[u][i].s] = u
             /\ ToSet(stack'[u][i].left) \subseteq ToSet(cb_pool[stack'[u][i].s])
  BY <1>2
<1>3. CASE u # t
  <2>1. stack'[u] = stack[u]
    BY <1>3 DEF Enters
  <2> QED BY <2>1 DEF Held
<1>4. CASE u = t
  <2>1. i # 1
    BY <1>4 DEF Enters
  <2>2. PICK j \in 1..Len(stack[t]) : i = j + 1
    <3>1. i - 1 \in 1..Len(stack[t]) /\ i = (i - 1) + 1
      BY <1>1, <1>4, <2>1 DEF Enters
    <3> QED BY <3>1
  <2>3. /\ stack'[u][i].s = stack[t][j].s /\ stack'[u][i].pc = stack[t][j].pc
        /\ stack'[u][i].left = stack[t][j].left
    BY <1>4, <2>2 DEF Enters
  <2> QED BY <1>4, <2>2, <2>3, SMTT(60) DEF Held
<1> QED BY <1>3, <1>4

(* Clients call nothing while one of them shuts the service down.          *)
CallbackInv == CallTypes /\ EventsLast /\ DeinitAlone /\ Held

LEMMA StepKeepsHeld ==
  ASSUME CallbackInv, NEW t \in Threads, Step(t)
  PROVE  CallbackInv'
<1>1. CallTypes /\ EventsLast /\ DeinitAlone /\ Held
  BY DEF CallbackInv
<1>2. CallTypes' /\ Carried(t) /\ (Quiet(t) \/ Registers(t) \/ Drops(t) \/ Delivers(t))
  BY <1>1, StepGoesOn
<1>3. EventsLast' /\ DeinitAlone'
  BY <1>1, <1>2, EventsStayLast, StepAlone
<1>4. Held'
  BY <1>1, <1>2, QuietHeld, RegisterHeld, DropHeld, DeliverHeld
<1> QED BY <1>2, <1>3, <1>4 DEF CallbackInv

LEMMA EnterKeepsHeld ==
  ASSUME CallbackInv, CallTypes', NEW t \in Threads, NEW op, NEW s, Enters(t, op, s),
         op = "event" => Len(stack[t]) = 0, ~DeinitRuns,
         op = "deinit" => \A u \in Threads : Len(stack[u]) = 0
  PROVE  CallbackInv'
<1>1. CallTypes /\ EventsLast /\ DeinitAlone /\ Held
  BY DEF CallbackInv
<1>2. EventsLast'
  BY <1>1, EventsStayLast
<1>3. DeinitAlone' /\ Held'
  BY <1>1, EnterAlone, EnterHeld
<1> QED BY <1>2, <1>3 DEF CallbackInv

(* Who may call what, when clients respect deinit.                         *)
LEMMA NobodyBesideDeinit ==
  ASSUME "deinit" \notin Overlap, NEW t \in Threads
  PROVE  /\ \A op, s : Call(t, op, s) => ~DeinitRuns
         /\ \A s, ev : gsl_event(t, s, ev) => ~DeinitRuns
         /\ agm_deinit(t) => ~DeinitRuns /\ \A u \in Threads : stack[u] = <<>>
BY DEF Call, Disciplined, gsl_event, agm_deinit

LEMMA CallbackKept ==
  ASSUME "deinit" \notin Overlap
  PROVE  CallbackInv /\ [Next]_vars => CallbackInv'
<1> SUFFICES ASSUME CallbackInv, [Next]_vars PROVE CallbackInv'
  OBVIOUS
<1>0. CallTypes
  BY DEF CallbackInv
<1>1. ASSUME NEW t \in Threads, Step(t) PROVE CallbackInv'
  BY <1>1, StepKeepsHeld
<1>2. ASSUME NEW t \in Threads, NEW op \in ById \cup ByHandle, NEW s \in Sessions, Call(t, op, s)
      PROVE  CallbackInv'
  <2>1. op # "event" /\ op # "deinit"
    BY DEF ById, ByHandle, MetadataCalls, ParamCalls, EventCalls, EdgeCalls, QueryCalls
  <2>2. CallTypes' /\ Enters(t, op, s) /\ ~DeinitRuns
    BY <1>0, <1>2, CallEnters, NobodyBesideDeinit
  <2> QED BY <2>1, <2>2, EnterKeepsHeld
<1>3. ASSUME NEW t \in Threads, agm_deinit(t) PROVE CallbackInv'
  <2>1. CallTypes' /\ Enters(t, "deinit", None) /\ ~DeinitRuns
    BY <1>0, <1>3, DeinitEnters, NobodyBesideDeinit
  <2>2. \A u \in Threads : Len(stack[u]) = 0
    <3>1. \A u \in Threads : stack[u] = <<>>
      BY <1>3, NobodyBesideDeinit
    <3> QED BY <3>1
  <2>3. PICK op : op = "deinit"
    OBVIOUS
  <2>4. CallTypes' /\ Enters(t, op, None) /\ op # "event"
    BY <2>1, <2>3
  <2> QED BY <2>1, <2>2, <2>4, EnterKeepsHeld
<1>4. ASSUME NEW t \in Threads, NEW s \in Sessions, NEW ev \in EventTypes, gsl_event(t, s, ev)
      PROVE  CallbackInv'
  <2>1. CallTypes' /\ Enters(t, "event", s) /\ Len(stack[t]) = 0 /\ ~DeinitRuns
    BY <1>0, <1>4, GslEnters, NobodyBesideDeinit
  <2>2. PICK op : op = "event"
    OBVIOUS
  <2>3. CallTypes' /\ Enters(t, op, s) /\ op # "deinit"
    BY <2>1, <2>2
  <2> QED BY <2>1, <2>3, EnterKeepsHeld
<1>5. CASE UNCHANGED vars
  <2>1. CallTypes'
    BY <1>0, <1>5, CallsTyped
  <2>2. EventsLast' /\ DeinitAlone' /\ Held'
    BY <1>5 DEF vars, CallbackInv, EventsLast, DeinitAlone, Held
  <2> QED BY <2>1, <2>2 DEF CallbackInv
<1> QED BY <1>1, <1>2, <1>3, <1>4, <1>5 DEF Next

(* A callback that runs is still registered, however many threads raise    *)
(* events, register and deregister, when clients call nothing beside       *)
(* agm_deinit: graph_event_cb keeps cb_pool_lock while it runs callbacks,  *)
(* and session_obj_register_cb waits for it.                               *)
THEOREM CallbackStaysRegistered ==
  ASSUME "deinit" \notin Overlap
  PROVE  Spec => []CallbackRegistered
<1>1. Init => CallbackInv
  BY CallsStart DEF CallbackInv
<1>2. CallbackInv => CallbackRegistered
  <2> SUFFICES ASSUME CallbackInv, NEW t \in Threads, NEW f \in Frames(t), f.pc = "in_cb"
               PROVE  Head(f.left) \in Range(cb_pool[f.s])
    BY DEF CallbackRegistered
  <2>1. PICK i \in 1..Len(stack[t]) : f = stack[t][i]
    BY AtAPlace DEF CallbackInv, CallTypes
  <2>2. FrameArgs(f) /\ stack[t] \in Seq(Frame)
    BY <2>1 DEF CallbackInv, CallTypes, StackTypes
  <2>3. f \in Frame
    BY <2>1, <2>2
  <2>4. f.left \in Seq(Clients \X EventTypes) /\ f.left # <<>>
    BY <2>2, <2>3 DEF Frame, FrameArgs
  <2>5. ToSet(f.left) \subseteq ToSet(cb_pool[f.s])
    BY <2>1 DEF CallbackInv, Held
  <2>6. Head(f.left) \in ToSet(f.left)
    <3>1. Head(f.left) = f.left[1] /\ 1 \in DOMAIN f.left
      BY <2>4
    <3> QED BY <3>1 DEF ToSet
  <2>7. Head(f.left) \in ToSet(cb_pool[f.s])
    BY <2>5, <2>6
  <2> QED BY <2>7 DEF ToSet, Range
<1> QED BY <1>1, <1>2, CallbackKept, PTL DEF Spec

-----------------------------------------------------------------------------
(* A call by a handle finds its session open, and a close has the handle   *)
(* to itself.                                                              *)
HandlesOpen ==
  \A t \in Threads : \A i \in 1..Len(stack[t]) :
    stack[t][i].op \in ByHandle => sess[stack[t][i].s].state # "CLOSED"

CloseAlone ==
  \A t \in Threads : \A u \in Threads :
    \A i \in 1..Len(stack[t]) : \A j \in 1..Len(stack[u]) :
      /\ stack[t][i].op = "close" /\ stack[u][j].op \in ByHandle
      /\ stack[t][i].s = stack[u][j].s
      => t = u /\ i = j

HandleInv == CallTypes /\ DeinitAlone /\ HandlesOpen /\ CloseAlone

(* Where the call at place i of u's stack was before t's step.             *)
Was(t, u, i) == IF u = t /\ Len(stack'[t]) # Len(stack[t]) THEN i + 1 ELSE i

LEMMA WasThere ==
  ASSUME CallTypes, NEW t \in Threads, Carried(t), NEW u \in Threads, NEW i \in 1..Len(stack'[u])
  PROVE  /\ Was(t, u, i) \in 1..Len(stack[u])
         /\ stack[u][Was(t, u, i)].op = stack'[u][i].op
         /\ stack[u][Was(t, u, i)].s = stack'[u][i].s
<1>1. Len(stack[t]) \in Nat /\ Len(stack[u]) \in Nat
  BY AtAPlace DEF CallTypes
<1>2. CASE u # t
  BY <1>2 DEF Was, Carried
<1>3. CASE u = t
  <2>1. CASE /\ Len(stack'[t]) = Len(stack[t])
             /\ \A j \in 1..Len(stack[t]) : /\ stack'[t][j].op = stack[t][j].op
                                            /\ stack'[t][j].s = stack[t][j].s
    BY <1>3, <2>1 DEF Was
  <2>2. CASE /\ Len(stack'[t]) = Len(stack[t]) - 1
             /\ \A j \in 1..Len(stack'[t]) : stack'[t][j] = stack[t][j + 1]
    <3>1. Was(t, u, i) = i + 1
      BY <1>1, <1>3, <2>2 DEF Was
    <3>2. i + 1 \in 1..Len(stack[u])
      BY <1>1, <1>3, <2>2
    <3> QED BY <1>3, <2>2, <3>1, <3>2
  <2> QED BY <1>3, <2>1, <2>2 DEF Carried
<1> QED BY <1>2, <1>3

LEMMA StepHandles ==
  ASSUME HandleInv, NEW t \in Threads, Step(t)
  PROVE  HandleInv'
<1>1. CallTypes /\ DeinitAlone /\ HandlesOpen /\ CloseAlone
  BY DEF HandleInv
<1>2. CallTypes' /\ Carried(t) /\ ClosedBy(t)
  BY <1>1, StepGoesOn
<1>3. DeinitAlone'
  BY <1>1, <1>2, StepAlone
<1>4. CloseAlone'
  <2> SUFFICES ASSUME NEW u \in Threads, NEW v \in Threads,
                      NEW i \in 1..Len(stack'[u]), NEW j \in 1..Len(stack'[v]),
                      stack'[u][i].op = "close", stack'[v][j].op \in ByHandle,
                      stack'[u][i].s = stack'[v][j].s
               PROVE  u = v /\ i = j
    BY DEF CloseAlone
  <2>1. PICK k \in 1..Len(stack[u]) : /\ k = Was(t, u, i) /\ stack[u][k].op = stack'[u][i].op
                                      /\ stack[u][k].s = stack'[u][i].s
    BY <1>1, <1>2, WasThere
  <2>2. PICK l \in 1..Len(stack[v]) : /\ l = Was(t, v, j) /\ stack[v][l].op = stack'[v][j].op
                                      /\ stack[v][l].s = stack'[v][j].s
    BY <1>1, <1>2, WasThere
  <2>3. u = v /\ k = l
    BY <1>1, <2>1, <2>2 DEF CloseAlone
  <2> QED BY <2>1, <2>2, <2>3 DEF Was
<1>5. HandlesOpen'
  <2> SUFFICES ASSUME NEW u \in Threads, NEW i \in 1..Len(stack'[u]), stack'[u][i].op \in ByHandle,
                      sess'[stack'[u][i].s].state = "CLOSED"
               PROVE  FALSE
    BY DEF HandlesOpen
  <2>1. PICK k \in 1..Len(stack[u]) : /\ k = Was(t, u, i) /\ stack[u][k].op = stack'[u][i].op
                                      /\ stack[u][k].s = stack'[u][i].s
    BY <1>1, <1>2, WasThere
  <2>2. FrameArgs(stack[u][k])
    BY <1>1 DEF CallTypes, StackTypes
  <2>3. stack[u][k].op # "deinit"
    BY <2>1 DEF ByHandle
  <2>4. PICK s \in Sessions : s = stack[u][k].s
    BY <2>2, <2>3 DEF FrameArgs
  <2>5. sess[s].state # "CLOSED" /\ sess'[s].state = "CLOSED"
    BY <1>1, <2>1, <2>4 DEF HandlesOpen
  <2>6. Closes(t, s)
    BY <1>2, <2>5 DEF ClosedBy
  <2>7. StackTypes /\ stack[t] # <<>> /\ 1 \in 1..Len(stack[t]) /\ Len(stack[t]) \in Nat
    BY <1>1, <2>6, HeadFrame DEF Closes, CallTypes
  <2>8. CASE stack[t][1].op = "close" /\ stack[t][1].s = s /\ Pops(t)
    <3>1. t = u /\ k = 1
      BY <1>1, <2>1, <2>4, <2>7, <2>8 DEF CloseAlone
    <3>2. Len(stack'[t]) = Len(stack[t]) - 1
      BY <2>7, <2>8, PopPlaces
    <3>3. k = i + 1
      BY <2>1, <2>7, <3>1, <3>2 DEF Was
    <3> QED BY <3>1, <3>3
  <2>9. CASE stack[t][1].op = "deinit"
    <3>1. Len(stack[t]) = 1 /\ \A v \in Threads \ {t} : Len(stack[v]) = 0
      BY <1>1, <2>7, <2>9 DEF DeinitAlone
    <3>2. PICK n : n = Len(stack[u]) /\ k \in 1..n
      OBVIOUS
    <3>3. n = 0 \/ (n = 1 /\ u = t)
      BY <3>1, <3>2
    <3>4. n = 1 /\ u = t
      <4>1. CASE n = 0
        BY <3>2, <4>1
      <4> QED BY <3>3, <4>1
    <3>5. k = 1
      BY <3>2, <3>4
    <3> QED BY <2>3, <2>9, <3>4, <3>5
  <2> QED BY <2>6, <2>8, <2>9 DEF Closes
<1> QED BY <1>2, <1>3, <1>4, <1>5 DEF HandleInv

LEMMA EnterHandles ==
  ASSUME HandleInv, CallTypes', NEW t \in Threads, NEW op, NEW s, Enters(t, op, s), ~DeinitRuns,
         op = "deinit" => \A u \in Threads : Len(stack[u]) = 0,
         op \in ByHandle => sess[s].state # "CLOSED" /\ ~InProgress(s, {"close"}),
         op = "close" => ~InProgress(s, ByHandle)
  PROVE  HandleInv'
<1>1. CallTypes /\ HandlesOpen /\ CloseAlone
  BY DEF HandleInv
<1>2. DeinitAlone'
  BY <1>1, EnterAlone
<1>3. sess' = sess /\ Len(stack[t]) \in Nat
  BY <1>1, AtAPlace DEF Enters, CallTypes
<1>4. ASSUME NEW u \in Threads, NEW i \in 1..Len(stack'[u]), u # t \/ i # 1
      PROVE  \E k \in 1..Len(stack[u]) :
               /\ i = IF u = t THEN k + 1 ELSE k
               /\ stack[u][k].op = stack'[u][i].op /\ stack[u][k].s = stack'[u][i].s
               /\ stack[u][k] \in Frames(u)
  <2>1. CASE u # t
    <3>1. stack'[u] = stack[u]
      BY <2>1 DEF Enters
    <3>2. stack[u][i] \in Frames(u)
      BY <1>1, <3>1, AtAPlace DEF CallTypes
    <3> QED BY <2>1, <3>1, <3>2
  <2>2. CASE u = t
    <3>1. PICK k \in 1..Len(stack[t]) : i = k + 1
      <4>1. i - 1 \in 1..Len(stack[t]) /\ i = (i - 1) + 1
        BY <1>3, <1>4, <2>2 DEF Enters
      <4> QED BY <4>1
    <3>2. stack[t][k].op = stack'[t][i].op /\ stack[t][k].s = stack'[t][i].s
      BY <3>1 DEF Enters
    <3>3. stack[t][k] \in Frames(t)
      BY <1>1, AtAPlace DEF CallTypes
    <3> QED BY <2>2, <3>1, <3>2, <3>3
  <2> QED BY <2>1, <2>2
<1>5. stack'[t][1].op = op /\ stack'[t][1].s = s
  BY DEF Enters
<1>6. HandlesOpen'
  <2> SUFFICES ASSUME NEW u \in Threads, NEW i \in 1..Len(stack'[u]), stack'[u][i].op \in ByHandle
               PROVE  sess[stack'[u][i].s].state # "CLOSED"
    BY <1>3 DEF HandlesOpen
  <2>1. CASE u = t /\ i = 1
    BY <1>5, <2>1
  <2>2. CASE u # t \/ i # 1
    <3>1. PICK k \in 1..Len(stack[u]) :
            stack[u][k].op = stack'[u][i].op /\ stack[u][k].s = stack'[u][i].s
      BY <1>4, <2>2
    <3> QED BY <1>1, <3>1 DEF HandlesOpen
  <2> QED BY <2>1, <2>2
<1>7. CloseAlone'
  <2> SUFFICES ASSUME NEW u \in Threads, NEW v \in Threads,
                      NEW i \in 1..Len(stack'[u]), NEW j \in 1..Len(stack'[v]),
                      stack'[u][i].op = "close", stack'[v][j].op \in ByHandle,
                      stack'[u][i].s = stack'[v][j].s
               PROVE  u = v /\ i = j
    BY DEF CloseAlone
  <2>1. CASE (u = t /\ i = 1) /\ (v = t /\ j = 1)
    BY <2>1
  <2>2. CASE (u = t /\ i = 1) /\ (v # t \/ j # 1)
    <3>1. PICK l \in 1..Len(stack[v]) :
            /\ stack[v][l].op = stack'[v][j].op /\ stack[v][l].s = stack'[v][j].s
            /\ stack[v][l] \in Frames(v)
      BY <1>4, <2>2
    <3>2. op = "close" /\ stack[v][l].s = s /\ stack[v][l].op \in ByHandle
      BY <1>5, <2>2, <3>1
    <3> QED BY <3>1, <3>2 DEF InProgress
  <2>3. CASE (u # t \/ i # 1) /\ (v = t /\ j = 1)
    <3>1. PICK k \in 1..Len(stack[u]) :
            /\ stack[u][k].op = stack'[u][i].op /\ stack[u][k].s = stack'[u][i].s
            /\ stack[u][k] \in Frames(u)
      BY <1>4, <2>3
    <3>2. op \in ByHandle /\ stack[u][k].s = s /\ stack[u][k].op \in {"close"}
      BY <1>5, <2>3, <3>1
    <3> QED BY <3>1, <3>2 DEF InProgress
  <2>4. CASE (u # t \/ i # 1) /\ (v # t \/ j # 1)
    <3>1. PICK k \in 1..Len(stack[u]) :
            /\ i = IF u = t THEN k + 1 ELSE k
            /\ stack[u][k].op = stack'[u][i].op /\ stack[u][k].s = stack'[u][i].s
      BY <1>4, <2>4
    <3>2. PICK l \in 1..Len(stack[v]) :
            /\ j = IF v = t THEN l + 1 ELSE l
            /\ stack[v][l].op = stack'[v][j].op /\ stack[v][l].s = stack'[v][j].s
      BY <1>4, <2>4
    <3>3. u = v /\ k = l
      BY <1>1, <3>1, <3>2 DEF CloseAlone
    <3> QED BY <3>1, <3>2, <3>3
  <2> QED BY <2>1, <2>2, <2>3, <2>4
<1> QED BY <1>2, <1>6, <1>7 DEF HandleInv

LEMMA HandlesKept ==
  ASSUME {"close", "deinit"} \cap Overlap = {}
  PROVE  HandleInv /\ [Next]_vars => HandleInv'
<1> SUFFICES ASSUME HandleInv, [Next]_vars PROVE HandleInv'
  OBVIOUS
<1>0. CallTypes /\ "deinit" \notin Overlap /\ "close" \notin Overlap
  BY DEF HandleInv
<1>1. ASSUME NEW t \in Threads, Step(t) PROVE HandleInv'
  BY <1>1, StepHandles
<1>2. ASSUME NEW t \in Threads, NEW op \in ById \cup ByHandle, NEW s \in Sessions, Call(t, op, s)
      PROVE  HandleInv'
  <2>1. op # "deinit"
    BY DEF ById, ByHandle, MetadataCalls, ParamCalls, EventCalls, EdgeCalls, QueryCalls
  <2>2. CallTypes' /\ Enters(t, op, s) /\ ~DeinitRuns
    BY <1>0, <1>2, CallEnters, NobodyBesideDeinit
  <2>3. /\ op \in ByHandle => sess[s].state # "CLOSED" /\ ~InProgress(s, {"close"})
        /\ op = "close" => ~InProgress(s, ByHandle)
    BY <1>0, <1>2 DEF Call, Disciplined
  <2> QED BY <2>1, <2>2, <2>3, EnterHandles
<1>3. ASSUME NEW t \in Threads, agm_deinit(t) PROVE HandleInv'
  <2>1. CallTypes' /\ Enters(t, "deinit", None) /\ ~DeinitRuns
    BY <1>0, <1>3, DeinitEnters, NobodyBesideDeinit
  <2>2. \A u \in Threads : Len(stack[u]) = 0
    <3>1. \A u \in Threads : stack[u] = <<>>
      BY <1>0, <1>3, NobodyBesideDeinit
    <3> QED BY <3>1
  <2>3. PICK op : op = "deinit"
    OBVIOUS
  <2>4. Enters(t, op, None) /\ op \notin ByHandle /\ op # "close"
    BY <2>1, <2>3 DEF ByHandle
  <2> QED BY <2>1, <2>2, <2>4, EnterHandles
<1>4. ASSUME NEW t \in Threads, NEW s \in Sessions, NEW ev \in EventTypes, gsl_event(t, s, ev)
      PROVE  HandleInv'
  <2>1. CallTypes' /\ Enters(t, "event", s) /\ ~DeinitRuns
    BY <1>0, <1>4, GslEnters, NobodyBesideDeinit
  <2>2. PICK op : op = "event"
    OBVIOUS
  <2>3. Enters(t, op, s) /\ op \notin ByHandle /\ op # "close" /\ op # "deinit"
    BY <2>1, <2>2 DEF ByHandle
  <2> QED BY <2>1, <2>3, EnterHandles
<1>5. CASE UNCHANGED vars
  <2>1. CallTypes'
    BY <1>0, <1>5, CallsTyped
  <2>2. DeinitAlone' /\ HandlesOpen' /\ CloseAlone'
    BY <1>5 DEF vars, HandleInv, DeinitAlone, HandlesOpen, CloseAlone
  <2> QED BY <2>1, <2>2 DEF HandleInv
<1> QED BY <1>1, <1>2, <1>3, <1>4, <1>5 DEF Next

(* A call that passes its state check, or has none as session_obj_resume,  *)
(* hands GSL a graph that is open, when no client uses a handle while or   *)
(* after it closes it and none calls anything beside agm_deinit: an open   *)
(* that failed leaves a stale pointer that none of these calls reaches.    *)
THEOREM LockedCallsLive ==
  ASSUME {"close", "deinit"} \cap Overlap = {}
  PROVE  Spec => []LockedCallsReachLiveGraph
<1>1. Init => HandleInv
  <2> SUFFICES ASSUME Init PROVE HandleInv
    OBVIOUS
  <2>1. CallTypes /\ DeinitAlone
    BY CallsStart
  <2>2. \A t \in Threads : Len(stack[t]) = 0
    BY DEF Init
  <2> QED BY <2>1, <2>2 DEF HandleInv, HandlesOpen, CloseAlone
<1>2. HandleInv => LockedCallsReachLiveGraph
  <2> SUFFICES ASSUME HandleInv, NEW t \in Threads, stack[t] # <<>>,
                      Head(stack[t]).op \in GraphOps,
                      Reaches(Head(stack[t]).op, sess[Head(stack[t]).s].state)
               PROVE  /\ sess[Head(stack[t]).s].graph.id # 0
                      /\ ~sess[Head(stack[t]).s].graph.freed
    BY DEF LockedCallsReachLiveGraph
  <2>1. CallTypes /\ StackTypes /\ SessInv /\ HandlesOpen
    BY DEF HandleInv, CallTypes
  <2>2. PICK f \in Frame : /\ f = Head(stack[t]) /\ f = stack[t][1] /\ FrameArgs(f)
                           /\ 1 \in 1..Len(stack[t])
    BY <2>1, HeadFrame
  <2>3. f.op # "deinit" /\ f.op \in GraphOps
    BY <2>2 DEF GraphOps
  <2>4. PICK s \in Sessions : s = f.s
    BY <2>2, <2>3 DEF FrameArgs
  <2>5. sess[s].state # "CLOSED"
    <3>1. CASE f.op = "resume"
      <4>1. f.op \in ByHandle
        BY <3>1 DEF ByHandle
      <4> QED BY <2>1, <2>2, <2>4, <4>1 DEF HandlesOpen
    <3>2. CASE f.op # "resume"
      BY <2>2, <2>4, <3>2 DEF Reaches
    <3> QED BY <3>1, <3>2
  <2> QED BY <2>1, <2>2, <2>4, <2>5 DEF SessInv, Fits
<1> QED BY <1>1, <1>2, HandlesKept, PTL DEF Spec

-----------------------------------------------------------------------------
(* Metadata.  Whether an entry of a vector is the first of its key, and    *)
(* whether it is the one that leads in a list of vectors.                  *)
FirstHere(s, i) == \A j \in 1..(i - 1) : s[j].key # s[i].key

HasKey(s, k) == \E i \in DOMAIN s : s[i].key = k

Leads(src, kv) ==
  \E a \in DOMAIN src :
    /\ \E i \in DOMAIN src[a] : src[a][i] = kv /\ FirstHere(src[a], i)
    /\ \A b \in 1..(a - 1) : ~HasKey(src[b], kv.key)

(* A vector that stands for a list of them: it has their keys, each first  *)
(* with the entry that leads.                                              *)
StandsFor(s, src) ==
  /\ \A i \in DOMAIN s : FirstHere(s, i) => Leads(src, s[i])
  /\ \A a \in DOMAIN src : \A k : HasKey(src[a], k) => HasKey(s, k)

KVs == Seq(KeyValue)

(* new is old with t behind it.                                            *)
Behind(new, old, t) == new = Append(old, t)

LEMMA BehindOnce ==
  ASSUME NEW new, NEW other, NEW old, NEW t, Behind(new, old, t), Behind(other, old, t)
  PROVE  new = other
BY DEF Behind

LEMMA StandsForNext ==
  ASSUME NEW s \in KVs, NEW t \in KVs, NEW src \in Seq(KVs), StandsFor(s, src),
         NEW r, r = s \o t, NEW new, Behind(new, src, t)
  PROVE  r \in KVs /\ new \in Seq(KVs) /\ StandsFor(r, new)
<1>2. PICK m \in Nat : m = Len(s)
  BY DEF KVs
<1>3. PICK n \in Nat : n = Len(t)
  BY DEF KVs
<1>4. /\ r \in KVs /\ DOMAIN s = 1..m /\ DOMAIN t = 1..n /\ DOMAIN r = 1..(m + n)
      /\ \A i \in 1..m : r[i] = s[i]
      /\ \A i \in 1..n : r[m + i] = t[i]
  BY <1>2, <1>3, ConcatPlaces DEF KVs
<1>5. PICK l \in Nat : l = Len(src)
  OBVIOUS
<1>7. /\ new \in Seq(KVs) /\ DOMAIN src = 1..l /\ DOMAIN new = 1..(l + 1)
      /\ new[l + 1] = t /\ \A a \in 1..l : new[a] = src[a]
  BY <1>5 DEF Behind
<1>8. ASSUME NEW i \in DOMAIN r, FirstHere(r, i) PROVE Leads(new, r[i])
  <2>1. CASE i <= m
    <3>1. i \in 1..m /\ r[i] = s[i]
      BY <1>4, <2>1
    <3>2. FirstHere(s, i)
      BY <1>4, <1>8, <3>1 DEF FirstHere
    <3>3. Leads(src, s[i])
      BY <1>4, <3>1, <3>2 DEF StandsFor
    <3>4. PICK a \in 1..l : /\ \E j \in DOMAIN src[a] : src[a][j] = s[i] /\ FirstHere(src[a], j)
                            /\ \A b \in 1..(a - 1) : ~HasKey(src[b], s[i].key)
      BY <1>7, <3>3 DEF Leads
    <3>5. a \in DOMAIN new /\ new[a] = src[a] /\ \A b \in 1..(a - 1) : b \in 1..l /\ new[b] = src[b]
      BY <1>7
    <3> QED BY <3>1, <3>4, <3>5 DEF Leads
  <2>2. CASE i > m
    <3>1. PICK j \in 1..n : i = m + j /\ r[i] = t[j]
      <4>1. i - m \in 1..n /\ i = m + (i - m)
        BY <1>4, <2>2
      <4> QED BY <1>4, <4>1
    <3>2. FirstHere(t, j)
      <4>1. ASSUME NEW k \in 1..(j - 1) PROVE t[k].key # t[j].key
        <5>1. m + k \in 1..(i - 1) /\ k \in 1..n
          BY <3>1
        <5>2. r[m + k].key # r[i].key
          BY <1>8, <5>1 DEF FirstHere
        <5> QED BY <1>4, <3>1, <5>1, <5>2
      <4> QED BY <4>1 DEF FirstHere
    <3>3. \A k \in 1..m : s[k].key # t[j].key
      <4>1. \A k \in 1..m : k \in 1..(i - 1) /\ r[k] = s[k]
        BY <1>4, <3>1
      <4> QED BY <1>8, <3>1, <4>1 DEF FirstHere
    <3>4. \A b \in 1..l : ~HasKey(src[b], t[j].key)
      <4>1. ~HasKey(s, t[j].key)
        BY <1>4, <3>3 DEF HasKey
      <4> QED BY <1>7, <4>1 DEF StandsFor
    <3>5. l + 1 \in DOMAIN new /\ new[l + 1] = t
          /\ \A b \in 1..((l + 1) - 1) : b \in 1..l /\ new[b] = src[b]
      BY <1>7
    <3>6. \A b \in 1..((l + 1) - 1) : ~HasKey(new[b], t[j].key)
      BY <3>4, <3>5
    <3>7. \E k \in DOMAIN t : t[k] = t[j] /\ FirstHere(t, k)
      BY <1>4, <3>1, <3>2
    <3>8. PICK c : c = l + 1
      OBVIOUS
    <3> QED BY <3>1, <3>5, <3>6, <3>7, <3>8 DEF Leads
  <2> QED BY <1>4, <2>1, <2>2
<1>9. ASSUME NEW a \in DOMAIN new, NEW k, HasKey(new[a], k) PROVE HasKey(r, k)
  <2>1. CASE a \in 1..l
    <3>1. HasKey(s, k)
      BY <1>7, <1>9, <2>1 DEF StandsFor
    <3>2. PICK i \in 1..m : s[i].key = k
      BY <1>4, <3>1 DEF HasKey
    <3>3. i \in DOMAIN r /\ r[i].key = k
      BY <1>4, <3>2
    <3> QED BY <3>3 DEF HasKey
  <2>2. CASE a = l + 1
    <3>1. PICK i \in 1..n : t[i].key = k
      BY <1>4, <1>7, <1>9, <2>2 DEF HasKey
    <3>2. m + i \in DOMAIN r /\ r[m + i].key = k
      BY <1>4, <3>1
    <3> QED BY <3>2 DEF HasKey
  <2> QED BY <1>7, <2>1, <2>2
<1>10. StandsFor(r, new)
  BY <1>8, <1>9 DEF StandsFor
<1> QED BY <1>4, <1>7, <1>10

LEMMA StandsForNone == StandsFor(<<>>, <<>>) /\ <<>> \in KVs /\ <<>> \in Seq(KVs)
  BY DEF StandsFor, KVs

(* What KeepFirst leaves stands for the same, and has each key once.       *)
OneOfEach(s) == \A i, j \in DOMAIN s : s[i].key = s[j].key => i = j

LEMMA KeptStandsFor ==
  ASSUME NEW s \in KVs, NEW src \in Seq(KVs), StandsFor(s, src)
  PROVE  /\ KeepFirst(s, Key) \in KVs
         /\ StandsFor(KeepFirst(s, Key), src)
         /\ OneOfEach(KeepFirst(s, Key))
<1>1. PICK I \in SUBSET DOMAIN s : I = {i \in DOMAIN s : FirstHere(s, i)}
  OBVIOUS
<1>2. PICK r : r = Kept(s, I)
  OBVIOUS
<1>3. KeepFirst(s, Key) = r
  BY <1>1, <1>2 DEF KeepFirst, Key, FirstHere
<1>4. PICK n \in Nat : n = Cardinality(I)
  BY KeptPlaces DEF KVs
<1>5. r \in KVs /\ DOMAIN r = 1..n
  BY <1>2, <1>4, KeptPlaces DEF KVs
<1>6. PICK places \in [1..n -> I] :
        /\ \A j \in 1..n : r[j] = s[places[j]]
        /\ \A j, k \in 1..n : places[j] = places[k] => j = k
        /\ \A i \in I : \E j \in 1..n : places[j] = i
  <2>1. s \in Seq(KeyValue)
    BY DEF KVs
  <2>2. PICK places \in [1..n -> I] : TakenFrom(places, r, s, I, n)
    BY <1>2, <1>4, <2>1, KeptPlaces
  <2> QED BY <2>2 DEF TakenFrom
<1>7. PICK m \in Nat : m = Len(s) /\ DOMAIN s = 1..m
  BY DEF KVs
<1>8. \A j \in 1..n : places[j] \in 1..m /\ FirstHere(s, places[j])
  BY <1>1, <1>6, <1>7
<1>9. ASSUME NEW i \in DOMAIN r PROVE Leads(src, r[i])
  BY <1>5, <1>6, <1>7, <1>8 DEF StandsFor
<1>10. ASSUME NEW k, HasKey(s, k) PROVE HasKey(r, k)
  <2>1. PICK W : W = {i \in 1..m : s[i].key = k}
    OBVIOUS
  <2>2. W \in SUBSET Nat /\ W # {}
    BY <1>7, <1>10, <2>1 DEF HasKey
  <2>3. PICK w : w = Min(W)
    OBVIOUS
  <2>4. w \in W /\ \A j \in W : w <= j
    BY <2>2, <2>3, LeastPlace
  <2>5. w \in 1..m /\ s[w].key = k
    BY <2>1, <2>4
  <2>6. ASSUME NEW j \in 1..(w - 1), s[j].key = k PROVE FALSE
    <3>1. j \in 1..m /\ ~(w <= j)
      BY <2>5
    <3> QED BY <2>1, <2>4, <2>6, <3>1
  <2>7. w \in I
    BY <1>1, <1>7, <2>5, <2>6 DEF FirstHere
  <2>8. PICK j \in 1..n : places[j] = w
    BY <1>6, <2>7
  <2> QED BY <1>5, <1>6, <2>5, <2>8 DEF HasKey
<1>11. StandsFor(r, src)
  BY <1>9, <1>10 DEF StandsFor
<1>12. OneOfEach(r)
  <2> SUFFICES ASSUME NEW i \in 1..n, NEW j \in 1..n, r[i].key = r[j].key PROVE i = j
    BY <1>5 DEF OneOfEach
  <2>1. PICK a \in 1..m : a = places[i] /\ FirstHere(s, a) /\ r[i] = s[a]
    BY <1>6, <1>8
  <2>2. PICK b \in 1..m : b = places[j] /\ FirstHere(s, b) /\ r[j] = s[b]
    BY <1>6, <1>8
  <2>3. ~(a < b) /\ ~(b < a)
    BY <2>1, <2>2 DEF FirstHere
  <2> QED BY <1>6, <2>1, <2>2, <2>3
<1> QED BY <1>3, <1>5, <1>11, <1>12

-----------------------------------------------------------------------------
(* The types of the vectors, and a metadata whose counts are those of its  *)
(* arrays.                                                                 *)
Vectors(S) == [num: Nat, arr: Seq(S), mem: BOOLEAN]

Metadatas == [gkv: Vectors(KeyValue), ckv: Vectors(KeyValue), prop_id: Nat, props: Vectors(Nat)]

Counts(v) == v.num = Len(v.arr)

Whole(m) == m \in Metadatas /\ Counts(m.gkv) /\ Counts(m.ckv) /\ Counts(m.props)

LEMMA MetaIsThere ==
  ASSUME NEW m \in Metadatas
  PROVE  m # NoMeta
<1>1. "gkv" \in DOMAIN m
  BY DEF Metadatas
<1>2. DOMAIN NoMeta = {"none"}
  BY DEF NoMeta
<1> QED BY <1>1, <1>2

LEMMA CopiedWhole ==
  ASSUME NEW S, NEW v \in Vectors(S), Counts(v)
  PROVE  Copied(v) = v.arr /\ v.arr \in Seq(S)
<1>1. PICK a \in Seq(S) : a = v.arr
  BY DEF Vectors
<1>2. SubSeq(a, 1, Len(a)) = a
  OBVIOUS
<1> QED BY <1>1, <1>2 DEF Copied, Counts

LEMMA VecIsWhole ==
  ASSUME NEW S, NEW s \in Seq(S)
  PROVE  /\ Vec(s) \in Vectors(S) /\ Counts(Vec(s)) /\ Vec(s).arr = s /\ Vec(s).num = Len(s)
         /\ Copied(Vec(s)) = s
<1>1. Vec(s) \in Vectors(S) /\ Counts(Vec(s)) /\ Vec(s).arr = s /\ Vec(s).num = Len(s)
  BY DEF Vec, Vectors, Counts
<1> QED BY <1>1, CopiedWhole

LEMMA KeptIsSeq ==
  ASSUME NEW S, NEW s \in Seq(S)
  PROVE  KeepFirst(s, Key) \in Seq(S) /\ KeepFirst(s, Itself) \in Seq(S)
<1>1. PICK I \in SUBSET DOMAIN s : I = {i \in DOMAIN s : \A j \in 1..(i - 1) : s[j].key # s[i].key}
  OBVIOUS
<1>2. PICK J \in SUBSET DOMAIN s : J = {i \in DOMAIN s : \A j \in 1..(i - 1) : s[j] # s[i]}
  OBVIOUS
<1>3. KeepFirst(s, Key) = Kept(s, I) /\ KeepFirst(s, Itself) = Kept(s, J)
  BY <1>1, <1>2 DEF KeepFirst, Key, Itself
<1> QED BY <1>3, KeptElems

(* What is merged of the arguments, before duplicates are taken out.       *)
GkvOf(m) == IF m = NoMeta THEN <<>> ELSE Copied(m.gkv)
CkvOf(m) == IF m = NoMeta THEN <<>> ELSE Copied(m.ckv)
PropsOf(m) == IF m = NoMeta THEN <<>> ELSE Copied(m.props)

LEMMA FlatIsSeq ==
  ASSUME NEW S, NEW q \in Seq(Seq(S)), Len(q) # 0
  PROVE  FlattenSeq(q) \in Seq(S)
<1>1. PICK n \in Nat \ {0} : n = Len(q)
  OBVIOUS
<1>2. PICK f \in [1..n -> Seq(S)] : FlattenSeq(q) = f[n]
  BY <1>1, FlattenSteps, ZenonT(60)
<1> QED BY <1>2

GkvsOf(G, args, n) == G = [i \in 1..n |-> GkvOf(args[i])]
CkvsOf(C, args, n) == C = [i \in 1..n |-> CkvOf(args[i])]
IsMerge(r, args) == r = metadata_merge(args, TRUE)

LEMMA MergeResult ==
  ASSUME NEW n \in Nat \ {0}, NEW args, DOMAIN args = 1..n,
         \A i \in 1..n : args[i] = NoMeta \/ Whole(args[i]),
         NEW G, GkvsOf(G, args, n),
         NEW C, CkvsOf(C, args, n),
         NEW r, IsMerge(r, args)
  PROVE  /\ G \in Seq(KVs) /\ C \in Seq(KVs) /\ Len(G) = n /\ Len(C) = n
         /\ Whole(r)
         /\ r.gkv.arr = KeepFirst(FlattenSeq(G), Key)
         /\ r.ckv.arr = KeepFirst(FlattenSeq(C), Key)
<1>3. PICK P : P = [i \in 1..n |-> PropsOf(args[i])]
  OBVIOUS
<1>5. ASSUME NEW i \in 1..n
      PROVE  GkvOf(args[i]) \in KVs /\ CkvOf(args[i]) \in KVs /\ PropsOf(args[i]) \in Seq(Nat)
  <2>1. CASE args[i] = NoMeta
    BY <2>1 DEF GkvOf, CkvOf, PropsOf, KVs
  <2>2. CASE Whole(args[i])
    <3>1. PICK m \in Metadatas : m = args[i] /\ Counts(m.gkv) /\ Counts(m.ckv) /\ Counts(m.props)
      BY <2>2 DEF Whole
    <3>2. /\ m.gkv \in Vectors(KeyValue) /\ m.ckv \in Vectors(KeyValue)
          /\ m.props \in Vectors(Nat) /\ m # NoMeta
      BY MetaIsThere DEF Metadatas
    <3>3. /\ Copied(m.gkv) \in Seq(KeyValue) /\ Copied(m.ckv) \in Seq(KeyValue)
          /\ Copied(m.props) \in Seq(Nat)
      BY <3>1, <3>2, CopiedWhole
    <3> QED BY <3>1, <3>2, <3>3 DEF GkvOf, CkvOf, PropsOf, KVs
  <2> QED BY <2>1, <2>2
<1>6. G \in Seq(KVs) /\ C \in Seq(KVs) /\ P \in Seq(Seq(Nat)) /\ Len(G) = n /\ Len(C) = n /\ Len(P) = n
  BY <1>3, <1>5 DEF GkvsOf, CkvsOf
<1>7. PICK g \in KVs : g = FlattenSeq(G)
  BY <1>6, FlatIsSeq DEF KVs
<1>8. PICK c \in KVs : c = FlattenSeq(C)
  BY <1>6, FlatIsSeq DEF KVs
<1>9. PICK p \in Seq(Nat) : p = FlattenSeq(P)
  BY <1>6, FlatIsSeq
<1>10. PICK given : given = {i \in 1..n : args[i] # NoMeta}
  OBVIOUS
<1>11. PICK id : id = IF given = {} THEN 0 ELSE args[Max(given)].prop_id
  OBVIOUS
<1>12. id \in Nat
  <2>1. CASE given = {}
    BY <1>11, <2>1
  <2>2. CASE given # {}
    <3>1. Max(given) \in given
      BY <1>10, <2>2, GreatestPlace
    <3>2. PICK m \in Metadatas : m = args[Max(given)]
      BY <1>10, <3>1 DEF Whole
    <3> QED BY <1>11, <2>2, <3>2 DEF Metadatas
  <2> QED BY <2>1, <2>2
<1>13. PICK all : all = [gkv |-> Vec(g), ckv |-> Vec(c), prop_id |-> id, props |-> Vec(p)]
  OBVIOUS
<1>14. r = metadata_remove_dup(all)
  <2>1. /\ G = [i \in DOMAIN args |-> IF i \in given THEN Copied(args[i].gkv) ELSE <<>>]
        /\ C = [i \in DOMAIN args |-> IF i \in given THEN Copied(args[i].ckv) ELSE <<>>]
        /\ P = [i \in DOMAIN args |-> IF i \in given THEN Copied(args[i].props) ELSE <<>>]
        /\ given = {i \in DOMAIN args : args[i] # NoMeta}
    BY <1>3, <1>10 DEF GkvOf, CkvOf, PropsOf, GkvsOf, CkvsOf
  <2> QED BY <1>7, <1>8, <1>9, <1>11, <1>13, <2>1, Zenon DEF metadata_merge, IsMerge
<1>15. r = [all EXCEPT !.gkv = Vec(KeepFirst(g, Key)), !.ckv = Vec(KeepFirst(c, Key)),
                       !.props = Vec(KeepFirst(p, Itself))]
  <2>1. Copied(all.gkv) = g /\ Copied(all.ckv) = c /\ Copied(all.props) = p
    BY <1>13, VecIsWhole DEF KVs
  <2>2. r = [all EXCEPT !.gkv = Vec(KeepFirst(Copied(all.gkv), Key)),
                        !.ckv = Vec(KeepFirst(Copied(all.ckv), Key)),
                        !.props = Vec(KeepFirst(Copied(all.props), Itself))]
    BY <1>14 DEF metadata_remove_dup
  <2> QED BY <2>1, <2>2
<1>16. PICK vg \in Vectors(KeyValue) : vg = Vec(KeepFirst(g, Key)) /\ Counts(vg) /\ vg.arr = KeepFirst(g, Key)
  BY KeptIsSeq, VecIsWhole DEF KVs
<1>17. PICK vc \in Vectors(KeyValue) : vc = Vec(KeepFirst(c, Key)) /\ Counts(vc) /\ vc.arr = KeepFirst(c, Key)
  BY KeptIsSeq, VecIsWhole DEF KVs
<1>18. PICK vp \in Vectors(Nat) : vp = Vec(KeepFirst(p, Itself)) /\ Counts(vp)
  BY KeptIsSeq, VecIsWhole
<1>19. r = [gkv |-> vg, ckv |-> vc, prop_id |-> id, props |-> vp]
  BY <1>13, <1>15, <1>16, <1>17, <1>18
<1>20. Whole(r) /\ r.gkv = vg /\ r.ckv = vc
  BY <1>12, <1>16, <1>17, <1>18, <1>19 DEF Whole, Metadatas
<1> QED BY <1>6, <1>7, <1>8, <1>16, <1>17, <1>20

(* A vector flattened step by step.                                        *)
FlatBy(f, q, n) ==
  /\ \A i \in 1..n : f[i] \in KVs /\ q[i] \in KVs
  /\ f[1] = q[1]
  /\ \A i \in 2..n : f[i] = f[i - 1] \o q[i]

LEMMA FlatSteps ==
  ASSUME NEW q \in Seq(KVs), NEW n \in Nat \ {0}, n = Len(q)
  PROVE  \E f : FlattenSeq(q) = f[n] /\ FlatBy(f, q, n)
<1>1. q \in Seq(Seq(KeyValue))
  BY DEF KVs
<1>2. PICK f \in [1..n -> Seq(KeyValue)] : FlattenSeq(q) = f[n] /\ Flattens(f, q, n)
  BY <1>1, FlattenSteps
<1>3. f[1] = q[1] /\ \A i \in 2..n : f[i] = f[i - 1] \o q[i]
  BY <1>2 DEF Flattens
<1>4. \A i \in 1..n : q[i] \in KVs
  OBVIOUS
<1>5. \A i \in 1..n : f[i] \in KVs
  BY <1>2 DEF KVs
<1> QED BY <1>2, <1>3, <1>4, <1>5 DEF FlatBy

(* The arguments of a merge stand behind what its first one stands for.    *)
LEMMA FlatStandsFor ==
  ASSUME NEW q, NEW n \in Nat, 2 <= n, n <= 4, NEW f, FlatBy(f, q, n),
         NEW s1 \in Seq(KVs), StandsFor(q[1], s1),
         NEW s2, Behind(s2, s1, q[2]), NEW s3, Behind(s3, s2, q[3]), NEW s4, Behind(s4, s3, q[4])
  PROVE  /\ n = 2 => StandsFor(f[2], s2) /\ s2 \in Seq(KVs)
         /\ n = 3 => StandsFor(f[3], s3) /\ s3 \in Seq(KVs)
         /\ n = 4 => StandsFor(f[4], s4) /\ s4 \in Seq(KVs)
<1>1. /\ f[1] \in KVs /\ f[2] \in KVs /\ q[2] \in KVs /\ f[1] = q[1]
      /\ n >= 3 => f[3] \in KVs /\ q[3] \in KVs
      /\ n >= 4 => f[4] \in KVs /\ q[4] \in KVs
  BY DEF FlatBy
<1>2. f[2] = f[1] \o q[2]
  <2>1. 2 \in 2..n /\ 2 - 1 = 1
    OBVIOUS
  <2> QED BY <2>1 DEF FlatBy
<1>3. ASSUME n >= 3 PROVE f[3] = f[2] \o q[3]
  <2>1. 3 \in 2..n /\ 3 - 1 = 2
    BY <1>3
  <2> QED BY <2>1 DEF FlatBy
<1>4. ASSUME n = 4 PROVE f[4] = f[3] \o q[4]
  <2>1. 4 \in 2..n /\ 4 - 1 = 3
    BY <1>4
  <2> QED BY <2>1 DEF FlatBy
<1>5. StandsFor(f[2], s2) /\ s2 \in Seq(KVs)
  <2>1. PICK x : x = f[1]
    OBVIOUS
  <2>2. PICK y : y = q[2]
    OBVIOUS
  <2>3. PICK z : z = f[2]
    OBVIOUS
  <2>4. x \in KVs /\ y \in KVs /\ z = x \o y /\ StandsFor(x, s1) /\ Behind(s2, s1, y)
    BY <1>1, <1>2, <2>1, <2>2, <2>3
  <2>5. StandsFor(z, s2) /\ s2 \in Seq(KVs)
    BY <2>4, StandsForNext
  <2> QED BY <2>3, <2>5
<1>6. ASSUME n >= 3 PROVE StandsFor(f[3], s3) /\ s3 \in Seq(KVs)
  <2>1. PICK x : x = f[2]
    OBVIOUS
  <2>2. PICK y : y = q[3]
    OBVIOUS
  <2>3. PICK z : z = f[3]
    OBVIOUS
  <2>4. x \in KVs /\ y \in KVs /\ z = x \o y /\ StandsFor(x, s2) /\ Behind(s3, s2, y)
    BY <1>1, <1>3, <1>5, <1>6, <2>1, <2>2, <2>3
  <2>5. StandsFor(z, s3) /\ s3 \in Seq(KVs)
    BY <1>5, <2>4, StandsForNext
  <2> QED BY <2>3, <2>5
<1>7. ASSUME n = 4 PROVE StandsFor(f[4], s4) /\ s4 \in Seq(KVs)
  <2>1. PICK x : x = f[3]
    OBVIOUS
  <2>2. PICK y : y = q[4]
    OBVIOUS
  <2>3. PICK z : z = f[4]
    OBVIOUS
  <2>4. x \in KVs /\ y \in KVs /\ z = x \o y /\ StandsFor(x, s3) /\ s3 \in Seq(KVs) /\ Behind(s4, s3, y)
    <3>1. StandsFor(x, s3) /\ s3 \in Seq(KVs)
      BY <1>6, <1>7, <2>1
    <3>2. x \in KVs /\ y \in KVs
      BY <1>1, <1>7, <2>1, <2>2
    <3>3. z = x \o y
      BY <1>4, <1>7, <2>1, <2>2, <2>3
    <3> QED BY <2>2, <3>1, <3>2, <3>3
  <2>5. StandsFor(z, s4) /\ s4 \in Seq(KVs)
    BY <2>4, StandsForNext
  <2> QED BY <2>3, <2>5
<1> QED BY <1>5, <1>6, <1>7

(* What is known of a merged vector.                                       *)
MergedAs(s, src) == s \in KVs /\ src \in Seq(KVs) /\ StandsFor(s, src) /\ OneOfEach(s)

LEMMA FlatMerged ==
  ASSUME NEW q \in Seq(KVs), NEW n \in Nat, 2 <= n, n <= 4, n = Len(q), NEW s1 \in Seq(KVs), StandsFor(q[1], s1),
         NEW s2, Behind(s2, s1, q[2]), NEW s3, Behind(s3, s2, q[3]),
         NEW s4, Behind(s4, s3, q[4]), NEW r, r = KeepFirst(FlattenSeq(q), Key)
  PROVE  /\ n = 2 => MergedAs(r, s2)
         /\ n = 3 => MergedAs(r, s3)
         /\ n = 4 => MergedAs(r, s4)
<1>0. PICK f : FlattenSeq(q) = f[n] /\ FlatBy(f, q, n)
  BY FlatSteps
<1>1. PICK s : s = FlattenSeq(q) /\ s = f[n]
  BY <1>0
<1>2. /\ s \in KVs
      /\ n = 2 => StandsFor(s, s2) /\ s2 \in Seq(KVs)
      /\ n = 3 => StandsFor(s, s3) /\ s3 \in Seq(KVs)
      /\ n = 4 => StandsFor(s, s4) /\ s4 \in Seq(KVs)
  <2>1. s \in KVs
    BY <1>0, <1>1 DEF FlatBy
  <2> QED BY <1>0, <1>1, <2>1, FlatStandsFor
<1>3. ASSUME NEW t \in Seq(KVs), StandsFor(s, t) PROVE MergedAs(r, t)
  BY <1>1, <1>2, <1>3, KeptStandsFor DEF MergedAs
<1> QED BY <1>2, <1>3

LEMMA FirstStandsFor ==
  ASSUME NEW s \in KVs, NEW src, src = <<s>>
  PROVE  StandsFor(s, src) /\ src \in Seq(KVs)
<1>1. PICK e : e = <<>>
  OBVIOUS
<1>2. e \in KVs /\ e \in Seq(KVs) /\ StandsFor(e, e)
  BY <1>1, StandsForNone
<1>3. s = e \o s
  BY <1>1 DEF KVs
<1>4. Behind(src, e, s)
  BY <1>1 DEF Behind
<1> QED BY <1>2, <1>3, <1>4, StandsForNext

LEMMA WholeVectors ==
  ASSUME NEW m, Whole(m)
  PROVE  /\ m # NoMeta /\ GkvOf(m) = m.gkv.arr /\ CkvOf(m) = m.ckv.arr
         /\ m.gkv.arr \in KVs /\ m.ckv.arr \in KVs
<1>1. m \in Metadatas /\ m.gkv \in Vectors(KeyValue) /\ m.ckv \in Vectors(KeyValue)
  BY DEF Whole, Metadatas
<1>2. m # NoMeta
  BY <1>1, MetaIsThere
<1>3. Copied(m.gkv) = m.gkv.arr /\ Copied(m.ckv) = m.ckv.arr
      /\ m.gkv.arr \in KVs /\ m.ckv.arr \in KVs
  BY <1>1, CopiedWhole DEF Whole, KVs
<1> QED BY <1>2, <1>3 DEF GkvOf, CkvOf

(* What a merge of two to four gives, from what the first stands for.      *)
LEMMA MergeStandsFor ==
  ASSUME NEW n \in Nat, 2 <= n, n <= 4, NEW args, DOMAIN args = 1..n,
         args[1] = NoMeta \/ Whole(args[1]), \A i \in 2..n : Whole(args[i]),
         NEW g1 \in Seq(KVs), StandsFor(GkvOf(args[1]), g1),
         NEW g2, Behind(g2, g1, args[2].gkv.arr), NEW g3, Behind(g3, g2, args[3].gkv.arr),
         NEW g4, Behind(g4, g3, args[4].gkv.arr),
         NEW c1 \in Seq(KVs), StandsFor(CkvOf(args[1]), c1),
         NEW c2, Behind(c2, c1, args[2].ckv.arr), NEW c3, Behind(c3, c2, args[3].ckv.arr),
         NEW c4, Behind(c4, c3, args[4].ckv.arr),
         NEW r, IsMerge(r, args)
  PROVE  /\ Whole(r)
         /\ n = 2 => MergedAs(r.gkv.arr, g2) /\ MergedAs(r.ckv.arr, c2)
         /\ n = 3 => MergedAs(r.gkv.arr, g3) /\ MergedAs(r.ckv.arr, c3)
         /\ n = 4 => MergedAs(r.gkv.arr, g4) /\ MergedAs(r.ckv.arr, c4)
<1>1. n \in Nat \ {0} /\ \A i \in 1..n : args[i] = NoMeta \/ Whole(args[i])
  OBVIOUS
<1>2. PICK G : GkvsOf(G, args, n)
  BY DEF GkvsOf
<1>3. PICK C : CkvsOf(C, args, n)
  BY DEF CkvsOf
<1>4. /\ G \in Seq(KVs) /\ C \in Seq(KVs) /\ n = Len(G) /\ n = Len(C) /\ Whole(r)
      /\ r.gkv.arr = KeepFirst(FlattenSeq(G), Key) /\ r.ckv.arr = KeepFirst(FlattenSeq(C), Key)
  BY <1>1, <1>2, <1>3, MergeResult
<1>5. StandsFor(G[1], g1) /\ StandsFor(C[1], c1)
  BY <1>2, <1>3 DEF GkvsOf, CkvsOf
<1>6. \A i \in 2..n : G[i] = args[i].gkv.arr /\ C[i] = args[i].ckv.arr
  BY <1>2, <1>3, WholeVectors DEF GkvsOf, CkvsOf
<1>7. PICK h2 : Behind(h2, g1, G[2])
  BY DEF Behind
<1>8. PICK h3 : Behind(h3, h2, G[3])
  BY DEF Behind
<1>9. PICK h4 : Behind(h4, h3, G[4])
  BY DEF Behind
<1>10. PICK d2 : Behind(d2, c1, C[2])
  BY DEF Behind
<1>11. PICK d3 : Behind(d3, d2, C[3])
  BY DEF Behind
<1>12. PICK d4 : Behind(d4, d3, C[4])
  BY DEF Behind
<1>13. PICK gs : gs = r.gkv.arr
  OBVIOUS
<1>14. PICK cs : cs = r.ckv.arr
  OBVIOUS
<1>15. /\ n = 2 => MergedAs(gs, h2)
       /\ n = 3 => MergedAs(gs, h3)
       /\ n = 4 => MergedAs(gs, h4)
  BY <1>4, <1>5, <1>7, <1>8, <1>9, <1>13, FlatMerged
<1>16. /\ n = 2 => MergedAs(cs, d2)
       /\ n = 3 => MergedAs(cs, d3)
       /\ n = 4 => MergedAs(cs, d4)
  BY <1>4, <1>5, <1>10, <1>11, <1>12, <1>14, FlatMerged
<1>17. /\ h2 = g2 /\ d2 = c2
       /\ n >= 3 => h3 = g3 /\ d3 = c3
       /\ n >= 4 => h4 = g4 /\ d4 = c4
  <2>1. G[2] = args[2].gkv.arr /\ C[2] = args[2].ckv.arr
    BY <1>6
  <2>2. n >= 3 => G[3] = args[3].gkv.arr /\ C[3] = args[3].ckv.arr
    BY <1>6
  <2>3. n >= 4 => G[4] = args[4].gkv.arr /\ C[4] = args[4].ckv.arr
    BY <1>6
  <2>4. h2 = g2
    BY <2>1, <1>7, BehindOnce
  <2>5. d2 = c2
    BY <2>1, <1>10, BehindOnce
  <2>6. n >= 3 => h3 = g3
    BY <2>2, <2>4, <1>8, BehindOnce
  <2>7. n >= 3 => d3 = c3
    BY <2>2, <2>5, <1>11, BehindOnce
  <2>8. n >= 4 => h4 = g4
    BY <2>3, <2>6, <1>9, BehindOnce
  <2>9. n >= 4 => d4 = c4
    BY <2>3, <2>7, <1>12, BehindOnce
  <2> QED BY <2>4, <2>5, <2>6, <2>7, <2>8, <2>9
<1> QED BY <1>4, <1>13, <1>14, <1>15, <1>16, <1>17

LEMMA ThreeBehind ==
  ASSUME NEW S, NEW x \in S, NEW y \in S, NEW z \in S,
         NEW s1, s1 = <<x>>, NEW s2, Behind(s2, s1, y), NEW s3, Behind(s3, s2, z)
  PROVE  s3 = <<x, y, z>>
<1>1. s1 \in Seq(S) /\ Len(s1) = 1 /\ s1[1] = x
  OBVIOUS
<1>2. s2 \in Seq(S) /\ Len(s2) = 2 /\ s2[1] = x /\ s2[2] = y
  BY <1>1 DEF Behind
<1>3. s3 \in Seq(S) /\ Len(s3) = 3 /\ s3[1] = x /\ s3[2] = y /\ s3[3] = z
  BY <1>2 DEF Behind
<1>4. PICK t : t = <<x, y, z>>
  OBVIOUS
<1>5. t \in Seq(S) /\ Len(t) = 3 /\ t[1] = x /\ t[2] = y /\ t[3] = z
  BY <1>4
<1>6. Len(s3) = Len(t) /\ \A i \in 1..Len(s3) : s3[i] = t[i]
  <2>1. \A i \in 1..3 : i = 1 \/ i = 2 \/ i = 3
    OBVIOUS
  <2> QED BY <1>3, <1>5, <2>1
<1>7. s3 = t
  BY <1>3, <1>5, <1>6, SeqEqual
<1> QED BY <1>4, <1>7

LEMMA MergeOfThree ==
  ASSUME NEW a, NEW b, NEW c, Whole(a), Whole(b), Whole(c),
         NEW r, r = metadata_merge(<<a, b, c>>, TRUE)
  PROVE  /\ Whole(r)
         /\ MergedAs(r.gkv.arr, <<a.gkv.arr, b.gkv.arr, c.gkv.arr>>)
         /\ MergedAs(r.ckv.arr, <<a.ckv.arr, b.ckv.arr, c.ckv.arr>>)
<1>1. PICK args : args = <<a, b, c>>
  OBVIOUS
<1>2. DOMAIN args = 1..3 /\ args[1] = a /\ args[2] = b /\ args[3] = c
  BY <1>1
<1>3. PICK n \in Nat : n = 3
  OBVIOUS
<1>4. 2 <= n /\ n <= 4 /\ DOMAIN args = 1..n /\ Whole(args[1]) /\ \A i \in 2..n : Whole(args[i])
  BY <1>2, <1>3
<1>5. PICK g1 : g1 = <<a.gkv.arr>>
  OBVIOUS
<1>6. PICK c1 : c1 = <<a.ckv.arr>>
  OBVIOUS
<1>7. GkvOf(args[1]) = a.gkv.arr /\ CkvOf(args[1]) = a.ckv.arr
      /\ a.gkv.arr \in KVs /\ a.ckv.arr \in KVs
  BY <1>2, WholeVectors
<1>8. /\ g1 \in Seq(KVs) /\ StandsFor(GkvOf(args[1]), g1)
      /\ c1 \in Seq(KVs) /\ StandsFor(CkvOf(args[1]), c1)
  BY <1>5, <1>6, <1>7, FirstStandsFor
<1>9. PICK g2 : Behind(g2, g1, args[2].gkv.arr)
  BY DEF Behind
<1>10. PICK g3 : Behind(g3, g2, args[3].gkv.arr)
  BY DEF Behind
<1>11. PICK g4 : Behind(g4, g3, args[4].gkv.arr)
  BY DEF Behind
<1>12. PICK c2 : Behind(c2, c1, args[2].ckv.arr)
  BY DEF Behind
<1>13. PICK c3 : Behind(c3, c2, args[3].ckv.arr)
  BY DEF Behind
<1>14. PICK c4 : Behind(c4, c3, args[4].ckv.arr)
  BY DEF Behind
<1>15. Whole(r) /\ MergedAs(r.gkv.arr, g3) /\ MergedAs(r.ckv.arr, c3)
  <2>1. IsMerge(r, args)
    BY <1>1 DEF IsMerge
  <2>2. /\ Whole(r)
        /\ n = 3 => MergedAs(r.gkv.arr, g3) /\ MergedAs(r.ckv.arr, c3)
    BY <1>4, <1>8, <1>9, <1>10, <1>11, <1>12, <1>13, <1>14, <2>1, MergeStandsFor
  <2> QED BY <1>3, <2>2
<1>16. g3 = <<a.gkv.arr, b.gkv.arr, c.gkv.arr>>
  BY <1>2, <1>5, <1>9, <1>10, ThreeBehind, WholeVectors
<1>17. c3 = <<a.ckv.arr, b.ckv.arr, c.ckv.arr>>
  BY <1>2, <1>6, <1>12, <1>13, ThreeBehind, WholeVectors
<1> QED BY <1>15, <1>16, <1>17

-----------------------------------------------------------------------------
(* The graph key vectors of a list of metadata, in the list's order.       *)
Wholes == {m \in Metadatas : Whole(m)}

WholeLists == Seq(Wholes)

Gkvs(list) == [i \in DOMAIN list |-> list[i].gkv.arr]

(* What a chain of merges has made of the list old: nothing of nothing, or *)
(* a metadata whose graph keys are merged as the list's.                   *)
Gathered(t, old) ==
  \/ t = NoMeta /\ old = <<>>
  \/ Whole(t) /\ MergedAs(t.gkv.arr, Gkvs(old))

LEMMA GkvsAreVectors ==
  ASSUME NEW list \in WholeLists, NEW r, r = Gkvs(list)
  PROVE  /\ r \in Seq(KVs) /\ Len(r) = Len(list) /\ DOMAIN r = 1..Len(list)
         /\ \A i \in 1..Len(list) : r[i] = list[i].gkv.arr
<1>1. PICK n \in Nat : n = Len(list) /\ DOMAIN list = 1..n
  BY DEF WholeLists
<1>2. ASSUME NEW i \in 1..n PROVE list[i].gkv.arr \in KVs
  <2>1. Whole(list[i])
    BY <1>1 DEF Wholes, WholeLists
  <2> QED BY <2>1, WholeVectors
<1>3. r = [i \in 1..n |-> list[i].gkv.arr]
  BY <1>1 DEF Gkvs
<1> QED BY <1>1, <1>2, <1>3

Joined(both, old, q) == both = old \o q

(* What a list has behind it, one by one.                                  *)
GrowsBy(new, old, q, k, g1, g2, g3, g4) ==
  /\ k = Len(q) /\ g1 = Gkvs(old) /\ new = Gkvs(old \o q)
  /\ Behind(g2, g1, q[1].gkv.arr) /\ Behind(g3, g2, q[2].gkv.arr) /\ Behind(g4, g3, q[3].gkv.arr)

LEMMA GkvsGrow ==
  ASSUME NEW old \in WholeLists, NEW q \in WholeLists, NEW k \in Nat, 1 <= k, k <= 3,
         NEW new, NEW g1, NEW g2, NEW g3, NEW g4, GrowsBy(new, old, q, k, g1, g2, g3, g4)
  PROVE  /\ k = 1 => new = g2
         /\ k = 2 => new = g3
         /\ k = 3 => new = g4
<1>0. PICK both : Joined(both, old, q)
  BY DEF Joined
<1>1. /\ k = Len(q) /\ g1 = Gkvs(old) /\ new = Gkvs(both)
      /\ Behind(g2, g1, q[1].gkv.arr) /\ Behind(g3, g2, q[2].gkv.arr) /\ Behind(g4, g3, q[3].gkv.arr)
  BY <1>0 DEF GrowsBy, Joined
<1>2. PICK n \in Nat : n = Len(old)
  BY DEF WholeLists
<1>3. /\ both \in WholeLists /\ Len(both) = n + k
      /\ \A i \in 1..n : both[i] = old[i]
      /\ \A i \in 1..k : both[n + i] = q[i]
  BY <1>0, <1>1, <1>2, ConcatPlaces DEF Joined, WholeLists
<1>4. /\ g1 \in Seq(KVs) /\ Len(g1) = n /\ \A i \in 1..n : g1[i] = old[i].gkv.arr
  BY <1>1, <1>2, GkvsAreVectors
<1>5. /\ new \in Seq(KVs) /\ Len(new) = n + k
      /\ \A i \in 1..(n + k) : new[i] = both[i].gkv.arr
  <2>2. /\ new \in Seq(KVs) /\ Len(new) = Len(both)
        /\ \A i \in 1..Len(both) : new[i] = both[i].gkv.arr
    BY <1>1, <1>3, GkvsAreVectors
  <2> QED BY <1>3, <2>2
<1>6. /\ \A i \in 1..n : new[i] = g1[i]
      /\ \A i \in 1..k : new[n + i] = q[i].gkv.arr
  <2>1. \A i \in 1..n : i \in 1..(n + k)
    OBVIOUS
  <2>2. \A i \in 1..k : n + i \in 1..(n + k)
    OBVIOUS
  <2>3. \A i \in 1..n : new[i] = g1[i]
    <3> SUFFICES ASSUME NEW i \in 1..n PROVE new[i] = g1[i]
      OBVIOUS
    <3>1. both[i] = old[i]
      BY <1>3
    <3>2. new[i] = both[i].gkv.arr
      BY <1>5, <2>1
    <3>3. g1[i] = old[i].gkv.arr
      BY <1>4
    <3> QED BY <3>1, <3>2, <3>3
  <2>4. \A i \in 1..k : new[n + i] = q[i].gkv.arr
    BY <1>3, <1>5, <2>2
  <2> QED BY <2>3, <2>4
<1>7. ASSUME NEW i \in 1..k PROVE q[i].gkv.arr \in KVs
  <2>1. Whole(q[i])
    BY <1>1 DEF Wholes, WholeLists
  <2> QED BY <2>1, WholeVectors
<1>8. /\ g2 \in Seq(KVs) /\ Len(g2) = n + 1 /\ (\A i \in 1..n : g2[i] = g1[i])
      /\ g2[n + 1] = q[1].gkv.arr
  <2>1. PICK x \in KVs : x = q[1].gkv.arr
    BY <1>7
  <2>2. g2 = Append(g1, x)
    BY <1>1, <2>1 DEF Behind
  <2> QED BY <1>4, <2>1, <2>2
<1>9. ASSUME k = 1 PROVE new = g2
  <2>1. \A i \in 1..(n + 1) : i \in 1..n \/ i = n + 1
    OBVIOUS
  <2>2. \A i \in 1..Len(new) : new[i] = g2[i]
    BY <1>5, <1>6, <1>8, <1>9, <2>1
  <2> QED BY <1>5, <1>8, <1>9, <2>2, SeqEqual
<1>10. ASSUME k >= 2
       PROVE  /\ g3 \in Seq(KVs) /\ Len(g3) = n + 2 /\ (\A i \in 1..n : g3[i] = g1[i])
              /\ g3[n + 1] = q[1].gkv.arr /\ g3[n + 2] = q[2].gkv.arr
  <2>1. PICK x \in KVs : x = q[2].gkv.arr
    BY <1>7, <1>10
  <2>2. g3 = Append(g2, x)
    BY <1>1, <2>1 DEF Behind
  <2>3. /\ g3 \in Seq(KVs) /\ Len(g3) = n + 2 /\ (\A i \in 1..(n + 1) : g3[i] = g2[i])
        /\ g3[n + 2] = x
    BY <1>8, <2>2
  <2>4. n + 1 \in 1..(n + 1) /\ \A i \in 1..n : i \in 1..(n + 1)
    OBVIOUS
  <2> QED BY <1>8, <2>1, <2>3, <2>4
<1>11. ASSUME k = 2 PROVE new = g3
  <2>1. \A i \in 1..(n + 2) : i \in 1..n \/ i = n + 1 \/ i = n + 2
    OBVIOUS
  <2>2. \A i \in 1..Len(new) : new[i] = g3[i]
    <3>1. new[n + 1] = q[1].gkv.arr /\ new[n + 2] = q[2].gkv.arr
      BY <1>6, <1>11
    <3>2. (\A i \in 1..n : g3[i] = g1[i]) /\ g3[n + 1] = q[1].gkv.arr /\ g3[n + 2] = q[2].gkv.arr
      BY <1>10, <1>11
    <3>3. Len(new) = n + 2
      BY <1>5, <1>11
    <3> QED BY <1>6, <2>1, <3>1, <3>2, <3>3
  <2> QED BY <1>5, <1>10, <1>11, <2>2, SeqEqual
<1>12. ASSUME k = 3 PROVE new = g4
  <2>1. PICK x \in KVs : x = q[3].gkv.arr
    BY <1>7, <1>12
  <2>2. g4 = Append(g3, x)
    BY <1>1, <2>1 DEF Behind
  <2>3. /\ g4 \in Seq(KVs) /\ Len(g4) = n + 3 /\ (\A i \in 1..(n + 2) : g4[i] = g3[i])
        /\ g4[n + 3] = x
    BY <1>10, <1>12, <2>2
  <2>4. n + 1 \in 1..(n + 2) /\ n + 2 \in 1..(n + 2) /\ \A i \in 1..n : i \in 1..(n + 2)
    OBVIOUS
  <2>5. \A i \in 1..(n + 3) : i \in 1..n \/ i = n + 1 \/ i = n + 2 \/ i = n + 3
    OBVIOUS
  <2>6. \A i \in 1..Len(new) : new[i] = g4[i]
    BY <1>5, <1>6, <1>10, <1>12, <2>1, <2>3, <2>4, <2>5
  <2> QED BY <1>5, <1>12, <2>3, <2>6, SeqEqual
<1> QED BY <1>9, <1>11, <1>12

StartsWith(args, t, q) == args = <<t>> \o q

(* One more merge of a chain: the arguments go behind the list.            *)
LEMMA GatherStep ==
  ASSUME NEW old \in WholeLists, NEW q \in WholeLists, NEW k \in Nat, k = Len(q), 1 <= k, k <= 3,
         NEW t, Gathered(t, old), NEW args, StartsWith(args, t, q), NEW r, IsMerge(r, args),
         NEW both, Joined(both, old, q)
  PROVE  Whole(r) /\ MergedAs(r.gkv.arr, Gkvs(both)) /\ both \in WholeLists
<1>1. PICK n \in Nat : n = k + 1
  OBVIOUS
<1>2. 2 <= n /\ n <= 4
  BY <1>1
<1>3. DOMAIN args = 1..n /\ args[1] = t /\ \A i \in 1..k : args[i + 1] = q[i]
  <2>1. PICK T : T = Wholes \cup {t}
    OBVIOUS
  <2>2. PICK u : u = <<t>>
    OBVIOUS
  <2>3. u \in Seq(T) /\ Len(u) = 1 /\ u[1] = t
    BY <2>1, <2>2
  <2>4. q \in Seq(T)
    BY <2>1 DEF WholeLists
  <2>5. args = u \o q
    BY <2>2 DEF StartsWith
  <2>6. /\ DOMAIN args = 1..(1 + k) /\ (\A i \in 1..1 : args[i] = u[i])
        /\ \A i \in 1..k : args[1 + i] = q[i]
    <3>1. PICK a \in Seq(T), b \in Seq(T) : a = u /\ b = q
      BY <2>3, <2>4
    <3>2. /\ DOMAIN (a \o b) = 1..(Len(a) + Len(b)) /\ (\A i \in 1..Len(a) : (a \o b)[i] = a[i])
          /\ \A i \in 1..Len(b) : (a \o b)[Len(a) + i] = b[i]
      BY ConcatPlaces
    <3>3. PICK m : m = Len(a)
      OBVIOUS
    <3>4. m = 1
      BY <2>3, <3>1, <3>3
    <3>5. /\ DOMAIN args = 1..(m + k) /\ (\A i \in 1..m : args[i] = u[i])
          /\ \A i \in 1..k : args[m + i] = q[i]
      BY <2>5, <3>1, <3>2, <3>3, Zenon
    <3> QED BY <3>4, <3>5, Zenon
  <2> QED BY <1>1, <2>3, <2>6
<1>4. \A i \in 1..k : Whole(q[i])
  BY DEF Wholes, WholeLists
<1>5. \A i \in 2..n : Whole(args[i])
  <2> SUFFICES ASSUME NEW i \in 2..n PROVE Whole(args[i])
    OBVIOUS
  <2>1. PICK j \in 1..k : j + 1 = i
    <3>1. i - 1 \in 1..k /\ (i - 1) + 1 = i
      BY <1>1
    <3> QED BY <3>1
  <2> QED BY <1>3, <1>4, <2>1
<1>6. args[1] = NoMeta \/ Whole(args[1])
  BY <1>3 DEF Gathered
<1>7. PICK g1 : g1 = Gkvs(old)
  OBVIOUS
<1>8. g1 \in Seq(KVs)
  BY <1>7, GkvsAreVectors
<1>9. StandsFor(GkvOf(args[1]), g1) /\ CkvOf(args[1]) \in KVs
  <2>1. CASE t = NoMeta /\ old = <<>>
    <3>1. g1 = <<>>
      BY <1>7, <2>1 DEF Gkvs
    <3>2. GkvOf(args[1]) = <<>> /\ CkvOf(args[1]) = <<>>
      BY <1>3, <2>1 DEF GkvOf, CkvOf
    <3> QED BY <3>1, <3>2, StandsForNone
  <2>2. CASE Whole(t) /\ MergedAs(t.gkv.arr, Gkvs(old))
    BY <1>3, <1>7, <2>2, WholeVectors DEF MergedAs
  <2> QED BY <2>1, <2>2 DEF Gathered
<1>10. PICK c1 : c1 = <<CkvOf(args[1])>>
  OBVIOUS
<1>11. c1 \in Seq(KVs) /\ StandsFor(CkvOf(args[1]), c1)
  BY <1>9, <1>10, FirstStandsFor
<1>12. PICK g2 : Behind(g2, g1, args[2].gkv.arr)
  BY DEF Behind
<1>13. PICK g3 : Behind(g3, g2, args[3].gkv.arr)
  BY DEF Behind
<1>14. PICK g4 : Behind(g4, g3, args[4].gkv.arr)
  BY DEF Behind
<1>15. PICK c2 : Behind(c2, c1, args[2].ckv.arr)
  BY DEF Behind
<1>16. PICK c3 : Behind(c3, c2, args[3].ckv.arr)
  BY DEF Behind
<1>17. PICK c4 : Behind(c4, c3, args[4].ckv.arr)
  BY DEF Behind
<1>18. /\ Whole(r)
       /\ n = 2 => MergedAs(r.gkv.arr, g2)
       /\ n = 3 => MergedAs(r.gkv.arr, g3)
       /\ n = 4 => MergedAs(r.gkv.arr, g4)
  BY <1>2, <1>3, <1>5, <1>6, <1>8, <1>9, <1>11, <1>12, <1>13, <1>14, <1>15, <1>16, <1>17,
     MergeStandsFor
<1>19. PICK h3 : Behind(h3, g2, q[2].gkv.arr)
  BY DEF Behind
<1>20. PICK h4 : Behind(h4, h3, q[3].gkv.arr)
  BY DEF Behind
<1>21. /\ args[2] = q[1] /\ (k >= 2 => args[3] = q[2]) /\ (k = 3 => args[4] = q[3])
  <2>1. 1 \in 1..k /\ (k >= 2 => 2 \in 1..k) /\ (k = 3 => 3 \in 1..k) /\ 1 + 1 = 2 /\ 2 + 1 = 3 /\ 3 + 1 = 4
    OBVIOUS
  <2> QED BY <1>3, <2>1
<1>22. /\ Behind(g2, g1, q[1].gkv.arr) /\ (k >= 2 => h3 = g3) /\ (k = 3 => h4 = g4)
  BY <1>12, <1>13, <1>14, <1>19, <1>20, <1>21 DEF Behind
<1>23. PICK new : new = Gkvs(both)
  OBVIOUS
<1>24. /\ k = 1 => new = g2
       /\ k = 2 => new = h3
       /\ k = 3 => new = h4
  <2>1. GrowsBy(new, old, q, k, g1, g2, h3, h4)
    BY <1>7, <1>19, <1>20, <1>22, <1>23, Zenon DEF GrowsBy, Joined
  <2> QED BY <2>1, GkvsGrow
<1>25. MergedAs(r.gkv.arr, new)
  <2>1. CASE k = 1
    BY <1>1, <1>18, <1>24, <2>1
  <2>2. CASE k = 2
    BY <1>1, <1>18, <1>22, <1>24, <2>2
  <2>3. CASE k = 3
    BY <1>1, <1>18, <1>22, <1>24, <2>3
  <2> QED BY <2>1, <2>2, <2>3
<1>26. both \in WholeLists
  BY ConcatPlaces DEF Joined, WholeLists
<1> QED BY <1>18, <1>23, <1>25, <1>26

(* A chain of merges: what each interface has is merged behind what was    *)
(* merged before it.                                                       *)
NextOf(t, p) == metadata_merge(<<t>> \o p, TRUE)

IsChain(temp, q, n) == temp = [i \in 0..n |-> IF i = 0 THEN NoMeta ELSE NextOf(temp[i - 1], q[i])]

LEMMA ChainEnds ==
  ASSUME NEW n \in Nat, NEW q
  PROVE  \E temp : IsChain(temp, q, n)
<1> DEFINE Good(m) == \E temp : IsChain(temp, q, m)
           Bad == {m \in Nat : ~Good(m)}
<1>1. Bad = {}
  <2>1. SUFFICES ASSUME Bad # {} PROVE FALSE
    OBVIOUS
  <2>2. Bad \in SUBSET Nat
    OBVIOUS
  <2> HIDE DEF Bad
  <2>3. PICK m : m = Min(Bad)
    OBVIOUS
  <2>4. m \in Bad /\ \A k \in Bad : m <= k
    BY <2>1, <2>2, <2>3, LeastPlace
  <2>5. m \in Nat /\ ~Good(m)
    BY <2>4 DEF Bad
  <2>6. CASE m = 0
    <3>1. PICK f : f = [i \in 0..m |-> NoMeta]
      OBVIOUS
    <3>2. \A i \in 0..m : i = 0
      BY <2>6
    <3>3. IsChain(f, q, m)
      BY <3>1, <3>2 DEF IsChain
    <3> QED BY <2>5, <3>3
  <2>7. CASE m # 0
    <3>1. PICK k \in Nat : k = m - 1 /\ k < m
      BY <2>5, <2>7
    <3>2. Good(k)
      <4>1. k \notin Bad
        BY <2>4, <2>5, <3>1
      <4> QED BY <4>1 DEF Bad
    <3>3. PICK f : IsChain(f, q, k)
      BY <3>2
    <3>4. \A i \in 0..k : f[i] = IF i = 0 THEN NoMeta ELSE NextOf(f[i - 1], q[i])
      BY <3>3 DEF IsChain
    <3>5. PICK last : last = NextOf(f[k], q[m])
      OBVIOUS
    <3>6. PICK g : g = [i \in 0..m |-> IF i = m THEN last ELSE f[i]]
      OBVIOUS
    <3>7. g[m] = last /\ \A i \in 0..k : g[i] = f[i]
      BY <2>5, <3>1, <3>6
    <3>8. ASSUME NEW i \in 0..m PROVE g[i] = IF i = 0 THEN NoMeta ELSE NextOf(g[i - 1], q[i])
      <4>1. CASE i = m
        <5>1. i # 0 /\ i - 1 = k /\ k \in 0..k
          BY <2>7, <3>1, <4>1
        <5> QED BY <3>5, <3>7, <4>1, <5>1
      <4>2. CASE i # m
        <5>1. i \in 0..k /\ (i # 0 => i - 1 \in 0..k)
          BY <2>5, <3>1, <4>2
        <5> QED BY <3>4, <3>7, <5>1
      <4> QED BY <4>1, <4>2
    <3>9. g = [i \in 0..m |-> g[i]]
      BY <3>6
    <3>10. IsChain(g, q, m)
      BY <3>8, <3>9 DEF IsChain
    <3> QED BY <2>5, <3>10
  <2> QED BY <2>6, <2>7
<1> QED BY <1>1

LEMMA ChainGathers ==
  ASSUME NEW n \in Nat \ {0}, NEW q \in Seq(Seq(Wholes)), n = Len(q), NEW k \in Nat, 1 <= k, k <= 3,
         \A i \in 1..n : Len(q[i]) = k, NEW temp, IsChain(temp, q, n)
  PROVE  /\ FlattenSeq(q) \in WholeLists /\ Whole(temp[n])
         /\ MergedAs(temp[n].gkv.arr, Gkvs(FlattenSeq(q)))
<1>1. PICK f \in [1..n -> Seq(Wholes)] : FlattenSeq(q) = f[n] /\ Flattens(f, q, n)
  BY FlattenSteps
<1>2. f[1] = q[1] /\ \A i \in 2..n : f[i] = f[i - 1] \o q[i]
  BY <1>1 DEF Flattens
<1>3. temp[0] = NoMeta
  BY DEF IsChain
<1>4. ASSUME NEW i \in 1..n PROVE IsMerge(temp[i], <<temp[i - 1]>> \o q[i])
  <2>1. i \in 0..n /\ i # 0
    OBVIOUS
  <2> QED BY <2>1 DEF IsChain, IsMerge, NextOf
<1>5. DEFINE Good(i) == Whole(temp[i]) /\ MergedAs(temp[i].gkv.arr, Gkvs(f[i]))
<1>6. Good(1)
  <2>1. PICK e : e = <<>>
    OBVIOUS
  <2>2. PICK p : p = q[1]
    OBVIOUS
  <2>3. PICK t : t = temp[0]
    OBVIOUS
  <2>4. PICK args : args = <<t>> \o p /\ StartsWith(args, t, p)
    BY DEF StartsWith
  <2>5. PICK r : r = temp[1]
    OBVIOUS
  <2>6. e \in WholeLists /\ p \in WholeLists /\ k = Len(p) /\ Joined(p, e, p)
    BY <2>1, <2>2 DEF Joined, WholeLists
  <2>7. Gathered(t, e)
    BY <1>3, <2>1, <2>3 DEF Gathered
  <2>8. IsMerge(r, args)
    <3>1. 1 \in 1..n /\ 1 - 1 = 0
      OBVIOUS
    <3> QED BY <1>4, <2>2, <2>3, <2>4, <2>5, <3>1
  <2>9. Whole(r) /\ MergedAs(r.gkv.arr, Gkvs(p))
    BY <2>4, <2>6, <2>7, <2>8, GatherStep
  <2> QED BY <1>2, <2>2, <2>5, <2>9
<1>7. ASSUME NEW i \in 2..n, Good(i - 1) PROVE Good(i)
  <2>1. PICK j \in 1..n : j = i - 1
    OBVIOUS
  <2>2. PICK old \in WholeLists : old = f[j]
    BY <1>1 DEF WholeLists
  <2>3. PICK p \in WholeLists : p = q[i] /\ k = Len(p)
    BY DEF WholeLists
  <2>4. PICK t : t = temp[j]
    OBVIOUS
  <2>5. PICK args : args = <<t>> \o p /\ StartsWith(args, t, p)
    BY DEF StartsWith
  <2>6. PICK r : r = temp[i]
    OBVIOUS
  <2>7. PICK both : both = old \o p /\ Joined(both, old, p)
    BY DEF Joined
  <2>8. Gathered(t, old)
    BY <1>7, <2>1, <2>2, <2>4 DEF Gathered
  <2>9. IsMerge(r, args)
    <3>1. i \in 1..n
      OBVIOUS
    <3> QED BY <1>4, <2>1, <2>3, <2>4, <2>5, <2>6, <3>1
  <2>10. Whole(r) /\ MergedAs(r.gkv.arr, Gkvs(both))
    BY <2>3, <2>5, <2>7, <2>8, <2>9, GatherStep
  <2>11. both = f[i]
    BY <1>2, <2>1, <2>2, <2>3, <2>7
  <2> QED BY <2>6, <2>10, <2>11
<1>8. Good(n)
  <2>1. SUFFICES ASSUME ~Good(n) PROVE FALSE
    OBVIOUS
  <2>2. PICK Bad : Bad = {i \in 1..n : ~Good(i)}
    OBVIOUS
  <2>3. Bad \in SUBSET Nat /\ Bad # {}
    BY <2>1, <2>2
  <2>4. PICK m : m = Min(Bad)
    OBVIOUS
  <2>5. m \in Bad /\ \A j \in Bad : m <= j
    BY <2>3, <2>4, LeastPlace
  <2>6. m \in 1..n /\ ~Good(m)
    BY <2>2, <2>5
  <2>7. m \in 2..n
    BY <1>6, <2>6
  <2>8. PICK c \in 1..n : c = m - 1
    BY <2>7
  <2>9. Good(c)
    <3>1. ~(m <= c)
      BY <2>7, <2>8
    <3> QED BY <2>2, <2>5, <3>1
  <2> QED BY <1>7, <2>6, <2>7, <2>8, <2>9
<1> QED BY <1>1, <1>8 DEF WholeLists

-----------------------------------------------------------------------------
(* What MergePrecedence says of one gift.                                  *)
KeysOf(s) == {kv.key : kv \in Range(s)}

Precedes(sources, merged) ==
  /\ KeysOf(merged) = UNION {KeysOf(sources[i].gkv.arr) : i \in DOMAIN sources}
  /\ IsInjective([i \in DOMAIN merged |-> merged[i].key])
  /\ \A kv \in Range(merged) :
       LET first == sources[FirstWith(sources, kv.key)].gkv.arr
       IN \E i \in DOMAIN first : first[i] = kv /\ \A j \in 1..(i - 1) : first[j].key # kv.key

LEMMA KeysAreHad ==
  ASSUME NEW s, NEW k
  PROVE  k \in KeysOf(s) <=> HasKey(s, k)
  BY DEF KeysOf, HasKey, Range

LEMMA MergedPrecedes ==
  ASSUME NEW sources \in WholeLists, NEW merged, MergedAs(merged, Gkvs(sources))
  PROVE  Precedes(sources, merged)
<1>1. PICK src : src = Gkvs(sources)
  OBVIOUS
<1>2. PICK n \in Nat : n = Len(sources) /\ DOMAIN sources = 1..n
  BY DEF WholeLists
<1>3. DOMAIN src = 1..n /\ \A i \in 1..n : src[i] = sources[i].gkv.arr
  BY <1>1, <1>2, GkvsAreVectors
<1>4. merged \in KVs /\ StandsFor(merged, src) /\ OneOfEach(merged)
  BY <1>1 DEF MergedAs
<1>5. PICK m \in Nat : DOMAIN merged = 1..m
  BY <1>4 DEF KVs
<1>6. ASSUME NEW i \in 1..m PROVE Leads(src, merged[i])
  <2>1. \A j \in 1..(i - 1) : j \in 1..m /\ j # i
    OBVIOUS
  <2>2. FirstHere(merged, i)
    BY <1>4, <1>5, <2>1 DEF OneOfEach, FirstHere
  <2> QED BY <1>4, <1>5, <2>2 DEF StandsFor
<1>7. KeysOf(merged) = UNION {KeysOf(sources[i].gkv.arr) : i \in DOMAIN sources}
  <2>1. ASSUME NEW k PROVE k \in KeysOf(merged) <=> \E i \in 1..n : k \in KeysOf(src[i])
    <3>1. ASSUME HasKey(merged, k) PROVE \E i \in 1..n : HasKey(src[i], k)
      <4>1. PICK j \in 1..m : merged[j].key = k
        BY <1>5, <3>1 DEF HasKey
      <4>2. PICK a \in 1..n : \E i \in DOMAIN src[a] : src[a][i] = merged[j]
        BY <1>3, <1>6 DEF Leads
      <4> QED BY <4>1, <4>2 DEF HasKey
    <3>2. ASSUME NEW i \in 1..n, HasKey(src[i], k) PROVE HasKey(merged, k)
      BY <1>3, <1>4, <3>2 DEF StandsFor
    <3> QED BY <3>1, <3>2, KeysAreHad
  <2>2. \A i \in 1..n : KeysOf(src[i]) = KeysOf(sources[i].gkv.arr)
    BY <1>3
  <2> QED BY <1>2, <2>1, <2>2
<1>8. IsInjective([i \in DOMAIN merged |-> merged[i].key])
  BY <1>4 DEF OneOfEach, IsInjective
<1>9. ASSUME NEW kv \in Range(merged), NEW first, first = sources[FirstWith(sources, kv.key)].gkv.arr
      PROVE  \E i \in DOMAIN first : first[i] = kv /\ \A j \in 1..(i - 1) : first[j].key # kv.key
  <2>1. PICK w \in 1..m : merged[w] = kv
    BY <1>5 DEF Range
  <2>2. Leads(src, kv)
    BY <1>6, <2>1
  <2>3. PICK a \in 1..n : /\ \E i \in DOMAIN src[a] : src[a][i] = kv /\ FirstHere(src[a], i)
                          /\ \A b \in 1..(a - 1) : ~HasKey(src[b], kv.key)
    BY <1>3, <2>2 DEF Leads
  <2>4. PICK i \in DOMAIN src[a] : src[a][i] = kv /\ FirstHere(src[a], i)
    BY <2>3
  <2>5. PICK k : k = kv.key
    OBVIOUS
  <2>6. HasKey(src[a], k)
    BY <2>4, <2>5 DEF HasKey
  <2>7. DEFINE IsFirst(c) == /\ k \in KeysOf(sources[c].gkv.arr)
                             /\ \A j \in 1..(c - 1) : k \notin KeysOf(sources[j].gkv.arr)
  <2>8. \A c \in 1..n : IsFirst(c) <=> HasKey(src[c], k) /\ \A j \in 1..(c - 1) : ~HasKey(src[j], k)
    <3> SUFFICES ASSUME NEW c \in 1..n
                 PROVE  IsFirst(c) <=> HasKey(src[c], k) /\ \A j \in 1..(c - 1) : ~HasKey(src[j], k)
      OBVIOUS
    <3>1. \A j \in 1..c : j \in 1..n /\ sources[j].gkv.arr = src[j]
      BY <1>3
    <3>2. c \in 1..c /\ \A j \in 1..(c - 1) : j \in 1..c
      OBVIOUS
    <3>3. \A j \in 1..c : k \in KeysOf(sources[j].gkv.arr) <=> HasKey(src[j], k)
      BY <3>1, KeysAreHad
    <3> QED BY <3>2, <3>3
  <2>9. PICK c : c = FirstWith(sources, k)
    OBVIOUS
  <2>10. IsFirst(a)
    BY <2>3, <2>5, <2>6, <2>8
  <2>11. c = CHOOSE x \in DOMAIN sources : IsFirst(x)
    BY <2>9 DEF FirstWith, KeysOf
  <2>12. c \in 1..n /\ IsFirst(c)
    <3> HIDE DEF IsFirst
    <3>1. \E x \in DOMAIN sources : IsFirst(x)
      BY <1>2, <2>10
    <3> QED BY <1>2, <2>11, <3>1
  <2>13. HasKey(src[c], k) /\ \A j \in 1..(c - 1) : ~HasKey(src[j], k)
    BY <2>8, <2>12
  <2>14. ~(c < a) /\ ~(a < c)
    <3>1. c < a => c \in 1..(a - 1)
      BY <2>12
    <3>2. a < c => a \in 1..(c - 1)
      BY <2>12
    <3> QED BY <2>3, <2>5, <2>6, <2>13, <3>1, <3>2
  <2>15. c = a
    BY <2>12, <2>14
  <2>16. first = src[a]
    BY <1>3, <1>9, <2>5, <2>9, <2>15
  <2> QED BY <2>4, <2>16 DEF FirstHere
<1> QED BY <1>7, <1>8, <1>9 DEF Precedes

-----------------------------------------------------------------------------
(* The payload: what is written at which place of it.                      *)
HasWords(w, kvs, n) ==
  /\ w \in Seq(Nat) /\ Len(w) = 2 * n
  /\ \A i \in 1..n : w[2 * i - 1] = kvs[i].key /\ w[2 * i] = kvs[i].value

LEMMA WordsPlaces ==
  ASSUME NEW kvs \in KVs, NEW n \in Nat, n = Len(kvs), NEW w, w = Words(kvs)
  PROVE  HasWords(w, kvs, n)
<1>1. \A i \in 1..n : kvs[i] \in KeyValue /\ kvs[i].key \in Nat /\ kvs[i].value \in Nat
  <2>1. \A i \in 1..n : kvs[i] \in KeyValue
    BY DEF KVs
  <2> QED BY <2>1 DEF KeyValue
<1>2. PICK l \in Nat : l = 2 * n
  OBVIOUS
<1>3. w = [i \in 1..l |-> IF i % 2 = 1 THEN kvs[(i + 1) \div 2].key ELSE kvs[i \div 2].value]
  BY <1>2 DEF Words
<1>4. ASSUME NEW i \in 1..l
      PROVE  /\ (i % 2 = 1 => (i + 1) \div 2 \in 1..n)
             /\ (i % 2 # 1 => i \div 2 \in 1..n)
  <2>1. i % 2 \in 0..1 /\ i = 2 * (i \div 2) + (i % 2) /\ i \div 2 \in Int
    OBVIOUS
  <2>2. (i + 1) % 2 \in 0..1 /\ i + 1 = 2 * ((i + 1) \div 2) + ((i + 1) % 2) /\ (i + 1) \div 2 \in Int
    OBVIOUS
  <2>3. i \in Nat /\ 1 <= i /\ i <= 2 * n
    BY <1>2
  <2>4. ASSUME i % 2 = 1 PROVE (i + 1) \div 2 \in 1..n
    <3>1. PICK d \in Int : d = (i + 1) \div 2
      BY <2>2
    <3>2. 2 * d <= 2 * n + 1 /\ 1 <= 2 * d
      BY <2>2, <2>3, <3>1
    <3> QED BY <3>1, <3>2
  <2>5. ASSUME i % 2 # 1 PROVE i \div 2 \in 1..n
    <3>1. PICK d \in Int : d = i \div 2
      BY <2>1
    <3>2. 2 * d = i
      BY <2>1, <2>5, <3>1
    <3>3. 2 * d <= 2 * n /\ 1 <= 2 * d
      BY <2>3, <3>2
    <3> QED BY <3>1, <3>3
  <2> QED BY <2>4, <2>5
<1>5. ASSUME NEW i \in 1..l
      PROVE  (IF i % 2 = 1 THEN kvs[(i + 1) \div 2].key ELSE kvs[i \div 2].value) \in Nat
  BY <1>1, <1>4
<1>6. w \in [1..l -> Nat]
  BY <1>3, <1>5
<1>7. w \in Seq(Nat) /\ Len(w) = l
  BY <1>6
<1>8. ASSUME NEW i \in 1..n PROVE w[2 * i - 1] = kvs[i].key /\ w[2 * i] = kvs[i].value
  <2>1. PICK a \in 1..l : a = 2 * i - 1
    BY <1>2
  <2>2. PICK b \in 1..l : b = 2 * i
    BY <1>2
  <2>3. a % 2 = 1 /\ (a + 1) \div 2 = i
    <3>1. a % 2 \in 0..1 /\ a = 2 * (a \div 2) + (a % 2) /\ a \div 2 \in Int
      OBVIOUS
    <3>2. (a + 1) % 2 \in 0..1 /\ a + 1 = 2 * ((a + 1) \div 2) + ((a + 1) % 2) /\ (a + 1) \div 2 \in Int
      OBVIOUS
    <3> QED BY <2>1, <3>1, <3>2
  <2>4. b % 2 = 0 /\ b \div 2 = i
    <3>1. b % 2 \in 0..1 /\ b = 2 * (b \div 2) + (b % 2) /\ b \div 2 \in Int
      OBVIOUS
    <3> QED BY <2>2, <3>1
  <2> QED BY <1>3, <2>1, <2>2, <2>3, <2>4
<1> QED BY <1>2, <1>7, <1>8 DEF HasWords

(* x begins with what old has, and goes on with t.                         *)
WritesOn(x, old, t, n, l) ==
  /\ x \in Seq(Nat) /\ Len(x) = n + l
  /\ \A i \in 1..n : x[i] = old[i]
  /\ \A i \in 1..l : x[n + i] = t[i]

LEMMA JoinedWritesOn ==
  ASSUME NEW old \in Seq(Nat), NEW t \in Seq(Nat), NEW n \in Nat, n = Len(old), NEW l \in Nat, l = Len(t)
  PROVE  WritesOn(old \o t, old, t, n, l)
  BY ConcatPlaces DEF WritesOn

MetaSet == [gkv: Seq(KeyValue), ckv: Seq(KeyValue), prop_id: Nat, props: Seq(Nat)]

(* The places of a payload of a, b and c entries.                          *)
HasPayload(x, m, a, b, c) ==
  /\ Len(x) = 4 + 2 * a + 2 * b + c
  /\ x[1] = a /\ x[2 + 2 * a] = b
  /\ x[3 + 2 * a + 2 * b] = m.prop_id /\ x[4 + 2 * a + 2 * b] = c
  /\ \A i \in 1..a : x[2 * i] = m.gkv[i].key /\ x[2 * i + 1] = m.gkv[i].value
  /\ \A i \in 1..b : /\ x[2 * a + 1 + 2 * i] = m.ckv[i].key
                      /\ x[2 * a + 2 + 2 * i] = m.ckv[i].value
  /\ \A i \in 1..c : x[4 + 2 * a + 2 * b + i] = m.props[i]

HasCounts(m, a, b, c) == a = Len(m.gkv) /\ b = Len(m.ckv) /\ c = Len(m.props)

IsPayload(x, m) == x = Payload(m)

LEMMA PayloadPlaces ==
  ASSUME NEW m \in MetaSet, NEW a \in Nat, NEW b \in Nat, NEW c \in Nat, HasCounts(m, a, b, c),
         NEW x, IsPayload(x, m)
  PROVE  x \in Seq(Nat) /\ HasPayload(x, m, a, b, c)
<1>1. /\ m.gkv \in KVs /\ m.ckv \in KVs /\ m.prop_id \in Nat /\ m.props \in Seq(Nat)
  BY DEF MetaSet, KVs
<1>2. PICK w1 : w1 = Words(m.gkv)
  OBVIOUS
<1>3. PICK w2 : w2 = Words(m.ckv)
  OBVIOUS
<1>4. /\ w1 \in Seq(Nat) /\ Len(w1) = 2 * a
      /\ \A i \in 1..a : w1[2 * i - 1] = m.gkv[i].key /\ w1[2 * i] = m.gkv[i].value
  <2>1. PICK kvs \in KVs : kvs = m.gkv /\ a = Len(kvs) /\ w1 = Words(kvs)
    BY <1>1, <1>2 DEF HasCounts
  <2>2. HasWords(w1, kvs, a)
    BY <2>1, WordsPlaces
  <2> QED BY <2>1, <2>2 DEF HasWords
<1>5. /\ w2 \in Seq(Nat) /\ Len(w2) = 2 * b
      /\ \A i \in 1..b : w2[2 * i - 1] = m.ckv[i].key /\ w2[2 * i] = m.ckv[i].value
  <2>1. PICK kvs \in KVs : kvs = m.ckv /\ b = Len(kvs) /\ w2 = Words(kvs)
    BY <1>1, <1>3 DEF HasCounts
  <2>2. HasWords(w2, kvs, b)
    BY <2>1, WordsPlaces
  <2> QED BY <2>1, <2>2 DEF HasWords
<1>6. PICK u1 : u1 = <<a>> /\ u1 \in Seq(Nat) /\ Len(u1) = 1 /\ u1[1] = a
  <2>1. PICK v : v = <<a>>
    OBVIOUS
  <2>2. v \in Seq(Nat) /\ Len(v) = 1 /\ v[1] = a
    BY <1>1, <2>1
  <2> QED BY <2>1, <2>2
<1>7. PICK u2 : u2 = <<b>> /\ u2 \in Seq(Nat) /\ Len(u2) = 1 /\ u2[1] = b
  <2>1. PICK v : v = <<b>>
    OBVIOUS
  <2>2. v \in Seq(Nat) /\ Len(v) = 1 /\ v[1] = b
    BY <1>1, <2>1
  <2> QED BY <2>1, <2>2
<1>8. PICK u3 : u3 = <<m.prop_id, c>> /\ u3 \in Seq(Nat) /\ Len(u3) = 2 /\ u3[1] = m.prop_id /\ u3[2] = c
  <2>1. PICK v : v = <<m.prop_id, c>>
    OBVIOUS
  <2>2. v \in Seq(Nat) /\ Len(v) = 2 /\ v[1] = m.prop_id /\ v[2] = c
    BY <1>1, <2>1
  <2> QED BY <2>1, <2>2
<1>9. PICK p \in Seq(Nat) : p = m.props /\ Len(p) = c
  BY <1>1 DEF HasCounts
<1>10. x = u1 \o w1 \o u2 \o w2 \o u3 \o p
  BY <1>2, <1>3, <1>6, <1>7, <1>8, <1>9 DEF Payload, IsPayload, HasCounts
<1>11. PICK n2 \in Nat : n2 = 1 + 2 * a
  OBVIOUS
<1>12. PICK n3 \in Nat : n3 = 2 + 2 * a
  OBVIOUS
<1>13. PICK n4 \in Nat : n4 = 2 + 2 * a + 2 * b
  OBVIOUS
<1>14. PICK n5 \in Nat : n5 = 4 + 2 * a + 2 * b
  OBVIOUS
<1>15. PICK x2 : x2 = u1 \o w1
  OBVIOUS
<1>16. WritesOn(x2, u1, w1, 1, 2 * a)
  <2>1. PICK o \in Nat, l \in Nat : o = 1 /\ l = 2 * a
    OBVIOUS
  <2>2. o = Len(u1) /\ l = Len(w1) /\ u1 \in Seq(Nat) /\ w1 \in Seq(Nat)
    BY <1>4, <1>6, <2>1
  <2>3. WritesOn(x2, u1, w1, o, l)
    BY <1>15, <2>2, JoinedWritesOn
  <2> QED BY <2>1, <2>3
<1>17. PICK x3 : x3 = x2 \o u2
  OBVIOUS
<1>18. x2 \in Seq(Nat) /\ Len(x2) = n2 /\ WritesOn(x3, x2, u2, n2, 1)
  <2>1. x2 \in Seq(Nat) /\ Len(x2) = n2
    BY <1>11, <1>16 DEF WritesOn
  <2> QED BY <1>7, <1>17, <2>1, JoinedWritesOn
<1>19. PICK x4 : x4 = x3 \o w2
  OBVIOUS
<1>20. x3 \in Seq(Nat) /\ Len(x3) = n3 /\ WritesOn(x4, x3, w2, n3, 2 * b)
  <2>1. x3 \in Seq(Nat) /\ Len(x3) = n3
    BY <1>11, <1>12, <1>18 DEF WritesOn
  <2> QED BY <1>5, <1>19, <2>1, JoinedWritesOn
<1>21. PICK x5 : x5 = x4 \o u3
  OBVIOUS
<1>22. x4 \in Seq(Nat) /\ Len(x4) = n4 /\ WritesOn(x5, x4, u3, n4, 2)
  <2>1. x4 \in Seq(Nat) /\ Len(x4) = n4
    BY <1>12, <1>13, <1>20 DEF WritesOn
  <2> QED BY <1>8, <1>21, <2>1, JoinedWritesOn
<1>23. x5 \in Seq(Nat) /\ Len(x5) = n5 /\ WritesOn(x, x5, p, n5, c)
  <2>1. x5 \in Seq(Nat) /\ Len(x5) = n5
    BY <1>13, <1>14, <1>22 DEF WritesOn
  <2>2. x = x5 \o p
    BY <1>10, <1>15, <1>17, <1>19, <1>21
  <2> QED BY <1>9, <2>1, <2>2, JoinedWritesOn
<1>24. x \in Seq(Nat) /\ Len(x) = n5 + c /\ (\A i \in 1..c : x[n5 + i] = p[i])
       /\ \A i \in 1..n5 : x[i] = x5[i]
  BY <1>23 DEF WritesOn
<1>25. (\A i \in 1..2 : x5[n4 + i] = u3[i]) /\ \A i \in 1..n4 : x5[i] = x4[i]
  BY <1>22 DEF WritesOn
<1>26. (\A i \in 1..(2 * b) : x4[n3 + i] = w2[i]) /\ \A i \in 1..n3 : x4[i] = x3[i]
  BY <1>20 DEF WritesOn
<1>27. (\A i \in 1..1 : x3[n2 + i] = u2[i]) /\ \A i \in 1..n2 : x3[i] = x2[i]
  BY <1>18 DEF WritesOn
<1>28. (\A i \in 1..(2 * a) : x2[1 + i] = w1[i]) /\ \A i \in 1..1 : x2[i] = u1[i]
  BY <1>16 DEF WritesOn
<1>29. \A i \in 1..n4 : x[i] = x4[i]
  BY <1>13, <1>14, <1>24, <1>25
<1>30. \A i \in 1..n3 : x[i] = x3[i]
  BY <1>12, <1>13, <1>26, <1>29
<1>31. \A i \in 1..n2 : x[i] = x2[i]
  BY <1>11, <1>12, <1>27, <1>30
<1>32. x[1] = a
  <2>1. 1 \in 1..n2 /\ 1 \in 1..1
    BY <1>11
  <2> QED BY <1>6, <1>28, <1>31, <2>1
<1>33. x[n3] = b
  <2>1. n3 \in 1..n3 /\ n3 = n2 + 1 /\ 1 \in 1..1
    BY <1>11, <1>12
  <2> QED BY <1>7, <1>27, <1>30, <2>1
<1>34. x[n4 + 1] = m.prop_id /\ x[n4 + 2] = c
  <2>1. n4 + 1 \in 1..n5 /\ n4 + 2 \in 1..n5 /\ 1 \in 1..2 /\ 2 \in 1..2
    BY <1>13, <1>14
  <2> QED BY <1>8, <1>24, <1>25, <2>1
<1>35. ASSUME NEW i \in 1..a PROVE x[2 * i] = m.gkv[i].key /\ x[2 * i + 1] = m.gkv[i].value
  <2>1. PICK j \in 1..(2 * a) : j = 2 * i - 1 /\ 1 + j = 2 * i /\ 1 + j \in 1..n2
    BY <1>11
  <2>2. PICK k \in 1..(2 * a) : k = 2 * i /\ 1 + k = 2 * i + 1 /\ 1 + k \in 1..n2
    BY <1>11
  <2>3. x[1 + j] = w1[j] /\ x[1 + k] = w1[k]
    BY <1>28, <1>31, <2>1, <2>2
  <2>4. w1[j] = m.gkv[i].key /\ w1[k] = m.gkv[i].value
    BY <1>4, <2>1, <2>2
  <2> QED BY <2>1, <2>2, <2>3, <2>4
<1>36. ASSUME NEW i \in 1..b
       PROVE  x[2 * a + 1 + 2 * i] = m.ckv[i].key /\ x[2 * a + 2 + 2 * i] = m.ckv[i].value
  <2>1. PICK j \in 1..(2 * b) : j = 2 * i - 1 /\ n3 + j = 2 * a + 1 + 2 * i /\ n3 + j \in 1..n4
    BY <1>12, <1>13
  <2>2. PICK k \in 1..(2 * b) : k = 2 * i /\ n3 + k = 2 * a + 2 + 2 * i /\ n3 + k \in 1..n4
    BY <1>12, <1>13
  <2>3. x[n3 + j] = w2[j] /\ x[n3 + k] = w2[k]
    BY <1>26, <1>29, <2>1, <2>2
  <2>4. w2[j] = m.ckv[i].key /\ w2[k] = m.ckv[i].value
    BY <1>5, <2>1, <2>2
  <2> QED BY <2>1, <2>2, <2>3, <2>4
<1>37. \A i \in 1..c : x[n5 + i] = m.props[i]
  BY <1>9, <1>24
<1>38. x[3 + 2 * a + 2 * b] = m.prop_id /\ x[4 + 2 * a + 2 * b] = c
  <2>1. n4 + 1 = 3 + 2 * a + 2 * b /\ n4 + 2 = 4 + 2 * a + 2 * b
    BY <1>13
  <2> QED BY <1>34, <2>1
<1> QED BY <1>12, <1>14, <1>24, <1>32, <1>33, <1>35, <1>36, <1>37, <1>38 DEF HasPayload

-----------------------------------------------------------------------------
(* What is stored for a holder that means w.                               *)
StoredOf(w) ==
  IF w = NoMeta THEN metadata_free
  ELSE [gkv |-> Vec(w.gkv), ckv |-> Vec(w.ckv), prop_id |-> w.prop_id, props |-> Vec(w.props)]

LEMMA MeantIsThere ==
  ASSUME NEW m \in MetaSet
  PROVE  m # NoMeta
<1>1. "gkv" \in DOMAIN m
  BY DEF MetaSet
<1>2. DOMAIN NoMeta = {"none"}
  BY DEF NoMeta
<1> QED BY <1>1, <1>2

PairsAt(x, at, s, n) ==
  \A i \in 1..n : x[at + 2 * (i - 1)] = s[i].key /\ x[at + 2 * i - 1] = s[i].value

LEMMA PairsAre ==
  ASSUME NEW x, NEW at \in Nat, NEW n \in Nat, NEW s \in KVs, n = Len(s), PairsAt(x, at, s, n)
  PROVE  Pairs(x, at, n) = s
<1>1. \A i \in 1..n : s[i] \in KeyValue
  BY DEF KVs
<1>2. \A i \in 1..n : s[i] = [key |-> s[i].key, value |-> s[i].value]
  BY <1>1 DEF KeyValue
<1>3. s = [i \in 1..n |-> s[i]]
  BY DEF KVs
<1>4. \A i \in 1..n : s[i] = [key |-> x[at + 2 * (i - 1)], value |-> x[at + 2 * i - 1]]
  BY <1>2 DEF PairsAt
<1> QED BY <1>3, <1>4 DEF Pairs

(* The properties of a payload are what follows its last count.          *)
LEMMA SliceOfNats ==
  ASSUME NEW x \in Seq(Nat), NEW o \in Nat, NEW c \in Nat, Len(x) = o + c
  PROVE  /\ SubSeq(x, o + 1, o + c) \in Seq(Nat) /\ Len(SubSeq(x, o + 1, o + c)) = c
         /\ \A i \in 1..c : SubSeq(x, o + 1, o + c)[i] = x[o + i]
OBVIOUS

LEMMA CopyWhole ==
  ASSUME NEW m \in MetaSet
  PROVE  metadata_copy(Payload(m), TRUE, TRUE, TRUE) = StoredOf(m)
<1>1. /\ m.gkv \in KVs /\ m.ckv \in KVs /\ m.prop_id \in Nat /\ m.props \in Seq(Nat)
  BY DEF MetaSet, KVs
<1>2. PICK a \in Nat : a = Len(m.gkv)
  BY <1>1 DEF KVs
<1>3. PICK b \in Nat : b = Len(m.ckv)
  BY <1>1 DEF KVs
<1>4. PICK c \in Nat : c = Len(m.props)
  BY <1>1
<1>5. PICK x : IsPayload(x, m)
  BY DEF IsPayload
<1>6. x \in Seq(Nat) /\ HasPayload(x, m, a, b, c)
  <2>1. HasCounts(m, a, b, c)
    BY <1>2, <1>3, <1>4 DEF HasCounts
  <2> QED BY <1>5, <2>1, PayloadPlaces
<1>7. x[1] = a /\ x[2 + 2 * a] = b /\ x[3 + 2 * a + 2 * b] = m.prop_id /\ x[4 + 2 * a + 2 * b] = c
  BY <1>6 DEF HasPayload
<1>8. /\ NUM_GKV(x) = a /\ PTR_TO_NUM_CKV(x) = 2 + 2 * a /\ NUM_CKV(x) = b
      /\ PTR_TO_PROP_ID(x) = 3 + 2 * a + 2 * b /\ PTR_TO_NUM_PROPS(x) = 4 + 2 * a + 2 * b
  <2>1. NUM_GKV(x) = a
    BY <1>7 DEF NUM_GKV
  <2>2. PTR_TO_NUM_CKV(x) = 2 + 2 * a
    BY <2>1 DEF PTR_TO_NUM_CKV
  <2>3. NUM_CKV(x) = b
    BY <1>7, <2>2 DEF NUM_CKV
  <2>4. PTR_TO_PROP_ID(x) = 3 + 2 * a + 2 * b
    BY <2>2, <2>3 DEF PTR_TO_PROP_ID
  <2>5. PTR_TO_NUM_PROPS(x) = 4 + 2 * a + 2 * b
    BY <2>4 DEF PTR_TO_NUM_PROPS
  <2> QED BY <2>1, <2>2, <2>3, <2>4, <2>5
<1>9. Pairs(x, 2, a) = m.gkv
  <2>1. PICK at \in Nat, s \in KVs : at = 2 /\ s = m.gkv /\ a = Len(s)
    BY <1>1, <1>2
  <2>2. PairsAt(x, at, s, a)
    <3> SUFFICES ASSUME NEW i \in 1..a PROVE x[at + 2 * (i - 1)] = s[i].key /\ x[at + 2 * i - 1] = s[i].value
      BY DEF PairsAt
    <3>1. at + 2 * (i - 1) = 2 * i /\ at + 2 * i - 1 = 2 * i + 1
      BY <2>1
    <3>2. x[2 * i] = s[i].key /\ x[2 * i + 1] = s[i].value
      BY <1>6, <2>1 DEF HasPayload
    <3> QED BY <3>1, <3>2
  <2> QED BY <2>1, <2>2, PairsAre
<1>10. Pairs(x, PTR_TO_NUM_CKV(x) + 1, b) = m.ckv
  <2>1. PICK at \in Nat : at = 3 + 2 * a
    OBVIOUS
  <2>2. PICK s \in KVs : s = m.ckv /\ b = Len(s)
    BY <1>1, <1>3
  <2>3. PairsAt(x, at, s, b)
    <3> SUFFICES ASSUME NEW i \in 1..b PROVE x[at + 2 * (i - 1)] = s[i].key /\ x[at + 2 * i - 1] = s[i].value
      BY DEF PairsAt
    <3>1. at + 2 * (i - 1) = 2 * a + 1 + 2 * i /\ at + 2 * i - 1 = 2 * a + 2 + 2 * i
      BY <2>1
    <3>2. x[2 * a + 1 + 2 * i] = s[i].key /\ x[2 * a + 2 + 2 * i] = s[i].value
      BY <1>6, <2>2 DEF HasPayload
    <3> QED BY <3>1, <3>2
  <2>4. Pairs(x, at, b) = s
    BY <2>2, <2>3, PairsAre
  <2>5. at = PTR_TO_NUM_CKV(x) + 1
    BY <1>8, <2>1
  <2> QED BY <2>2, <2>4, <2>5
<1>11. SubSeq(x, PTR_TO_NUM_PROPS(x) + 1, PTR_TO_NUM_PROPS(x) + c) = m.props
  <2>1. PICK o \in Nat : o = 4 + 2 * a + 2 * b /\ o = PTR_TO_NUM_PROPS(x)
    BY <1>8
  <2>2. PICK p \in Seq(Nat) : p = m.props /\ Len(p) = c
    BY <1>1, <1>4
  <2>3. Len(x) = o + c /\ \A i \in 1..c : x[o + i] = p[i]
    BY <1>6, <2>1, <2>2 DEF HasPayload
  <2>4. PICK r : r = SubSeq(x, o + 1, o + c)
    OBVIOUS
  <2>5. r \in Seq(Nat) /\ Len(r) = c /\ \A i \in 1..c : r[i] = x[o + i]
    BY <1>6, <2>3, <2>4, SliceOfNats
  <2>6. r = p
    <3>1. Len(r) = Len(p) /\ \A i \in 1..Len(r) : r[i] = p[i]
      BY <2>2, <2>3, <2>5
    <3> QED BY <2>2, <2>5, <3>1, SeqEqual
  <2> QED BY <2>1, <2>2, <2>4, <2>6
<1>12. metadata_copy(x, TRUE, TRUE, TRUE) = [gkv |-> Vec(m.gkv), ckv |-> Vec(m.ckv), prop_id |-> m.prop_id, props |-> Vec(m.props)]
  <2>1. x[PTR_TO_PROP_ID(x)] = m.prop_id /\ x[PTR_TO_NUM_PROPS(x)] = c
    BY <1>7, <1>8
  <2>2. NUM_GKV(x) = a /\ NUM_CKV(x) = b
    BY <1>8
  <2> QED BY <1>9, <1>10, <1>11, <2>1, <2>2, Zenon DEF metadata_copy
<1>13. m # NoMeta
  BY MeantIsThere
<1> QED BY <1>5, <1>12, <1>13, Zenon DEF IsPayload, StoredOf

LEMMA CopyStores ==
  ASSUME NEW m \in MetaSet, NEW ckv \in BOOLEAN, NEW props \in BOOLEAN
  PROVE  metadata_copy(Payload(m), TRUE, ckv, props) = StoredOf(IF ckv /\ props THEN m ELSE NoMeta)
<1>1. CASE ckv /\ props
  BY <1>1, CopyWhole, Zenon
<1>2. CASE ~(ckv /\ props)
  BY <1>2, Zenon DEF metadata_copy, StoredOf
<1> QED BY <1>1, <1>2

LEMMA StoredIsWhole ==
  ASSUME NEW w \in MetaSet \cup {NoMeta}
  PROVE  Whole(StoredOf(w))
<1>1. CASE w = NoMeta
  <2>1. NoVec \in Vectors(KeyValue) /\ NoVec \in Vectors(Nat) /\ Counts(NoVec)
    <3>1. PICK e : e = <<>>
      OBVIOUS
    <3>2. e \in Seq(KeyValue) /\ e \in Seq(Nat) /\ Len(e) = 0
      BY <3>1
    <3>3. NoVec = [num |-> 0, arr |-> e, mem |-> FALSE]
      BY <3>1, Zenon DEF NoVec
    <3> QED BY <3>2, <3>3 DEF Vectors, Counts
  <2>2. StoredOf(w) = [gkv |-> NoVec, ckv |-> NoVec, prop_id |-> 0, props |-> NoVec]
    BY <1>1, Zenon DEF StoredOf, metadata_free
  <2> QED BY <2>1, <2>2 DEF Whole, Metadatas
<1>2. CASE w \in MetaSet
  <2>1. w.gkv \in Seq(KeyValue) /\ w.ckv \in Seq(KeyValue) /\ w.prop_id \in Nat /\ w.props \in Seq(Nat)
    BY <1>2 DEF MetaSet
  <2>2. PICK g \in Vectors(KeyValue) : g = Vec(w.gkv) /\ Counts(g)
    BY <2>1, VecIsWhole
  <2>3. PICK c \in Vectors(KeyValue) : c = Vec(w.ckv) /\ Counts(c)
    BY <2>1, VecIsWhole
  <2>4. PICK p \in Vectors(Nat) : p = Vec(w.props) /\ Counts(p)
    BY <2>1, VecIsWhole
  <2>5. w # NoMeta
    BY <1>2, MeantIsThere
  <2>6. StoredOf(w) = [gkv |-> g, ckv |-> c, prop_id |-> w.prop_id, props |-> p]
    BY <2>2, <2>3, <2>4, <2>5, Zenon DEF StoredOf
  <2> QED BY <2>1, <2>2, <2>3, <2>4, <2>6 DEF Whole, Metadatas
<1> QED BY <1>1, <1>2

-----------------------------------------------------------------------------
(* What a calibration makes of an entry: the last value it has for the     *)
(* key, if it has one.                                                     *)
NewOf(kv, cal) ==
  LET at == {j \in DOMAIN cal : cal[j].key = kv.key}
  IN IF at = {} THEN kv ELSE cal[CHOOSE j \in at : \A k \in at : k <= j]

LEMMA NewEntry ==
  ASSUME NEW cal \in KVs, NEW kv \in KeyValue, NEW new, new = NewOf(kv, cal)
  PROVE  /\ new \in KeyValue
         /\ \A j \in DOMAIN cal :
              cal[j].key = new.key /\ (\A k \in DOMAIN cal : cal[k].key = new.key => k <= j)
                => new.value = cal[j].value
<1> DEFINE at == {j \in DOMAIN cal : cal[j].key = kv.key}
           last == CHOOSE j \in at : \A k \in at : k <= j
<1>1. at = {j \in DOMAIN cal : cal[j].key = kv.key}
  OBVIOUS
<1>2. last = CHOOSE j \in at : \A k \in at : k <= j
  OBVIOUS
<1>3. new = IF at = {} THEN kv ELSE cal[last]
  BY DEF NewOf
<1> HIDE DEF at, last
<1>4. PICK n \in Nat : n = Len(cal) /\ DOMAIN cal = 1..n /\ \A j \in 1..n : cal[j] \in KeyValue
  BY DEF KVs
<1>5. CASE at = {}
  BY <1>1, <1>3, <1>5
<1>6. CASE at # {}
  <2>1. at \in SUBSET (1..n)
    BY <1>1, <1>4
  <2>2. PICK g : g = Max(at)
    OBVIOUS
  <2>3. g \in at /\ \A k \in at : k <= g
    BY <1>6, <2>1, <2>2, GreatestPlace
  <2>4. last \in at /\ \A k \in at : k <= last
    BY <1>2, <2>3, Zenon
  <2>5. last \in 1..n /\ new = cal[last] /\ new.key = kv.key
    BY <1>1, <1>3, <1>6, <2>1, <2>4
  <2>6. ASSUME NEW j \in DOMAIN cal, cal[j].key = new.key,
               \A k \in DOMAIN cal : cal[k].key = new.key => k <= j
        PROVE  new.value = cal[j].value
    <3>1. j \in at /\ last <= j /\ j \in 1..n
      BY <1>1, <1>4, <2>5, <2>6
    <3>2. j = last
      BY <2>4, <2>5, <3>1
    <3> QED BY <2>5, <3>2
  <2> QED BY <1>4, <2>5, <2>6
<1> QED BY <1>5, <1>6

(* Every entry has the value that the calibration has last for its key.    *)
Calibrated(s, cal) ==
  \A i \in DOMAIN s : \A j \in DOMAIN cal :
    cal[j].key = s[i].key /\ (\A k \in DOMAIN cal : cal[k].key = s[i].key => k <= j)
      => s[i].value = cal[j].value

(* What the holder of w means when it has been calibrated.                 *)
CalOf(w, cal) ==
  IF w = NoMeta THEN NoMeta
  ELSE [w EXCEPT !.ckv = [i \in DOMAIN w.ckv |-> NewOf(w.ckv[i], cal)]]

LEMMA CalVector ==
  ASSUME NEW s \in KVs, NEW cal \in KVs, NEW t, t = [i \in DOMAIN s |-> NewOf(s[i], cal)]
  PROVE  t \in KVs /\ Len(t) = Len(s) /\ Calibrated(t, cal)
<1>1. PICK n \in Nat : n = Len(s) /\ DOMAIN s = 1..n /\ \A i \in 1..n : s[i] \in KeyValue
  BY DEF KVs
<1>2. ASSUME NEW i \in 1..n
      PROVE  /\ t[i] \in KeyValue
             /\ \A j \in DOMAIN cal :
                  cal[j].key = t[i].key /\ (\A k \in DOMAIN cal : cal[k].key = t[i].key => k <= j)
                    => t[i].value = cal[j].value
  <2>1. PICK kv \in KeyValue : kv = s[i]
    BY <1>1
  <2>2. PICK new : new = NewOf(kv, cal)
    OBVIOUS
  <2>3. t[i] = new
    BY <1>1, <2>1, <2>2
  <2>4. /\ new \in KeyValue
        /\ \A j \in DOMAIN cal :
             cal[j].key = new.key /\ (\A k \in DOMAIN cal : cal[k].key = new.key => k <= j)
               => new.value = cal[j].value
    BY <2>2, NewEntry
  <2> QED BY <2>3, <2>4
<1>3. DOMAIN t = 1..n
  BY <1>1
<1>4. t \in [1..n -> KeyValue]
  <2>1. t = [i \in 1..n |-> NewOf(s[i], cal)]
    BY <1>1
  <2>2. \A i \in 1..n : NewOf(s[i], cal) \in KeyValue
    BY <1>2, <2>1
  <2> QED BY <2>1, <2>2
<1>5. t \in KVs /\ Len(t) = n
  BY <1>4 DEF KVs
<1>6. Calibrated(t, cal)
  BY <1>2, <1>3, Zenon DEF Calibrated
<1> QED BY <1>1, <1>5, <1>6

LEMMA CalStores ==
  ASSUME NEW w \in MetaSet \cup {NoMeta}, NEW cal \in KVs,
         NEW u, u = CalOf(w, cal), NEW m, m = metadata_update_cal(StoredOf(w), cal)
  PROVE  /\ u \in MetaSet \cup {NoMeta} /\ m = StoredOf(u)
         /\ (w # NoMeta => u = [w EXCEPT !.ckv = Copied(m.ckv)])
         /\ Calibrated(m.ckv.arr, cal)
<1>0. PICK st : st = StoredOf(w)
  OBVIOUS
<1>1. m = [st EXCEPT !.ckv.arr = [i \in DOMAIN st.ckv.arr |-> NewOf(st.ckv.arr[i], cal)]]
  <2>1. m = metadata_update_cal(st, cal)
    BY <1>0
  <2> QED BY <2>1 DEF metadata_update_cal, NewOf
<1>2. CASE w = NoMeta
  <2>1. st = metadata_free /\ u = NoMeta
    BY <1>0, <1>2, Zenon DEF StoredOf, CalOf
  <2>2. st.ckv = NoVec /\ NoVec.arr = <<>>
    BY <2>1 DEF metadata_free, NoVec
  <2>3. [i \in DOMAIN st.ckv.arr |-> NewOf(st.ckv.arr[i], cal)] = <<>>
    BY <2>2
  <2>4. Whole(st)
    BY <1>0, StoredIsWhole
  <2>5. [st EXCEPT !.ckv.arr = <<>>] = st
    BY <2>2, <2>4 DEF Whole, Metadatas, Vectors
  <2>6. m = st
    BY <1>1, <2>3, <2>5
  <2>7. Calibrated(m.ckv.arr, cal)
    BY <2>2, <2>6 DEF Calibrated
  <2> QED BY <1>0, <1>2, <2>1, <2>6, <2>7
<1>3. CASE w \in MetaSet
  <2>1. w.gkv \in KVs /\ w.ckv \in KVs /\ w.prop_id \in Nat /\ w.props \in Seq(Nat) /\ w # NoMeta
    BY <1>3, MeantIsThere DEF MetaSet, KVs
  <2>2. PICK s \in KVs : s = w.ckv
    BY <2>1
  <2>3. PICK t : t = [i \in DOMAIN s |-> NewOf(s[i], cal)]
    OBVIOUS
  <2>4. t \in KVs /\ Len(t) = Len(s) /\ Calibrated(t, cal)
    BY <2>3, CalVector
  <2>5. u = [w EXCEPT !.ckv = t]
    BY <2>1, <2>2, <2>3, Zenon DEF CalOf
  <2>6. u \in MetaSet /\ u.gkv = w.gkv /\ u.ckv = t /\ u.prop_id = w.prop_id /\ u.props = w.props
    BY <1>3, <2>4, <2>5 DEF MetaSet, KVs
  <2>7. u # NoMeta
    BY <2>6, MeantIsThere
  <2>8. PICK g : g = Vec(w.gkv)
    OBVIOUS
  <2>9. PICK p : p = Vec(w.props)
    OBVIOUS
  <2>10. PICK c : c = Vec(s)
    OBVIOUS
  <2>11. PICK d : d = Vec(t)
    OBVIOUS
  <2>12. st = [gkv |-> g, ckv |-> c, prop_id |-> w.prop_id, props |-> p]
    BY <1>0, <2>1, <2>2, <2>8, <2>9, <2>10, Zenon DEF StoredOf
  <2>13. StoredOf(u) = [gkv |-> g, ckv |-> d, prop_id |-> w.prop_id, props |-> p]
    BY <2>6, <2>7, <2>8, <2>9, <2>11, Zenon DEF StoredOf
  <2>14. st.ckv = c /\ c.arr = s /\ d.arr = t /\ Copied(d) = t
    BY <2>4, <2>10, <2>11, <2>12, VecIsWhole DEF KVs
  <2>15. m = [st EXCEPT !.ckv.arr = t]
    BY <1>1, <2>3, <2>14
  <2>16. [c EXCEPT !.arr = t] = d
    <3>1. PICK yes : yes = TRUE
      OBVIOUS
    <3>2. PICK l : l = Len(s) /\ l = Len(t)
      BY <2>4
    <3>3. c = [num |-> l, arr |-> s, mem |-> yes]
      BY <2>10, <3>1, <3>2, Zenon DEF Vec
    <3>4. d = [num |-> l, arr |-> t, mem |-> yes]
      BY <2>11, <3>1, <3>2, Zenon DEF Vec
    <3> QED BY <3>3, <3>4
  <2>17. m = [gkv |-> g, ckv |-> d, prop_id |-> w.prop_id, props |-> p]
    BY <2>12, <2>15, <2>16
  <2>18. m.ckv = d
    BY <2>17
  <2> QED BY <2>1, <2>4, <2>5, <2>6, <2>13, <2>14, <2>17, <2>18
<1> QED BY <1>2, <1>3

-----------------------------------------------------------------------------
(* The invariant: every holder has what is stored for what it means.       *)
SessAif(a) == <<a, "sess_aif">>

Dev(a) == <<a, "dev">>

Meant == MetaSet \cup {NoMeta}

MetaInv ==
  /\ meant \in [Holders -> Meant]
  /\ aif_pool \in Seq(Aifs)
  /\ sess_meta = StoredOf(meant[Session])
  /\ sess_aif_meta = [b \in Aifs |-> StoredOf(meant[SessAif(b)])]
  /\ dev_meta = [b \in Aifs |-> StoredOf(meant[Dev(b)])]

LEMMA HoldersApart ==
  /\ Session \in Holders /\ \A a \in Aifs : SessAif(a) \in Holders /\ Dev(a) \in Holders
  /\ \A a, b \in Aifs : /\ SessAif(a) # Session /\ Dev(a) # Session /\ SessAif(a) # Dev(b)
                         /\ (SessAif(a) = SessAif(b) => a = b) /\ (Dev(a) = Dev(b) => a = b)
  /\ \A h \in Holders : h = Session \/ \E a \in Aifs : h = SessAif(a) \/ h = Dev(a)
  BY DEF Session, SessAif, Dev, Holders

LEMMA HoldersWhole ==
  ASSUME MetaInv
  PROVE  Whole(sess_meta) /\ \A a \in Aifs : Whole(sess_aif_meta[a]) /\ Whole(dev_meta[a])
<1>1. \A h \in Holders : Whole(StoredOf(meant[h]))
  BY StoredIsWhole DEF MetaInv, Meant
<1> QED BY <1>1, HoldersApart DEF MetaInv

LEMMA HoldersMean ==
  ASSUME MetaInv
  PROVE  MetadataWhole
<1>1. ASSUME NEW h \in Holders PROVE MetaOf(h) = StoredOf(meant[h])
  <2>1. CASE h = Session
    BY <2>1 DEF MetaOf, MetaInv
  <2>2. ASSUME NEW a \in Aifs, h = SessAif(a) PROVE MetaOf(h) = StoredOf(meant[h])
    <3>1. h # Session /\ h[1] = a /\ h[2] # "dev"
      BY <2>2, HoldersApart DEF SessAif
    <3>2. MetaOf(h) = sess_aif_meta[a]
      BY <3>1 DEF MetaOf
    <3> QED BY <2>2, <3>2 DEF MetaInv
  <2>3. ASSUME NEW a \in Aifs, h = Dev(a) PROVE MetaOf(h) = StoredOf(meant[h])
    <3>1. h # Session /\ h[1] = a /\ h[2] = "dev"
      BY <2>3, HoldersApart DEF Dev
    <3>2. MetaOf(h) = dev_meta[a]
      BY <3>1 DEF MetaOf
    <3> QED BY <2>3, <3>2 DEF MetaInv
  <2> QED BY <2>1, <2>2, <2>3, HoldersApart
<1> QED BY <1>1, Zenon DEF MetadataWhole, StoredOf

LEMMA MetaStarts ==
  ASSUME MetaInit
  PROVE  MetaInv
<1>1. \A h \in Holders : meant[h] = NoMeta
  BY DEF MetaInit
<1>2. StoredOf(NoMeta) = metadata_free
  BY DEF StoredOf
<1>3. meant \in [Holders -> Meant] /\ aif_pool \in Seq(Aifs)
  BY DEF MetaInit, Meant
<1>4. sess_meta = StoredOf(meant[Session])
  BY <1>1, <1>2, HoldersApart DEF MetaInit
<1>5. /\ sess_aif_meta = [b \in Aifs |-> StoredOf(meant[SessAif(b)])]
      /\ dev_meta = [b \in Aifs |-> StoredOf(meant[Dev(b)])]
  BY <1>1, <1>2, HoldersApart DEF MetaInit
<1> QED BY <1>3, <1>4, <1>5 DEF MetaInv

LEMMA PoolGrows ==
  ASSUME MetaInv, NEW a \in Aifs
  PROVE  aif_obj_get(a) \in Seq(Aifs)
  BY DEF MetaInv, aif_obj_get

(* What one set stores, and what is meant by it.                           *)
SetsTo(w, m, gkv, ckv, props) ==
  /\ w = (IF gkv /\ ckv /\ props THEN m ELSE NoMeta)
  /\ metadata_copy(Payload(m), gkv, ckv, props) = StoredOf(w)

LEMMA SetStores ==
  ASSUME NEW m \in Metas, NEW gkv \in Ok("gkv"), NEW ckv \in Ok("ckv"), NEW props \in Ok("props"),
         "gkv" \notin FailingMeta
  PROVE  \E w \in Meant : SetsTo(w, m, gkv, ckv, props)
<1>1. gkv = TRUE
  BY DEF Ok
<1>2. ckv \in BOOLEAN /\ props \in BOOLEAN
  BY Zenon DEF Ok
<1>3. m \in MetaSet
  BY MetaAssumption DEF MetaSet
<1>4. PICK w : w = IF ckv /\ props THEN m ELSE NoMeta
  OBVIOUS
<1>5. w \in Meant
  BY <1>3, <1>4 DEF Meant
<1>6. metadata_copy(Payload(m), TRUE, ckv, props) = StoredOf(w)
  BY <1>2, <1>3, <1>4, CopyStores, Zenon
<1>7. w = IF gkv /\ ckv /\ props THEN m ELSE NoMeta
  BY <1>1, <1>4, Zenon
<1> QED BY <1>1, <1>5, <1>6, <1>7, Zenon DEF SetsTo

LEMMA SetSessKeeps ==
  ASSUME MetaInv, "gkv" \notin FailingMeta, NEW m \in Metas, session_obj_set_sess_metadata_copy(m)
  PROVE  MetaInv'
<1>1. PICK gkv \in Ok("gkv"), ckv \in Ok("ckv"), props \in Ok("props") :
        /\ sess_meta' = metadata_copy(Payload(m), gkv, ckv, props)
        /\ meant' = [meant EXCEPT ![Session] = IF gkv /\ ckv /\ props THEN m ELSE NoMeta]
  BY Zenon DEF session_obj_set_sess_metadata_copy, SetOf
<1>2. PICK w \in Meant : sess_meta' = StoredOf(w) /\ meant' = [meant EXCEPT ![Session] = w]
  <2>1. PICK w \in Meant : SetsTo(w, m, gkv, ckv, props)
    BY SetStores
  <2> QED BY <1>1, <2>1, Zenon DEF SetsTo
<1>3. sess_aif_meta' = sess_aif_meta /\ dev_meta' = dev_meta /\ aif_pool' = aif_pool
  BY DEF session_obj_set_sess_metadata_copy
<1>4. /\ meant' \in [Holders -> Meant] /\ meant'[Session] = w
      /\ \A a \in Aifs : meant'[SessAif(a)] = meant[SessAif(a)] /\ meant'[Dev(a)] = meant[Dev(a)]
  BY <1>2, HoldersApart DEF MetaInv
<1>5. sess_aif_meta' = [b \in Aifs |-> StoredOf(meant'[SessAif(b)])]
  BY <1>3, <1>4 DEF MetaInv
<1>6. dev_meta' = [b \in Aifs |-> StoredOf(meant'[Dev(b)])]
  BY <1>3, <1>4 DEF MetaInv
<1>7. aif_pool' \in Seq(Aifs) /\ sess_meta' = StoredOf(meant'[Session])
  BY <1>2, <1>3, <1>4 DEF MetaInv
<1> QED BY <1>4, <1>5, <1>6, <1>7 DEF MetaInv

LEMMA SetSessAifKeeps ==
  ASSUME MetaInv, "gkv" \notin FailingMeta, NEW a \in Aifs, NEW m \in Metas,
         session_obj_set_sess_aif_metadata_copy(a, m)
  PROVE  MetaInv'
<1>1. PICK gkv \in Ok("gkv"), ckv \in Ok("ckv"), props \in Ok("props") :
        /\ sess_aif_meta' = [sess_aif_meta EXCEPT ![a] = metadata_copy(Payload(m), gkv, ckv, props)]
        /\ meant' = [meant EXCEPT ![SessAif(a)] = IF gkv /\ ckv /\ props THEN m ELSE NoMeta]
  BY Zenon DEF session_obj_set_sess_aif_metadata_copy, SetOf, SessAif
<1>2. PICK w \in Meant : /\ sess_aif_meta' = [sess_aif_meta EXCEPT ![a] = StoredOf(w)]
                         /\ meant' = [meant EXCEPT ![SessAif(a)] = w]
  <2>1. PICK w \in Meant : SetsTo(w, m, gkv, ckv, props)
    BY SetStores
  <2> QED BY <1>1, <2>1, Zenon DEF SetsTo
<1>3. sess_meta' = sess_meta /\ dev_meta' = dev_meta /\ aif_pool' = aif_obj_get(a)
  BY DEF session_obj_set_sess_aif_metadata_copy
<1>4. /\ meant' \in [Holders -> Meant] /\ meant'[Session] = meant[Session]
      /\ meant'[SessAif(a)] = w /\ (\A b \in Aifs : b # a => meant'[SessAif(b)] = meant[SessAif(b)])
      /\ \A b \in Aifs : meant'[Dev(b)] = meant[Dev(b)]
  <2>1. PICK h \in Holders : h = SessAif(a)
    BY HoldersApart
  <2>2. meant' = [meant EXCEPT ![h] = w] /\ meant \in [Holders -> Meant]
    BY <1>2, <2>1 DEF MetaInv
  <2>3. /\ meant' \in [Holders -> Meant] /\ meant'[h] = w
        /\ \A k \in Holders : k # h => meant'[k] = meant[k]
    BY <2>2
  <2> QED BY <2>1, <2>3, HoldersApart
<1>5. sess_aif_meta' = [b \in Aifs |-> StoredOf(meant'[SessAif(b)])]
  BY <1>2, <1>4 DEF MetaInv
<1>6. dev_meta' = [b \in Aifs |-> StoredOf(meant'[Dev(b)])]
  BY <1>3, <1>4 DEF MetaInv
<1>7. aif_pool' \in Seq(Aifs) /\ sess_meta' = StoredOf(meant'[Session])
  BY <1>3, <1>4, PoolGrows DEF MetaInv
<1> QED BY <1>4, <1>5, <1>6, <1>7 DEF MetaInv

LEMMA SetDeviceKeeps ==
  ASSUME MetaInv, "gkv" \notin FailingMeta, NEW a \in Aifs, NEW m \in Metas, device_set_metadata(a, m)
  PROVE  MetaInv'
<1>1. PICK gkv \in Ok("gkv"), ckv \in Ok("ckv"), props \in Ok("props") :
        /\ dev_meta' = [dev_meta EXCEPT ![a] = metadata_copy(Payload(m), gkv, ckv, props)]
        /\ meant' = [meant EXCEPT ![Dev(a)] = IF gkv /\ ckv /\ props THEN m ELSE NoMeta]
  BY Zenon DEF device_set_metadata, SetOf, Dev
<1>2. PICK w \in Meant : /\ dev_meta' = [dev_meta EXCEPT ![a] = StoredOf(w)]
                         /\ meant' = [meant EXCEPT ![Dev(a)] = w]
  <2>1. PICK w \in Meant : SetsTo(w, m, gkv, ckv, props)
    BY SetStores
  <2> QED BY <1>1, <2>1, Zenon DEF SetsTo
<1>3. sess_meta' = sess_meta /\ sess_aif_meta' = sess_aif_meta /\ aif_pool' = aif_pool
  BY DEF device_set_metadata
<1>4. /\ meant' \in [Holders -> Meant] /\ meant'[Session] = meant[Session]
      /\ meant'[Dev(a)] = w /\ (\A b \in Aifs : b # a => meant'[Dev(b)] = meant[Dev(b)])
      /\ \A b \in Aifs : meant'[SessAif(b)] = meant[SessAif(b)]
  <2>1. PICK h \in Holders : h = Dev(a)
    BY HoldersApart
  <2>2. meant' = [meant EXCEPT ![h] = w] /\ meant \in [Holders -> Meant]
    BY <1>2, <2>1 DEF MetaInv
  <2>3. /\ meant' \in [Holders -> Meant] /\ meant'[h] = w
        /\ \A k \in Holders : k # h => meant'[k] = meant[k]
    BY <2>2
  <2> QED BY <2>1, <2>3, HoldersApart
<1>5. dev_meta' = [b \in Aifs |-> StoredOf(meant'[Dev(b)])]
  BY <1>2, <1>4 DEF MetaInv
<1>6. sess_aif_meta' = [b \in Aifs |-> StoredOf(meant'[SessAif(b)])]
  BY <1>3, <1>4 DEF MetaInv
<1>7. aif_pool' \in Seq(Aifs) /\ sess_meta' = StoredOf(meant'[Session])
  BY <1>3, <1>4 DEF MetaInv
<1> QED BY <1>4, <1>5, <1>6, <1>7 DEF MetaInv

LEMMA MergesKeep ==
  ASSUME MetaInv, meant' = meant, sess_meta' = sess_meta, sess_aif_meta' = sess_aif_meta,
         dev_meta' = dev_meta, aif_pool' \in Seq(Aifs)
  PROVE  MetaInv'
  BY DEF MetaInv

LEMMA CalKeeps ==
  ASSUME MetaInv, NEW a \in Aifs, NEW cal \in Cals, session_obj_set_sess_aif_cal_merge(a, cal)
  PROVE  /\ MetaInv'
         /\ Calibrated(sess_meta'.ckv.arr, cal)
         /\ Calibrated(sess_aif_meta'[a].ckv.arr, cal) /\ Calibrated(dev_meta'[a].ckv.arr, cal)
<1>0. cal \in KVs
  BY MetaAssumption DEF KVs
<1>1. PICK s : s = metadata_update_cal(sess_meta, cal)
  OBVIOUS
<1>2. PICK sa : sa = metadata_update_cal(sess_aif_meta[a], cal)
  OBVIOUS
<1>3. PICK d : d = metadata_update_cal(dev_meta[a], cal)
  OBVIOUS
<1>4. /\ sess_meta' = s /\ sess_aif_meta' = [sess_aif_meta EXCEPT ![a] = sa]
      /\ dev_meta' = [dev_meta EXCEPT ![a] = d] /\ aif_pool' = aif_pool
  BY <1>1, <1>2, <1>3, Zenon DEF session_obj_set_sess_aif_cal_merge
<1>5. meant' = [h \in Holders |->
         IF meant[h] = NoMeta \/ h \notin {Session, SessAif(a), Dev(a)} THEN meant[h]
         ELSE [meant[h] EXCEPT
                 !.ckv = Copied((IF h = Session THEN s ELSE IF h = Dev(a) THEN d ELSE sa).ckv)]]
  BY <1>1, <1>2, <1>3, Zenon DEF session_obj_set_sess_aif_cal_merge, SessAif, Dev
<1>6. PICK w1 \in Meant, w2 \in Meant, w3 \in Meant :
        w1 = meant[Session] /\ w2 = meant[SessAif(a)] /\ w3 = meant[Dev(a)]
  BY HoldersApart DEF MetaInv
<1>7. sess_meta = StoredOf(w1) /\ sess_aif_meta[a] = StoredOf(w2) /\ dev_meta[a] = StoredOf(w3)
  BY <1>6 DEF MetaInv
<1>8. PICK u1 : u1 = CalOf(w1, cal)
  OBVIOUS
<1>9. PICK u2 : u2 = CalOf(w2, cal)
  OBVIOUS
<1>10. PICK u3 : u3 = CalOf(w3, cal)
  OBVIOUS
<1>11. /\ u1 \in Meant /\ s = StoredOf(u1) /\ Calibrated(s.ckv.arr, cal)
       /\ (w1 # NoMeta => u1 = [w1 EXCEPT !.ckv = Copied(s.ckv)])
  BY <1>0, <1>1, <1>6, <1>7, <1>8, CalStores DEF Meant
<1>12. /\ u2 \in Meant /\ sa = StoredOf(u2) /\ Calibrated(sa.ckv.arr, cal)
       /\ (w2 # NoMeta => u2 = [w2 EXCEPT !.ckv = Copied(sa.ckv)])
  BY <1>0, <1>2, <1>6, <1>7, <1>9, CalStores DEF Meant
<1>13. /\ u3 \in Meant /\ d = StoredOf(u3) /\ Calibrated(d.ckv.arr, cal)
       /\ (w3 # NoMeta => u3 = [w3 EXCEPT !.ckv = Copied(d.ckv)])
  BY <1>0, <1>3, <1>6, <1>7, <1>10, CalStores DEF Meant
<1>14. (w1 = NoMeta => u1 = w1) /\ (w2 = NoMeta => u2 = w2) /\ (w3 = NoMeta => u3 = w3)
  BY <1>8, <1>9, <1>10 DEF CalOf
<1>15. meant'[Session] = u1
  BY <1>5, <1>6, <1>11, <1>14, HoldersApart
<1>16. meant'[SessAif(a)] = u2
  <2>1. SessAif(a) \in Holders /\ SessAif(a) # Session /\ SessAif(a) # Dev(a)
    BY HoldersApart
  <2> QED BY <1>5, <1>6, <1>12, <1>14, <2>1
<1>17. meant'[Dev(a)] = u3
  <2>1. Dev(a) \in Holders /\ Dev(a) # Session /\ SessAif(a) # Dev(a)
    BY HoldersApart
  <2> QED BY <1>5, <1>6, <1>13, <1>14, <2>1
<1>18. \A h \in Holders : h \notin {Session, SessAif(a), Dev(a)} => meant'[h] = meant[h]
  BY <1>5
<1>19. meant' \in [Holders -> Meant]
  <2>1. meant \in [Holders -> Meant]
    BY DEF MetaInv
  <2>2. DOMAIN meant' = Holders /\ meant' = [h \in Holders |-> meant'[h]]
    BY <1>5
  <2>3. \A h \in Holders : meant'[h] \in Meant
    BY <1>11, <1>12, <1>13, <1>15, <1>16, <1>17, <1>18, <2>1
  <2> QED BY <2>2, <2>3
<1>20. \A b \in Aifs : b # a => meant'[SessAif(b)] = meant[SessAif(b)] /\ meant'[Dev(b)] = meant[Dev(b)]
  BY <1>18, HoldersApart
<1>21. sess_aif_meta' = [b \in Aifs |-> StoredOf(meant'[SessAif(b)])]
  BY <1>4, <1>12, <1>16, <1>20 DEF MetaInv
<1>22. dev_meta' = [b \in Aifs |-> StoredOf(meant'[Dev(b)])]
  BY <1>4, <1>13, <1>17, <1>20 DEF MetaInv
<1>23. MetaInv'
  BY <1>4, <1>11, <1>15, <1>19, <1>21, <1>22 DEF MetaInv
<1>24. sess_aif_meta'[a] = sa /\ dev_meta'[a] = d
  BY <1>4 DEF MetaInv
<1> QED BY <1>4, <1>11, <1>12, <1>13, <1>23, <1>24

-----------------------------------------------------------------------------
(* What GSL is given.                                                      *)
IsGift(g, sources, cal, merged) == g = [sources |-> sources, cal |-> cal, merged |-> merged]

GiftPrecedes(g) == g # NoMeta /\ g.merged # NoMeta => Precedes(g.sources, g.merged.gkv.arr)

GiftCalibrated(g) == g # NoMeta /\ g.merged # NoMeta => Calibrated(g.merged.ckv.arr, g.cal)

LEMMA GiftMeans ==
  /\ GiftPrecedes(gsl_given) => MergePrecedence
  /\ GiftCalibrated(gsl_given) => CalReachesGraph
<1>1. GiftPrecedes(gsl_given) => MergePrecedence
  BY Zenon DEF GiftPrecedes, MergePrecedence, Precedes, KeysOf
<1>2. GiftCalibrated(gsl_given) => CalReachesGraph
  <2> SUFFICES ASSUME GiftCalibrated(gsl_given), gsl_given # NoMeta, gsl_given.merged # NoMeta,
                      NEW kv \in Range(gsl_given.merged.ckv.arr), NEW j \in DOMAIN gsl_given.cal,
                      gsl_given.cal[j].key = kv.key,
                      \A k \in DOMAIN gsl_given.cal : gsl_given.cal[k].key = kv.key => k <= j
               PROVE  kv.value = gsl_given.cal[j].value
    BY Zenon DEF CalReachesGraph
  <2>1. PICK i \in DOMAIN gsl_given.merged.ckv.arr : kv = gsl_given.merged.ckv.arr[i]
    BY DEF Range
  <2> QED BY <2>1, Zenon DEF GiftCalibrated, Calibrated
<1> QED BY <1>1, <1>2

LEMMA ThreeSources ==
  ASSUME NEW a, NEW b, NEW c, Whole(a), Whole(b), Whole(c), NEW sources, sources = <<a, b, c>>,
         NEW r, IsMerge(r, sources)
  PROVE  /\ Whole(r) /\ sources \in WholeLists /\ MergedAs(r.gkv.arr, Gkvs(sources))
         /\ MergedAs(r.ckv.arr, <<a.ckv.arr, b.ckv.arr, c.ckv.arr>>)
<1>1. /\ Whole(r) /\ MergedAs(r.gkv.arr, <<a.gkv.arr, b.gkv.arr, c.gkv.arr>>)
      /\ MergedAs(r.ckv.arr, <<a.ckv.arr, b.ckv.arr, c.ckv.arr>>)
  BY MergeOfThree DEF IsMerge
<1>2. a \in Wholes /\ b \in Wholes /\ c \in Wholes
  BY DEF Wholes, Whole
<1>3. sources \in Seq(Wholes) /\ Len(sources) = 3 /\ sources[1] = a /\ sources[2] = b /\ sources[3] = c
  BY <1>2
<1>4. PICK t : t = <<a.gkv.arr, b.gkv.arr, c.gkv.arr>>
  OBVIOUS
<1>5. t \in Seq(KVs) /\ Len(t) = 3 /\ t[1] = a.gkv.arr /\ t[2] = b.gkv.arr /\ t[3] = c.gkv.arr
  BY <1>4, WholeVectors
<1>6. PICK g : g = Gkvs(sources)
  OBVIOUS
<1>7. g \in Seq(KVs) /\ Len(g) = 3 /\ \A i \in 1..3 : g[i] = sources[i].gkv.arr
  <2>1. sources \in WholeLists
    BY <1>3 DEF WholeLists
  <2>2. /\ g \in Seq(KVs) /\ Len(g) = Len(sources)
        /\ \A i \in 1..Len(sources) : g[i] = sources[i].gkv.arr
    BY <1>6, <2>1, GkvsAreVectors
  <2> QED BY <1>3, <2>2
<1>8. g = t
  <2>1. \A i \in 1..3 : i = 1 \/ i = 2 \/ i = 3
    OBVIOUS
  <2>2. Len(g) = Len(t) /\ \A i \in 1..Len(g) : g[i] = t[i]
    BY <1>3, <1>5, <1>7, <2>1
  <2> QED BY <1>5, <1>7, <2>2, SeqEqual
<1>9. sources \in WholeLists
  BY <1>3 DEF WholeLists
<1>10. MergedAs(r.gkv.arr, t)
  BY <1>1, <1>4, Zenon
<1>11. MergedAs(r.gkv.arr, Gkvs(sources))
  BY <1>6, <1>8, <1>10, Zenon
<1> QED BY <1>1, <1>9, <1>11, Zenon

(* A merge of three vectors that are calibrated is.                        *)
LEMMA MergedCalibrated ==
  ASSUME NEW x, NEW y, NEW z, NEW cal, Calibrated(x, cal), Calibrated(y, cal), Calibrated(z, cal),
         NEW r, MergedAs(r, <<x, y, z>>)
  PROVE  Calibrated(r, cal)
<1>1. PICK src : src = <<x, y, z>>
  OBVIOUS
<1>2. DOMAIN src = 1..3 /\ src[1] = x /\ src[2] = y /\ src[3] = z
  BY <1>1
<1>3. \A a \in DOMAIN src : Calibrated(src[a], cal)
  BY <1>2
<1>4. r \in KVs /\ StandsFor(r, src) /\ OneOfEach(r)
  BY <1>1 DEF MergedAs
<1>5. PICK m \in Nat : DOMAIN r = 1..m
  BY <1>4 DEF KVs
<1>6. ASSUME NEW i \in 1..m PROVE Leads(src, r[i])
  <2>1. \A j \in 1..(i - 1) : j \in 1..m /\ j # i
    OBVIOUS
  <2>2. FirstHere(r, i)
    BY <1>4, <1>5, <2>1 DEF OneOfEach, FirstHere
  <2> QED BY <1>4, <1>5, <2>2 DEF StandsFor
<1>7. \A i \in DOMAIN r : \E a \in DOMAIN src : \E j \in DOMAIN src[a] : src[a][j] = r[i]
  BY <1>5, <1>6 DEF Leads
<1>8. ASSUME NEW i \in DOMAIN r, NEW j \in DOMAIN cal, cal[j].key = r[i].key,
             \A k \in DOMAIN cal : cal[k].key = r[i].key => k <= j
      PROVE  r[i].value = cal[j].value
  <2>1. PICK a \in DOMAIN src : \E b \in DOMAIN src[a] : src[a][b] = r[i]
    BY <1>7
  <2>2. PICK b \in DOMAIN src[a] : src[a][b] = r[i]
    BY <2>1
  <2>3. Calibrated(src[a], cal)
    BY <1>3
  <2>4. PICK t, kv : t = src[a] /\ kv = r[i]
    OBVIOUS
  <2>5. b \in DOMAIN t /\ t[b] = kv /\ Calibrated(t, cal)
    BY <2>2, <2>3, <2>4
  <2>6. cal[j].key = t[b].key /\ \A k \in DOMAIN cal : cal[k].key = t[b].key => k <= j
    BY <1>8, <2>4, <2>5
  <2>7. t[b].value = cal[j].value
    BY <2>5, <2>6, Zenon DEF Calibrated
  <2> QED BY <2>4, <2>5, <2>7
<1> QED BY <1>8, Zenon DEF Calibrated

(* The merge for one interface.                                            *)
LEMMA AifGift ==
  ASSUME MetaInv, NEW a \in Aifs, session_aif_merged_metadata(a)
  PROVE  MetaInv' /\ GiftPrecedes(gsl_given') /\ GiftCalibrated(gsl_given')
<1>1. PICK sources : sources = <<sess_meta, sess_aif_meta[a], dev_meta[a]>>
  OBVIOUS
<1>2. PICK ok \in Ok("merge"), r \in {metadata_merge(sources, TRUE), NoMeta} :
        (ok => r = metadata_merge(sources, TRUE)) /\ (~ok => r = NoMeta)
          /\ IsGift(gsl_given', sources, <<>>, r)
  <2>1. PICK ok \in Ok("merge") : gsl_given' = [sources |-> sources, cal |-> <<>>,
                                                merged |-> metadata_merge(sources, ok)]
    BY <1>1, Zenon DEF session_aif_merged_metadata, Give
  <2>2. ok = TRUE \/ ok = FALSE
    BY Zenon DEF Ok
  <2>3. CASE ok = TRUE
    BY <2>1, <2>3, Zenon DEF IsGift
  <2>4. CASE ok = FALSE
    <3>1. metadata_merge(sources, ok) = NoMeta
      BY <2>4, Zenon DEF metadata_merge
    <3> QED BY <2>1, <2>4, <3>1, Zenon DEF IsGift
  <2> QED BY <2>2, <2>3, <2>4
<1>3. /\ Whole(sess_meta) /\ Whole(sess_aif_meta[a]) /\ Whole(dev_meta[a])
  BY HoldersWhole
<1>4. gsl_given'.sources = sources /\ gsl_given'.cal = <<>> /\ gsl_given'.merged = r
  BY <1>2 DEF IsGift
<1>5. ASSUME r # NoMeta PROVE Precedes(sources, r.gkv.arr)
  <2>1. IsMerge(r, sources)
    BY <1>2, <1>5 DEF IsMerge
  <2>2. sources \in WholeLists /\ MergedAs(r.gkv.arr, Gkvs(sources))
    BY <1>1, <1>3, <2>1, ThreeSources
  <2> QED BY <2>2, MergedPrecedes
<1>6. GiftPrecedes(gsl_given')
  BY <1>4, <1>5, Zenon DEF GiftPrecedes
<1>7. GiftCalibrated(gsl_given')
  BY <1>4 DEF GiftCalibrated, Calibrated
<1>8. MetaInv'
  BY MergesKeep, PoolGrows DEF session_aif_merged_metadata
<1> QED BY <1>6, <1>7, <1>8

(* The merge after a calibration.                                          *)
LEMMA CalGift ==
  ASSUME MetaInv, NEW a \in Aifs, NEW cal \in Cals, session_obj_set_sess_aif_cal_merge(a, cal)
  PROVE  MetaInv' /\ GiftPrecedes(gsl_given') /\ GiftCalibrated(gsl_given')
<1>1. PICK sources : sources = <<sess_meta', sess_aif_meta'[a], dev_meta'[a]>>
  OBVIOUS
<1>2. /\ MetaInv' /\ Calibrated(sess_meta'.ckv.arr, cal)
      /\ Calibrated(sess_aif_meta'[a].ckv.arr, cal) /\ Calibrated(dev_meta'[a].ckv.arr, cal)
  BY CalKeeps
<1>3. /\ Whole(sess_meta') /\ Whole(sess_aif_meta'[a]) /\ Whole(dev_meta'[a])
  <2>1. \A w \in Meant : Whole(StoredOf(w))
    BY StoredIsWhole DEF Meant
  <2>2. /\ meant' \in [Holders -> Meant] /\ sess_meta' = StoredOf(meant'[Session])
        /\ sess_aif_meta'[a] = StoredOf(meant'[SessAif(a)]) /\ dev_meta'[a] = StoredOf(meant'[Dev(a)])
    BY <1>2 DEF MetaInv
  <2> QED BY <2>1, <2>2, HoldersApart
<1>4. PICK s : s = metadata_update_cal(sess_meta, cal)
  OBVIOUS
<1>5. PICK sa : sa = metadata_update_cal(sess_aif_meta[a], cal)
  OBVIOUS
<1>6. PICK d : d = metadata_update_cal(dev_meta[a], cal)
  OBVIOUS
<1>7. sources = <<s, sa, d>>
  <2>1. /\ sess_meta' = s /\ sess_aif_meta' = [sess_aif_meta EXCEPT ![a] = sa]
        /\ dev_meta' = [dev_meta EXCEPT ![a] = d]
    BY <1>4, <1>5, <1>6, Zenon DEF session_obj_set_sess_aif_cal_merge
  <2>2. sess_aif_meta'[a] = sa /\ dev_meta'[a] = d
    BY <2>1 DEF MetaInv
  <2> QED BY <1>1, <2>1, <2>2
<1>8. PICK ok \in Ok("merge"), r \in {metadata_merge(sources, TRUE), NoMeta} :
        (ok => r = metadata_merge(sources, TRUE)) /\ (~ok => r = NoMeta)
          /\ IsGift(gsl_given', sources, cal, r)
  <2>1. PICK ok \in Ok("merge") : gsl_given' = [sources |-> sources, cal |-> cal,
                                                merged |-> metadata_merge(sources, ok)]
    BY <1>4, <1>5, <1>6, <1>7, Zenon DEF session_obj_set_sess_aif_cal_merge, Give
  <2>2. ok = TRUE \/ ok = FALSE
    BY Zenon DEF Ok
  <2>3. CASE ok = TRUE
    BY <2>1, <2>3, Zenon DEF IsGift
  <2>4. CASE ok = FALSE
    <3>1. metadata_merge(sources, ok) = NoMeta
      BY <2>4, Zenon DEF metadata_merge
    <3> QED BY <2>1, <2>4, <3>1, Zenon DEF IsGift
  <2> QED BY <2>2, <2>3, <2>4
<1>9. gsl_given'.sources = sources /\ gsl_given'.cal = cal /\ gsl_given'.merged = r
  BY <1>8 DEF IsGift
<1>10. ASSUME r # NoMeta PROVE Precedes(sources, r.gkv.arr) /\ Calibrated(r.ckv.arr, cal)
  <2>1. IsMerge(r, sources)
    BY <1>8, <1>10 DEF IsMerge
  <2>2. /\ sources \in WholeLists /\ MergedAs(r.gkv.arr, Gkvs(sources))
        /\ MergedAs(r.ckv.arr, <<sess_meta'.ckv.arr, sess_aif_meta'[a].ckv.arr, dev_meta'[a].ckv.arr>>)
    BY <1>1, <1>3, <2>1, ThreeSources
  <2>3. Precedes(sources, r.gkv.arr)
    BY <2>2, MergedPrecedes
  <2>4. Calibrated(r.ckv.arr, cal)
    BY <1>2, <2>2, MergedCalibrated
  <2> QED BY <2>3, <2>4
<1>11. GiftPrecedes(gsl_given')
  BY <1>9, <1>10, Zenon DEF GiftPrecedes
<1>12. GiftCalibrated(gsl_given')
  BY <1>9, <1>10, Zenon DEF GiftCalibrated
<1> QED BY <1>2, <1>11, <1>12

(* The merges for all interfaces.                                          *)
OwnOf(a) == <<sess_meta, sess_aif_meta[a], dev_meta[a]>>

OwnsOf == [i \in DOMAIN aif_pool |-> OwnOf(aif_pool[i])]

LEMMA OwnsAreLists ==
  ASSUME MetaInv, aif_pool # <<>>, NEW q, q = OwnsOf, NEW n, n = Len(aif_pool)
  PROVE  /\ n \in Nat \ {0} /\ q \in Seq(Seq(Wholes)) /\ n = Len(q) /\ \A i \in 1..n : Len(q[i]) = 3
<1>1. aif_pool \in Seq(Aifs)
  BY DEF MetaInv
<1>2. n \in Nat \ {0} /\ DOMAIN aif_pool = 1..n /\ \A i \in 1..n : aif_pool[i] \in Aifs
  BY <1>1
<1>3. ASSUME NEW a \in Aifs PROVE OwnOf(a) \in Seq(Wholes) /\ Len(OwnOf(a)) = 3
  <2>1. sess_meta \in Wholes /\ sess_aif_meta[a] \in Wholes /\ dev_meta[a] \in Wholes
    BY HoldersWhole DEF Wholes, Whole
  <2> QED BY <2>1 DEF OwnOf
<1>4. q = [i \in 1..n |-> OwnOf(aif_pool[i])]
  BY <1>2 DEF OwnsOf
<1>5. \A i \in 1..n : q[i] \in Seq(Wholes) /\ Len(q[i]) = 3
  BY <1>2, <1>3, <1>4
<1>6. q \in [1..n -> Seq(Wholes)]
  BY <1>4, <1>5
<1> QED BY <1>2, <1>5, <1>6

LEMMA AllGift ==
  ASSUME MetaInv, "merge" \notin FailingMeta, session_get_merged_metadata
  PROVE  GiftPrecedes(gsl_given')
<1> DEFINE E(h, fails) == h = [i \in 0..Len(aif_pool) |->
             IF i = 0 THEN NoMeta
             ELSE metadata_merge(<<h[i - 1]>> \o <<sess_meta, sess_aif_meta[aif_pool[i]], dev_meta[aif_pool[i]]>>,
                                 aif_pool[i] \notin fails)]
<1>1. PICK n : n = Len(aif_pool)
  OBVIOUS
<1>2. PICK q : q = OwnsOf
  OBVIOUS
<1>3. aif_pool # <<>>
  BY DEF session_get_merged_metadata
<1>4. /\ n \in Nat \ {0} /\ q \in Seq(Seq(Wholes)) /\ n = Len(q) /\ \A i \in 1..n : Len(q[i]) = 3
  BY <1>1, <1>2, <1>3, OwnsAreLists
<1>5. PICK fails \in SUBSET (IF "merge" \in FailingMeta THEN Range(aif_pool) ELSE {}) :
        gsl_given' = [sources |-> FlattenSeq(OwnsOf), cal |-> <<>>,
                      merged |-> (CHOOSE h : E(h, fails))[Len(aif_pool)]]
  BY Zenon DEF session_get_merged_metadata, Give, OwnsOf, OwnOf
<1>6. fails = {}
  BY <1>5
<1>7. PICK temp : temp = CHOOSE h : E(h, fails)
  OBVIOUS
<1>8. ASSUME NEW h PROVE E(h, fails) <=> IsChain(h, q, n)
  <2>1. DOMAIN aif_pool = 1..n
    BY <1>1 DEF MetaInv
  <2>2. ASSUME NEW i \in 1..n
        PROVE  metadata_merge(<<h[i - 1]>> \o <<sess_meta, sess_aif_meta[aif_pool[i]], dev_meta[aif_pool[i]]>>,
                              aif_pool[i] \notin fails) = NextOf(h[i - 1], q[i])
    <3>1. q[i] = <<sess_meta, sess_aif_meta[aif_pool[i]], dev_meta[aif_pool[i]]>>
      BY <1>2, <2>1 DEF OwnsOf, OwnOf
    <3>2. (aif_pool[i] \notin fails) = TRUE
      BY <1>6
    <3> QED BY <3>1, <3>2, Zenon DEF NextOf
  <2>3. \A i \in 0..n : i # 0 => i \in 1..n
    BY <1>4
  <2> QED BY <1>1, <2>2, <2>3 DEF IsChain
<1> HIDE DEF E
<1>9. \E h : E(h, fails)
  BY <1>4, <1>8, ChainEnds
<1>10. IsChain(temp, q, n)
  <2>1. E(temp, fails)
    BY <1>7, <1>9, Zenon
  <2> QED BY <1>8, <2>1
<1>11. PICK sources : sources = FlattenSeq(q)
  OBVIOUS
<1>12. sources \in WholeLists /\ Whole(temp[n]) /\ MergedAs(temp[n].gkv.arr, Gkvs(sources))
  <2>1. PICK k \in Nat : k = 3
    OBVIOUS
  <2>2. 1 <= k /\ k <= 3 /\ \A i \in 1..n : Len(q[i]) = k
    BY <1>4, <2>1
  <2> QED BY <1>4, <1>10, <1>11, <2>2, ChainGathers
<1>13. Precedes(sources, temp[n].gkv.arr)
  BY <1>12, MergedPrecedes
<1>14. gsl_given'.sources = sources /\ gsl_given'.merged = temp[n]
  BY <1>1, <1>2, <1>5, <1>7, <1>11
<1> QED BY <1>13, <1>14, Zenon DEF GiftPrecedes

(* The merges without the devices, and then with the echo reference's.     *)
PairOf(a) == <<sess_meta, sess_aif_meta[a]>>

PairsOf == [i \in DOMAIN aif_pool |-> PairOf(aif_pool[i])]

LEMMA PairsAreLists ==
  ASSUME MetaInv, aif_pool # <<>>, NEW q, q = PairsOf, NEW n, n = Len(aif_pool)
  PROVE  /\ n \in Nat \ {0} /\ q \in Seq(Seq(Wholes)) /\ n = Len(q) /\ \A i \in 1..n : Len(q[i]) = 2
<1>1. aif_pool \in Seq(Aifs)
  BY DEF MetaInv
<1>2. n \in Nat \ {0} /\ DOMAIN aif_pool = 1..n /\ \A i \in 1..n : aif_pool[i] \in Aifs
  BY <1>1
<1>3. ASSUME NEW a \in Aifs PROVE PairOf(a) \in Seq(Wholes) /\ Len(PairOf(a)) = 2
  <2>1. sess_meta \in Wholes /\ sess_aif_meta[a] \in Wholes
    BY HoldersWhole DEF Wholes, Whole
  <2> QED BY <2>1 DEF PairOf
<1>4. q = [i \in 1..n |-> PairOf(aif_pool[i])]
  BY <1>2 DEF PairsOf
<1>5. \A i \in 1..n : q[i] \in Seq(Wholes) /\ Len(q[i]) = 2
  BY <1>2, <1>3, <1>4
<1>6. q \in [1..n -> Seq(Wholes)]
  BY <1>4, <1>5
<1> QED BY <1>2, <1>5, <1>6

LEMMA EchoGift ==
  ASSUME MetaInv, NEW ec \in Aifs, session_get_merged_metadata_without_aif(ec)
  PROVE  GiftPrecedes(gsl_given')
<1> DEFINE E(h) == h = [i \in 0..Len(aif_pool) |->
             IF i = 0 THEN NoMeta
             ELSE metadata_merge(<<h[i - 1]>> \o <<sess_meta, sess_aif_meta[aif_pool[i]]>>, TRUE)]
<1>1. PICK n : n = Len(aif_pool)
  OBVIOUS
<1>2. PICK q : q = PairsOf
  OBVIOUS
<1>3. aif_pool # <<>>
  BY DEF session_get_merged_metadata_without_aif
<1>4. /\ n \in Nat \ {0} /\ q \in Seq(Seq(Wholes)) /\ n = Len(q) /\ \A i \in 1..n : Len(q[i]) = 2
  BY <1>1, <1>2, <1>3, PairsAreLists
<1>5. gsl_given' = [sources |-> FlattenSeq(PairsOf) \o <<dev_meta[ec]>>, cal |-> <<>>,
                    merged |-> metadata_merge(<<(CHOOSE h : E(h))[Len(aif_pool)], dev_meta[ec]>>, TRUE)]
  BY Zenon DEF session_get_merged_metadata_without_aif, Give, PairsOf, PairOf
<1>6. PICK temp : temp = CHOOSE h : E(h)
  OBVIOUS
<1>7. ASSUME NEW h PROVE E(h) <=> IsChain(h, q, n)
  <2>1. DOMAIN aif_pool = 1..n
    BY <1>1 DEF MetaInv
  <2>2. ASSUME NEW i \in 1..n
        PROVE  metadata_merge(<<h[i - 1]>> \o <<sess_meta, sess_aif_meta[aif_pool[i]]>>, TRUE)
                 = NextOf(h[i - 1], q[i])
    <3>1. q[i] = <<sess_meta, sess_aif_meta[aif_pool[i]]>>
      BY <1>2, <2>1 DEF PairsOf, PairOf
    <3> QED BY <3>1, Zenon DEF NextOf
  <2>3. \A i \in 0..n : i # 0 => i \in 1..n
    BY <1>4
  <2> QED BY <1>1, <2>2, <2>3 DEF IsChain
<1> HIDE DEF E
<1>8. \E h : E(h)
  BY <1>4, <1>7, ChainEnds
<1>9. IsChain(temp, q, n)
  <2>1. E(temp)
    BY <1>6, <1>8, Zenon
  <2> QED BY <1>7, <2>1
<1>10. PICK old : old = FlattenSeq(q)
  OBVIOUS
<1>11. old \in WholeLists /\ Whole(temp[n]) /\ MergedAs(temp[n].gkv.arr, Gkvs(old))
  <2>1. PICK k \in Nat : k = 2
    OBVIOUS
  <2>2. 1 <= k /\ k <= 3 /\ \A i \in 1..n : Len(q[i]) = k
    BY <1>4, <2>1
  <2> QED BY <1>4, <1>9, <1>10, <2>2, ChainGathers
<1>12. PICK t, d : t = temp[n] /\ d = dev_meta[ec]
  OBVIOUS
<1>13. PICK p : p = <<d>>
  OBVIOUS
<1>14. PICK sources, args : sources = old \o p /\ args = <<t>> \o p
  OBVIOUS
<1>15. PICK r : r = metadata_merge(args, TRUE)
  OBVIOUS
<1>16. Whole(d)
  BY <1>12, HoldersWhole
<1>17. p \in WholeLists /\ Len(p) = 1
  <2>1. d \in Wholes
    BY <1>16 DEF Wholes, Whole
  <2> QED BY <1>13, <2>1 DEF WholeLists
<1>18. Gathered(t, old) /\ StartsWith(args, t, p) /\ IsMerge(r, args) /\ Joined(sources, old, p)
  BY <1>11, <1>12, <1>14, <1>15, Zenon DEF Gathered, StartsWith, IsMerge, Joined
<1>19. Whole(r) /\ MergedAs(r.gkv.arr, Gkvs(sources)) /\ sources \in WholeLists
  <2>1. PICK k \in Nat : k = 1
    OBVIOUS
  <2>2. 1 <= k /\ k <= 3 /\ k = Len(p)
    BY <1>17, <2>1
  <2> QED BY <1>11, <1>17, <1>18, <2>2, GatherStep
<1>20. Precedes(sources, r.gkv.arr)
  BY <1>19, MergedPrecedes
<1>21. args = <<t, d>>
  <2>1. PICK T, u, w : T = {t, d} /\ u = <<t>> /\ w = <<t, d>>
    OBVIOUS
  <2>2. /\ u \in Seq(T) /\ Len(u) = 1 /\ u[1] = t /\ p \in Seq(T) /\ Len(p) = 1 /\ p[1] = d
        /\ w \in Seq(T) /\ Len(w) = 2 /\ w[1] = t /\ w[2] = d
    BY <1>13, <2>1
  <2>3. args = u \o p
    BY <1>14, <2>1
  <2>4. args \in Seq(T) /\ Len(args) = 2 /\ args[1] = t /\ args[2] = d
    <3>1. /\ args \in Seq(T) /\ Len(args) = Len(u) + Len(p) /\ (\A i \in 1..Len(u) : args[i] = u[i])
          /\ \A i \in 1..Len(p) : args[Len(u) + i] = p[i]
      BY <2>2, <2>3, ConcatPlaces
    <3>2. 1 \in 1..Len(u) /\ 1 \in 1..Len(p) /\ Len(u) + 1 = 2
      BY <2>2
    <3> QED BY <2>2, <3>1, <3>2
  <2>5. \A i \in 1..2 : i = 1 \/ i = 2
    OBVIOUS
  <2>6. Len(args) = Len(w) /\ \A i \in 1..Len(args) : args[i] = w[i]
    BY <2>2, <2>4, <2>5
  <2> QED BY <2>1, <2>2, <2>4, <2>6, SeqEqual
<1>22. gsl_given'.sources = sources /\ gsl_given'.merged = r
  <2>1. r = metadata_merge(<<temp[n], dev_meta[ec]>>, TRUE)
    BY <1>12, <1>15, <1>21
  <2>2. gsl_given' = [sources |-> sources, cal |-> <<>>, merged |-> r]
    BY <1>1, <1>2, <1>5, <1>6, <1>10, <1>12, <1>13, <1>14, <2>1, Zenon
  <2> QED BY <2>2
<1> QED BY <1>20, <1>22, Zenon DEF GiftPrecedes

-----------------------------------------------------------------------------
LEMMA MetaStep ==
  ASSUME MetaInv, "gkv" \notin FailingMeta, [MetaNext]_mvars
  PROVE  MetaInv'
<1>1. ASSUME NEW m \in Metas, session_obj_set_sess_metadata_copy(m) PROVE MetaInv'
  BY <1>1, SetSessKeeps
<1>2. ASSUME NEW a \in Aifs, NEW m \in Metas, session_obj_set_sess_aif_metadata_copy(a, m) PROVE MetaInv'
  BY <1>2, SetSessAifKeeps
<1>3. ASSUME NEW a \in Aifs, NEW m \in Metas, device_set_metadata(a, m) PROVE MetaInv'
  BY <1>3, SetDeviceKeeps
<1>4. ASSUME NEW a \in Aifs, session_aif_merged_metadata(a) PROVE MetaInv'
  BY <1>4, AifGift
<1>5. ASSUME NEW a \in Aifs, session_get_merged_metadata_without_aif(a) PROVE MetaInv'
  BY <1>5, MergesKeep DEF session_get_merged_metadata_without_aif, MetaInv
<1>6. ASSUME NEW a \in Aifs, NEW cal \in Cals, session_obj_set_sess_aif_cal_merge(a, cal) PROVE MetaInv'
  BY <1>6, CalGift
<1>7. ASSUME session_get_merged_metadata PROVE MetaInv'
  BY <1>7, MergesKeep DEF session_get_merged_metadata, MetaInv
<1>8. CASE UNCHANGED mvars
  BY <1>8 DEF mvars, MetaInv
<1> QED BY <1>1, <1>2, <1>3, <1>4, <1>5, <1>6, <1>7, <1>8 DEF MetaNext

LEMMA SetsGiveNothing ==
  ASSUME NEW m \in Metas,
         \/ session_obj_set_sess_metadata_copy(m)
         \/ \E a \in Aifs : session_obj_set_sess_aif_metadata_copy(a, m) \/ device_set_metadata(a, m)
  PROVE  GiftPrecedes(gsl_given') /\ GiftCalibrated(gsl_given')
<1>1. gsl_given' = NoMeta
  BY Zenon DEF session_obj_set_sess_metadata_copy, session_obj_set_sess_aif_metadata_copy,
     device_set_metadata, SetOf
<1> QED BY <1>1 DEF GiftPrecedes, GiftCalibrated

LEMMA PrecedesStep ==
  ASSUME MetaInv, "merge" \notin FailingMeta, GiftPrecedes(gsl_given), [MetaNext]_mvars
  PROVE  GiftPrecedes(gsl_given')
<1>1. ASSUME NEW m \in Metas,
             \/ session_obj_set_sess_metadata_copy(m)
             \/ \E a \in Aifs : session_obj_set_sess_aif_metadata_copy(a, m) \/ device_set_metadata(a, m)
      PROVE  GiftPrecedes(gsl_given')
  BY <1>1, SetsGiveNothing
<1>2. ASSUME NEW a \in Aifs, session_aif_merged_metadata(a) PROVE GiftPrecedes(gsl_given')
  BY <1>2, AifGift
<1>3. ASSUME NEW a \in Aifs, session_get_merged_metadata_without_aif(a) PROVE GiftPrecedes(gsl_given')
  BY <1>3, EchoGift
<1>4. ASSUME NEW a \in Aifs, NEW cal \in Cals, session_obj_set_sess_aif_cal_merge(a, cal)
      PROVE  GiftPrecedes(gsl_given')
  BY <1>4, CalGift
<1>5. ASSUME session_get_merged_metadata PROVE GiftPrecedes(gsl_given')
  BY <1>5, AllGift
<1>6. CASE UNCHANGED mvars
  BY <1>6 DEF mvars
<1> QED BY <1>1, <1>2, <1>3, <1>4, <1>5, <1>6 DEF MetaNext

LEMMA CalibratedStep ==
  ASSUME MetaInv, GiftCalibrated(gsl_given), [MetaNext]_mvars
  PROVE  GiftCalibrated(gsl_given')
<1>1. ASSUME NEW m \in Metas,
             \/ session_obj_set_sess_metadata_copy(m)
             \/ \E a \in Aifs : session_obj_set_sess_aif_metadata_copy(a, m) \/ device_set_metadata(a, m)
      PROVE  GiftCalibrated(gsl_given')
  BY <1>1, SetsGiveNothing
<1>2. ASSUME NEW a \in Aifs, session_aif_merged_metadata(a) PROVE GiftCalibrated(gsl_given')
  BY <1>2, AifGift
<1>3. ASSUME NEW a \in Aifs, session_get_merged_metadata_without_aif(a) PROVE GiftCalibrated(gsl_given')
  <2>1. gsl_given'.cal = <<>>
    BY <1>3 DEF session_get_merged_metadata_without_aif, Give
  <2> QED BY <2>1 DEF GiftCalibrated, Calibrated
<1>4. ASSUME NEW a \in Aifs, NEW cal \in Cals, session_obj_set_sess_aif_cal_merge(a, cal)
      PROVE  GiftCalibrated(gsl_given')
  BY <1>4, CalGift
<1>5. ASSUME session_get_merged_metadata PROVE GiftCalibrated(gsl_given')
  <2>1. gsl_given'.cal = <<>>
    BY <1>5 DEF session_get_merged_metadata, Give
  <2> QED BY <2>1 DEF GiftCalibrated, Calibrated
<1>6. CASE UNCHANGED mvars
  BY <1>6 DEF mvars
<1> QED BY <1>1, <1>2, <1>3, <1>4, <1>5, <1>6 DEF MetaNext

(* What every holder has is what was last set and calibrated, or nothing,  *)
(* for every client's metadata, while the first allocation of              *)
(* metadata_copy does not fail.                                            *)
THEOREM HoldersHaveWhatWasSet ==
  ASSUME "gkv" \notin FailingMeta
  PROVE  MetaSpec => []MetadataWhole
<1>1. MetaInit => MetaInv
  BY MetaStarts
<1>2. MetaInv /\ [MetaNext]_mvars => MetaInv'
  BY MetaStep
<1>3. MetaInv => MetadataWhole
  BY HoldersMean
<1> QED BY <1>1, <1>2, <1>3, PTL DEF MetaSpec

(* GSL gets every graph key of the metadata once, with the value of the    *)
(* source that comes first, however many interfaces are merged, while no   *)
(* merge of metadata_merge fails.                                          *)
THEOREM FirstSourceWins ==
  ASSUME "gkv" \notin FailingMeta, "merge" \notin FailingMeta
  PROVE  MetaSpec => []MergePrecedence
<1>1. MetaInit => MetaInv /\ GiftPrecedes(gsl_given)
  BY MetaStarts DEF MetaInit, GiftPrecedes
<1>2. MetaInv /\ GiftPrecedes(gsl_given) /\ [MetaNext]_mvars => MetaInv' /\ GiftPrecedes(gsl_given)'
  BY MetaStep, PrecedesStep
<1>3. GiftPrecedes(gsl_given) => MergePrecedence
  BY GiftMeans
<1> QED BY <1>1, <1>2, <1>3, PTL DEF MetaSpec

(* A calibration that is set reaches GSL in every key that the session,    *)
(* the interface or the device brings in, whichever merges fail.           *)
THEOREM CalibrationReachesGsl ==
  ASSUME "gkv" \notin FailingMeta
  PROVE  MetaSpec => []CalReachesGraph
<1>1. MetaInit => MetaInv /\ GiftCalibrated(gsl_given)
  BY MetaStarts DEF MetaInit, GiftCalibrated
<1>2. MetaInv /\ GiftCalibrated(gsl_given) /\ [MetaNext]_mvars => MetaInv' /\ GiftCalibrated(gsl_given)'
  BY MetaStep, CalibratedStep
<1>3. GiftCalibrated(gsl_given) => CalReachesGraph
  BY GiftMeans
<1> QED BY <1>1, <1>2, <1>3, PTL DEF MetaSpec
=============================================================================
