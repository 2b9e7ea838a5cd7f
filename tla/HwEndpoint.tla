------------------------------ MODULE HwEndpoint ------------------------------
(***************************************************************************)
(* service/src/device_hw_ep.c: the name of a PCM device of the sound card  *)
(* says which hardware endpoint it is.  A name is the sequence of its      *)
(* fields, the words between the dashes.                                   *)
(***************************************************************************)
EXTENDS Naturals, Sequences

Invalid == [intf |-> "invalid"]

(* sscanf(value, "%20[^-]-%60s", arg, value): arg is the first field and   *)
(* value the rest; a value of one field stays, and is read again next.     *)
(* Nothing is assigned from an empty value: arg keeps what it had.         *)
Arg(value, arg) == IF value = <<>> THEN arg ELSE Head(value)

Rest(value) == IF Len(value) > 1 THEN Tail(value) ELSE value

populate_hw_ep_intf(arg) ==
  CASE arg = "SLIM" -> "SLIMBUS"
    [] arg \in {"DISPLAY_PORT", "USB_AUDIO", "CODEC_DMA", "MI2S", "TDM", "AUXPCM",
                "PCM_RT_PROXY"} -> arg
    [] OTHER -> "invalid"

populate_hw_ep_direction(arg) ==
  CASE arg = "RX" -> "AUDIO_OUTPUT"
    [] arg = "TX" -> "AUDIO_INPUT"
    [] OTHER -> "invalid"

populate_hw_ep_intf_idx(intf, arg) ==
  IF intf = "CODEC_DMA"
  THEN CASE arg = "0" -> 1 [] arg = "1" -> 2 [] arg = "2" -> 3 [] arg = "3" -> 4
         [] arg = "4" -> 5 [] OTHER -> 0
  ELSE CASE arg = "PRIMARY" -> 1 [] arg = "SECONDARY" -> 2 [] arg = "TERTIARY" -> 3
         [] arg = "QUATERNARY" -> 4 [] arg = "QUINARY" -> 5 [] OTHER -> 0

(* atoi of a field: the number it spells, 0 for a word.                    *)
atoi(arg) == IF arg = "1" THEN 1 ELSE IF arg = "2" THEN 2 ELSE 0

populate_pcm_rt_proxy_ep_info(value) ==
  LET a1 == Arg(value, "")
      dir == populate_hw_ep_direction(a1)
      dev_id == atoi(Arg(Rest(value), a1))
  IN IF dir = "invalid" THEN Invalid
     ELSE [intf |-> "PCM_RT_PROXY", dir |-> dir, id |-> dev_id]

populate_slim_dp_usb_ep_info(intf, value) ==
  LET a1 == Arg(value, "")
      slim == intf = "SLIMBUS"
      dir == populate_hw_ep_direction(IF slim THEN Arg(Rest(value), a1) ELSE a1)
  IN IF dir = "invalid" \/ (slim /\ a1 \notin {"DEV1", "DEV2"}) THEN Invalid
     ELSE [intf |-> intf, dir |-> dir, id |-> IF slim /\ a1 = "DEV2" THEN 1 ELSE 0]

LpaifTypes == {"LPAIF", "LPAIF_RXTX", "LPAIF_WSA", "LPAIF_VA", "LPAIF_AXI"}

populate_cdc_dma_i2s_tdm_pcm_ep_info(intf, value) ==
  LET a1 == Arg(value, "")
      a2 == Arg(Rest(value), a1)
      a3 == Arg(Rest(Rest(value)), a2)
      dir == populate_hw_ep_direction(a2)
      idx == populate_hw_ep_intf_idx(intf, a3)
  IN IF a1 \notin LpaifTypes \/ dir = "invalid" \/ idx = 0 THEN Invalid
     ELSE [intf |-> intf, dir |-> dir, lpaif |-> a1, id |-> idx]

(* The name's first field chooses how the others are read; without a dash  *)
(* there are no others.                                                    *)
populate_device_hw_ep_info(name) ==
  LET intf == populate_hw_ep_intf(Head(name))
      value == Tail(name)
  IN CASE intf \in {"CODEC_DMA", "MI2S", "TDM", "AUXPCM"} ->
            populate_cdc_dma_i2s_tdm_pcm_ep_info(intf, value)
       [] intf \in {"SLIMBUS", "DISPLAY_PORT", "USB_AUDIO"} ->
            populate_slim_dp_usb_ep_info(intf, value)
       [] intf = "PCM_RT_PROXY" -> populate_pcm_rt_proxy_ep_info(value)
       [] OTHER -> Invalid
=============================================================================
