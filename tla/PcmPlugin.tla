------------------------------ MODULE PcmPlugin ------------------------------
(***************************************************************************)
(* The tinyalsa PCM plugin (agm_pcm_plugin.c): what it holds from open to  *)
(* close, and how it follows, for a stream that is mapped without          *)
(* interrupts, the position that the DSP publishes in shared memory.       *)
(*                                                                         *)
(* The operations of the plugin run in the thread of its client, the DSP   *)
(* beside it.  Frames are counted from the start of the stream; truth and  *)
(* gap are history variables that no operation reads.                      *)
(***************************************************************************)
EXTENDS Integers, FiniteSets

CONSTANTS
  Modes,        \* the modes of a stream that clients open
  HwParams,     \* [format, channels, period, periods] that clients ask for
  MaxFrames,    \* 0x7fffffff of the source: where positions must wrap
  MaxOpens,     \* bound on the opens
  FailingPcm    \* the external calls that may fail

(* A stream has one direction; a buffer is a small part of what the        *)
(* pointers count, the boundary is then at least four of them.             *)
ASSUME PcmAssumption ==
  /\ MaxFrames \in Nat /\ MaxOpens \in Nat
  /\ \A m \in Modes : ~({"in", "out"} \subseteq m)
  /\ \A p \in HwParams : /\ {p.period, p.periods, p.channels} \subseteq Nat \ {0}
                         /\ 5 * (p.period * p.periods) <= MaxFrames

VARIABLES
  plugin,    \* "null", "open", "configured", "mapped" or "unmapped"
  mode,      \* the flags of the stream: in, out, mmap and noirq
  hw,        \* the parameters of hw_params
  session,   \* the AGM session: "closed", "open", "prepared" or "started"
  held,      \* what was allocated or opened and not given back
  pos,       \* pos_buf: hw_ptr, hw_ptr_base, appl_ptr and boundary
  index,     \* read_index of the shared position buffer, in bytes
  poll,      \* the poll: "no", "sleep", "ready" or "timeout"
  truth,     \* frames the DSP is ahead of hw_ptr
  gap,       \* frames the client is ahead of hw_ptr, negative when it is behind
  opens      \* opens so far

pvars == <<plugin, mode, hw, session, held, pos, index, poll, truth, gap, opens>>

NoPos == [hw_ptr |-> 0, hw_ptr_base |-> 0, appl_ptr |-> 0, boundary |-> 0]

Outcome(c) == IF c \in FailingPcm THEN BOOLEAN ELSE {TRUE}

Has(flag) == flag \in mode

-----------------------------------------------------------------------------
(* Sizes of samples and frames.                                            *)
agm_format_to_bits(format) ==
  CASE format \in {"S32_LE", "S24_LE"} -> 32
    [] format = "S24_3LE" -> 24
    [] OTHER -> 16

agm_pcm_frames_to_bytes(p, frames) == frames * p.channels * (agm_format_to_bits(p.format) \div 8)

agm_pcm_bytes_to_frames(bytes, p) == (bytes * 8) \div (p.channels * agm_format_to_bits(p.format))

period_size == hw.period

total_size_frames == hw.period * hw.periods

(* The largest doubling of the buffer that leaves room for one more.       *)
Boundary(total) ==
  LET double[b \in total..MaxFrames] ==
        IF b * 2 <= MaxFrames - total THEN double[b * 2] ELSE b
  IN double[total]

(* The available frames: those that the client may write, or may read.     *)
(* The test of PCM_OUT sees a playback only if that flag is a bit.         *)
agm_pcm_get_avail(p, total) ==
  LET wrap(a) == IF a < 0 THEN a + p.boundary ELSE a
      space == p.hw_ptr + total - p.appl_ptr
  IN IF Has("out") THEN IF space >= p.boundary THEN space - p.boundary ELSE wrap(space)
     ELSE IF Has("in") THEN wrap(p.hw_ptr - p.appl_ptr)
     ELSE 0

(* A wrapped position counts as a whole buffer more, or restarts at the    *)
(* boundary.                                                               *)
BugBaseKept(p, bytes, total) ==
  [p EXCEPT !.hw_ptr = p.hw_ptr_base
       + ((agm_pcm_bytes_to_frames(bytes, hw) \div period_size) * period_size)]

agm_pcm_plugin_update_hw_ptr(p, bytes, total) ==
  LET at == (agm_pcm_bytes_to_frames(bytes, hw) \div period_size) * period_size
      next == p.hw_ptr_base + total
      base == IF p.hw_ptr_base + at >= p.hw_ptr THEN p.hw_ptr_base
              ELSE IF next >= p.boundary THEN 0 ELSE next
  IN [p EXCEPT !.hw_ptr_base = base, !.hw_ptr = base + at]

-----------------------------------------------------------------------------
(* What open needs, and what a stream holds: the two parts that mmap       *)
(* allocates besides.                                                      *)
OpenParts == {"plugin", "priv", "media_config", "buffer_config", "session_config", "card",
              "pcm_node", "session"}

FreedByClose == {"plugin", "priv", "media_config", "buffer_config", "session_config", "card"}

Parts == FreedByClose \cup {"session", "buf_info", "pos_buf"}

PcmTypeOK ==
  /\ plugin \in {"null", "open", "configured", "mapped", "unmapped"}
  /\ mode \in Modes
  /\ hw \in HwParams
  /\ session \in {"closed", "open", "prepared", "started"}
  /\ held \subseteq Parts
  /\ pos.boundary > 0 => {pos.hw_ptr, pos.appl_ptr} \subseteq 0..pos.boundary - 1
  /\ poll \in {"no", "sleep", "ready", "timeout"}

PcmInit ==
  /\ plugin = "null"
  /\ mode \in Modes /\ hw \in HwParams
  /\ session = "closed"
  /\ held = {} /\ pos = NoPos /\ index = 0 /\ poll = "no"
  /\ truth = 0 /\ gap = 0 /\ opens = 0

(* Open undoes what it has allocated when a later part fails, as it does   *)
(* when the session is still open.  What mmap allocated for an earlier     *)
(* stream is out of reach by then.                                         *)
agm_pcm_plugin_open ==
  /\ plugin = "null" /\ opens < MaxOpens
  /\ opens' = opens + 1
  /\ \/ /\ session = "closed"
        /\ plugin' = "open" /\ session' = "open" /\ held' = FreedByClose \cup {"session"}
     \/ /\ session # "closed" \/ OpenParts \cap FailingPcm # {}
        /\ UNCHANGED <<plugin, session, held>>
  /\ poll' = "no" /\ pos' = NoPos /\ truth' = 0 /\ gap' = 0 /\ index' = 0
  /\ UNCHANGED <<mode, hw>>

(* Close frees the plugin even when the session cannot be closed, and      *)
(* keeps the buffer information, and the positions of a mapped stream.     *)
agm_pcm_close ==
  /\ plugin # "null" /\ poll # "sleep"
  /\ \E ok \in Outcome("session_close") :
       /\ session' = IF ok THEN "closed" ELSE session
       /\ held' = (held \ FreedByClose) \ (IF ok THEN {"session"} ELSE {})
  /\ plugin' = "null" /\ poll' = "no"
  /\ UNCHANGED <<mode, hw, pos, index, truth, gap, opens>>

(* tinyalsa configures a stream once, before it maps it.                   *)
agm_pcm_hw_params ==
  /\ plugin = "open"
  /\ hw' \in HwParams
  /\ \E ok \in Outcome("set_config") : plugin' = IF ok THEN "configured" ELSE plugin
  /\ UNCHANGED <<mode, session, held, pos, index, poll, truth, gap, opens>>

(* Only passes the thresholds on, as ttstamp only checks the handle.       *)
agm_pcm_sw_params == plugin \in {"configured", "mapped"} /\ UNCHANGED pvars

agm_pcm_ttstamp == plugin # "null" /\ UNCHANGED pvars

agm_pcm_prepare ==
  /\ plugin \in {"configured", "mapped"} /\ session # "closed" /\ poll # "sleep"
  /\ \E ok \in Outcome("prepare") :
       session' = IF ok /\ session = "open" THEN "prepared" ELSE session
  /\ UNCHANGED <<plugin, mode, hw, held, pos, index, poll, truth, gap, opens>>

agm_pcm_start ==
  /\ plugin \in {"configured", "mapped"} /\ session \in {"open", "prepared"} /\ poll # "sleep"
  /\ \E ok \in Outcome("start") : session' = IF ok THEN "started" ELSE session
  /\ UNCHANGED <<plugin, mode, hw, held, pos, index, poll, truth, gap, opens>>

agm_pcm_drop ==
  /\ plugin \in {"configured", "mapped"} /\ session = "started" /\ poll # "sleep"
  /\ \E ok \in Outcome("stop") : session' = IF ok THEN "open" ELSE session
  /\ UNCHANGED <<plugin, mode, hw, held, pos, index, poll, truth, gap, opens>>

(* The transfers of streams that are not mapped go to the session.         *)
agm_pcm_writei_frames == plugin = "configured" /\ ~Has("in") /\ UNCHANGED pvars

agm_pcm_readi_frames == plugin = "configured" /\ Has("in") /\ UNCHANGED pvars

(* What mmap has allocated stays when a later part of it fails.            *)
agm_pcm_mmap ==
  /\ plugin = "configured" /\ Has("mmap") /\ session # "closed"
  /\ \E info \in IF "buf_info" \in held THEN {TRUE} ELSE Outcome("buf_info"),
        data \in Outcome("mmap") :
       /\ plugin' = IF info /\ data THEN "mapped" ELSE plugin
       /\ held' = held \cup (IF info THEN {"buf_info"} ELSE {})
                       \cup (IF info /\ Has("noirq") THEN {"pos_buf"} ELSE {})
       /\ pos' = IF info /\ Has("noirq") /\ pos.boundary = 0
                 THEN [NoPos EXCEPT !.boundary = Boundary(total_size_frames)]
                 ELSE pos
  /\ UNCHANGED <<mode, hw, session, index, poll, truth, gap, opens>>

agm_pcm_munmap ==
  /\ plugin = "mapped" /\ poll # "sleep"
  /\ plugin' = "unmapped"
  /\ held' = IF Has("noirq") THEN held \ {"pos_buf"} ELSE held
  /\ pos' = NoPos /\ poll' = "no"
  /\ UNCHANGED <<mode, hw, session, index, truth, gap, opens>>

-----------------------------------------------------------------------------
(* The position of a mapped stream.                                        *)
Tracked == plugin = "mapped" /\ Has("noirq")

(* The frames that a client may transfer, from the true positions.         *)
TrueAvail == IF Has("in") THEN 0 - gap ELSE total_size_frames - gap

(* External: the DSP moves by a frame.  A client looks at the position     *)
(* before the DSP has gone round the buffer, counted from the start of the *)
(* period it last saw, and stops the stream before it is two buffers late. *)
DspStep ==
  /\ Tracked /\ session = "started"
  /\ truth + 1 < total_size_frames
  /\ TrueAvail + truth + 1 <= 2 * total_size_frames
  /\ truth' = truth + 1
  /\ index' = (index + agm_pcm_frames_to_bytes(hw, 1))
                % agm_pcm_frames_to_bytes(hw, total_size_frames)
  /\ UNCHANGED <<plugin, mode, hw, session, held, pos, poll, gap, opens>>

(* One look at the shared buffer: the position is taken over, or the DSP   *)
(* changed its frame counter during each of the retries.                   *)
agm_pcm_plugin_get_shared_pos(ok) ==
  IF ok
  THEN LET left == agm_pcm_bytes_to_frames(index, hw) % period_size
       IN /\ pos' = agm_pcm_plugin_update_hw_ptr(pos, index, total_size_frames)
          /\ gap' = gap - (truth - left)
          /\ truth' = left
  ELSE UNCHANGED <<pos, gap, truth>>

(* The client reads back the pointers, after it has asked for the hardware *)
(* pointer or not; or it moves its own by what it transferred.             *)
agm_pcm_sync_ptr ==
  /\ Tracked /\ poll # "sleep"
  /\ \/ \E ok \in Outcome("shared_pos") : agm_pcm_plugin_get_shared_pos(ok)
     \/ \E n \in 1..agm_pcm_get_avail(pos, total_size_frames) :
          /\ pos' = [pos EXCEPT !.appl_ptr = (@ + n) % pos.boundary]
          /\ gap' = gap + n
          /\ UNCHANGED truth
  /\ poll' = "no"
  /\ UNCHANGED <<plugin, mode, hw, session, held, index, opens>>

(* Poll sleeps for its timeout when less than a period is available, and   *)
(* then looks once.                                                        *)
agm_pcm_poll ==
  /\ Tracked /\ poll # "sleep"
  /\ poll' = IF agm_pcm_get_avail(pos, total_size_frames) >= period_size
             THEN "ready" ELSE "sleep"
  /\ UNCHANGED <<plugin, mode, hw, session, held, pos, index, truth, gap, opens>>

agm_pcm_poll_wakes ==
  /\ poll = "sleep"
  /\ \E ok \in Outcome("shared_pos") : agm_pcm_plugin_get_shared_pos(ok)
  /\ poll' = IF agm_pcm_get_avail(pos', total_size_frames) >= period_size
             THEN "ready" ELSE "timeout"
  /\ UNCHANGED <<plugin, mode, hw, session, held, index, opens>>

PcmNext ==
  \/ agm_pcm_plugin_open \/ agm_pcm_close \/ agm_pcm_hw_params
  \/ agm_pcm_sw_params \/ agm_pcm_ttstamp
  \/ agm_pcm_prepare \/ agm_pcm_start \/ agm_pcm_drop
  \/ agm_pcm_writei_frames \/ agm_pcm_readi_frames
  \/ agm_pcm_mmap \/ agm_pcm_munmap
  \/ DspStep \/ agm_pcm_sync_ptr \/ agm_pcm_poll \/ agm_pcm_poll_wakes

PcmSpec == PcmInit /\ [][PcmNext]_pvars

-----------------------------------------------------------------------------
(* agm_pcm_get_avail is exact whatever the two pointers have wrapped to:   *)
(* what the client was told it may transfer is what the DSP has really     *)
(* consumed or produced, in whole periods.  Of a playback this needs a     *)
(* PCM_OUT that is a bit.                                                  *)
AvailTracksDsp ==
  Tracked /\ mode \cap {"in", "out"} # {} =>
    agm_pcm_get_avail(pos, total_size_frames) = TrueAvail

(* A poll that times out saw no period: none was there when it last read   *)
(* the position.  (This is false for a playback whose PCM_OUT is zero.)    *)
TimeoutMeansEmpty ==
  poll = "timeout" /\ mode \cap {"in", "out"} # {} => TrueAvail < period_size

(* A plugin that is closed, or that could not be opened, has given back    *)
(* everything but the buffer information of a mapped stream, and the       *)
(* session if that could not be closed.                                    *)
ClosedPcmHoldsNothing ==
  plugin = "null" =>
    held \subseteq {"buf_info", "pos_buf"} \cup (IF session = "closed" THEN {} ELSE {"session"})
=============================================================================
