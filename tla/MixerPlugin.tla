----------------------------- MODULE MixerPlugin -----------------------------
(***************************************************************************)
(* The tinyalsa mixer plugin (agm_mixer_plugin.c): the table of controls   *)
(* it builds from the back ends of the service and the PCM and compress    *)
(* nodes of the card, what each control asks of the service, and the       *)
(* events that the service's callback thread hands to the client's.        *)
(*                                                                         *)
(* The lists of events have no lock: appending to one and taking from it   *)
(* are single steps here.                                                  *)
(***************************************************************************)
EXTENDS Integers, Sequences, FiniteSets, SequencesExt, Lists

CONSTANTS
  CardSet,      \* [aifs, nodes]: the back ends, and the PCM and compress nodes
  MaxEvents,    \* bound on the events in flight
  MaxMixers,    \* bound on the opens
  FailingMixer  \* the external calls that may fail

(* The PCM and the compress nodes of a card are the sessions of the        *)
(* service, which knows them by their ids alone.                           *)
IsCard(k) ==
  /\ k.aifs \in Seq(ToSet(k.aifs)) /\ k.nodes \in Seq(ToSet(k.nodes))
  /\ \A i, j \in DOMAIN k.nodes : k.nodes[i].id = k.nodes[j].id => i = j

ASSUME MixerAssumption == \A k \in CardSet : IsCard(k)

VARIABLES
  card,         \* the card and the back ends the service lists
  amp,          \* the plugin: "null", "open", "closing" or "freed"
  be_devs,      \* [RX, TX]: amp_dev_info of the back ends
  pcm_devs,     \* [RX, TX]: amp_dev_info of the PCMs
  ctls,         \* the controls
  pcm_mtd_ctl,  \* [RX, TX]: the back end selected for each PCM
  get_param,    \* [RX, TX]: the cached request of getParam, from which PCM
  call,         \* the last call of the service by a control: what it asks, and why
  owns,         \* what was allocated and not given back
  registered,   \* sessions whose events call amp_event_cb
  subscribed,   \* whether the client subscribed
  params,       \* events_paramlist, the sessions of the events
  events,       \* events_list, the sessions of the events
  fetch,        \* the session whose event the client has read and not fetched, if any
  cb,           \* the callback that runs: its session and where it stands
  torn,         \* history: an unsubscription overtook a callback
  chosen,       \* [RX, TX], history: the back end named last by "control", per PCM
  mixers        \* opens so far

mvars == <<card, amp, be_devs, pcm_devs, ctls, pcm_mtd_ctl, get_param, call, owns, registered,
           subscribed, params, events, fetch, cb, torn, chosen, mixers>>

event_vars == <<registered, subscribed, params, events, fetch, cb, torn>>

Dirs == {"RX", "TX"}

ZERO == [name |-> "ZERO", idx |-> 0]

(* No request, and no call.                                                *)
Nothing == [op |-> "none"]

NoCall == [asks |-> Nothing]

Idle == [at |-> "idle"]

Attr(dir) == IF dir = "RX" THEN "playback" ELSE "capture"

-----------------------------------------------------------------------------
(* The names that a control offers, ZERO first: the back ends of a         *)
(* direction with their place in the list of the service.                  *)
BugOwnPlaces(aifs, dir) ==
  LET mine == Kept(aifs, {i \in DOMAIN aifs : aifs[i].dir = dir})
  IN <<ZERO>> \o [k \in DOMAIN mine |-> [name |-> mine[k].name, idx |-> k - 1]]

amp_copy_be_names_from_aif_list(aifs, dir) ==
  LET places == Kept([i \in DOMAIN aifs |-> i], {i \in DOMAIN aifs : aifs[i].dir = dir})
  IN <<ZERO>> \o [k \in DOMAIN places |-> [name |-> aifs[places[k]].name, idx |-> places[k] - 1]]

(* A node that lacks the attribute is taken to be like the node before it: *)
(* snd_card_def_get_int leaves the value alone.                            *)
Values(nodes, attr) ==
  [i \in DOMAIN nodes |->
     LET given == {j \in 1..i : attr \in DOMAIN nodes[j].props}
     IN IF given = {} THEN 0 ELSE nodes[Max(given)].props[attr]]

(* The slots that amp_get_pcm_info allocates besides ZERO's, and the ones  *)
(* that amp_create_pcm_info_from_card fills.                               *)
amp_get_pcm_info(nodes, dir) ==
  Cardinality({i \in DOMAIN nodes : Values(nodes, Attr(dir))[i] = 1})

amp_create_pcm_info_from_card(nodes, dir) ==
  LET val == Values(nodes, Attr(dir))
      used == Kept([i \in DOMAIN nodes |-> i], {i \in DOMAIN nodes : val[i] # 0})
  IN <<ZERO>> \o [k \in DOMAIN used |-> [name |-> nodes[used[k]].name, idx |-> nodes[used[k]].id]]

(* The controls, in the order in which they are created.                   *)
be_ctl_names == <<"rate ch fmt", "be metadata", "be setParam">>

pcm_ctl_names == <<"connect", "disconnect", "control", "metadata", "setParam", "setParamTag",
                   "getTaggedInfo", "event", "setCalibration", "getParam", "getBufInfo">>

pcm_tx_ctl_names == <<"loopback", "echoReference", "bufTimestamp">>

pcm_rx_ctl_names == <<"sidetone">>

(* A control of each of the names for each device of the list; "control"   *)
(* keeps the place of its PCM, the others keep its id.                     *)
Form(adi, names, dir) ==
  FlattenSeq([i \in 1..Len(adi) - 1 |->
    [n \in DOMAIN names |->
      [name |-> adi[i + 1].name, ext |-> names[n], dir |-> dir,
       pval |-> IF names[n] = "control" THEN i ELSE adi[i + 1].idx]]])

amp_form_be_ctls(be) ==
  Form(be["RX"], be_ctl_names, "RX") \o Form(be["TX"], be_ctl_names, "TX")

amp_form_pcm_ctls(pcm) ==
  Form(pcm["RX"], pcm_ctl_names, "RX") \o Form(pcm["RX"], pcm_rx_ctl_names, "RX")
    \o Form(pcm["TX"], pcm_ctl_names, "TX") \o Form(pcm["TX"], pcm_tx_ctl_names, "TX")

amp_get_be_ctl_count(be) ==
  (Len(be["RX"]) - 1) * Len(be_ctl_names) + (Len(be["TX"]) - 1) * Len(be_ctl_names)

amp_get_pcm_ctl_count(pcm) ==
  (Len(pcm["RX"]) - 1) * (Len(pcm_ctl_names) + Len(pcm_rx_ctl_names))
    + (Len(pcm["TX"]) - 1) * (Len(pcm_ctl_names) + Len(pcm_tx_ctl_names))

-----------------------------------------------------------------------------
(* What a control asks of the service when v is put to it, or when it is   *)
(* read.  The answer is passed on, an "already" of the service as success; *)
(* connect, loopback and echo reference report success always.             *)
Texts(c) ==
  CASE c.ext \in {"connect", "disconnect", "control"} -> be_devs[c.dir]
    [] c.ext = "echoReference" -> be_devs["RX"]
    [] c.ext = "loopback" -> pcm_devs["RX"]
    [] c.ext = "sidetone" -> be_devs["TX"]
    [] OTHER -> <<ZERO>>

amp_pcm_get_control_value(c) ==
  LET adi == pcm_devs[c.dir]
      found == {i \in 2..Len(adi) : adi[i].idx = c.pval}
  IN pcm_mtd_ctl[c.dir][(CHOOSE i \in found : \A j \in found : i <= j) - 1]

Selected(c) == be_devs[c.dir][amp_pcm_get_control_value(c) + 1].idx

OnSession(op, c) == [op |-> op, session |-> c.pval]

OnBackend(op, c, aif) == [op |-> op, session |-> c.pval, aif |-> aif]

amp_pcm_aif_connect_put(c, v) ==
  IF v = 0 THEN Nothing
  ELSE OnBackend(IF c.ext = "disconnect" THEN "aif_disconnect" ELSE "aif_connect", c,
                 be_devs[c.dir][v + 1].idx)

amp_pcm_metadata_put(c) ==
  IF amp_pcm_get_control_value(c) = 0 THEN OnSession("set_metadata", c)
  ELSE OnBackend("aif_set_metadata", c, Selected(c))

amp_pcm_set_param_put(c) ==
  IF amp_pcm_get_control_value(c) = 0
  THEN IF c.ext = "setParamTag" THEN Nothing ELSE OnSession("set_params", c)
  ELSE OnBackend(IF c.ext = "setParamTag" THEN "set_params_with_tag" ELSE "aif_set_params", c,
                 Selected(c))

(* Nothing selected means the first back end here, not the session.        *)
amp_pcm_calibration_put(c) == OnBackend("set_cal", c, Selected(c))

amp_pcm_tag_info_get(c) ==
  IF amp_pcm_get_control_value(c) = 0 THEN Nothing
  ELSE OnBackend("get_tag_module_info", c, Selected(c))

amp_pcm_loopback_put(c, v) ==
  [op |-> IF v = 0 THEN "loopback_off" ELSE "loopback_on", session |-> c.pval,
   playback |-> IF v = 0 THEN 0 ELSE pcm_devs["RX"][v + 1].idx]

amp_pcm_echoref_put(c, v) ==
  OnBackend(IF v = 0 THEN "ec_ref_off" ELSE "ec_ref_on", c, be_devs["RX"][v + 1].idx)

(* The controls of a back end carry its place in the list.                 *)
amp_be_put(c) == [op |-> c.ext, aif |-> c.pval]

CallOf(c, v) ==
  CASE c.ext \in {"rate ch fmt", "be metadata", "be setParam"} -> amp_be_put(c)
    [] c.ext \in {"connect", "disconnect"} -> amp_pcm_aif_connect_put(c, v)
    [] c.ext = "metadata" -> amp_pcm_metadata_put(c)
    [] c.ext \in {"setParam", "setParamTag"} -> amp_pcm_set_param_put(c)
    [] c.ext = "setCalibration" -> amp_pcm_calibration_put(c)
    [] c.ext = "getTaggedInfo" -> amp_pcm_tag_info_get(c)
    [] c.ext = "event" -> OnSession("register_for_events", c)
    [] c.ext = "getBufInfo" -> OnSession("get_buf_info", c)
    [] c.ext = "bufTimestamp" -> OnSession("get_buffer_timestamp", c)
    [] c.ext = "loopback" -> amp_pcm_loopback_put(c, v)
    [] c.ext = "echoReference" -> amp_pcm_echoref_put(c, v)
    [] OTHER -> Nothing

-----------------------------------------------------------------------------
MixerTypeOK ==
  /\ card \in CardSet
  /\ amp \in {"null", "open", "closing", "freed"}
  /\ \A d \in Dirs : \A i \in DOMAIN pcm_mtd_ctl[d] : pcm_mtd_ctl[d][i] \in 0..Len(be_devs[d]) - 1
  /\ owns \subseteq {"amp", "amp_priv", "card", "be_devs", "aif_list", "pcm_devs", "ctls"}
  /\ subscribed \in BOOLEAN /\ torn \in BOOLEAN
  /\ cb.at \in {"idle", "params", "queue"}

MixerInit ==
  /\ card \in CardSet
  /\ amp = "null"
  /\ be_devs = [d \in Dirs |-> <<ZERO>>] /\ pcm_devs = [d \in Dirs |-> <<ZERO>>]
  /\ ctls = <<>> /\ pcm_mtd_ctl = [d \in Dirs |-> <<>>]
  /\ get_param = [d \in Dirs |-> "null"] /\ call = NoCall
  /\ owns = {} /\ registered = {} /\ subscribed = FALSE
  /\ params = <<>> /\ events = <<>> /\ fetch = {} /\ cb = Idle
  /\ torn = FALSE /\ chosen = [d \in Dirs |-> <<>>] /\ mixers = 0

Ids(adi) == {adi[i].idx : i \in 2..Len(adi)}

Sessions(pcm) == UNION {Ids(pcm[d]) : d \in Dirs}

(* Open either builds everything and registers the callback for every PCM  *)
(* and compress session, or undoes what it did; only the list of back ends *)
(* is lost when it cannot be filled or its names cannot be allocated.      *)
agm_mixer_plugin_open ==
  /\ amp = "null" /\ mixers < MaxMixers
  /\ mixers' = mixers + 1
  /\ \/ /\ Len(card.aifs) > 0 /\ Len(card.nodes) > 0
        /\ be_devs' = [d \in Dirs |-> amp_copy_be_names_from_aif_list(card.aifs, d)]
        /\ pcm_devs' = [d \in Dirs |-> amp_create_pcm_info_from_card(card.nodes, d)]
        /\ ctls' = amp_form_be_ctls(be_devs') \o amp_form_pcm_ctls(pcm_devs')
        /\ pcm_mtd_ctl' = [d \in Dirs |-> [i \in 1..Len(pcm_devs'[d]) - 1 |-> 0]]
        /\ chosen' = [d \in Dirs |-> [c \in Ids(pcm_devs'[d]) |-> "ZERO"]]
        /\ amp' = "open"
        /\ owns' = owns \cup {"amp", "amp_priv", "card", "be_devs", "aif_list", "pcm_devs", "ctls"}
        /\ registered' = Sessions(pcm_devs')
     \/ /\ FailingMixer # {} \/ Len(card.aifs) = 0 \/ Len(card.nodes) = 0
        /\ owns' \in {owns, IF FailingMixer = {} \/ Len(card.aifs) = 0 THEN owns
                            ELSE owns \cup {"aif_list"}}
        /\ UNCHANGED <<be_devs, pcm_devs, ctls, pcm_mtd_ctl, chosen, amp, registered>>
  /\ get_param' = [d \in Dirs |-> "null"] /\ call' = NoCall
  /\ params' = <<>> /\ events' = <<>>
  /\ UNCHANGED <<card, subscribed, fetch, cb, torn>>

(* A control is put, or read.                                              *)
ControlPut ==
  /\ amp = "open"
  /\ \E i \in DOMAIN ctls :
       LET c == ctls[i] IN
       \E v \in 0..Len(Texts(c)) - 1 :
         /\ c.ext \notin {"control", "getParam"}
         /\ call' = [asks |-> CallOf(c, v), ctl |-> c, text |-> Texts(c)[v + 1].name]
  /\ UNCHANGED <<card, amp, be_devs, pcm_devs, ctls, pcm_mtd_ctl, get_param, owns, chosen,
                 mixers>>
  /\ UNCHANGED event_vars

amp_pcm_mtd_control_put ==
  /\ amp = "open"
  /\ \E i \in DOMAIN ctls :
       LET c == ctls[i] IN
       /\ c.ext = "control"
       /\ \E v \in 0..Len(Texts(c)) - 1 :
            /\ pcm_mtd_ctl' = [pcm_mtd_ctl EXCEPT ![c.dir][c.pval] = v]
            /\ chosen' = [chosen EXCEPT ![c.dir][pcm_devs[c.dir][c.pval + 1].idx] =
                                          Texts(c)[v + 1].name]
  /\ call' = NoCall
  /\ UNCHANGED <<card, amp, be_devs, pcm_devs, ctls, get_param, owns, mixers>>
  /\ UNCHANGED event_vars

(* The request of getParam waits in the cache of its direction until the   *)
(* value is read.                                                          *)
amp_pcm_get_param_put ==
  /\ amp = "open"
  /\ \E i \in DOMAIN ctls :
       /\ ctls[i].ext = "getParam"
       /\ get_param' = [get_param EXCEPT ![ctls[i].dir] = ctls[i].name]
  /\ call' = NoCall
  /\ UNCHANGED <<card, amp, be_devs, pcm_devs, ctls, pcm_mtd_ctl, owns, chosen, mixers>>
  /\ UNCHANGED event_vars

amp_pcm_get_param_get ==
  /\ amp = "open"
  /\ \E i \in DOMAIN ctls :
       LET c == ctls[i] IN
       /\ c.ext = "getParam" /\ get_param[c.dir] # "null"
       /\ call' = [asks |-> [op |-> "get_params", session |-> c.pval, asked |-> get_param[c.dir]],
                  ctl |-> c]
       /\ get_param' = [get_param EXCEPT ![c.dir] = "null"]
  /\ UNCHANGED <<card, amp, be_devs, pcm_devs, ctls, pcm_mtd_ctl, owns, chosen, mixers>>
  /\ UNCHANGED event_vars

ControlsNext ==
  \/ ControlPut \/ amp_pcm_mtd_control_put \/ amp_pcm_get_param_put \/ amp_pcm_get_param_get

-----------------------------------------------------------------------------
(* Events.  The service calls amp_event_cb under the lock of its callback  *)
(* pool, which registering and deregistering take too.                     *)
ctl_vars == <<card, be_devs, pcm_devs, ctls, pcm_mtd_ctl, get_param, call, chosen, mixers>>

BugQueueFirst ==
  /\ cb = Idle
  /\ \E s \in registered : cb' = [at |-> "params", session |-> s]
  /\ subscribed /\ Len(params) < MaxEvents /\ Len(events) < MaxEvents
  /\ events' = Append(events, cb'.session)
  /\ UNCHANGED ctl_vars /\ UNCHANGED <<amp, owns, registered, subscribed, params, fetch, torn>>

amp_event_cb ==
  /\ cb = Idle
  /\ \E s \in registered : cb' = [at |-> "params", session |-> s]
  /\ subscribed /\ Len(params) < MaxEvents /\ Len(events) < MaxEvents
  /\ UNCHANGED ctl_vars
  /\ UNCHANGED <<amp, owns, registered, subscribed, params, events, fetch, torn>>

(* The parameters go first, so that the client finds them.                 *)
amp_add_event_params ==
  /\ cb.at = "params"
  /\ params' = Append(params, cb.session)
  /\ cb' = [cb EXCEPT !.at = "queue"]
  /\ UNCHANGED ctl_vars
  /\ UNCHANGED <<amp, owns, registered, subscribed, events, fetch, torn>>

amp_event_cb_queues ==
  /\ cb.at = "queue"
  /\ \/ events' = Append(events, cb.session)
     \/ "calloc" \in FailingMixer /\ UNCHANGED events
  /\ cb' = Idle
  /\ UNCHANGED ctl_vars
  /\ UNCHANGED <<amp, owns, registered, subscribed, params, fetch, torn>>

(* Unsubscribing clears both lists; a callback in between keeps its place. *)
amp_subscribe_events ==
  /\ amp = "open"
  /\ subscribed' = ~subscribed
  /\ IF subscribed
     THEN /\ params' = <<>> /\ events' = <<>>
          /\ torn' = (torn \/ cb.at = "queue") /\ fetch' = {}
     ELSE UNCHANGED <<params, events, fetch, torn>>
  /\ UNCHANGED ctl_vars /\ UNCHANGED <<amp, owns, registered, cb>>

(* The client reads that a session has an event, and then fetches the      *)
(* parameters of its oldest one.                                           *)
amp_read_event ==
  /\ amp = "open" /\ events # <<>> /\ fetch = {}
  /\ fetch' = {Head(events)} /\ events' = Tail(events)
  /\ UNCHANGED ctl_vars /\ UNCHANGED <<amp, owns, registered, subscribed, params, cb, torn>>

amp_pcm_event_get ==
  /\ amp = "open"
  /\ \E s \in fetch : params' = RemoveFirst(params, s)
  /\ fetch' = {}
  /\ UNCHANGED ctl_vars /\ UNCHANGED <<amp, owns, registered, subscribed, events, cb, torn>>

-----------------------------------------------------------------------------
(* Close deregisters the callback of one session after the other, each     *)
(* when no callback runs, then clears the lists and frees everything.      *)
amp_close ==
  /\ amp = "open" /\ amp' = "closing"
  /\ UNCHANGED ctl_vars /\ UNCHANGED owns /\ UNCHANGED event_vars

BugDeregisterLate ==
  /\ amp = "closing" /\ registered # {}
  /\ registered' = {}
  /\ UNCHANGED ctl_vars
  /\ UNCHANGED <<amp, owns, subscribed, params, events, fetch, cb, torn>>

amp_register_event_callback ==
  /\ amp = "closing" /\ cb = Idle
  /\ \E s \in registered : registered' = registered \ {s}
  /\ UNCHANGED ctl_vars
  /\ UNCHANGED <<amp, owns, subscribed, params, events, fetch, cb, torn>>

amp_close_frees ==
  /\ amp = "closing" /\ registered = {}
  /\ amp' = "freed"
  /\ owns' = {}
  /\ params' = <<>> /\ events' = <<>>
  /\ UNCHANGED ctl_vars /\ UNCHANGED <<registered, subscribed, fetch, cb, torn>>

EventsNext ==
  \/ amp_event_cb \/ amp_add_event_params \/ amp_event_cb_queues
  \/ amp_subscribe_events \/ amp_read_event \/ amp_pcm_event_get

CloseNext == amp_close \/ amp_register_event_callback \/ amp_close_frees

MixerNext == agm_mixer_plugin_open \/ ControlsNext \/ EventsNext \/ CloseNext

MixerSpec == MixerInit /\ [][MixerNext]_mvars

-----------------------------------------------------------------------------
(* The table of controls is allocated for the counts that amp_get_*_count  *)
(* compute before the controls are formed, and the arrays of names for the *)
(* nodes whose attribute is 1: both are filled exactly, never past their   *)
(* end, and the PCM controls start where those of the back ends stop.      *)
TablesFit ==
  amp = "open" =>
    /\ Len(amp_form_be_ctls(be_devs)) = amp_get_be_ctl_count(be_devs)
    /\ Len(amp_form_pcm_ctls(pcm_devs)) = amp_get_pcm_ctl_count(pcm_devs)
    /\ \A d \in Dirs : Len(pcm_devs[d]) = amp_get_pcm_info(card.nodes, d) + 1

NodeOf(id) == CHOOSE n \in ToSet(card.nodes) : n.id = id

AifOf(i) == card.aifs[i + 1]

(* What a control asks of the service is about the PCM in its name, and    *)
(* about the back end, or the playback PCM, that its value or the          *)
(* "control" of that PCM names, through all the tables in between; only a  *)
(* calibration with nothing selected goes to the first back end.           *)
CallsReachNamed ==
  call.asks.op # "none" =>
    LET c == call.ctl
        a == call.asks
    IN
    /\ "session" \in DOMAIN a => NodeOf(a.session).name = c.name
    /\ c.ext \in {"connect", "disconnect"} \/ a.op = "ec_ref_on" =>
         AifOf(a.aif).name = call.text
    /\ a.op = "loopback_on" => NodeOf(a.playback).name = call.text
    /\ c.ext \in {"rate ch fmt", "be metadata", "be setParam"} => AifOf(a.aif).name = c.name
    /\ \/ a.op \in {"aif_set_metadata", "aif_set_params", "set_params_with_tag",
                    "get_tag_module_info"}
       \/ a.op = "set_cal" /\ chosen[c.dir][a.session] # "ZERO" =>
         AifOf(a.aif).name = chosen[c.dir][a.session] /\ AifOf(a.aif).dir = c.dir
    /\ a.op \in {"set_metadata", "set_params"} => chosen[c.dir][a.session] = "ZERO"

(* The callback of the service never runs on a plugin that is freed:       *)
(* amp_close waits for each deregistration before it frees.                *)
CallbackSeesLivePlugin == cb.at # "idle" => amp # "freed"

Count(q, s) == Cardinality({i \in DOMAIN q : q[i] = s})

(* Behind each event that the client reads are the parameters that it then *)
(* fetches, unless an unsubscription overtook the callback between its two *)
(* appends.                                                                *)
ParamsBehindEvent ==
  torn \/ \A s \in registered :
    Count(events, s) + (IF s \in fetch THEN 1 ELSE 0) <= Count(params, s)

(* A plugin that was closed, or could not be opened, leaves no callback    *)
(* registered and nothing allocated but, after a failed open, the list of  *)
(* back ends.                                                              *)
ClosedMixerHoldsNothing ==
  /\ amp = "null" => owns \subseteq {"aif_list"} /\ registered = {}
  /\ amp = "freed" => owns = {} /\ registered = {} /\ params = <<>> /\ events = <<>>
=============================================================================
