------------------------------ MODULE MCPlugins ------------------------------
(***************************************************************************)
(* The tinyalsa plugins and the card definitions they share: one run       *)
(* explores each by itself, part says which.                               *)
(***************************************************************************)
EXTENDS PcmPlugin, MixerPlugin, SndCardParser

VARIABLE part

(* Mapped streams without interrupts, a playback with and without a        *)
(* PCM_OUT that is a bit, and streams that are read and written.           *)
StreamModes ==
  {{"in", "mmap", "noirq"}, {"out", "mmap", "noirq"}, {"mmap", "noirq"}, {"in"}, {"out"}}

StreamParams ==
  {[format |-> "S16_LE", channels |-> 2, period |-> 2, periods |-> 2],
   [format |-> "S24_3LE", channels |-> 1, period |-> 1, periods |-> 3]}

Aif(name, dir) == [name |-> name, dir |-> dir]

Node(name, id, props) == [name |-> name, id |-> id, props |-> props]

(* Back ends whose directions alternate, nodes of both directions, nodes   *)
(* that lack an attribute, and a card for which there is no back end.      *)
MixerCards ==
  {[aifs |-> <<Aif("B1", "TX"), Aif("B2", "RX"), Aif("B3", "RX")>>,
    nodes |-> <<Node("P1", 101, [playback |-> 1, capture |-> 0]),
                Node("P2", 102, [playback |-> 0, capture |-> 1]),
                Node("C3", 103, [playback |-> 1, capture |-> 0])>>],
   [aifs |-> <<Aif("B1", "TX")>>,
    nodes |-> <<Node("P1", 101, [capture |-> 1]), Node("P2", 102, [capture |-> 1])>>],
   [aifs |-> <<>>, nodes |-> <<Node("P1", 101, [capture |-> 1])>>]}

Dev(tag, id, name, so_name, props) ==
  [tag |-> tag, id |-> id, name |-> name, so_name |-> so_name, props |-> props]

Devs ==
  {Dev("pcm-device", 100, "PCM100", "pcm.so", <<<<"playback", <<1>>>>, <<"capture", <<0>>>>>>),
   Dev("pcm-device", 101, "PCM101", "null", <<<<"playback", <<0>>>>, <<"hostless", Empty>>>>),
   Dev("compress-device", 100, "CMP100", "null", <<>>),
   Dev("mixer", 1, "mixer", "mix.so", <<>>)}

(* A card whose number is that of a device, before or after another.       *)
CardFiles ==
  UNION {{<<[id |-> 100, names |-> <<"a", "ab">>, devs |-> d1],
            [id |-> 1, names |-> <<"c">>, devs |-> d2]>>,
          <<[id |-> 1, names |-> <<"c">>, devs |-> d2],
            [id |-> 100, names |-> <<"a", "ab">>, devs |-> d1]>>} :
         d1 \in {<<>>} \cup {<<d>> : d \in Devs}, d2 \in {<<>>} \cup {<<d, e>> : d, e \in Devs}}

CardKeys == {[id |-> 1], [id |-> 100], [name |-> "ab"], [name |-> "d"]}

NamePrefixes == {<<n, n>> : n \in {"a", "ab", "c", "d"}} \cup {<<"a", "ab">>}

PluginsInit ==
  /\ part \in {"pcm", "controls", "events", "cards"}
  /\ PcmInit /\ MixerInit /\ CardsInit
  /\ part # "pcm" => mode = {"in"} /\ hw.period = 1
  /\ part \notin {"controls", "events"} => card.aifs = <<>>
  /\ part # "cards" => doc = CHOOSE d \in CardFiles : TRUE

PluginsNext ==
  \/ part = "pcm" /\ PcmNext /\ UNCHANGED <<mvars, cvars, part>>
  \/ /\ part \in {"controls", "events"} /\ agm_mixer_plugin_open
     /\ UNCHANGED <<pvars, cvars, part>>
  \/ part = "controls" /\ ControlsNext /\ UNCHANGED <<pvars, cvars, part>>
  \/ part = "events" /\ EventsNext /\ UNCHANGED <<pvars, cvars, part>>
  \/ part = "events" /\ CloseNext /\ UNCHANGED <<pvars, cvars, part>>
  \/ part = "cards" /\ CardsNext /\ UNCHANGED <<pvars, mvars, part>>

PluginsSpec == PluginsInit /\ [][PluginsNext]_<<pvars, mvars, cvars, part>>
=============================================================================
