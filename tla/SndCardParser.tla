---------------------------- MODULE SndCardParser ----------------------------
(***************************************************************************)
(* The sound card definitions (snd-card-parser.c) that the plugins share:  *)
(* the handlers that expat calls for the tags of the file, and the list of *)
(* cards with its references.                                              *)
(*                                                                         *)
(* A document is a sequence of cards; a token is the start or the end of a *)
(* tag, an end with the text that was read before it.                      *)
(***************************************************************************)
EXTENDS Integers, Sequences, FiniteSets, SequencesExt

CONSTANTS
  Docs,         \* the card files: sequences of [id, names, devs]
  Keys,         \* what a card is sought by: [id |-> n] or [name |-> a]
  PrefixPairs,     \* pairs of names, the first a prefix of the second
  Clients,      \* those that hold cards
  MaxGets,      \* bound on the cards taken
  FailingCards  \* the external calls that may fail

VARIABLES
  doc,          \* the card file
  snd_card_list,\* the cards: [def, key, refcnt, serial]
  handles,      \* what the clients hold: [client, key, serial]
  gets          \* calls of snd_card_def_get_card so far

cvars == <<doc, snd_card_list, handles, gets>>

DevTags == {"pcm-device", "compress-device", "mixer"}

(* A text is the sequence of its words, empty if nothing was read.         *)
Empty == <<>>

-----------------------------------------------------------------------------
(* The handlers, on the state data of the parse.                           *)
NoData(key) ==
  [key |-> key, cur_card_def |-> [found |-> FALSE], cur_dev_def |-> "null",
   card_found |-> FALSE, card_parsed |-> FALSE, current_tag |-> "ROOT"]

snd_parse_initialize_card_def(data) ==
  IF data.cur_card_def.found THEN data
  ELSE [data EXCEPT !.card_found = TRUE,
                    !.cur_card_def = [found |-> TRUE, card |-> 0, name |-> "null", devs |-> <<>>]]

LastDev(data) == Len(data.cur_card_def.devs)

snd_dev_def_init(data, tag) ==
  IF tag \notin DevTags \/ ~data.cur_card_def.found THEN data
  ELSE LET dev == [tag |-> tag, type |-> "HW", device |-> 0, name |-> "null",
                   so_name |-> "null", props |-> <<>>]
       IN [data EXCEPT !.cur_card_def.devs = Append(@, dev), !.cur_dev_def = "last"]

snd_dev_set_type(data) ==
  IF data.cur_dev_def = "null" THEN data
  ELSE [data EXCEPT !.cur_card_def.devs[LastDev(data)].type = "PLUGIN"]

(* A start tag outside of the card that is sought still sets current_tag.  *)
BugTagReset(data, tag) ==
  LET new == CASE tag = "card" -> "CARD" [] tag \in DevTags -> "DEVICE"
               [] tag = "plugin" -> "PLUGIN" [] tag = "props" -> "DEV_PROPS"
               [] OTHER -> data.current_tag
      typed == IF tag = "plugin" THEN snd_dev_set_type(data) ELSE data
      tagged == [typed EXCEPT !.current_tag = IF data.card_found THEN new ELSE "CARD"]
  IN IF data.card_parsed THEN data ELSE snd_dev_def_init(tagged, tag)

snd_start_tag(data, tag) ==
  LET new == CASE tag = "card" -> "CARD"
               [] tag \in DevTags -> "DEVICE"
               [] tag = "plugin" -> "PLUGIN"
               [] tag = "props" -> "DEV_PROPS"
               [] OTHER -> data.current_tag
      typed == IF tag = "plugin" THEN snd_dev_set_type(data) ELSE data
      tagged == [typed EXCEPT !.current_tag = new]
  IN IF data.card_parsed THEN data
     ELSE IF new # "CARD" /\ ~data.card_found THEN tagged
     ELSE snd_dev_def_init(tagged, tag)

(* A card is found by its number, or by the first of its names that begins *)
(* with the name that is sought.  (Found by its number, a card is named by *)
(* all its names in one string; the first stands for it.)                  *)
snd_parse_card_properties(data, tag, text) ==
  IF tag = "id" /\ "id" \in DOMAIN data.key /\ text[1] = data.key.id
  THEN [snd_parse_initialize_card_def(data) EXCEPT !.cur_card_def.card = text[1]]
  ELSE IF tag = "name" /\ data.cur_card_def.found
  THEN [data EXCEPT !.cur_card_def.name = text[1]]
  ELSE IF tag = "name" /\ "name" \in DOMAIN data.key
          /\ \E i \in DOMAIN text : <<data.key.name, text[i]>> \in PrefixPairs
  THEN LET i == SelectInSeq(text, LAMBDA n : <<data.key.name, n>> \in PrefixPairs)
       IN [snd_parse_initialize_card_def(data) EXCEPT !.cur_card_def.name = text[i]]
  ELSE data

snd_parse_plugin_properties(data, tag, text) ==
  IF tag = "so-name" /\ data.cur_dev_def # "null"
  THEN [data EXCEPT !.cur_card_def.devs[LastDev(data)].so_name = text[1]]
  ELSE data

snd_parse_device_properties(data, tag, text) ==
  IF data.cur_dev_def = "null" THEN data
  ELSE CASE tag = "id" -> [data EXCEPT !.cur_card_def.devs[LastDev(data)].device = text[1]]
         [] tag = "name" -> [data EXCEPT !.cur_card_def.devs[LastDev(data)].name = text[1]]
         [] OTHER -> data

snd_parse_device_custom_properties(data, tag, text) ==
  IF tag = "props" \/ data.cur_dev_def = "null" THEN data
  ELSE [data EXCEPT !.cur_card_def.devs[LastDev(data)].props = Append(@, <<tag, text[1]>>)]

snd_process_data_buf(data, tag, text) ==
  IF text = Empty THEN data
  ELSE CASE data.current_tag = "CARD" -> snd_parse_card_properties(data, tag, text)
         [] data.current_tag = "PLUGIN" -> snd_parse_plugin_properties(data, tag, text)
         [] data.current_tag = "DEVICE" -> snd_parse_device_properties(data, tag, text)
         [] data.current_tag = "DEV_PROPS" -> snd_parse_device_custom_properties(data, tag, text)
         [] OTHER -> data

snd_end_tag(data, tag, text) ==
  LET done == snd_process_data_buf(data, tag, text)
      new == CASE tag \in DevTags -> "CARD"
               [] tag \in {"plugin", "props"} -> "DEVICE"
               [] tag = "card" -> "ROOT"
               [] OTHER -> data.current_tag
  IN IF data.card_parsed \/ (data.current_tag # "CARD" /\ ~data.card_found) THEN data
     ELSE [done EXCEPT !.current_tag = new,
                       !.card_parsed = @ \/ (tag = "card" /\ done.card_found)]

ParseToken(data, token) ==
  IF token.kind = "start" THEN snd_start_tag(data, token.tag)
  ELSE snd_end_tag(data, token.tag, token.text)

-----------------------------------------------------------------------------
(* The tokens of a document.                                               *)
Start(tag) == [kind |-> "start", tag |-> tag]

End(tag, text) == [kind |-> "end", tag |-> tag, text |-> text]

Leaf(tag, text) == <<Start(tag), End(tag, text)>>

DevTokens(d) ==
  <<Start(d.tag)>> \o Leaf("id", <<d.id>>) \o Leaf("name", <<d.name>>)
    \o (IF d.so_name = "null" THEN <<>>
        ELSE <<Start("plugin")>> \o Leaf("so-name", <<d.so_name>>) \o <<End("plugin", Empty)>>)
    \o <<Start("props")>> \o FlattenSeq([i \in DOMAIN d.props |-> Leaf(d.props[i][1], d.props[i][2])])
    \o <<End("props", Empty), End(d.tag, Empty)>>

CardTokens(c) ==
  <<Start("card")>> \o Leaf("id", <<c.id>>) \o Leaf("name", c.names)
    \o FlattenSeq([i \in DOMAIN c.devs |-> DevTokens(c.devs[i])]) \o <<End("card", Empty)>>

Tokens(d) ==
  <<Start("defs")>> \o FlattenSeq([i \in DOMAIN d |-> CardTokens(d[i])]) \o <<End("defs", Empty)>>

Parse(d, key) == FoldLeft(ParseToken, NoData(key), Tokens(d)).cur_card_def

-----------------------------------------------------------------------------
CardsTypeOK ==
  /\ doc \in Docs
  /\ \A i \in DOMAIN snd_card_list :
       snd_card_list[i].refcnt \in 1..MaxGets /\ snd_card_list[i].serial \in 1..MaxGets
  /\ \A h \in handles : h.client \in Clients /\ h.key \in Keys
  /\ gets \in 0..MaxGets

CardsInit == doc \in Docs /\ snd_card_list = <<>> /\ handles = {} /\ gets = 0

(* Whether a card of the list is the one that is sought.                   *)
Matches(c, key) ==
  IF "name" \in DOMAIN key THEN <<key.name, c.def.name>> \in PrefixPairs
  ELSE c.def.card = key.id

(* A card of the list gets a reference more, one of the file is appended   *)
(* with its first.  A parse that fails returns the last card the search    *)
(* went past, which nobody sought, without a reference.                    *)
snd_card_def_get_card(client, key) ==
  /\ gets < MaxGets /\ gets' = gets + 1
  /\ LET found == {i \in DOMAIN snd_card_list : Matches(snd_card_list[i], key)}
         hold(serial) ==
           handles' = handles \cup {[client |-> client, key |-> key, get |-> gets,
                                     serial |-> serial]}
         parsed == Parse(doc, key)
     IN \/ /\ found # {}
           /\ snd_card_list' = [snd_card_list EXCEPT ![Min(found)].refcnt = @ + 1]
           /\ hold(snd_card_list[Min(found)].serial)
        \/ /\ found = {} /\ parsed.found
           /\ snd_card_list' = Append(snd_card_list, [def |-> parsed, key |-> key, refcnt |-> 1,
                                                      serial |-> gets + 1])
           /\ hold(gets + 1)
        \/ /\ found = {} /\ (~parsed.found \/ "fopen" \in FailingCards)
           /\ UNCHANGED <<snd_card_list, handles>>
        \/ /\ found = {} /\ "xml" \in FailingCards /\ snd_card_list # <<>>
           /\ hold(Last(snd_card_list).serial)
           /\ UNCHANGED snd_card_list
  /\ UNCHANGED doc

BugFreesEarly(client, h) ==
  /\ h.client = client
  /\ snd_card_list' = SelectSeq(snd_card_list, LAMBDA c : c.serial # h.serial)
  /\ handles' = handles \ {h}
  /\ UNCHANGED <<doc, gets>>

snd_card_def_put_card(client, h) ==
  /\ h.client = client
  /\ LET i == SelectInSeq(snd_card_list, LAMBDA c : c.serial = h.serial)
     IN snd_card_list' =
          IF i = 0 THEN snd_card_list
          ELSE IF snd_card_list[i].refcnt = 1 THEN RemoveAt(snd_card_list, i)
          ELSE [snd_card_list EXCEPT ![i].refcnt = @ - 1]
  /\ handles' = handles \ {h}
  /\ UNCHANGED <<doc, gets>>

CardsNext ==
  \E c \in Clients :
    \/ \E k \in Keys : snd_card_def_get_card(c, k)
    \/ \E h \in handles : snd_card_def_put_card(c, h)

CardsSpec == CardsInit /\ [][CardsNext]_cvars

-----------------------------------------------------------------------------
(* What the clients read from a card they hold; no node is an empty        *)
(* sequence.                                                               *)
DevsOf(def, tag) == SelectSeq(def.devs, LAMBDA d : d.tag = tag)

snd_card_def_get_node(def, id, tag) ==
  LET devs == DevsOf(def, tag)
      i == SelectInSeq(devs, LAMBDA d : d.device = id)
  IN SubSeq(devs, i, IF i = 0 THEN -1 ELSE i)

snd_card_def_get_num_node(def, tag) == Len(DevsOf(def, tag))

snd_card_def_get_nodes_for_type(def, tag, num) ==
  IF num > snd_card_def_get_num_node(def, tag) THEN <<>> ELSE SubSeq(DevsOf(def, tag), 1, num)

EINVAL == -22

Property(dev, prop) ==
  LET i == SelectInSeq(dev.props, LAMBDA p : p[1] = prop)
  IN IF i = 0 THEN EINVAL ELSE dev.props[i][2]

snd_card_def_get_int(dev, prop) ==
  CASE prop = "type" -> dev.type [] prop = "id" -> dev.device [] OTHER -> Property(dev, prop)

snd_card_def_get_str(dev, prop) ==
  CASE prop = "so-name" -> dev.so_name [] prop = "name" -> dev.name [] OTHER -> Property(dev, prop)

-----------------------------------------------------------------------------
(* Whether a card of the document is the one that is sought.               *)
Sought(c, key) ==
  IF "name" \in DOMAIN key THEN \E i \in DOMAIN c.names : <<key.name, c.names[i]>> \in PrefixPairs
  ELSE c.id = key.id

(* A card of the list is the first of the file that was sought, and the    *)
(* nodes of each type are the devices that the file gives that card, in    *)
(* their order and with their properties: nothing leaks in from the other  *)
(* cards, whose tags the handlers go through too.                          *)
ParsedCardIsListed ==
  \A n \in DOMAIN snd_card_list :
    LET c == snd_card_list[n]
        card == doc[SelectInSeq(doc, LAMBDA x : Sought(x, c.key))]
        given(d) == SelectSeq(d.props, LAMBDA p : p[2] # Empty)
    IN \A tag \in DevTags :
         LET devs == SelectSeq(card.devs, LAMBDA d : d.tag = tag)
             nodes == snd_card_def_get_nodes_for_type(c.def, tag,
                        snd_card_def_get_num_node(c.def, tag))
         IN /\ Len(nodes) = Len(devs)
            /\ \A i \in DOMAIN devs :
                 /\ snd_card_def_get_int(nodes[i], "id") = devs[i].id
                 /\ snd_card_def_get_str(nodes[i], "name") = devs[i].name
                 /\ snd_card_def_get_str(nodes[i], "so-name") = devs[i].so_name
                 /\ (snd_card_def_get_int(nodes[i], "type") = "PLUGIN") = (devs[i].so_name # "null")
                 /\ \A p \in ToSet(given(devs[i])) : snd_card_def_get_int(nodes[i], p[1]) = p[2][1]
                 /\ snd_card_def_get_node(c.def, devs[i].id, tag)[1].device = devs[i].id

(* A card that a client holds is in the list, so not freed, and has a      *)
(* reference for each that holds it.                                       *)
HeldCardsStay ==
  /\ \A h \in handles : \E i \in DOMAIN snd_card_list : snd_card_list[i].serial = h.serial
  /\ \A i \in DOMAIN snd_card_list :
       snd_card_list[i].refcnt = Cardinality({h \in handles : h.serial = snd_card_list[i].serial})
=============================================================================
