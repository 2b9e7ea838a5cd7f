CONSTANTS
  Modes <- StreamModes
  HwParams <- StreamParams
  MaxFrames = 24
  MaxOpens = 2
  FailingPcm = {"pcm_node", "session_close", "set_config", "prepare", "start", "stop",
                "buf_info", "mmap", "shared_pos"}
  CardSet <- MixerCards
  MaxEvents = 2
  MaxMixers = 2
  FailingMixer = {"calloc"}
  Docs <- CardFiles
  Keys <- CardKeys
  PrefixPairs <- NamePrefixes
  Clients = {c1}
  MaxGets = 3
  FailingCards = {"fopen"}
SPECIFICATION PluginsSpec
CHECK_DEADLOCK FALSE
INVARIANTS AvailTracksDsp CallsReachNamed CallbackSeesLivePlugin 
  ParsedCardIsListed HeldCardsStay
