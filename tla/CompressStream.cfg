\* A playback or capture stream: data thread and control thread, no stop.
SPECIFICATION FairSpec
CONSTANTS
  Dirs = {"RX", "TX"}
  FragSize = 2
  Fragments = 3
  Threads <- MCThreads
  Calls <- Streaming
  Failing = {"write", "eos"}
  DevicePrepared = TRUE
  Spurious = FALSE
  MaxEvents = 3
  MaxQueue = 4
  MaxAvail = 6
INVARIANTS
  TypeOK
  AvailExact
  DrainComplete
  NothingAfterFree
PROPERTIES
  DrainReturns
CHECK_DEADLOCK FALSE
