\* A playback client that waits for space without a timeout.
SPECIFICATION Spec
CONSTANTS
  Dirs = {"RX"}
  FragSize = 2
  Fragments = 2
  Threads <- MCThreads
  Calls <- Blocking
  Failing = {}
  DevicePrepared = FALSE
  Spurious = FALSE
  MaxEvents = 2
  MaxQueue = 3
  MaxAvail = 6
INVARIANTS
  PollWaitsForSpace
