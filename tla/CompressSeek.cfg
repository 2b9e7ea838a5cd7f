\* A playback stream stopped, restarted and closed at any moment; spurious wake-ups.
SPECIFICATION FairSpec
CONSTANTS
  Dirs = {"RX"}
  FragSize = 2
  Fragments = 2
  Threads <- MCThreads
  Calls <- Seeking
  Failing = {"stop"}
  DevicePrepared = FALSE
  Spurious = TRUE
  MaxEvents = 2
  MaxQueue = 2
  MaxAvail = 6
INVARIANTS
  AvailNonNegative
  WaitingDrainArmed
PROPERTIES
  StopReleasesDrain
CHECK_DEADLOCK FALSE
