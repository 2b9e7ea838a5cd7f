\* A leg is connected to a capture session whose playback session has stopped; nothing fails.
SPECIFICATION Spec
CONSTANTS
  s1 = s1
  s2 = s2
  d1 = d1
  d2 = d2
  Sessions = {s1, s2}
  Devices = {d1, d2}
  Links <- SharedLinks
  Dir <- RxTx
  Failing = {}
  Loopbacks <- CaptureLoopback
  EcRefs = {}
  MaxDeficit = 1
  MaxRef = 2
INVARIANT
  RunningDeviceOpen
