\* A capture session with a loopback and an echo reference beside the playback session it listens to.
SPECIFICATION Spec
CONSTANTS
  s1 = s1
  s2 = s2
  d1 = d1
  d2 = d2
  Sessions = {s1, s2}
  Devices = {d1}
  Links <- OneDevice
  Dir <- RxTx
  Failing = {"gsl_add", "gsl_start"}
  Loopbacks <- CaptureLoopback
  EcRefs <- CaptureEcRef
  MaxRef = 2
  MaxDeficit = 1
INVARIANT
  QuietUnlessStarted
