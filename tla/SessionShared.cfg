\* Two sessions over two shared devices; failures the handlers undo or ignore.
SPECIFICATION Spec
CONSTANTS
  s1 = s1
  s2 = s2
  d1 = d1
  d2 = d2
  Sessions = {s1, s2}
  Devices = {d1, d2}
  Links <- SharedLinks
  Dir <- RxTx
  Failing = {"gsl_open", "gsl_change", "gsl_stop", "pcm_stop"}
  Loopbacks = {}
  EcRefs = {}
  MaxDeficit = 1
  MaxRef = 2
INVARIANTS
  TypeOK
  DeviceHeld
  DeviceConsistent
  StartedLegsRun
  
  OpenSessionHasGraph
  StartedSessionRuns
  HeldInv
