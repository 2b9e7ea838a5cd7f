\* Every external call may fail, on one capture session with two devices and an echo reference.
SPECIFICATION FairSpec
CONSTANTS
  s1 = s1
  s2 = s2
  d1 = d1
  d2 = d2
  Sessions = {s1}
  Devices = {d1, d2}
  Links <- OneSession
  Dir <- OneTx
  Failing <- AllCalls
  Loopbacks = {}
  EcRefs <- OwnEcRef
  MaxDeficit = 1
  MaxRef = 2
INVARIANT
  QuietUnlessStarted
 
