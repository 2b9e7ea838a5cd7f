CONSTANTS
  Clients = {c1, c2}
  Sessions = {s1}
  Threads = {t1, t2}
  FailingIpc = {}
  Races = {"overtake"}
  Data <- DataOfClients
  CbSessions = {s1}
  MaxCbs = 1
  WireSizes = {1}
  FailingWire = {}
SPECIFICATION HwOnlySpec
CHECK_DEADLOCK FALSE
PROPERTIES SessionsStayOwned
