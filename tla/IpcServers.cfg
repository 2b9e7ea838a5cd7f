CONSTANTS
  Clients = {c1, c2}
  Sessions = {s1, s2}
  Threads = {t1, t2}
  FailingIpc = {"client", "callback"}
  Races = {"exit_open"}
  Data <- DataOfClients
  CbSessions = {s1}
  MaxCbs = 2
  WireSizes = {1, 2}
  FailingWire = {"calloc"}
SPECIFICATION ServersSpec
CHECK_DEADLOCK FALSE
INVARIANTS RecordsMatch   
PROPERTIES SessionsStayOwned 
