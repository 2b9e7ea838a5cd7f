CONSTANTS
  Sessions = {s1}
  Threads = {t1, t2}
  Clients = {c1}
  Payloads = {p1}
  Calls <- CallsOfThreads
  CallbackOps = {"write"}
  Overlap = {}
  Failing = {"gsl_open", "gsl_set_custom_config", "gsl_ioctl", "calloc"}
  MaxOpens = 2
  MaxCbs = 1
  Names <- CardNames
  MAX_RETRY = 2
  MaxLines = 2
  MaxInits = 2
  FailingInit = {"fopen", "calloc", "gsl_init"}
  Aifs = {a1, a2}
  Metas <- ClientMetas
  Cals <- ClientCals
  FailingMeta = {"ckv", "props"}
  MaxSets = 3
SPECIFICATION ServiceSpec
CHECK_DEADLOCK FALSE
INVARIANTS CallbackRegistered  
  ListedDevicesResolve DownHoldsNothing  MergePrecedence 
PROPERTIES CallsReturn
