CONSTANTS
  Sessions = {s1}
  Threads = {t1, t2}
  Clients = {c1}
  Payloads = {p1}
  Calls <- DataCalls
  CallbackOps = {}
  Overlap = {"close"}
  Failing = {}
  MaxOpens = 2
  MaxCbs = 1
  Names <- CardNames
  MAX_RETRY = 2
  MaxLines = 2
  MaxInits = 2
  FailingInit = {}
  Aifs = {a1, a2}
  Metas <- ClientMetas
  Cals <- ClientCals
  FailingMeta = {"ckv", "props"}
  MaxSets = 3
SPECIFICATION CallsSpec
CHECK_DEADLOCK FALSE
INVARIANT TransferLive
