SPECIFICATION FairSpec
CONSTANTS
  Clients = {c1, c2}
  NoClient = NoClient
  NReqs = 2
  MaxConcurrent = 2
  Tls = FALSE
  Timing = FALSE
  Qps = FALSE
  ActiveTimeout = FALSE
  InactivityTimeout = FALSE
  NAddrs = 1
  Backoff = 2
  QpsCounts = {}
  MaxTokens = 0
  MayClose = FALSE
  MaxPieces = 2
  Statuses = {TRUE}
  Bodies = {TRUE}
  Datas = {FALSE}
  MaxAnswers = 3
PROPERTIES
  RunEnds
CHECK_DEADLOCK FALSE
