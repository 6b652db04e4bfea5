SPECIFICATION FairSpec
CONSTANTS
  Clients = {c1}
  NoClient = NoClient
  NReqs = 3
  MaxConcurrent = 3
  Tls = FALSE
  Timing = FALSE
  Qps = FALSE
  ActiveTimeout = FALSE
  InactivityTimeout = FALSE
  NAddrs = 1
  Backoff = 2
  QpsCounts = {}
  MaxTokens = 0
  MayClose = FALSE
  MaxPieces = 2
  Statuses = {TRUE, FALSE}
  Bodies = {TRUE}
  Datas = {FALSE}
  MaxAnswers = 3
PROPERTIES
  RunEnds
