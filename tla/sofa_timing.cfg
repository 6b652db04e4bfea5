SPECIFICATION Spec
CONSTANTS
  Clients = {c1, c2}
  NoClient = NoClient
  NReqs = 1
  MaxConcurrent = 2
  Tls = TRUE
  Timing = TRUE
  Qps = FALSE
  ActiveTimeout = FALSE
  InactivityTimeout = FALSE
  NAddrs = 2
  Backoff = 2
  QpsCounts = {}
  MaxTokens = 0
  MayClose = TRUE
  MaxPieces = 2
  Statuses = {TRUE}
  Bodies = {TRUE}
  Datas = {FALSE}
  MaxAnswers = 2
SYMMETRY Symmetry
INVARIANTS
  WarmUpCountsNothing
  InflightWithinStreams
