SPECIFICATION Spec
CONSTANTS
  Clients = {c1, c2}
  NoClient = NoClient
  NReqs = 1
  MaxConcurrent = 2
  Tls = FALSE
  Timing = TRUE
  Qps = TRUE
  ActiveTimeout = FALSE
  InactivityTimeout = FALSE
  NAddrs = 1
  Backoff = 2
  QpsCounts = {0, 1, 2}
  MaxTokens = 4
  MayClose = TRUE
  MaxPieces = 2
  Statuses = {TRUE}
  Bodies = {TRUE}
  Datas = {FALSE}
  MaxAnswers = 2
SYMMETRY Symmetry
INVARIANTS
  TokensConserved
  SlotsConserved
PROPERTIES
  NothingCountedAfterwards
