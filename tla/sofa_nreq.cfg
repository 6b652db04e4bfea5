SPECIFICATION Spec
CONSTANTS
  Clients = {c1, c2}
  NoClient = NoClient
  NReqs = 3
  MaxConcurrent = 2
  Tls = FALSE
  Timing = FALSE
  Qps = FALSE
  ActiveTimeout = TRUE
  InactivityTimeout = FALSE
  NAddrs = 1
  Backoff = 2
  QpsCounts = {}
  MaxTokens = 0
  MayClose = TRUE
  MaxPieces = 2
  Statuses = {TRUE, FALSE}
  Bodies = {TRUE, FALSE}
  Datas = {TRUE, FALSE}
  MaxAnswers = 3
SYMMETRY Symmetry
INVARIANTS
  TypeOK
  BudgetConserved
  NotIssuedDoesNotWrap
  GoneClientsAreSettled
  ErrorsWithinFailures
  ConcurrencyBounded
  LimitedWhileBusy
