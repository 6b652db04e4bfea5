SPECIFICATION Spec
CONSTANTS
  Clients = {c1}
  NoClient = NoClient
  NReqs = 4
  MaxConcurrent = 2
  Tls = FALSE
  Timing = FALSE
  Qps = FALSE
  ActiveTimeout = FALSE
  InactivityTimeout = FALSE
  NAddrs = 1
  Backoff = 2
  QpsCounts = {}
  MaxTokens = 0
  MayClose = TRUE
  Statuses = {TRUE, FALSE}
  Closes = {TRUE, FALSE}
  MaxAnswers = 5
INVARIANTS
  ResponseHasStream
