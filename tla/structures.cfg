SPECIFICATION MCSpec
CONSTANTS
  Threads = {t1, t2, t3}
  NReqs = 3
  Width = 8
  MaxCalls = 3
  Ids = {1, 3, 5}
  MAX_WEIGHT = 2
  Weights = {1, 2}
  MaxFrame = 1
  CycleMod = 16
  MaxIdle = 1
  num_stream_max = 2
  MaxOps = 6
  MaxPriorities = 1
  Entries = {e1, e2, e3, e4}
  Keys = {1, 3, 17, 129}
  INITIAL_TABLE_LENGTH = 2
  MaxTableLength = 8
  Nil = Nil
  N = 2
  Queues = {q1, q2}
  MaxBytes = 6
  MaxWrite = 3
  MaxMemCalls = 5
  Options <- MCOptions
  Slots = 2
  Batches = {1, 99}
  Rtts = {1, 2, 4}
  MaxBatches = 2
  SIZE_MAX = 255
  Inputs <- MCInputs
INVARIANTS
  LedgerIsExact
  RaceWindowBounded
  TreeSound
  ScheduleFair
  MapIsExact
  QueuesSound
  SharesRight
  ResultsRight
  RequestsRight
CHECK_DEADLOCK FALSE
