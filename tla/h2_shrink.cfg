SPECIFICATION MCSpec
CONSTANTS
  MAX_WINDOW_SIZE = 8
  MAX_STREAM_ID = 1001
  DATA_PAYLOADLEN = 2
  INITIAL_WINDOW_SIZE = 4
  MAX_OBQ_FLOOD_ITEM = 4
  MAX_RESERVED = 1
  MaxRequests = 1
  BACKOFF_WRITE_BUFFER_THRES = 3
  Scenarios <- ShrinkScenarios
INVARIANTS
  NoFlowControlReset
CHECK_DEADLOCK FALSE
