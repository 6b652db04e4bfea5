SPECIFICATION MCSpec
CONSTANTS
  MAX_WINDOW_SIZE = 8
  MAX_STREAM_ID = 1001
  DATA_PAYLOADLEN = 2
  INITIAL_WINDOW_SIZE = 4
  MAX_OBQ_FLOOD_ITEM = 4
  MAX_RESERVED = 1
  MaxRequests = 4
  BACKOFF_WRITE_BUFFER_THRES = 3
  Scenarios <- MCScenarios
INVARIANTS
  RequestsAccounted
  StreamsSettled
  EndsInStep
  NoFalseAccusation
  NothingHangs
PROPERTIES
  Implements
CHECK_DEADLOCK FALSE
