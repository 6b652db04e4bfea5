SPECIFICATION MCSpec
CONSTANTS
  Wires <- MCWires
  MAX_FRAME_SIZE = 20
  MaxPauses = 1
  MaxUint32 = 99
  huff_sym_table <- MCHuffSyms
  static_table <- MCStaticTable
  OtherTokens <- MCOtherTokens
  Hash <- MCHash
  AUTHORIZATION = 3
  COOKIE = 4
  Unindexed = {14}
  DEFAULT_MAX_BUFFER_SIZE = 72
  ENTRY_OVERHEAD = 32
  HD_MAX_NV = 100
  HD_MAP_SIZE = 2
  UINT_BITS = 8
  Deflaters <- MCDeflaters
  HeaderLists <- MCLists
  TableSizes <- MCSizes
  MaxBlocks = 3
  MaxSettings = 1
  MAX_PAYLOADLEN = 100
  max_send_header_block_length = 400
  BoundSlack = 12
  Frames <- MCFrames
  ReadLengths = {0, 30, 400}
  MaxFrames = 2
  Families <- MCFamilies
  IntMax = 2047
  Base = 8
  Args <- MCArgs
  Class <- MCClass
  Content <- MCContent
  Bodies <- MCBodies
  Statuses = {0, 5}
  Writes = {7}
  MaxRequests = 2
  DataLengths = {0, 1, 2, 3}
  MaxReqs = 3
INVARIANTS
  ReaderInStep
  FramesReadExactly
  TablesSound
  BlocksSurvive
  FramesRoundTrip
  BuffersSuffice
  MessageRulesKept
  WireInStep
  BodiesSettled
  OnlyTheServerIsAwaited
CHECK_DEADLOCK FALSE
