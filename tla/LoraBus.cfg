\* a transfer of the longest command takes two chunks
CONSTANTS
  MAX_TRANSFER = 6
  PAYLOAD_MAX = 3
  TIMEOUT_DEFAULT = 2
  INIT_COMMANDS = 3
  ChunkBytes = 4
  MaxCalls = 3
  Commands <- SomeCommands
  HeadLines = 3
  Sources <- Files
  Functions_md <- Page_md
  Config <- Config_S
  Adrs <- Records
  Exists = {"contract.py", "test.py"}
SPECIFICATION FairSpec
INVARIANT ChipGetsWhatIsReported
INVARIANT BusFollowsContract
INVARIANT StackStaysInBound
PROPERTY EveryCallReturns
CHECK_DEADLOCK FALSE
