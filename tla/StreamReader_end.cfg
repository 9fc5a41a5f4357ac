SPECIFICATION FairSpec
CONSTANTS
  t1 = t1
  t2 = t2
  Threads = {t1}
  StreamBlocks = 2
  BlockCommands = 1
  Closing = {}
CHECK_DEADLOCK FALSE
PROPERTIES RunReturns
