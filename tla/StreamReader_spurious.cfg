SPECIFICATION Spec
CONSTANTS
  t1 = t1  t2 = t2
  Threads = {t1}
  StreamBlocks = 3
  BlockCommands = 1
  Closing = {}
INVARIANTS TargetIsFree
CHECK_DEADLOCK FALSE
