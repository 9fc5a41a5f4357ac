SPECIFICATION FairSpec
CONSTANTS
  t1 = t1  t2 = t2
  Threads = {t1, t2}
  StreamBlocks = 5
  BlockCommands = 1
  Closing = {2}
CONSTRAINT BeforeEarly
INVARIANTS TypeOK OneOwner TargetIsFreeIfNotified EveryBlockOnce
PROPERTIES PlaysUntilEarly RunReturnsOrHangs
CHECK_DEADLOCK FALSE
