SPECIFICATION FairSpec
CONSTANTS
  t1 = t1  t2 = t2
  Threads = {t1, t2}
  Sizes = {2}
  TRIGGER_BLOCK_SIZE = 2
  INITIAL_BLOCK_ALLOC = 1
  MaxCommands = 10
INVARIANTS TypeOK OneOwner TargetIsFree NoBlockAbandoned DataFits
PROPERTIES ImplementsCommandFile CallReturnsOrStalls
