SPECIFICATION FairSpec
CONSTANTS
  t1 = t1
  t2 = t2
  Threads = {t1}
  Sizes = {2}
  TRIGGER_BLOCK_SIZE = 1
  INITIAL_BLOCK_ALLOC = 2
  MaxCommands = 2
PROPERTIES CloseCompletes
