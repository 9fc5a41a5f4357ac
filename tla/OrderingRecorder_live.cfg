SPECIFICATION FairSpec
CONSTANTS
  t1 = t1  t2 = t2  c1 = c1
  Threads = {t1, t2}
  Closers = {c1}
  Calls = {"plain", "replaced"}
  MaxKey = 3
  MaxSize = 1
  BYTES_CHECK_INTERVAL = 1
  BYTES_ALLOWED_DIFFERENCE = 1
PROPERTIES SubmittedIsWritten FlushReturns CloseReturns
CHECK_DEADLOCK FALSE
