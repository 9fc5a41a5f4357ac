SPECIFICATION Spec
CONSTANTS
  t1 = t1  t2 = t2  c1 = c1
  Threads = {t1, t2}
  Closers = {c1}
  Calls = {"plain", "repeated", "present"}
  MaxKey = 4
  MaxSize = 1
  BYTES_CHECK_INTERVAL = 1
  BYTES_ALLOWED_DIFFERENCE = 0
SYMMETRY ThreadSymmetry
INVARIANTS TypeOK WrittenInOrder NothingDueIsHeld DrainedOnExit RangesAreProcessedSkips BytesInFlightBounded ScheduledCoversProcessed
PROPERTIES ImplementsOrderedStream NothingWrittenAfterSave
CHECK_DEADLOCK FALSE
