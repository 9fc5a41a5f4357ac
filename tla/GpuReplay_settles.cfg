SPECIFICATION FairSpec
CONSTANTS
  q1 = q1  q2 = q2  f1 = f1  f2 = f2  l1 = l1  l2 = l2  paging = paging  cpu = cpu
  Queues = {q1, q2}
  Fences = {f1, f2}
  MaxValue = 2
  Lists = {l1}
  MaxRecordings = 2
  Resubmits = FALSE
  Works <- SmallWorks
  Paging = paging
  CPU = cpu
  Signallings <- SmallSignallings
  MaxCalls = 5
INVARIANTS ReplayTypeOK GpuSettlesAsTracked NothingHeldBack
PROPERTIES ImplementsGpuQueues CallsReturn
CHECK_DEADLOCK FALSE
