SPECIFICATION FairSpec
CONSTANTS
  q1 = q1  q2 = q2  s1 = s1  f1 = f1  f2 = f2  none = none  e1 = e1  e2 = e2
  Queues = {q1, q2}
  Semaphores = {s1}
  Fences = {f1, f2}
  NoFence = none
  Events = {e1, e2}
  MaxValue = 2
  Submits <- SmallSubmits
  MaxBefore = 0
  MaxInRange = 3
PROPERTIES CatchUpReturns
CHECK_DEADLOCK FALSE
