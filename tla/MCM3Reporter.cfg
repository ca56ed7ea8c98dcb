CONSTANTS
  small = small
  large = large
  c1 = c1
  c2 = c2
  Callers = {c1, c2}
  Metrics = {small, large}
  Size <- MCSize
  Overhead = 1
  MaxPacketSize = 7
  MaxQueueSize = 2
  MaxReports = 4
  MaxFlushes = 1
  MaxSpurious = 1
SPECIFICATION FairSpec
INVARIANTS TypeOK Conservation NoLostWakeup DrainedAtClose BatchFits BacklogBounded QueueExclusive
           EnqueueWhileRunning
PROPERTIES ImplementsChannel DestructorReturns QueueDrains CallsReturn
