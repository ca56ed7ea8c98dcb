CONSTANTS
  scope = scope
  user = user
  Callers = {scope, user}
  Scope = scope
  Metrics <- MCMetrics
  Size <- MCSize
  Overhead = 0
  MaxPacketSize = 6
  MaxQueueSize = 1
  MaxReports = 4
  MaxFlushes = 0
  MaxSpurious = 1
  MaxIncs = 3
  MaxRecords = 1
SPECIFICATION FairSystemSpec
INVARIANTS Accounted EmittedAtClose
PROPERTIES IncrementsEmitted
