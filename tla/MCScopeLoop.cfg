CONSTANTS
  k1 = k1
  k2 = k2
  g1 = g1
  u1 = u1
  u2 = u2
  v1 = v1
  v2 = v2
  Counters = {k1, k2}
  Gauges = {g1}
  Maps <- MCMaps
  OwnMaps = 1
  Updaters = {u1, u2}
  Values = {v1, v2}
  NoValue = NoValue
  Deltas <- MCDeltas
  Modulus = 4
  MaxIncs = 2
  MaxUpdates = 2
SPECIFICATION FairSpec
INVARIANTS CountsConserved SingleReporter GaugeFresh GaugesGiven FinalReport
PROPERTIES DestructorReturns IncrementsReported
