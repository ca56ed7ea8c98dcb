CONSTANTS
  Shapes <- MCShapes
  Values <- MCValues
  One <- MCOne
  DblMax <- MCDblMax
  Int64Min <- MCInt64Min
  Int64Max = 99
  MaxRecords = 2
SPECIFICATION Spec
INVARIANTS SamplesReported FirstBucket RangeHonest
