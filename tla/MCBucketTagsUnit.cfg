CONSTANTS
  Histograms <- MCFewHistograms
  Tags <- MCTags
  Thousand = 3
  Sixty = 2
  Micro = 5
  DblMax = 1000
  Int64Min <- MCInt64Min
SPECIFICATION Spec
INVARIANT LeastGranularUnit
