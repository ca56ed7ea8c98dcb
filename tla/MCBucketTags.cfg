CONSTANTS
  Histograms <- MCHistograms
  Tags <- MCTags
  Thousand = 3
  Sixty = 2
  Micro = 5
  DblMax = 1000
  Int64Min <- MCInt64Min
SPECIFICATION Spec
INVARIANTS DurationReadable TagsDistinct
