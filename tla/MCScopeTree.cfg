CONSTANTS
  c1 = c1
  c2 = c2
  Callers = {c1, c2}
  Names <- MCNames
  TagMaps <- MCTagMaps
  TagNames <- MCTagNames
  RootTags <- MCRootTags
  MaxCalls = 4
  MaxDepth = 2
SPECIFICATION FairSpec
INVARIANTS SameScope ReportVisitsAll
PROPERTY AskersServed
