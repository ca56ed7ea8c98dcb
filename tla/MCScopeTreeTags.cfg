CONSTANTS
  c1 = c1
  c2 = c2
  Callers = {c1, c2}
  Names <- MCNames
  TagMaps <- MCTagMaps
  TagNames <- MCTagNames
  RootTags <- MCRootTags
  MaxCalls = 1
  MaxDepth = 2
SPECIFICATION Spec
INVARIANT ProvidedTagsWin
