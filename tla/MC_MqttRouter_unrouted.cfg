CONSTANTS
  a = a
  b = b
  c = c
  a1 = a1
  a2 = a2
  Topics <- MCTopics
  Aliases <- MCAliases
  Handlers = {0, 1}
  Route <- MCRoutePartial
  NoRoute = NoRoute
  NoAlias = NoAlias
  Empty = Empty
  Default = Default
  MaxCalls = 4
SPECIFICATION MCSpec
SYMMETRY MCSymmetry
INVARIANT AliasFollowsClient
