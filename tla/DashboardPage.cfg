SPECIFICATION LoopSpec
CONSTANTS
  Views = {"overview"}
  Queries = {"a", "b"}
  Ids = {s1}
  NoId = NoId
  Nothing = Nothing
  MaxLoops = 3
INVARIANTS
  TypeOK
  KeepsRefreshing
PROPERTIES
  LoopsMerge
  SelectionSettles
  LoginIsQuiet
