CONSTANTS
  Pids = {p1, p2, p3, p4}
  NoPid = NoPid
  Parts = {"process", "parser", "tags"}
  Root = Root
  Nil = Nil
  MaxDoc = 5
  MaxTags = 3
  MaxTagOff = 1
  Tags = {p1, p2, p3, p4}
  Hosts <- MCHosts
  Names = {"a", "b"}
  MaxOff = 3
  Careful = TRUE
SYMMETRY MCSymmetry
SPECIFICATION MCSpec
INVARIANTS
  
  
  StaleOnlyIfKilled
  TagsFound
  ParsedAsWritten
PROPERTIES
  DocSpec
CHECK_DEADLOCK FALSE
