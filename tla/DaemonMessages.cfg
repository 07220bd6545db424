CONSTANTS
  Pids = {p1, p2, p3}
  NoPid = NoPid
  Parts = {"process"}
  Root = Root
  Nil = Nil
  MaxDoc = 0
  MaxTags = 0
  MaxTagOff = 0
  Tags = {p1, p2, p3}
  Hosts <- MCHosts
  Names = {"a", "b"}
  MaxOff = 0
  Careful = TRUE
SPECIFICATION MCSpec
INVARIANTS
  MessagesAreTrue
CHECK_DEADLOCK FALSE
