CONSTANTS
  Calls = {k1, k2, k3, k4}
  Sids = {s1, s2}
  Uas = {u1, u2, g}
  Gateways = {g}
  None = None
  Parts <- MCParts
  Numbers <- MCNumbers
  Rules <- MCRules
  MaxRules = 2
  Users <- MCUsers
  GatewayNames <- MCGatewayNames
  LikeUser <- MCLikeUser
  LikeGateway = {}
  MaxTemplate = 5
  Templates <- MCTemplates
  Matches <- MCMatches
  IndexSize = 10
  Cap = 24
  Outside = {0, 97}
SYMMETRY MCSymmetry
SPECIFICATION MCSpec
INVARIANTS
  HandlersMatch
  PeersEndTogether
  EndedLegsLeftAlone
  NoStrayCall
  OneVerdict
  Routed
  
PROPERTIES
  AnswerFollowsCallee
CHECK_DEADLOCK FALSE
