CONSTANTS
  g1 = g1
  g2 = g2
  g3 = g3
  Gateways = {g1}
  IdOf <- MCIdOf
  Users = {u1}
  None = None
  Parts = {"service"}
  Nil = Nil
  MaxText = 0
  MaxDecl = 0
  UserIds = {"u1"}
  GatewayNames = {"g1"}
  Vals = {"true", ""}
  Empty = ""
  Params <- MCParams
  Rules <- MCRules
  Settings = {"sip_listen"}
  HasX = {}
  MaxEntries = 0
  MaxParams = 0
  MaxLost = 0
SPECIFICATION MCSpec
INVARIANT WaitsForThread
CHECK_DEADLOCK FALSE
