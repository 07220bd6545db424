CONSTANTS
  g1 = g1
  g2 = g2
  g3 = g3
  Gateways = {g1, g2, g3}
  IdOf <- MCIdOf
  Users = {u1, u2}
  None = None
  Parts = {"service", "text", "dtd", "config"}
  Nil = Nil
  MaxText = 3
  MaxDecl = 3
  UserIds = {"u1", ""}
  GatewayNames = {"g1", "g2"}
  Vals = {"true", ""}
  Empty = ""
  Params <- MCParams
  Rules <- MCRules
  Settings = {"x_server_ident", "x_sip_debug", "call_max_calls", "sip_listen"}
  HasX = {"x_server_ident", "x_sip_debug", "call_max_calls"}
  MaxEntries = 2
  MaxParams = 3
  MaxLost = 1
SPECIFICATION MCSpec
INVARIANTS
  UaDataLive
  CleanIfAsleep
  GlobalOutlivesThread
  TextKept
  Declared
  
PROPERTIES
  StartEnds
  StopEnds
CHECK_DEADLOCK FALSE
