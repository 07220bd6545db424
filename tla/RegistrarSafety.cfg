CONSTANTS
  Users = {u1, u2}
  c1 = c1
  c2 = c2
  Contacts = {c1, c2, bad}
  BadContacts = {bad}
  NoContact = NoContact
  NoUser = NoUser
  MaxLeaks = 1
  Methods = {"REGISTER", "INVITE"}
  a1 = a1
  Addrs = {a1, a2}
  Lifetime = 1
  Skew = 1
  Null = Null
  MaxNet = 1
SYMMETRY MCSymmetry
SPECIFICATION MCSpec
INVARIANTS
  
  
  StuckOnlyIfWedged
  AtMostOneFreshDoomed
  
PROPERTIES
  WedgedForever
  UaInUseOnlyLostToExpiry
  
  RefusedStaysRefused
CHECK_DEADLOCK FALSE
