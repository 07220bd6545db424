CONSTANTS
  Users = {u1}
  c1 = c1
  c2 = c2
  Contacts = {c1, c2, bad}
  BadContacts = {bad}
  NoContact = NoContact
  NoUser = NoUser
  MaxLeaks = 1
SPECIFICATION FairSpec
PROPERTIES
  AnsweredUnlessLapsed
  LapsedIsSwept
CHECK_DEADLOCK FALSE
