CONSTANTS
  Users = {u1}
  c1 = c1
  c2 = c2
  Contacts = {c1}
  BadContacts = {}
  NoContact = NoContact
  NoUser = NoUser
  MaxLeaks = 1
SPECIFICATION Spec
PROPERTIES
  OnlyExpiredDeleted
CHECK_DEADLOCK FALSE
