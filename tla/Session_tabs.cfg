SPECIFICATION FairSpec
CONSTANTS
  Users = {ada, vic}
  Admins = {ada}
  NoUser = NoUser
  MaxLogins = 2
  MaxInFlight = 2
  MaxEvents = 2
INVARIANTS
  TypeOK
  TokenInUse
  ProfileIsOwners
PROPERTIES
  SessionKept
  ExpiredSessionEnds
