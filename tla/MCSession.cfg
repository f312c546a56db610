SPECIFICATION Spec
CONSTANTS
  Users = {a, u}
  Admins = {a}
  Slots = {1, 2}
  None = None
INVARIANTS
  TypeOK
  SessionSound
PROPERTIES
  OneOwner
  NavigationEnds
