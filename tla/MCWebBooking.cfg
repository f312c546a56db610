SPECIFICATION Spec
CONSTANTS
  Bookings = {b1, b2}
  Past = {b2}
  Seats = {s1, s2}
  Slots = {1, 2}
  MAX_SEATS_PER_HOLD = 1
  None = None
INVARIANTS
  TypeOK
  SelectionHonest
  WaitingIsHonest
  
  OnePayment
PROPERTIES
  ComesToRest
