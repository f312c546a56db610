SPECIFICATION Spec
CONSTANTS
  Bookings = {b1}
  Seats = {s1, s2}
  Workers = {w1, w2}
  Codes = {c1, c2}
INVARIANTS
  TypeOK
  SameTicketsTold
PROPERTIES
  PaidGetsTickets
  RefundVoids
CHECK_DEADLOCK FALSE
