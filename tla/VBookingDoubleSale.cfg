SPECIFICATION CalmSpec
CONSTANTS
  Bookings = {b1, b2}
  Seats = {s1}
  Workers = {w1, w2}
  MAX_SEATS_PER_HOLD = 8
  None = None
  Foreign = {"payment.settled"}
INVARIANT
  NoDoubleSale
SYMMETRY Symmetry
CHECK_DEADLOCK FALSE
