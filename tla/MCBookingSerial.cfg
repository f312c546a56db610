SPECIFICATION Spec
CONSTANTS
  Bookings = {b1, b2}
  Seats = {s1, s2}
  Workers = {w1}
  MAX_SEATS_PER_HOLD = 8
  None = None
  Foreign = {"payment.settled", "payment.refunded", "tickets.issued"}
INVARIANTS
  NoDoubleSale
  VoidedOnlyByRefund
  TicketedSeatsOwned
  SeatMapHonest
PROPERTIES
  FollowsLifecycle
SYMMETRY Symmetry
