SPECIFICATION FairSpec
CONSTANTS
  Bookings = {b1}
  Seats = {s1}
  Workers = {w1}
  MAX_SEATS_PER_HOLD = 8
  None = None
  Foreign = {"payment.settled", "payment.failed", "payment.refund_pending", "payment.refunded", "payment.refund_failed", "tickets.issued"}
PROPERTIES
  HoldsEnd
  PaidGetsAnswer
CHECK_DEADLOCK FALSE
