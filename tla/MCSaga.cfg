SPECIFICATION SagaSpec
CONSTANTS
  Bookings = {b1}
  Seats = {s1}
  Workers = {w1}
  PaymentWorkers = {w1}
  MAX_SEATS_PER_HOLD = 8
  Invoices = {i1, i2}
  Refunds = {r1}
  None = None
  Foreign = {"payment.settled", "payment.failed", "payment.refund_pending",
             "payment.refunded", "payment.refund_failed", "tickets.issued"}
INVARIANTS
  MoneyIsReal
PROPERTIES
  Composed
SYMMETRY Symmetry
