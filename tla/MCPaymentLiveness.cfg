SPECIFICATION FairSpec
CONSTANTS
  Bookings = {b1}
  Seats = {s1}
  Workers = {w1}
  Invoices = {i1, i2}
  Refunds = {r1}
  None = None
  Foreign = {"booking.cancelled", "booking.expired", "booking.refund.requested"}
PROPERTIES
  SettlementReported
  RefundAnswered
  PaidNotForgotten
