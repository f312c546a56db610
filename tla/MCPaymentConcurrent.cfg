SPECIFICATION Spec
CONSTANTS
  Bookings = {b1}
  Seats = {s1}
  Workers = {w1, w2}
  Invoices = {i1, i2}
  Refunds = {r1, r2}
  None = None
  Foreign = {"booking.cancelled", "booking.expired", "booking.refund.requested"}
INVARIANTS
  TypeOK
  SettledIsReal
  RefundedIsReal
  
  Backed
SYMMETRY Symmetry
