SPECIFICATION CalmSpec
CONSTANTS
  Bookings = {b1}
  Seats = {s1}
  Workers = {w1}
  Invoices = {i1}
  Refunds = {r1, r2}
  None = None
  Foreign = {"booking.cancelled", "booking.expired", "booking.refund.requested"}
INVARIANT
  AsksOnce
SYMMETRY Symmetry
