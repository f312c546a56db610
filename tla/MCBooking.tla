----------------------------- MODULE MCBooking -----------------------------
EXTENDS BookingSystem, TLC

Symmetry == Permutations(Bookings) \cup Permutations(Seats) \cup Permutations(Workers)
=============================================================================
