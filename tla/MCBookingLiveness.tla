------------------------- MODULE MCBookingLiveness -------------------------
EXTENDS BookingLiveness
=============================================================================
