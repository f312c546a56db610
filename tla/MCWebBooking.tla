---------------------------- MODULE MCWebBooking ----------------------------
EXTENDS WebBooking
=============================================================================
