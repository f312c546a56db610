------------------------------ MODULE MCTicket ------------------------------
EXTENDS TicketSystem
=============================================================================
