-------------------------- MODULE BookingLiveness --------------------------
(***************************************************************************)
(* What booking-service gets done in the end.  During the outage calls may *)
(* throw and the process may crash at any time, any number of times; the   *)
(* outage ends.  Redis keys may expire before and after.                   *)
(***************************************************************************)
EXTENDS BookingSystem

VARIABLE outage

fairVars == <<vars, outage>>

OutageEnds == outage /\ outage' = FALSE /\ UNCHANGED vars

FairNext ==
  \/ /\ ServiceRuns \/ Environment \/ \E s \in Seats : LockExpires(s)
     /\ UNCHANGED outage
  \/ outage /\ ServiceFaults /\ UNCHANGED outage
  \/ OutageEnds

\* booking.confirmed for b is handed to the exchange (again).
TicketsOrdered(b) ==
  \E w \in Workers : /\ Emit(w)
                     /\ task[w].b = b /\ Head(task[w].emits) = "booking.confirmed"

\* A handler in flight goes on; time passes; every minute the cron visits
\* every candidate, and other handlers cannot keep it from doing so for ever.
\* An answer of ticket-service may be lost, but not for ever: orders that are
\* repeated for ever are answered, and an answer is consumed, some time.
\* Nothing is assumed of customers or of payment-service.
Fairness ==
  /\ WF_outage(OutageEnds)
  /\ \A w \in Workers : WF_vars(Proceed(w))
  /\ \A b \in Bookings :
       /\ WF_vars(HoldLapses(b))
       /\ \A w \in Workers : /\ SF_vars(ExpireStaleBooking(w, b))
                             /\ SF_vars(RetryConfirmation(w, b))
       /\ []<><<TicketsOrdered(b)>>_vars =>
            /\ WF_vars(TicketsIssue(b))
            /\ \A w \in Workers : SF_vars(OnTicketsIssued(w, b))

FairSpec == Init /\ outage = TRUE /\ [][FairNext]_fairVars /\ Fairness

Held(b) == bookings[b].status = "PENDING" /\ ~bookings[b].paidAt

PaidUnticketed(b) == bookings[b].status = "PENDING" /\ bookings[b].paidAt

\* An unpaid booking never blocks its seats for ever, even one left behind by
\* a hold that crashed half way (expireStaleBookings).
HoldsEnd == \A b \in Bookings : Held(b) ~> ~Held(b)

\* Money never buys nothing for ever: a paid booking gets its tickets, or a
\* refund is under way, even if booking.confirmed was lost (retryConfirmations).
PaidGetsAnswer == \A b \in Bookings : PaidUnticketed(b) ~> ~PaidUnticketed(b)

=============================================================================
