---------------------------- MODULE TicketSystem ----------------------------
(***************************************************************************)
(* ticket-service with the booking-service it answers to.  booking-service *)
(* appears as the life cycle it implements (run booking_serial), one step  *)
(* per handler, and with the events each of these steps publishes.         *)
(***************************************************************************)
EXTENDS TicketService

VARIABLES stage,        \* of each booking, see BookingLifecycle
          ticketed,     \* bookings with ticketsIssuedAt
          outage        \* calls may throw and processes may crash

Lifecycle == INSTANCE BookingLifecycle

vars == <<ticketVars, stage, ticketed, outage>>

-----------------------------------------------------------------------------

Told(type, b) == [type |-> type, booking |-> b]

\* Booking b enters stage s and type is published, or during the outage the
\* publish throws.
Enter(b, s, type) ==
  /\ stage' = [stage EXCEPT ![b] = s]
  /\ \/ queue' = queue \cup {Told(type, b)} /\ UNCHANGED dropped
     \/ outage /\ UNCHANGED queue /\ dropped' = dropped \cup {b}
  /\ UNCHANGED <<tickets, mailQueue, job, mailed, outage>>

Hold(b) ==
  /\ stage[b] = "NONE"
  /\ stage' = [stage EXCEPT ![b] = "HELD"]
  /\ UNCHANGED <<ticketVars, ticketed, outage>>

\* cancel(), onPaymentFailed(), expireBooking() of an unpaid booking.
HoldEnds(b) ==
  /\ stage[b] = "HELD"
  /\ \/ Enter(b, "CANCELLED", "booking.cancelled")
     \/ Enter(b, "EXPIRED", "booking.expired")
  /\ UNCHANGED <<issuedQueue, ticketed>>

\* onPaymentSettled().
Settle(b) ==
  /\ stage[b] = "HELD"
  /\ Enter(b, "PAID", "booking.confirmed") /\ UNCHANGED <<issuedQueue, ticketed>>

\* Mutant of RetryConfirmation: only bookings that had tickets are retried.
RetryTicketed(b) ==
  /\ stage[b] = "PAID" /\ b \in ticketed
  /\ Enter(b, "PAID", "booking.confirmed") /\ UNCHANGED <<issuedQueue, ticketed>>

RetryConfirmation(b) ==
  /\ stage[b] = "PAID"
  /\ Enter(b, "PAID", "booking.confirmed") /\ UNCHANGED <<issuedQueue, ticketed>>

\* cancel() of a paid booking.
AskRefund(b) ==
  /\ stage[b] \in {"PAID", "CONFIRMED"}
  /\ stage' = [stage EXCEPT ![b] = "REFUND_PENDING"]
  /\ UNCHANGED <<ticketVars, ticketed, outage>>

\* onRefunded(), also of late money.
Refunded(b) ==
  /\ stage[b] \in {"PAID", "CONFIRMED", "REFUND_PENDING", "CANCELLED", "EXPIRED"}
  /\ Enter(b, "REFUNDED", "booking.refunded") /\ UNCHANGED <<issuedQueue, ticketed>>

OnRefundFailed(b) ==
  /\ stage[b] = "REFUND_PENDING"
  /\ \/ /\ b \in ticketed
        /\ stage' = [stage EXCEPT ![b] = "CONFIRMED"]
        /\ UNCHANGED <<ticketVars, outage>>
     \/ b \notin ticketed /\ Enter(b, "PAID", "booking.confirmed") /\ UNCHANGED issuedQueue
  /\ UNCHANGED ticketed

\* Mutant of OnTicketsIssued: tickets that come too late are ignored.
OnTicketsIssuedLate(m) ==
  LET b == m.booking IN
  /\ m \in issuedQueue
  /\ issuedQueue' = issuedQueue \ {m}
  /\ IF stage[b] \in {"PAID", "CONFIRMED"}
     THEN /\ stage' = [stage EXCEPT ![b] = "CONFIRMED"]
          /\ ticketed' = ticketed \cup {b}
     ELSE UNCHANGED <<stage, ticketed>>
  /\ UNCHANGED <<tickets, queue, mailQueue, job, mailed, dropped, outage>>

\* Tickets of a booking that is over are answered with its terminal event.
OnTicketsIssued(m) ==
  LET b == m.booking
      Over(s, type) == stage[b] = s /\ Enter(b, s, type) /\ UNCHANGED ticketed
  IN
  /\ m \in issuedQueue
  /\ issuedQueue' = issuedQueue \ {m}
  /\ \/ /\ stage[b] \in {"PAID", "CONFIRMED"}
        /\ stage' = [stage EXCEPT ![b] = "CONFIRMED"]
        /\ ticketed' = ticketed \cup {b}
        /\ UNCHANGED <<tickets, queue, mailQueue, job, mailed, dropped, outage>>
     \/ /\ stage[b] = "REFUND_PENDING"
        /\ UNCHANGED <<tickets, queue, mailQueue, job, mailed, dropped,
                       stage, ticketed, outage>>
     \/ Over("REFUNDED", "booking.refunded")
     \/ Over("CANCELLED", "booking.cancelled")
     \/ Over("EXPIRED", "booking.expired")

\* The handler throws: tickets.issued is lost.
OnTicketsIssuedThrows(m) ==
  /\ m \in issuedQueue
  /\ issuedQueue' = issuedQueue \ {m}
  /\ dropped' = dropped \cup {m.booking}
  /\ UNCHANGED <<tickets, queue, mailQueue, job, mailed, stage, ticketed, outage>>

Booking(b) == \/ Hold(b) \/ HoldEnds(b) \/ Settle(b) \/ RetryConfirmation(b)
              \/ AskRefund(b) \/ Refunded(b) \/ OnRefundFailed(b)

OutageEnds == outage /\ outage' = FALSE /\ UNCHANGED <<ticketVars, stage, ticketed>>

-----------------------------------------------------------------------------

Init == /\ TicketInit /\ outage = TRUE
        /\ stage = [b \in Bookings |-> "NONE"] /\ ticketed = {}

Next ==
  \/ (TicketRuns \/ (outage /\ TicketFaults)) /\ UNCHANGED <<stage, ticketed, outage>>
  \/ \E b \in Bookings : Booking(b)
  \/ \E m \in issuedQueue : OnTicketsIssued(m) \/ (outage /\ OnTicketsIssuedThrows(m))
  \/ OutageEnds

\* The outage ends; handlers in flight go on; every message of a queue is
\* handled some time, whatever else arrives; the cron repeats
\* booking.confirmed.  Nothing is assumed of customers or of the provider.
Fairness ==
  /\ WF_vars(OutageEnds)
  /\ \A w \in Workers : WF_vars(Proceed(w) /\ UNCHANGED <<stage, ticketed, outage>>)
  /\ \A b \in Bookings :
       /\ SF_vars(RetryConfirmation(b))
       /\ WF_vars(\E m \in issuedQueue : m.booking = b /\ OnTicketsIssued(m))
       /\ \A type \in Terminal \cup {"booking.confirmed"} :
            LET e == Told(type, b) IN
            /\ SF_vars(\E w \in Workers : OnConfirmed(w, e)
                                          /\ UNCHANGED <<stage, ticketed, outage>>)
            /\ WF_vars(Void(e) /\ UNCHANGED <<stage, ticketed, outage>>)

Spec == Init /\ [][Next]_vars /\ Fairness

-----------------------------------------------------------------------------

TypeOK ==
  /\ tickets \subseteq Ticket
  /\ queue \subseteq Event
  /\ issuedQueue \cup mailQueue \cup mailed \subseteq [booking : Bookings, tickets : SUBSET Ticket]
  /\ job \in [Workers -> Job \cup {Idle}]
  /\ dropped \cup ticketed \subseteq Bookings
  /\ stage \in [Bookings -> Lifecycle!Stage]
  /\ outage \in BOOLEAN

\* The ticket sets of booking b that were told to anyone or are about to be.
ToldTickets(b) ==
  {m.tickets : m \in {n \in issuedQueue \cup mailQueue \cup mailed : n.booking = b}}
  \cup {job[w].rows : w \in {v \in Workers : /\ job[v].pc = "announce"
                                              /\ job[v].event.booking = b}}

\* The codes a customer was sent are the codes at the door: until the booking
\* is refunded, every replay, race and redelivery of booking.confirmed names
\* the same tickets, one for each seat (issue, bookingConfirmed).
SameTicketsTold ==
  \A b \in Bookings : stage[b] # "REFUNDED" =>
    \A told \in ToldTickets(b) : told = TicketsOf(b) /\ {t.seat : t \in told} = Seats

\* A paid booking does not wait for its tickets for ever, though any number of
\* messages were lost (onConfirmed, retryConfirmations).
PaidGetsTickets == \A b \in Bookings : stage[b] = "PAID" ~> stage[b] # "PAID"

\* Tickets do not survive their refund, though booking.confirmed may be handled
\* after booking.refunded, or between its two halves: tickets.issued of a
\* refunded booking is answered with booking.refunded (onTicketsIssued).  A
\* message about the booking that was nacked is lost, and nothing makes up
\* for it.
RefundVoids ==
  \A b \in Bookings : stage[b] = "REFUNDED" ~> b \in dropped \/ [](TicketsOf(b) = {})

\* What this module supposes of booking-service is what it does.
FollowsLifecycle == Lifecycle!Spec

=============================================================================
