---------------------------- MODULE BookingSystem ----------------------------
(***************************************************************************)
(* booking-service together with the least it may assume of the services   *)
(* it exchanges events with.  payment-service and ticket-service may       *)
(* publish anything their code allows them to publish after what they have *)
(* been told so far, at any time and in any order; nothing obliges them.   *)
(***************************************************************************)
EXTENDS BookingService

CONSTANT Foreign        \* the events the other services publish in an instance

ASSUME ForeignAssumption == Foreign \subseteq PaymentEventType \cup {"tickets.issued"}

vars == <<serviceVars, published>>

Publish(type, b) ==
  /\ type \in Foreign
  /\ published' = published \cup {EventOf(type, b, {})}
  /\ UNCHANGED serviceVars

\* applyPaid(): an invoice exists only for a booking the gateway charged.
PaymentSettles(b) == b \in charged /\ Publish("payment.settled", b)

\* applyFailed(): also published when the payment is no longer PENDING.
PaymentFails(b) == b \in charged /\ Publish("payment.failed", b)

\* requestRefund() and reconcileRefunds(): the provider can only be refunding
\* or have refunded a settled payment; failure may also mean there is none.
PaymentRefunds(b) ==
  /\ Published("booking.refund.requested", b)
  /\ \/ /\ Published("payment.settled", b)
        /\ \/ Publish("payment.refund_pending", b)
           \/ Publish("payment.refunded", b)
     \/ Publish("payment.refund_failed", b)

\* issue() refuses a booking.confirmed without seats.
TicketsIssue(b) ==
  /\ \E e \in published : /\ e.type = "booking.confirmed"
                          /\ e.booking = b /\ e.seats # {}
  /\ Publish("tickets.issued", b)

Environment == \E b \in Bookings : \/ PaymentSettles(b)
                                   \/ PaymentFails(b)
                                   \/ PaymentRefunds(b)
                                   \/ TicketsIssue(b)

Init == ServiceInit /\ published = {}

Next == ServiceRuns \/ ServiceFaults \/ Environment

Spec == Init /\ [][Next]_vars

\* The same system when nothing crashes or throws and Redis keeps every key
\* until it is released.  What is left is handlers interleaving.
CalmSpec == Init /\ [][ServiceRuns \/ Environment]_vars

-----------------------------------------------------------------------------
(* Properties that hold however handlers interleave.                        *)

TypeOK ==
  /\ bookings \in [Bookings -> BookingRow]
  /\ seatRow \in [Seats -> Bookings \cup {None}]
  /\ lock \in [Seats -> Bookings \cup {None}]
  /\ activeLocks \in [Bookings -> SUBSET Seats]
  /\ lapsed \subseteq Bookings
  /\ task \in [Workers -> Task \cup {Idle}]
  /\ charged \subseteq Bookings
  /\ published \subseteq Event

\* Nothing is sold or given back before the money arrived: a booking is
\* marked paid, its tickets are ordered (booking.confirmed) and its refund is
\* requested only after payment.settled for it, whatever copies of the row
\* were in flight (onPaymentSettled, cancel, the retry crons).
MoneyFirst ==
  \A b \in Bookings :
    \/ bookings[b].paidAt
    \/ Published("booking.confirmed", b)
    \/ Published("booking.refund.requested", b)
    => Published("payment.settled", b)

\* A booking is REFUNDED, and ticket-service told so, only after the provider
\* completed the refund (onRefunded is the only way there).
RefundedByProvider ==
  \A b \in Bookings :
    bookings[b].status = "REFUNDED" \/ Published("booking.refunded", b)
    => Published("payment.refunded", b)

\* CONFIRMED means paid and ticketed; a refund in flight is always of a paid
\* booking and can be picked up by the retry cron (cancel, onRefundPending,
\* onRefundFailed, onTicketsIssued).
RowsCoherent ==
  \A b \in Bookings :
    /\ bookings[b].status = "CONFIRMED" =>
         bookings[b].ticketsIssuedAt /\ Published("tickets.issued", b)
    /\ bookings[b].ticketsIssuedAt => bookings[b].paidAt
    /\ bookings[b].status = "REFUND_PENDING" =>
         bookings[b].paidAt /\ bookings[b].refundRequestedAt

-----------------------------------------------------------------------------
(* Why they hold: the same facts about every copy of a row a handler is     *)
(* carrying, and about the events it has yet to publish.                    *)

RowOK(P, b, row) ==
  /\ row.paidAt => Among(P, "payment.settled", b)
  /\ row.ticketsIssuedAt => row.paidAt /\ Among(P, "tickets.issued", b)
  /\ row.status = "CONFIRMED" => row.ticketsIssuedAt
  /\ row.status = "REFUND_PENDING" => row.paidAt /\ row.refundRequestedAt
  /\ row.status = "REFUNDED" => Among(P, "payment.refunded", b)

\* What must be among the events P before booking-service publishes another.
EventOK(P, type, b) ==
  /\ type \in {"booking.confirmed", "booking.refund.requested"}
     => Among(P, "payment.settled", b)
  /\ type = "booking.refunded" => Among(P, "payment.refunded", b)

EmitsOK(P, emits, b) == \A i \in 1 .. Len(emits) : EventOK(P, emits[i], b)

TaskOK(P, t) ==
  /\ RowOK(P, t.b, t.row)
  /\ EmitsOK(P, t.emits, t.b)
  /\ t.pc \in {"settledExtend", "settledRows", "settledExists"}
     => Among(P, "payment.settled", t.b)

\* Every stored row, every copy of a row that a handler is carrying across an
\* await and every event published or still to be published is justified by
\* events that came before: no interleaving of whole-row saves makes up a
\* payment, a refund or tickets.
Justified ==
  /\ \A b \in Bookings : RowOK(published, b, bookings[b])
  /\ \A w \in Workers : ~Free(w) => TaskOK(published, task[w])
  /\ \A e \in published : EventOK(published, e.type, e.booking)

-----------------------------------------------------------------------------
(* Properties that hold when handlers run one at a time (one worker), with  *)
(* crashes, lapsing holds and lost or repeated events in between.           *)

\* The seats of a paid booking are its own until it is REFUNDED: every
\* booking.confirmed ordered tickets for exactly the seat rows the booking
\* still has (hold, deleteStaleSeatRows, confirmedPayload).
TicketedSeatsOwned ==
  \A e \in published :
    e.type = "booking.confirmed" /\ bookings[e.booking].status # "REFUNDED"
    => e.seats # {} /\ e.seats = SeatsOf(e.booking)

\* The seat map is right at both ends: a seat whose tickets were ordered does
\* not look free until its booking is REFUNDED, and a seat that looks free is
\* one the next hold can have, its old row being one deleteStaleSeatRows finds
\* (availability, deleteStaleSeatRows).
SeatMapHonest ==
  /\ \A e \in published :
       e.type = "booking.confirmed" /\ bookings[e.booking].status # "REFUNDED"
       => \A s \in e.seats : Availability(s) = "BOOKED"
  /\ \A s \in Seats :
       Availability(s) = "AVAILABLE" => seatRow[s] = None \/ Stale(seatRow[s])

\* No seat is sold twice: two bookings that both stand (pending, confirmed or
\* waiting for a refund) never have tickets ordered for the same seat (class
\* comment of BookingsService).
NoDoubleSale ==
  \A e, f \in published :
    /\ e.type = "booking.confirmed" /\ f.type = "booking.confirmed"
    /\ e.booking # f.booking /\ e.seats \cap f.seats # {}
    => \E b \in {e.booking, f.booking} :
         bookings[b].status \notin {"PENDING", "CONFIRMED", "REFUND_PENDING"}

\* ticket-service voids tickets on booking.cancelled and booking.expired as
\* well as on booking.refunded; for a booking whose tickets were ordered only
\* booking.refunded may come (onPaymentFailed, expireBooking, cancel).
VoidedOnlyByRefund ==
  \A b \in Bookings :
    Published("booking.confirmed", b)
    => ~Published("booking.cancelled", b) /\ ~Published("booking.expired", b)

\* The stage of a booking in the abstract life cycle.
StageOf(row) ==
  CASE row.status = "ABSENT" -> "NONE"
    [] row.status = "PENDING" -> (IF row.paidAt THEN "PAID" ELSE "HELD")
    [] OTHER -> row.status

Lifecycle == INSTANCE BookingLifecycle
             WITH stage <- [b \in Bookings |-> StageOf(bookings[b])]

\* Every step of the service moves a booking along the life cycle or not at
\* all: no stale copy undoes a payment or revives a finished booking.
FollowsLifecycle == Lifecycle!Spec

=============================================================================
