-------------------------------- MODULE Saga --------------------------------
(***************************************************************************)
(* The purchase saga: booking-service and payment-service over one         *)
(* exchange, with the gateway's pay that calls one after the other.        *)
(*                                                                         *)
(* BookingSystem and PaymentSystem each check one service with the least   *)
(* it may assume of the other.  Here the other is there, and both          *)
(* assumptions become properties.  ticket-service is still the one that    *)
(* BookingSystem assumes.                                                  *)
(***************************************************************************)
EXTENDS BookingSystem

CONSTANTS PaymentWorkers,       \* handlers of payment-service in flight together
          Invoices,             \* bound: invoices the provider creates
          Refunds               \* bound: refunds the provider creates

ASSUME AllEventsAssumption == Foreign = PaymentEventType \cup {"tickets.issued"}

ASSUME NoIdAssumption == None \notin Invoices \cup Refunds

VARIABLES payments, invoices, refunds, offered, job      \* see PaymentService

Payment == INSTANCE PaymentSystem
           WITH Workers <- PaymentWorkers,
                Foreign <- BookingEventType \cup {"tickets.issued"}

paymentVars == <<payments, invoices, refunds, offered, job>>

sagaVars == <<serviceVars, paymentVars, published>>

-----------------------------------------------------------------------------

BookingSteps ==
  /\ ServiceRuns \/ ServiceFaults
  /\ UNCHANGED paymentVars

\* Mutant of Pay: the gateway does not wait for prepareCharge.
PayUnprepared(w, b) == Payment!Charge(w, b) /\ UNCHANGED serviceVars

\* pay() of the gateway: Charge is called for what prepareCharge let through,
\* which may be some time ago.
Pay(w, b) == b \in charged /\ Payment!Charge(w, b) /\ UNCHANGED serviceVars

PaymentSteps ==
  /\ \/ \E w \in PaymentWorkers : Payment!PaymentHandler(w) \/ Payment!PaymentProceeds(w)
     \/ Payment!Provider
     \/ Payment!PaymentFaults
  /\ UNCHANGED serviceVars

TicketSteps ==
  /\ \E b \in Bookings : TicketsIssue(b)
  /\ UNCHANGED paymentVars

SagaInit == ServiceInit /\ Payment!PaymentInit /\ published = {}

SagaNext == \/ BookingSteps
            \/ \E w \in PaymentWorkers, b \in Bookings : Pay(w, b)
            \/ PaymentSteps
            \/ TicketSteps

SagaSpec == SagaInit /\ [][SagaNext]_sagaVars

-----------------------------------------------------------------------------

\* Each service gives the other what it was checked with: all that payment-service
\* publishes, booking-service may expect after what it said before, and the other
\* way round (a refund is asked for only after payment.settled).
Composed == Spec /\ Payment!Spec

\* From one end to the other: a booking is marked paid and its tickets are ordered
\* only if the provider received money for this very booking, and it is marked
\* refunded, and its tickets are void for that, only if the provider gave money
\* back, whatever events were late, repeated or lost between the services.
MoneyIsReal ==
  \A b \in Bookings :
    /\ bookings[b].paidAt \/ Published("booking.confirmed", b) => Payment!MoneyReceived(b)
    /\ bookings[b].status = "REFUNDED" \/ Published("booking.refunded", b)
       => Payment!MoneyReturned(b)

=============================================================================
