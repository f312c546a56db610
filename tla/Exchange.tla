------------------------------ MODULE Exchange ------------------------------
(***************************************************************************)
(* The RabbitMQ topic exchange `ticketing.internal` through which booking-,  *)
(* payment- and ticket-service talk.  RabbitMQ is not part of the          *)
(* repository; this module keeps what the services rely on.                *)
(*                                                                         *)
(* published is the set of all events ever handed to the exchange.  A      *)
(* consumer may handle an event of the set at any later time, any number   *)
(* of times, in any order, or never.  That covers                          *)
(*   - redelivery after a crash between the handler and its ack, and the   *)
(*     same event published twice by its producer (duplicates);            *)
(*   - the nack WITHOUT requeue of RmqAckInterceptor (loss);               *)
(*   - handlers of one queue running concurrently, because Nest consumes   *)
(*     with an unlimited prefetch (reordering).                            *)
(***************************************************************************)

CONSTANTS Bookings,     \* booking ids (uuids generated on insert)
          Seats         \* seat ids of the one showtime that is modelled

VARIABLE published

BookingEventType == {"booking.confirmed", "booking.cancelled",
                     "booking.expired", "booking.refund.requested",
                     "booking.refunded", "payment.received"}

PaymentEventType == {"payment.settled", "payment.failed",
                     "payment.refund_pending", "payment.refunded",
                     "payment.refund_failed"}

EventType == BookingEventType \cup PaymentEventType \cup {"tickets.issued"}

\* Of the payloads only the booking and, for booking.confirmed, the seats to
\* ticket decide anything downstream.
Event == [type : EventType, booking : Bookings, seats : SUBSET Seats]

EventOf(type, b, S) == [type |-> type, booking |-> b, seats |-> S]

\* Some event of this type about booking b is among the events P.
Among(P, type, b) == \E e \in P : e.type = type /\ e.booking = b

\* It is or has been on the exchange.
Published(type, b) == Among(published, type, b)

=============================================================================
