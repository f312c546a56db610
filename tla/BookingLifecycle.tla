-------------------------- MODULE BookingLifecycle --------------------------
(***************************************************************************)
(* What booking-service promises about one booking, seen by its customer   *)
(* and by the other services: the stages it goes through.  HELD and PAID   *)
(* are the two halves of PENDING (paidAt null or set).                     *)
(***************************************************************************)
CONSTANT Bookings

VARIABLE stage

Stage == {"NONE", "HELD", "PAID", "CONFIRMED", "EXPIRED", "CANCELLED",
          "REFUND_PENDING", "REFUNDED"}

\* The stages that may follow a stage.  Money moves a booking out of HELD for
\* good; EXPIRED and CANCELLED are left only by refunding late money; a
\* refused refund restores what was paid for; REFUNDED is final.
After == [NONE           |-> {"HELD"},
          HELD           |-> {"NONE", "PAID", "EXPIRED", "CANCELLED"},
          PAID           |-> {"CONFIRMED", "REFUND_PENDING", "REFUNDED"},
          CONFIRMED      |-> {"REFUND_PENDING", "REFUNDED"},
          EXPIRED        |-> {"REFUNDED"},
          CANCELLED      |-> {"REFUNDED"},
          REFUND_PENDING |-> {"PAID", "CONFIRMED", "REFUNDED"},
          REFUNDED       |-> {}]

Init == stage = [b \in Bookings |-> "NONE"]

Advance(b) == \E s \in After[stage[b]] : stage' = [stage EXCEPT ![b] = s]

Next == \E b \in Bookings : Advance(b)

Spec == Init /\ [][Next]_stage

=============================================================================
