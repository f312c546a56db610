------------------------------ MODULE Gateway ------------------------------
(***************************************************************************)
(* The gateway as the booking pages see it: requests in flight, what each  *)
(* does to bookings and seats, and what it is answered.                    *)
(*                                                                         *)
(* Behind the gateway a booking goes through the stages BookingLifecycle   *)
(* allows (BookingSystem implements it); other customers take and leave    *)
(* seats at any time.  A request and its answer take their time and may    *)
(* overtake others; either may be lost, or the service may refuse for      *)
(* reasons of its own.                                                     *)
(***************************************************************************)
EXTENDS Naturals, FiniteSets

CONSTANTS Bookings,             \* of one customer
          Past,                 \* those that were over before
          Seats,                \* of one showtime
          Slots,                \* bound: requests in flight, numbered
          MAX_SEATS_PER_HOLD,
          None

ASSUME PastAssumption == Past \subseteq Bookings
ASSUME SlotsAssumption == Slots \subseteq Nat

VARIABLES stage,      \* of each booking
          lapsed,     \* bookings whose expiresAt is past
          calls       \* the requests in flight

serverVars == <<stage, lapsed>>

Lifecycle == INSTANCE BookingLifecycle

Statuses == {"PENDING", "CONFIRMED", "EXPIRED", "CANCELLED", "REFUND_PENDING", "REFUNDED"}

StatusOf(b) == IF stage[b] \in {"HELD", "PAID"} THEN "PENDING" ELSE stage[b]

Known(b) == stage[b] # "NONE"

View == [booking : Bookings, status : Statuses]

Answer == [is : {"view", "invoice"}, view : View]
     \cup [is : {"map"}, taken : SUBSET Seats]
     \cup [is : {"list"}, list : [Bookings -> Statuses \cup {None}]]
     \cup [is : {"conflict", "signedOut", "failed"}]

Ops == {"load", "poll", "sync", "pay", "map", "refresh", "hold", "list", "cancel"}

\* at: "prepared" and "applied" are steps of pay and cancel; "leaving" is the half second
\* in which CheckoutPage shows that it goes to the provider.  mounted tells if
\* the page that asked is still there.
Call == [op : Ops, booking : Bookings \cup {None}, mounted : BOOLEAN,
         at : {"sent", "prepared", "applied", "answered", "leaving"},
         answer : Answer \cup {None}]

Request(op, b) ==
  [op |-> op, booking |-> b, mounted |-> TRUE, at |-> "sent", answer |-> None]

Unused(k) == calls[k] = None

At(k, at) == ~Unused(k) /\ calls[k].at = at

Asked(k, op) == At(k, "sent") /\ calls[k].op = op

\* A request takes the first slot that is free.
FirstUnused(k, cs) == cs[k] = None /\ \A j \in Slots : cs[j] = None => k <= j

Sent(k, op, b) ==
  FirstUnused(k, calls) /\ calls' = [calls EXCEPT ![k] = Request(op, b)]

Done(k) == calls' = [calls EXCEPT ![k] = None]

Reply(k, answer) ==
  calls' = [calls EXCEPT ![k].at = "answered", ![k].answer = answer]

ViewOf(b) == [booking |-> b, status |-> StatusOf(b)]

Failed == [is |-> "failed"]

-----------------------------------------------------------------------------
(* What a request does.                                                     *)

\* get(), and syncPaymentStatus(): what the sync finds reaches booking-service
\* by events, later.  A booking that is not there is a 404.
ServeView(k) ==
  /\ Asked(k, "load") \/ Asked(k, "poll") \/ Asked(k, "sync")
  /\ LET b == calls[k].booking IN
     Reply(k, IF Known(b) THEN [is |-> "view", view |-> ViewOf(b)] ELSE Failed)
  /\ UNCHANGED serverVars

ServeList(k) ==
  /\ Asked(k, "list")
  /\ Reply(k, [is |-> "list",
               list |-> [b \in Bookings |-> IF Known(b) THEN StatusOf(b) ELSE None]])
  /\ UNCHANGED serverVars

\* seatMap(): which seats others hold or have booked.  If booking-service cannot
\* be reached every seat looks available.
ServeMap(k) ==
  /\ Asked(k, "map") \/ Asked(k, "refresh")
  /\ \E taken \in SUBSET Seats : Reply(k, [is |-> "map", taken |-> taken])
  /\ UNCHANGED serverVars

\* hold(): a new booking with all the seats, perhaps told to nobody, or 409 if one of
\* them is taken.
ServeHold(k) ==
  /\ Asked(k, "hold")
  /\ \/ \E b \in Bookings :
          /\ ~Known(b)
          /\ stage' = [stage EXCEPT ![b] = "HELD"]
          /\ \/ Reply(k, [is |-> "view", view |-> [booking |-> b, status |-> "PENDING"]])
             \/ Reply(k, Failed)
     \/ Reply(k, [is |-> "conflict"]) /\ UNCHANGED stage
  /\ UNCHANGED lapsed

\* cancel(): an unpaid booking is cancelled, a paid one refunded.
ServeCancel(k) ==
  /\ Asked(k, "cancel")
  /\ LET b == calls[k].booking IN
     \/ /\ stage[b] \in {"HELD", "PAID", "CONFIRMED"}
        /\ stage' = [stage EXCEPT ![b] = IF @ = "HELD" THEN "CANCELLED" ELSE "REFUND_PENDING"]
        /\ calls' = [calls EXCEPT ![k].at = "applied"]
     \/ /\ stage[b] \notin {"HELD", "PAID", "CONFIRMED"}
        /\ Reply(k, Failed)
        /\ UNCHANGED stage
  /\ UNCHANGED lapsed

\* pay(): three calls of two services, one after the other.  PrepareCharge
\* expires a hold that is past its time or has lost its seat locks.
PrepareCharge(k) ==
  /\ Asked(k, "pay")
  /\ LET b == calls[k].booking IN
     \/ /\ stage[b] = "HELD" /\ b \notin lapsed
        /\ calls' = [calls EXCEPT ![k].at = "prepared"]
        /\ UNCHANGED stage
     \/ /\ stage[b] = "HELD"
        /\ stage' = [stage EXCEPT ![b] = "EXPIRED"]
        /\ Reply(k, Failed)
     \/ /\ stage[b] # "HELD"
        /\ Reply(k, Failed)
        /\ UNCHANGED stage
  /\ UNCHANGED lapsed

\* Refused if a refund is under way.
Charge(k) ==
  /\ At(k, "prepared")
  /\ IF stage[calls[k].booking] \in {"REFUND_PENDING", "REFUNDED"}
     THEN Reply(k, Failed)
     ELSE calls' = [calls EXCEPT ![k].at = "applied"]
  /\ UNCHANGED serverVars

\* Both end by reading the booking again.
ReadBack(k) ==
  /\ At(k, "applied")
  /\ Reply(k, [is |-> IF calls[k].op = "pay" THEN "invoice" ELSE "view",
               view |-> ViewOf(calls[k].booking)])
  /\ UNCHANGED serverVars

\* The network, a service that is down or refuses, an expired token (401; it
\* matters to pay alone).  A request that was carried out may fail too.
Unserved(k) ==
  /\ \E at \in {"sent", "prepared", "applied"} : At(k, at)
  /\ \/ Reply(k, Failed)
     \/ Asked(k, "pay") /\ Reply(k, [is |-> "signedOut"])
  /\ UNCHANGED serverVars

Serve(k) ==
  \/ ServeView(k) \/ ServeList(k) \/ ServeMap(k) \/ ServeHold(k) \/ ServeCancel(k)
  \/ PrepareCharge(k) \/ Charge(k) \/ ReadBack(k) \/ Unserved(k)

-----------------------------------------------------------------------------
(* What happens behind the gateway meanwhile.                               *)

\* A hold that fails takes its booking back before it answers; only its
\* customer cancels one.
BookingMoves(b) ==
  /\ Known(b)
  /\ \E s \in Lifecycle!After[stage[b]] \ {"NONE", "CANCELLED"} :
       stage' = [stage EXCEPT ![b] = s]
  /\ UNCHANGED lapsed

Lapses(b) ==
  /\ Known(b) /\ b \notin lapsed
  /\ lapsed' = lapsed \cup {b}
  /\ UNCHANGED stage

GatewayInit ==
  /\ stage = [b \in Bookings |-> IF b \in Past THEN "REFUNDED" ELSE "NONE"]
  /\ lapsed = Past
  /\ calls = [k \in Slots |-> None]

GatewayTypeOK ==
  /\ stage \in [Bookings -> Lifecycle!Stage]
  /\ lapsed \subseteq Bookings
  /\ calls \in [Slots -> Call \cup {None}]

=============================================================================
