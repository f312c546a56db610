---------------------------- MODULE PaymentSystem ----------------------------
(***************************************************************************)
(* payment-service with its provider and the least it may assume of the    *)
(* other services: the gateway may call charge for any booking at any      *)
(* time, and booking-service asks for a refund only after payment.settled. *)
(***************************************************************************)
EXTENDS PaymentService

CONSTANT Foreign        \* the events the other services publish in an instance

ASSUME ForeignAssumption == Foreign \subseteq BookingEventType \cup {"tickets.issued"}

vars == <<paymentVars, published>>

\* cancel(), expireBooking(), requestLatePaymentRefund() and what else may be
\* published for booking b; only booking.confirmed names seats.
OthersPublish(b) ==
  /\ \E type \in Foreign, S \in SUBSET Seats :
       /\ type = "booking.refund.requested" => Published("payment.settled", b)
       /\ S # {} => type = "booking.confirmed"
       /\ published' = published \cup {EventOf(type, b, S)}
  /\ UNCHANGED paymentVars

PaymentRuns ==
  \/ \E w \in Workers : \/ PaymentHandler(w) \/ PaymentProceeds(w)
                        \/ \E b \in Bookings : Charge(w, b)
  \/ \E b \in Bookings : OthersPublish(b)
  \/ Provider

Init == PaymentInit /\ published = {}

Next == PaymentRuns \/ PaymentFaults

Spec == Init /\ [][Next]_vars

\* The same system when nothing crashes or throws.
CalmSpec == Init /\ [][PaymentRuns]_vars

-----------------------------------------------------------------------------
(* Properties that hold however handlers interleave.                         *)

TypeOK ==
  /\ payments \in [Bookings -> PaymentRow]
  /\ invoices \in [Invoices -> Invoice]
  /\ refunds \in [Refunds -> Refund]
  /\ offered \subseteq Invoices
  /\ job \in [Workers -> Job \cup {Idle}]
  /\ published \subseteq Event

\* The statuses of a payment that was settled.
Settled == {"PAID", "REFUND_PENDING", "REFUNDED"}

\* By the books of the provider, invoices I and refunds R, booking b was paid.
Received(I, b) == \E i \in Invoices : I[i].booking = b /\ I[i].status = "PAID"

\* Money of booking b was given back.
Returned(I, R, b) ==
  \E r \in Refunds : R[r].status = "SUCCEEDED" /\ I[R[r].invoice].booking = b

MoneyReceived(b) == Received(invoices, b)

MoneyReturned(b) == Returned(invoices, refunds, b)

\* A refund of booking b is under way or done.
RefundLive(b) ==
  \E r \in Refunds : /\ refunds[r].status \in {"PENDING", "SUCCEEDED"}
                     /\ invoices[refunds[r].invoice].booking = b

\* Nothing is paid until the provider settled it: a payment is marked PAID (or
\* anything after it) and payment.settled published only if an invoice of that
\* very booking was paid, whichever callback, sync or stale copy said so.
SettledIsReal ==
  \A b \in Bookings :
    payments[b].status \in Settled \/ Published("payment.settled", b)
    => MoneyReceived(b)

\* REFUNDED is never said before the provider said SUCCEEDED, in the table or
\* to booking-service (requestRefund, reconcileRefunds).
RefundedIsReal ==
  \A b \in Bookings :
    payments[b].status = "REFUNDED" \/ Published("payment.refunded", b)
    => MoneyReturned(b)

\* reconcileRefunds() skips a payment without refundId, so a refund under way
\* must always have one, of an invoice of its own booking.
RefundsReachable ==
  \A b \in Bookings :
    payments[b].status = "REFUND_PENDING" =>
      /\ payments[b].refundId \in Refunds
      /\ invoices[refunds[payments[b].refundId].invoice].booking = b

\* The books I, R back a row of booking b, or a copy of it.
RowBacked(I, R, b, row) ==
  /\ row.status # "ABSENT" => /\ row.invoiceId \in Invoices
                              /\ I[row.invoiceId].status # "NONE"
                              /\ I[row.invoiceId].booking = b
  /\ row.status \in Settled => Received(I, b)
  /\ row.status = "REFUNDED" => Returned(I, R, b)
  /\ row.status = "REFUND_PENDING" => /\ row.refundId \in Refunds
                                      /\ R[row.refundId].status # "NONE"
                                      /\ I[R[row.refundId].invoice].booking = b

EventBacked(I, R, type, b) ==
  /\ type = "payment.settled" => Received(I, b)
  /\ type = "payment.refunded" => Returned(I, R, b)

JobBacked(I, R, j) ==
  /\ RowBacked(I, R, j.b, j.row) /\ EventBacked(I, R, j.emit, j.b)
  /\ j.pc \in {"syncInvoice", "expireInvoice"} => j.row.status = "PENDING"
  /\ j.pc = "createRefund" => j.row.status = "PAID"
  /\ j.pc = "getRefund" => j.row.status = "REFUND_PENDING"
  /\ j.pc = "emit" => j.emit # "none"

BooksOK(I, R) ==
  /\ \A i \in Invoices : I[i].status # "NONE" => I[i].booking \in Bookings
  /\ \A r \in Refunds :
       R[r].status # "NONE" => R[r].invoice \in Invoices /\ I[R[r].invoice].status = "PAID"

\* The inductive invariant: the provider's books back every row, every copy
\* that a handler carries across an await and will save whole, and every event
\* published or about to be.
Backed ==
  /\ BooksOK(invoices, refunds)
  /\ \A b \in Bookings : RowBacked(invoices, refunds, b, payments[b])
  /\ \A w \in Workers : Free(w) \/ JobBacked(invoices, refunds, job[w])
  /\ \A e \in published : EventBacked(invoices, refunds, e.type, e.booking)

-----------------------------------------------------------------------------
(* Properties of handlers that run one at a time.                            *)

\* A settlement is never forgotten: no handler takes a payment that was settled
\* back to PENDING or FAILED (charge, applyFailed, expireInvoice).
PaidNotForgotten ==
  [][\A b \in Bookings :
       payments[b].status \in Settled => payments'[b].status \in Settled]_vars

-----------------------------------------------------------------------------
(* What the code's comments claim and it does not do.                        *)

\* requestRefund is idempotent: the provider is not asked for a refund while
\* one of the same booking is under way or done.
AsksOnce ==
  \A w \in Workers : ~Free(w) /\ job[w].pc = "createRefund" => ~RefundLive(job[w].b)

=============================================================================
