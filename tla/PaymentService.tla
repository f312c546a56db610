--------------------------- MODULE PaymentService ---------------------------
(***************************************************************************)
(* payment-service: one payment record per booking, the hosted invoices    *)
(* and refunds behind it at the provider (Xendit, external), and the       *)
(* events that tell booking-service about them.                            *)
(*                                                                         *)
(* As in booking-service a handler loads a payment, awaits the provider,   *)
(* and later saves the whole copy.  A job of a worker is a handler in      *)
(* flight; it takes one step per call of the provider, the database or the *)
(* broker.                                                                 *)
(***************************************************************************)
EXTENDS Exchange

CONSTANTS Workers,      \* handlers that may be in flight together
          Invoices,     \* bound: invoices the provider creates
          Refunds,      \* bound: refunds the provider creates
          None          \* no id

ASSUME NoIdAssumption == None \notin Bookings \cup Invoices \cup Refunds

VARIABLES payments,     \* table payments: UNIQUE (booking_id)
          invoices,     \* provider: booking and status of each invoice
          refunds,      \* provider: invoice and status of each refund
          offered,      \* invoices whose checkout URL was returned
          job           \* what each worker is doing

paymentVars == <<payments, invoices, refunds, offered, job>>

-----------------------------------------------------------------------------
(* Rows.  The timestamps and the amount decide nothing.  checkoutUrl is set  *)
(* with invoiceId; externalId is a function of the booking.                  *)

PaymentStatus == {"PENDING", "PAID", "FAILED", "REFUND_PENDING", "REFUNDED"}

PaymentRow == [status : PaymentStatus \cup {"ABSENT"},
               invoiceId : Invoices \cup {None}, refundId : Refunds \cup {None}]

\* No row for this booking.
NoPayment == [status |-> "ABSENT", invoiceId |-> None, refundId |-> None]

\* The provider settles an invoice (PAID, SETTLED, CAPTURED) or lets it die
\* (EXPIRED, FAILED, CANCELLED).  NONE: not created yet.
Invoice == [booking : Bookings \cup {None},
            status : {"NONE", "PENDING", "PAID", "EXPIRED"}]

Refund == [invoice : Invoices \cup {None},
           status : {"NONE", "PENDING", "SUCCEEDED", "FAILED"}]

\* What createRefund may answer; the code takes all but SUCCEEDED for pending.
RefundAnswer == {"PENDING", "SUCCEEDED", "FAILED"}

-----------------------------------------------------------------------------
(* Jobs.  emit is the event to publish last, or "none"; insert says that the *)
(* copy is a new row; guarded that an error ends in the catch block of       *)
(* requestRefund.                                                            *)

Call == {"getInvoice", "createInvoice", "syncInvoice", "expireInvoice",
         "createRefund", "getRefund"}

Job == [pc : Call \cup {"save", "emit"}, b : Bookings, row : PaymentRow,
        insert : BOOLEAN, guarded : BOOLEAN, emit : PaymentEventType \cup {"none"}]

Idle == [pc |-> "idle"]

Loaded(b) == [pc |-> "save", b |-> b, row |-> payments[b], insert |-> FALSE,
              guarded |-> FALSE, emit |-> "none"]

Calling(j, pc) == [j EXCEPT !.pc = pc]

\* await save(row); await the event.
Saving(j, row, emit) == [j EXCEPT !.pc = "save", !.row = row, !.emit = emit]

\* Mutant: publishes even if there is nothing to publish.
EmittingAnyway(j, emit) ==
  [j EXCEPT !.pc = "emit", !.row = NoPayment, !.insert = FALSE, !.emit = emit]

\* Nothing (more) to save: the copy is dead.
Emitting(j, emit) ==
  IF emit = "none" THEN Idle
  ELSE [j EXCEPT !.pc = "emit", !.row = NoPayment, !.insert = FALSE, !.emit = emit]

\* Mutant: a payment that is already PAID is not reported again.
ApplyPaidOnce(j) ==
  IF j.row.status = "PAID" THEN Idle
  ELSE Saving(j, [j.row EXCEPT !.status = "PAID"], "payment.settled")

ApplyPaid(j) ==
  IF j.row.status = "PAID" THEN Emitting(j, "payment.settled")
  ELSE Saving(j, [j.row EXCEPT !.status = "PAID"], "payment.settled")

\* Mutant: a failed invoice fails the payment whatever its status.
ApplyFailedAlways(j) == Saving(j, [j.row EXCEPT !.status = "FAILED"], "payment.failed")

ApplyFailed(j) ==
  IF j.row.status # "PENDING" THEN Emitting(j, "payment.failed")
  ELSE Saving(j, [j.row EXCEPT !.status = "FAILED"], "payment.failed")

\* What is left of a job when a call of it throws.
Thrown(j) ==
  IF j.guarded THEN [Emitting(j, "payment.refund_failed") EXCEPT !.guarded = FALSE]
  ELSE Idle

Free(w) == job[w] = Idle

\* Worker w goes on with job j; the step changes nothing else.
Continue(w, j) ==
  /\ job' = [job EXCEPT ![w] = j]
  /\ UNCHANGED <<payments, invoices, refunds, offered, published>>

\* A free worker starts a handler.
Begin(w, j) == Free(w) /\ Continue(w, j)

-----------------------------------------------------------------------------
(* charge(), webhook() and syncPaymentStatus().                              *)

\* A settled payment is returned as it is, one being refunded is refused.
Charge(w, b) ==
  /\ payments[b].status \in {"ABSENT", "PENDING", "FAILED"}
  /\ Begin(w, [Loaded(b) EXCEPT
                 !.pc = IF payments[b].invoiceId # None THEN "getInvoice"
                                                        ELSE "createInvoice",
                 !.insert = (payments[b].status = "ABSENT")])

\* A live invoice is reused.
ChargeGetInvoice(w) ==
  /\ job[w].pc = "getInvoice"
  /\ Continue(w, IF invoices[job[w].row.invoiceId].status = "PENDING" THEN Idle
                 ELSE Calling(job[w], "createInvoice"))

\* The provider creates invoice i for booking b.
NewInvoice(i, b) ==
  /\ invoices[i].status = "NONE"
  /\ invoices' = [invoices EXCEPT ![i] = [booking |-> b, status |-> "PENDING"]]

ChargeCreateInvoice(w) ==
  /\ job[w].pc = "createInvoice"
  /\ \E i \in Invoices :
       /\ NewInvoice(i, job[w].b)
       /\ job' = [job EXCEPT ![w] =
                    Saving(job[w], [status |-> "PENDING", invoiceId |-> i,
                                    refundId |-> None], "none")]
  /\ UNCHANGED <<payments, refunds, offered, published>>

\* A callback names its invoice; if no row has that invoice (any more), the
\* external reference leads to the row of the invoice's booking.
Webhook(w, i) ==
  LET b == invoices[i].booking IN
  /\ invoices[i].status \in {"PAID", "EXPIRED"}
  /\ payments[b].status # "ABSENT"
  /\ Begin(w, IF invoices[i].status = "PAID" THEN ApplyPaid(Loaded(b))
                                             ELSE ApplyFailed(Loaded(b)))

SyncPaymentStatus(w, b) ==
  /\ payments[b].status = "PENDING"
  /\ Begin(w, Calling(Loaded(b), "syncInvoice"))

\* Mutant: an invoice that is no longer open is taken for paid.
SyncClosedIsPaid(w) ==
  /\ job[w].pc = "syncInvoice"
  /\ Continue(w, IF invoices[job[w].row.invoiceId].status = "PENDING" THEN Idle
                 ELSE ApplyPaid(job[w]))

SyncGetInvoice(w) ==
  /\ job[w].pc = "syncInvoice"
  /\ LET status == invoices[job[w].row.invoiceId].status IN
     Continue(w, CASE status = "PAID" -> ApplyPaid(job[w])
                   [] status = "EXPIRED" -> ApplyFailed(job[w])
                   [] OTHER -> Idle)

-----------------------------------------------------------------------------
(* Events of booking-service, and the refund cron.                           *)

\* Mutant: a request for a refund that is already done is ignored.
RequestRefundOnce(w, b) ==
  LET j == Loaded(b)
      Report(S, type) == payments[b].status \in S /\ Begin(w, Emitting(j, type))
  IN
  /\ Published("booking.refund.requested", b)
  /\ \/ Report({"REFUND_PENDING"}, "payment.refund_pending")
     \/ Report({"ABSENT", "PENDING", "FAILED"}, "payment.refund_failed")
     \/ /\ payments[b].status = "PAID"
        /\ Begin(w, [Calling(j, "createRefund") EXCEPT !.guarded = TRUE])

\* Every row has an invoice (see Backed in PaymentSystem), so the tests of
\* invoiceId here and in the other handlers always succeed.
RequestRefund(w, b) ==
  LET j == Loaded(b)
      Report(S, type) == payments[b].status \in S /\ Begin(w, Emitting(j, type))
  IN
  /\ Published("booking.refund.requested", b)
  /\ \/ Report({"REFUNDED"}, "payment.refunded")
     \/ Report({"REFUND_PENDING"}, "payment.refund_pending")
     \/ Report({"ABSENT", "PENDING", "FAILED"}, "payment.refund_failed")
     \/ /\ payments[b].status = "PAID"
        /\ Begin(w, [Calling(j, "createRefund") EXCEPT !.guarded = TRUE])

\* The provider starts refund r of a paid invoice, or settles it at once.
\* The request carries no idempotency key, so a second one is a second refund.
NewRefund(r, i, status) ==
  /\ refunds[r].status = "NONE" /\ invoices[i].status = "PAID"
  /\ refunds' = [refunds EXCEPT ![r] = [invoice |-> i, status |-> status]]

\* Mutant: the id of the refund is not kept.
RefundCreatedUnknown(w) ==
  /\ job[w].pc = "createRefund"
  /\ \E r \in Refunds :
       /\ NewRefund(r, job[w].row.invoiceId, "PENDING")
       /\ job' = [job EXCEPT ![w] =
            Saving(job[w], [job[w].row EXCEPT !.status = "REFUND_PENDING"],
                   "payment.refund_pending")]
  /\ UNCHANGED <<payments, invoices, offered, published>>

RefundCreated(w) ==
  /\ job[w].pc = "createRefund"
  /\ \E r \in Refunds, status \in RefundAnswer :
       /\ NewRefund(r, job[w].row.invoiceId, status)
       /\ job' = [job EXCEPT ![w] =
            IF status = "SUCCEEDED"
            THEN Saving(job[w], [job[w].row EXCEPT !.refundId = r, !.status = "REFUNDED"],
                        "payment.refunded")
            ELSE Saving(job[w], [job[w].row EXCEPT !.refundId = r,
                                                   !.status = "REFUND_PENDING"],
                        "payment.refund_pending")]
  /\ UNCHANGED <<payments, invoices, offered, published>>

\* The provider refuses: the invoice on the row is not the one that was paid,
\* the channel has no refunds, a bound is reached.
ProviderRefuses(w) ==
  /\ job[w].pc \in {"createInvoice", "createRefund"}
  /\ Continue(w, Thrown(job[w]))

ExpireInvoice(w, b) ==
  /\ Published("booking.cancelled", b) \/ Published("booking.expired", b)
  /\ payments[b].status = "PENDING"
  /\ Begin(w, Calling(Loaded(b), "expireInvoice"))

\* The provider expires an invoice that is still open, if the call arrives;
\* the adapter never throws.
InvoiceExpireCall(w) ==
  /\ job[w].pc = "expireInvoice"
  /\ LET i == job[w].row.invoiceId IN
     \/ /\ invoices[i].status = "PENDING"
        /\ invoices' = [invoices EXCEPT ![i].status = "EXPIRED"]
     \/ UNCHANGED invoices
  /\ job' = [job EXCEPT ![w] =
               Saving(job[w], [job[w].row EXCEPT !.status = "FAILED"], "none")]
  /\ UNCHANGED <<payments, refunds, offered, published>>

\* reconcileRefunds(), one payment of a pass.
ReconcileRefund(w, b) ==
  /\ payments[b].status = "REFUND_PENDING" /\ payments[b].refundId # None
  /\ Begin(w, Calling(Loaded(b), "getRefund"))

\* Mutant: a refund that has not failed is taken for done.
GetRefundNotFailed(w) ==
  /\ job[w].pc = "getRefund"
  /\ LET row == job[w].row IN
     Continue(w,
       IF refunds[row.refundId].status = "FAILED"
       THEN Saving(job[w], [row EXCEPT !.status = "PAID", !.refundId = None],
                   "payment.refund_failed")
       ELSE Saving(job[w], [row EXCEPT !.status = "REFUNDED"], "payment.refunded"))

GetRefund(w) ==
  /\ job[w].pc = "getRefund"
  /\ LET row == job[w].row
         status == refunds[row.refundId].status
     IN Continue(w,
          CASE status = "SUCCEEDED" ->
                 Saving(job[w], [row EXCEPT !.status = "REFUNDED"], "payment.refunded")
            [] status = "FAILED" ->
                 Saving(job[w], [row EXCEPT !.status = "PAID", !.refundId = None],
                        "payment.refund_failed")
            [] OTHER -> Idle)

-----------------------------------------------------------------------------
(* What handlers have in common after their decision.                        *)

\* Only charge() saves a PENDING row; it returns the checkout URL then.
Save(w) ==
  /\ job[w].pc = "save"
  /\ job[w].insert => payments[job[w].b].status = "ABSENT"
  /\ payments' = [payments EXCEPT ![job[w].b] = job[w].row]
  /\ offered' = offered \cup (IF job[w].row.status = "PENDING"
                              THEN {job[w].row.invoiceId} ELSE {})
  /\ job' = [job EXCEPT ![w] = Emitting(job[w], job[w].emit)]
  /\ UNCHANGED <<invoices, refunds, published>>

\* The unique index refuses a second payment of the booking.
SaveConflict(w) ==
  /\ job[w].pc = "save"
  /\ job[w].insert /\ payments[job[w].b].status # "ABSENT"
  /\ Continue(w, Idle)

Emit(w) ==
  /\ job[w].pc = "emit"
  /\ published' = published \cup {EventOf(job[w].emit, job[w].b, {})}
  /\ job' = [job EXCEPT ![w] = Idle]
  /\ UNCHANGED <<payments, invoices, refunds, offered>>

-----------------------------------------------------------------------------
(* Faults.                                                                   *)

\* A call throws before it had an effect.  charge() falls through to a fresh
\* invoice when the old one cannot be looked up.
Throws(w) ==
  \/ /\ job[w].pc \in {"syncInvoice", "getRefund", "save", "emit"}
     /\ Continue(w, Thrown(job[w]))
  \/ /\ job[w].pc = "getInvoice"
     /\ Continue(w, Calling(job[w], "createInvoice"))

\* The provider did what it was asked and the answer is lost.
AnswerLost(w) ==
  /\ \/ /\ job[w].pc = "createInvoice"
        /\ \E i \in Invoices : NewInvoice(i, job[w].b)
        /\ UNCHANGED refunds
     \/ /\ job[w].pc = "createRefund"
        /\ \E r \in Refunds, status \in RefundAnswer :
             NewRefund(r, job[w].row.invoiceId, status)
        /\ UNCHANGED invoices
  /\ job' = [job EXCEPT ![w] = Thrown(job[w])]
  /\ UNCHANGED <<payments, offered, published>>

\* requestRefund() takes any error of its look-up for a missing payment.
RefundLookupThrows(w, b) ==
  /\ Published("booking.refund.requested", b)
  /\ Begin(w, Emitting(Loaded(b), "payment.refund_failed"))

\* The process dies and is restarted.
Crash ==
  /\ job' = [w \in Workers |-> Idle]
  /\ UNCHANGED <<payments, invoices, refunds, offered, published>>

-----------------------------------------------------------------------------
(* The provider and the customer.                                            *)

CustomerPays(i) ==
  /\ i \in offered /\ invoices[i].status = "PENDING"
  /\ invoices' = [invoices EXCEPT ![i].status = "PAID"]
  /\ UNCHANGED <<payments, refunds, offered, job, published>>

InvoiceLapses(i) ==
  /\ invoices[i].status = "PENDING"
  /\ invoices' = [invoices EXCEPT ![i].status = "EXPIRED"]
  /\ UNCHANGED <<payments, refunds, offered, job, published>>

RefundSettles(r) ==
  /\ refunds[r].status = "PENDING"
  /\ \E status \in {"SUCCEEDED", "FAILED"} :
       refunds' = [refunds EXCEPT ![r].status = status]
  /\ UNCHANGED <<payments, invoices, offered, job, published>>

-----------------------------------------------------------------------------

PaymentInit ==
  /\ payments = [b \in Bookings |-> NoPayment]
  /\ invoices = [i \in Invoices |-> [booking |-> None, status |-> "NONE"]]
  /\ refunds = [r \in Refunds |-> [invoice |-> None, status |-> "NONE"]]
  /\ offered = {}
  /\ job = [w \in Workers |-> Idle]

\* A handler other than charge starts.
PaymentHandler(w) ==
  \/ \E i \in Invoices : Webhook(w, i)
  \/ \E b \in Bookings : \/ SyncPaymentStatus(w, b) \/ RequestRefund(w, b)
                         \/ ExpireInvoice(w, b) \/ ReconcileRefund(w, b)

\* A handler in flight goes on.
PaymentProceeds(w) ==
  \/ ChargeGetInvoice(w) \/ ChargeCreateInvoice(w) \/ SyncGetInvoice(w)
  \/ RefundCreated(w) \/ ProviderRefuses(w) \/ InvoiceExpireCall(w) \/ GetRefund(w)
  \/ Save(w) \/ SaveConflict(w) \/ Emit(w)

PaymentFaults ==
  \/ Crash
  \/ \E w \in Workers : \/ Throws(w) \/ AnswerLost(w)
                        \/ \E b \in Bookings : RefundLookupThrows(w, b)

Provider ==
  \/ \E i \in Invoices : CustomerPays(i) \/ InvoiceLapses(i)
  \/ \E r \in Refunds : RefundSettles(r)

=============================================================================
