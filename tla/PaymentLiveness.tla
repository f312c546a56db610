-------------------------- MODULE PaymentLiveness --------------------------
(***************************************************************************)
(* What payment-service gets done in the end, when calls throw and the     *)
(* process crashes during an outage that ends.                             *)
(***************************************************************************)
EXTENDS PaymentSystem

VARIABLE outage

fairVars == <<vars, outage>>

OutageEnds == outage /\ outage' = FALSE /\ UNCHANGED vars

FairNext ==
  \/ PaymentRuns /\ UNCHANGED outage
  \/ outage /\ PaymentFaults /\ UNCHANGED outage
  \/ OutageEnds

\* A callback for invoice i that no earlier one has got through.
FirstCallback(w, i) ==
  Webhook(w, i) /\ ~Published("payment.settled", invoices[i].booking)

\* A handler in flight goes on.  The provider repeats a callback until it got
\* through, and may or may not repeat it afterwards; it ends the refunds it
\* started.  The every-minute cron reaches every payment being refunded;
\* booking-service repeats booking.refund.requested until it has an outcome
\* (retryRefunds).  Other handlers cannot keep a worker from any of these for
\* ever.
Fairness ==
  /\ WF_outage(OutageEnds)
  /\ \A w \in Workers :
       /\ WF_vars(PaymentProceeds(w))
       /\ \A i \in Invoices : SF_vars(FirstCallback(w, i))
       /\ \A b \in Bookings : SF_vars(RequestRefund(w, b)) /\ SF_vars(ReconcileRefund(w, b))
  /\ \A r \in Refunds : WF_vars(RefundSettles(r))

FairSpec == Init /\ outage = TRUE /\ [][FairNext]_fairVars /\ Fairness

\* Money the provider has taken is always reported to booking-service, though
\* the row was overwritten by a newer invoice, or the service died between
\* saving PAID and publishing (applyPaid).
SettlementReported ==
  \A b \in Bookings : MoneyReceived(b) ~> Published("payment.settled", b)

\* A refund that was asked for has an outcome booking-service hears of, though
\* the service died between saving it and publishing it (requestRefund,
\* reconcileRefunds).
RefundAnswered ==
  \A b \in Bookings :
    Published("booking.refund.requested", b)
    ~> Published("payment.refunded", b) \/ Published("payment.refund_failed", b)

=============================================================================
