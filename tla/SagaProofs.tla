----------------------------- MODULE SagaProofs -----------------------------
(***************************************************************************)
(* The services keep what each was checked with in place of the other, for *)
(* any number of bookings, seats, invoices, refunds and handlers in flight *)
(* on both sides, with every fault.  So what BookingProofs and             *)
(* PaymentProofs prove of one service holds of the saga, and with it what  *)
(* follows from both.                                                      *)
(***************************************************************************)
EXTENDS Saga, BookingSerialProofs

\* payment-service, with what is proved about it.
Proved == INSTANCE PaymentProofs
          WITH Workers <- PaymentWorkers,
               Foreign <- BookingEventType \cup {"tickets.issued"}

\* What PaymentProofs assumes of its constants.
LEMMA Assumptions ==
  /\ None \notin Bookings \cup Invoices \cup Refunds
  /\ BookingEventType \cup {"tickets.issued"}
     \subseteq Proved!BookingEventType \cup {"tickets.issued"}
BY NoneAssumption, NoIdAssumption DEF BookingEventType, Proved!BookingEventType

-----------------------------------------------------------------------------
(* Both instances of payment-service are the same.                           *)

LEMMA SameInit == Payment!PaymentInit <=> Proved!PaymentInit
BY DEF Payment!PaymentInit, Payment!NoPayment, Payment!Idle,
  Proved!PaymentInit, Proved!NoPayment, Proved!Idle

LEMMA SameCharge ==
  \A w \in PaymentWorkers, b \in Bookings : Payment!Charge(w, b) <=> Proved!Charge(w, b)
BY DEF Payment!Charge, Payment!Loaded, Payment!Begin, Payment!Free, Payment!Idle,
  Payment!Continue,
  Proved!Charge, Proved!Loaded, Proved!Begin, Proved!Free, Proved!Idle, Proved!Continue

LEMMA SameHandlers ==
  \A w \in PaymentWorkers : Payment!PaymentHandler(w) <=> Proved!PaymentHandler(w)
BY DEF
  Payment!PaymentHandler, Payment!Webhook, Payment!SyncPaymentStatus,
  Payment!RequestRefund, Payment!ExpireInvoice, Payment!ReconcileRefund,
  Payment!Published, Payment!Among, Payment!Loaded, Payment!Calling, Payment!Saving,
  Payment!Emitting, Payment!ApplyPaid, Payment!ApplyFailed, Payment!NoPayment,
  Payment!Idle, Payment!Free, Payment!Continue, Payment!Begin,
  Proved!PaymentHandler, Proved!Webhook, Proved!SyncPaymentStatus,
  Proved!RequestRefund, Proved!ExpireInvoice, Proved!ReconcileRefund,
  Proved!Published, Proved!Among, Proved!Loaded, Proved!Calling, Proved!Saving,
  Proved!Emitting, Proved!ApplyPaid, Proved!ApplyFailed, Proved!NoPayment,
  Proved!Idle, Proved!Free, Proved!Continue, Proved!Begin

LEMMA SameSteps ==
  \A w \in PaymentWorkers : Payment!PaymentProceeds(w) <=> Proved!PaymentProceeds(w)
BY DEF
  Payment!PaymentProceeds, Payment!ChargeGetInvoice, Payment!ChargeCreateInvoice,
  Payment!SyncGetInvoice, Payment!RefundCreated, Payment!ProviderRefuses,
  Payment!InvoiceExpireCall, Payment!GetRefund, Payment!Save, Payment!SaveConflict,
  Payment!Emit, Payment!NewInvoice, Payment!NewRefund, Payment!RefundAnswer,
  Payment!EventOf, Payment!Calling, Payment!Saving, Payment!Emitting,
  Payment!ApplyPaid, Payment!ApplyFailed, Payment!Thrown, Payment!NoPayment,
  Payment!Idle, Payment!Continue,
  Proved!PaymentProceeds, Proved!ChargeGetInvoice, Proved!ChargeCreateInvoice,
  Proved!SyncGetInvoice, Proved!RefundCreated, Proved!ProviderRefuses,
  Proved!InvoiceExpireCall, Proved!GetRefund, Proved!Save, Proved!SaveConflict,
  Proved!Emit, Proved!NewInvoice, Proved!NewRefund, Proved!RefundAnswer,
  Proved!EventOf, Proved!Calling, Proved!Saving, Proved!Emitting, Proved!ApplyPaid,
  Proved!ApplyFailed, Proved!Thrown, Proved!NoPayment, Proved!Idle, Proved!Continue

LEMMA SameFaults ==
  Payment!PaymentFaults <=> Proved!PaymentFaults
BY DEF
  Payment!PaymentFaults, Payment!Crash, Payment!Throws, Payment!AnswerLost,
  Payment!RefundLookupThrows, Payment!NewInvoice, Payment!NewRefund,
  Payment!RefundAnswer, Payment!Published, Payment!Among, Payment!Calling,
  Payment!Emitting, Payment!Thrown, Payment!Loaded, Payment!NoPayment, Payment!Idle,
  Payment!Free, Payment!Continue, Payment!Begin,
  Proved!PaymentFaults, Proved!Crash, Proved!Throws, Proved!AnswerLost,
  Proved!RefundLookupThrows, Proved!NewInvoice, Proved!NewRefund, Proved!RefundAnswer,
  Proved!Published, Proved!Among, Proved!Calling, Proved!Emitting, Proved!Thrown,
  Proved!Loaded, Proved!NoPayment, Proved!Idle, Proved!Free, Proved!Continue,
  Proved!Begin

LEMMA SameProvider == Payment!Provider <=> Proved!Provider
BY DEF Payment!Provider, Payment!CustomerPays, Payment!InvoiceLapses, Payment!RefundSettles,
  Proved!Provider, Proved!CustomerPays, Proved!InvoiceLapses, Proved!RefundSettles

LEMMA SamePublisher ==
  \A b \in Bookings : Payment!OthersPublish(b) <=> Proved!OthersPublish(b)
BY DEF Payment!OthersPublish, Payment!Published, Payment!Among, Payment!EventOf,
  Payment!paymentVars,
  Proved!OthersPublish, Proved!Published, Proved!Among, Proved!EventOf, Proved!paymentVars

LEMMA SameNext == [Payment!Next]_(Payment!vars) <=> [Proved!Next]_(Proved!vars)
BY SameCharge, SameHandlers, SameSteps, SameFaults, SameProvider, SamePublisher
DEF Payment!Next, Payment!PaymentRuns, Payment!vars, Payment!paymentVars,
  Proved!Next, Proved!PaymentRuns, Proved!vars, Proved!paymentVars

LEMMA SameSpec == Payment!Spec <=> Proved!Spec
<1>1. Payment!Init <=> Proved!Init
  BY SameInit DEF Payment!Init, Proved!Init
<1>2. QED
  BY <1>1, SameNext, PTL DEF Payment!Spec, Proved!Spec

-----------------------------------------------------------------------------
(* What ties the two services together.                                     *)

\* A job that deals with a refund, or will report on one.
OfRefund(j) ==
  \/ j.pc \in {"createRefund", "getRefund"} \/ j.guarded
  \/ j.row.status \in {"REFUND_PENDING", "REFUNDED"}
  \/ j.emit \in {"payment.refund_pending", "payment.refunded", "payment.refund_failed"}

\* Jobs are about bookings in C, those charged; a refund was asked for among the
\* events P.
JobLinked(C, P, j) ==
  j.b \in C /\ (OfRefund(j) => Among(P, "booking.refund.requested", j.b))

RowLinked(C, P, b, row) ==
  /\ row.status # "ABSENT" => b \in C
  /\ row.status \in {"REFUND_PENDING", "REFUNDED"}
     => Among(P, "booking.refund.requested", b)

\* A booking has a payment only once prepareCharge let it through, and the
\* payment is refunded only once booking-service asked for that.
Linked ==
  /\ \A b \in Bookings : RowLinked(charged, published, b, payments[b])
  /\ \A w \in PaymentWorkers :
       job[w] # Proved!Idle => JobLinked(charged, published, job[w])
  /\ \A b \in Bookings : Published("payment.settled", b) => b \in charged

SagaInv == TypeOK /\ Justified /\ Proved!TypeOK /\ Proved!Backed /\ Linked

\* booking-service asks for a refund only after the money was reported.
LEMMA AskedAfterSettled ==
  ASSUME Justified, NEW b \in Bookings, Published("booking.refund.requested", b)
  PROVE  Published("payment.settled", b)
BY DEF Justified, EventOK, Published, Among

\* Events are never taken back, charges neither.
LEMMA StaysLinked ==
  ASSUME NEW C, NEW D, C \subseteq D, NEW P, NEW Q, P \subseteq Q
  PROVE  /\ \A b, row : RowLinked(C, P, b, row) => RowLinked(D, Q, b, row)
         /\ \A j : JobLinked(C, P, j) => JobLinked(D, Q, j)
BY DEF RowLinked, JobLinked, Among

-----------------------------------------------------------------------------
(* payment-service keeps the tie, whatever it does.                          *)

\* A step of worker w that only gives it job j.
LEMMA ContinueLinked ==
  ASSUME Proved!TypeOK, Linked, UNCHANGED serviceVars,
         NEW w \in PaymentWorkers, NEW j, Proved!Continue(w, j),
         j = Proved!Idle \/ JobLinked(charged, published, j)
  PROVE  Linked'
BY DEF Linked, Proved!Continue, Proved!TypeOK, serviceVars, Published

\* What a handler works on when it starts, and what it may report at once.
LEMMA LoadedLinked ==
  ASSUME Linked, NEW b \in Bookings, payments[b].status # "ABSENT"
  PROVE  JobLinked(charged, published, Proved!Loaded(b))
BY DEF Linked, RowLinked, JobLinked, OfRefund, Proved!Loaded

LEMMA AskedLinked ==
  ASSUME Linked, Justified, NEW b \in Bookings, Proved!Published("booking.refund.requested", b),
         NEW j, j.b = b
  PROVE  JobLinked(charged, published, j)
BY AskedAfterSettled
   DEF Linked, JobLinked, Published, Among, Proved!Published, Proved!Among

\* A payment that exists is settled or fails, whatever it was before.
LEMMA AppliedLinked ==
  ASSUME NEW j, j \in Proved!Job, JobLinked(charged, published, j)
  PROVE  /\ JobLinked(charged, published, Proved!ApplyPaid(j))
         /\ \/ Proved!ApplyFailed(j) = Proved!Idle
            \/ JobLinked(charged, published, Proved!ApplyFailed(j))
BY DEF JobLinked, OfRefund, Proved!ApplyPaid, Proved!ApplyFailed, Proved!Saving,
       Proved!Emitting, Proved!NoPayment, Proved!Job, Proved!PaymentRow

LEMMA HandlerLinked ==
  ASSUME SagaInv, UNCHANGED serviceVars, NEW w \in PaymentWorkers, Proved!PaymentHandler(w)
  PROVE  Linked'
<1> USE DEF SagaInv
<1>1. ASSUME NEW i \in Invoices, Proved!Webhook(w, i)
      PROVE  Linked'
  <2> DEFINE b == invoices[i].booking
  <2>1. b \in Bookings /\ payments[b].status # "ABSENT"
    BY <1>1 DEF Proved!Webhook, Proved!Backed, Proved!BooksOK
  <2>2. Proved!Loaded(b) \in Proved!Job /\ JobLinked(charged, published, Proved!Loaded(b))
    BY <2>1, LoadedLinked, Assumptions, Proved!LoadedType
  <2> QED
    BY <1>1, <2>2, AppliedLinked, ContinueLinked DEF Proved!Webhook, Proved!Begin
<1>2. ASSUME NEW b \in Bookings, Proved!SyncPaymentStatus(w, b)
      PROVE  Linked'
  <2>1. JobLinked(charged, published, Proved!Calling(Proved!Loaded(b), "syncInvoice"))
    BY <1>2 DEF Proved!SyncPaymentStatus, Linked, RowLinked, JobLinked, OfRefund,
                Proved!Loaded, Proved!Calling
  <2> QED
    BY <1>2, <2>1, ContinueLinked DEF Proved!SyncPaymentStatus, Proved!Begin
<1>3. ASSUME NEW b \in Bookings, Proved!RequestRefund(w, b)
      PROVE  Linked'
  <2> DEFINE k == [Proved!Calling(Proved!Loaded(b), "createRefund") EXCEPT !.guarded = TRUE]
             r(type) == Proved!Emitting(Proved!Loaded(b), type)
  <2>1. /\ Proved!Published("booking.refund.requested", b)
        /\ \/ Proved!Continue(w, k)
           \/ \E type \in Proved!PaymentEventType : Proved!Continue(w, r(type))
    BY <1>3 DEF Proved!RequestRefund, Proved!Begin, Proved!PaymentEventType
  <2>2. k.b = b
    BY DEF Proved!Loaded, Proved!Calling
  <2>3. ASSUME NEW type \in Proved!PaymentEventType
        PROVE  r(type).b = b
    BY DEF Proved!Loaded, Proved!Emitting, Proved!PaymentEventType
  <2> HIDE DEF k, r
  <2> QED
    BY <2>1, <2>2, <2>3, AskedLinked, ContinueLinked
<1>4. ASSUME NEW b \in Bookings, Proved!ExpireInvoice(w, b)
      PROVE  Linked'
  <2>1. JobLinked(charged, published, Proved!Calling(Proved!Loaded(b), "expireInvoice"))
    BY <1>4 DEF Proved!ExpireInvoice, Linked, RowLinked, JobLinked, OfRefund,
                Proved!Loaded, Proved!Calling
  <2> QED
    BY <1>4, <2>1, ContinueLinked DEF Proved!ExpireInvoice, Proved!Begin
<1>5. ASSUME NEW b \in Bookings, Proved!ReconcileRefund(w, b)
      PROVE  Linked'
  <2>1. JobLinked(charged, published, Proved!Calling(Proved!Loaded(b), "getRefund"))
    BY <1>5 DEF Proved!ReconcileRefund, Linked, RowLinked, JobLinked, OfRefund,
                Proved!Loaded, Proved!Calling
  <2> QED
    BY <1>5, <2>1, ContinueLinked DEF Proved!ReconcileRefund, Proved!Begin
<1>6. QED
  BY <1>1, <1>2, <1>3, <1>4, <1>5 DEF Proved!PaymentHandler

\* Charge begins with what prepareCharge let through.
LEMMA ChargeLinked ==
  ASSUME SagaInv, UNCHANGED serviceVars, NEW w \in PaymentWorkers, NEW b \in charged,
         Proved!Charge(w, b)
  PROVE  Linked'
<1> DEFINE j(pc) == [Proved!Loaded(b) EXCEPT !.pc = pc,
                                             !.insert = (payments[b].status = "ABSENT")]
<1>1. PICK pc \in {"getInvoice", "createInvoice"} : Proved!Continue(w, j(pc))
  BY DEF Proved!Charge, Proved!Begin
<1>2. JobLinked(charged, published, j(pc))
  BY DEF Proved!Charge, JobLinked, OfRefund, Proved!Loaded
<1> HIDE DEF j
<1>3. QED
  BY <1>1, <1>2, ContinueLinked DEF SagaInv

\* A step of worker w that may also write the provider's books.
LEMMA BooksLinked ==
  ASSUME Proved!TypeOK, Linked, UNCHANGED serviceVars, UNCHANGED <<payments, published>>,
         NEW w \in PaymentWorkers, NEW j, job' = [job EXCEPT ![w] = j],
         j = Proved!Idle \/ JobLinked(charged, published, j)
  PROVE  Linked'
BY DEF Linked, Proved!TypeOK, serviceVars, Published

\* What an error leaves of a job.
LEMMA ThrownLinked ==
  ASSUME NEW j, j \in Proved!Job, JobLinked(charged, published, j)
  PROVE  Proved!Thrown(j) = Proved!Idle \/ JobLinked(charged, published, Proved!Thrown(j))
BY DEF Proved!Thrown, Proved!Emitting, Proved!NoPayment, JobLinked, OfRefund, Proved!Job

LEMMA ProceedLinked ==
  ASSUME SagaInv, UNCHANGED serviceVars, NEW w \in PaymentWorkers, Proved!PaymentProceeds(w)
  PROVE  Linked'
<1> USE DEF SagaInv
<1>1. job[w] # Proved!Idle /\ job[w] \in Proved!Job /\ JobLinked(charged, published, job[w])
  <2>1. job[w].pc # "idle"
    BY DEF Proved!PaymentProceeds, Proved!ChargeGetInvoice, Proved!ChargeCreateInvoice,
           Proved!SyncGetInvoice, Proved!RefundCreated, Proved!ProviderRefuses,
           Proved!InvoiceExpireCall, Proved!GetRefund, Proved!Save, Proved!SaveConflict,
           Proved!Emit
  <2>2. job[w] # Proved!Idle
    BY <2>1 DEF Proved!Idle
  <2> QED
    BY <2>2 DEF Proved!TypeOK, Linked
<1>2. ASSUME Proved!ChargeGetInvoice(w) PROVE Linked'
  <2>1. JobLinked(charged, published, Proved!Calling(job[w], "createInvoice"))
    BY <1>1 DEF JobLinked, OfRefund, Proved!Calling, Proved!Job
  <2> QED
    BY <1>2, <2>1, ContinueLinked DEF Proved!ChargeGetInvoice
<1>3. ASSUME Proved!ChargeCreateInvoice(w) PROVE Linked'
  <2>1. PICK i \in Invoices :
          job' = [job EXCEPT ![w] = Proved!Saving(job[w],
                    [status |-> "PENDING", invoiceId |-> i, refundId |-> None], "none")]
    BY <1>3 DEF Proved!ChargeCreateInvoice
  <2> DEFINE j == Proved!Saving(job[w],
                    [status |-> "PENDING", invoiceId |-> i, refundId |-> None], "none")
  <2>2. JobLinked(charged, published, j)
    BY <1>1 DEF JobLinked, OfRefund, Proved!Saving, Proved!Job
  <2>3. job' = [job EXCEPT ![w] = j]
    BY <2>1
  <2> HIDE DEF j
  <2> QED
    BY <1>3, <2>2, <2>3, BooksLinked DEF Proved!ChargeCreateInvoice
<1>4. ASSUME Proved!SyncGetInvoice(w) PROVE Linked'
  BY <1>1, <1>4, AppliedLinked, ContinueLinked DEF Proved!SyncGetInvoice
<1>5. ASSUME Proved!RefundCreated(w) PROVE Linked'
  <2>1. PICK r \in Refunds, status \in Proved!RefundAnswer :
          job' = [job EXCEPT ![w] =
            IF status = "SUCCEEDED"
            THEN Proved!Saving(job[w], [job[w].row EXCEPT !.refundId = r, !.status = "REFUNDED"],
                               "payment.refunded")
            ELSE Proved!Saving(job[w], [job[w].row EXCEPT !.refundId = r,
                                                          !.status = "REFUND_PENDING"],
                               "payment.refund_pending")]
    BY <1>5 DEF Proved!RefundCreated
  <2> DEFINE j == job'[w]
  <2>2. j.b = job[w].b
    BY <1>1, <2>1 DEF Proved!TypeOK, Proved!Saving, Proved!Job
  <2>3. JobLinked(charged, published, j)
    BY <1>1, <1>5, <2>2 DEF JobLinked, OfRefund, Proved!RefundCreated
  <2>4. job' = [job EXCEPT ![w] = j]
    BY <2>1 DEF Proved!TypeOK
  <2> HIDE DEF j
  <2> QED
    BY <1>5, <2>3, <2>4, BooksLinked DEF Proved!RefundCreated
<1>6. ASSUME Proved!ProviderRefuses(w) PROVE Linked'
  BY <1>1, <1>6, ThrownLinked, ContinueLinked DEF Proved!ProviderRefuses
<1>7. ASSUME Proved!InvoiceExpireCall(w) PROVE Linked'
  <2> DEFINE j == Proved!Saving(job[w], [job[w].row EXCEPT !.status = "FAILED"], "none")
  <2>1. JobLinked(charged, published, j)
    BY <1>1 DEF JobLinked, OfRefund, Proved!Saving, Proved!Job, Proved!PaymentRow
  <2>2. job' = [job EXCEPT ![w] = j]
    BY <1>7 DEF Proved!InvoiceExpireCall
  <2> HIDE DEF j
  <2> QED
    BY <1>7, <2>1, <2>2, BooksLinked DEF Proved!InvoiceExpireCall
<1>8. ASSUME Proved!GetRefund(w) PROVE Linked'
  <2>1. ASSUME NEW row, NEW emit
        PROVE  JobLinked(charged, published, Proved!Saving(job[w], row, emit))
    BY <1>1, <1>8 DEF JobLinked, OfRefund, Proved!GetRefund, Proved!Saving, Proved!Job
  <2> QED
    BY <1>8, <2>1, ContinueLinked DEF Proved!GetRefund
<1>9. ASSUME Proved!Save(w) PROVE Linked'
  <2> DEFINE b == job[w].b
             j == Proved!Emitting(job[w], job[w].emit)
  <2>1. b \in Bookings /\ RowLinked(charged, published, b, job[w].row)
    BY <1>1 DEF JobLinked, OfRefund, RowLinked, Proved!Job
  <2>2. j = Proved!Idle \/ JobLinked(charged, published, j)
    BY <1>1 DEF JobLinked, OfRefund, Proved!Emitting, Proved!Job, Proved!NoPayment
  <2>3. \A c \in Bookings : RowLinked(charged, published, c, payments'[c])
    BY <1>9, <2>1 DEF Proved!Save, Linked, Proved!TypeOK
  <2>4. \A v \in PaymentWorkers : job'[v] = IF v = w THEN j ELSE job[v]
    BY <1>9 DEF Proved!Save, Proved!TypeOK
  <2>5. charged' = charged /\ published' = published
    BY <1>9 DEF Proved!Save, serviceVars
  <2> HIDE DEF b, j
  <2> QED
    BY <2>2, <2>3, <2>4, <2>5 DEF Linked, Published
<1>10. ASSUME Proved!SaveConflict(w) PROVE Linked'
  BY <1>10, ContinueLinked DEF Proved!SaveConflict
<1>11. ASSUME Proved!Emit(w) PROVE Linked'
  <2> DEFINE e == Proved!EventOf(job[w].emit, job[w].b, {})
  <2>1. /\ published' = published \cup {e} /\ charged' = charged /\ payments' = payments
        /\ \A v \in PaymentWorkers : job'[v] = IF v = w THEN Proved!Idle ELSE job[v]
    BY <1>11 DEF Proved!Emit, Proved!TypeOK, serviceVars
  <2>2. e.booking \in charged
    BY <1>1 DEF JobLinked, Proved!EventOf
  <2> HIDE DEF e
  <2>3. /\ \A b \in Bookings : RowLinked(charged', published', b, payments'[b])
        /\ \A v \in PaymentWorkers :
             job'[v] # Proved!Idle => JobLinked(charged', published', job'[v])
    BY <2>1, StaysLinked DEF Linked
  <2>4. \A b \in Bookings : Published("payment.settled", b)' => b \in charged'
    BY <2>1, <2>2 DEF Linked, Published, Among
  <2> QED
    BY <2>3, <2>4 DEF Linked
<1>12. QED
  BY <1>2, <1>3, <1>4, <1>5, <1>6, <1>7, <1>8, <1>9, <1>10, <1>11 DEF Proved!PaymentProceeds

LEMMA FaultLinked ==
  ASSUME SagaInv, UNCHANGED serviceVars, Proved!PaymentFaults
  PROVE  Linked'
<1> USE DEF SagaInv
<1>1. CASE Proved!Crash
  BY <1>1 DEF Proved!Crash, Linked, serviceVars, Published
<1>2. ASSUME NEW w \in PaymentWorkers, Proved!Throws(w) \/ Proved!AnswerLost(w)
      PROVE  Linked'
  <2>1. job[w] # Proved!Idle /\ job[w] \in Proved!Job
        /\ JobLinked(charged, published, job[w])
    <3>1. job[w].pc # "idle"
      BY <1>2 DEF Proved!Throws, Proved!AnswerLost
    <3>2. job[w] # Proved!Idle
      BY <3>1 DEF Proved!Idle
    <3> QED
      BY <3>2 DEF Proved!TypeOK, Linked
  <2>2. JobLinked(charged, published, Proved!Calling(job[w], "createInvoice"))
    BY <2>1 DEF JobLinked, OfRefund, Proved!Calling, Proved!Job
  <2>3. CASE Proved!Throws(w)
    BY <2>1, <2>2, <2>3, ThrownLinked, ContinueLinked DEF Proved!Throws
  <2>4. CASE Proved!AnswerLost(w)
    BY <2>1, <2>4, ThrownLinked, BooksLinked DEF Proved!AnswerLost
  <2> QED
    BY <1>2, <2>3, <2>4
<1>3. ASSUME NEW w \in PaymentWorkers, NEW b \in Bookings, Proved!RefundLookupThrows(w, b)
      PROVE  Linked'
  <2> DEFINE j == Proved!Emitting(Proved!Loaded(b), "payment.refund_failed")
  <2>1. Proved!Published("booking.refund.requested", b) /\ Proved!Continue(w, j)
    BY <1>3 DEF Proved!RefundLookupThrows, Proved!Begin
  <2>2. j.b = b
    BY DEF Proved!Loaded, Proved!Emitting
  <2> HIDE DEF j
  <2> QED
    BY <2>1, <2>2, AskedLinked, ContinueLinked
<1>4. QED
  BY <1>1, <1>2, <1>3 DEF Proved!PaymentFaults

LEMMA ProviderLinked ==
  ASSUME Linked, UNCHANGED serviceVars, Proved!Provider
  PROVE  Linked'
BY DEF Proved!Provider, Proved!CustomerPays, Proved!InvoiceLapses, Proved!RefundSettles,
       Linked, serviceVars, Published

-----------------------------------------------------------------------------
(* What one service does is what the other expects.                          *)

\* A step of booking-service that publishes is the last one of Emit.
LEMMA BookingSpeaks ==
  ASSUME ServiceRuns \/ ServiceFaults, published' # published
  PROVE  \E w \in Workers : Emit(w)
<1>1. ASSUME NEW w \in Workers, NEW b \in Bookings, Handler(w, b)
      PROVE  published' = published
  BY <1>1 DEF Handler, HoldAcquire, Cancel, PrepareCharge, OnPaymentSettled, OnPaymentFailed,
     OnRefundPending, OnRefunded, OnRefundFailed, OnTicketsIssued, ExpireStaleBooking,
     RetryConfirmation, RetryRefund, Begin, Continue
<1>2. ASSUME NEW w \in Workers, Proceed(w), ~Emit(w)
      PROVE  published' = published
  BY <1>2 DEF Proceed, HoldCreate, HoldFindStale, HoldDeleteStale, HoldInsert, HoldConflict,
     HoldUndoRelease, HoldUndoDelete, ReadSeatRows, ChargeExists, SettledExtend, SettledExists,
     Save, ReleaseLocks, Continue
<1>3. ASSUME NEW w \in Workers, Fail(w)
      PROVE  published' = published
  BY <1>3 DEF Fail, HoldThrows, CleanupFails, ExtendThrows, HandlerThrows, Continue
<1>4. ASSUME Crash \/ (\E s \in Seats : LockExpires(s)) \/ \E b \in Bookings : HoldLapses(b)
      PROVE  published' = published
  BY <1>4 DEF Crash, LockExpires, HoldLapses
<1>5. QED
  BY <1>1, <1>2, <1>3, <1>4 DEF ServiceRuns, ServiceFaults

\* What booking-service publishes is what payment-service expects of it.
LEMMA BookingSuits ==
  ASSUME TypeOK, Justified, ServiceRuns \/ ServiceFaults, UNCHANGED paymentVars
  PROVE  /\ [Proved!Next]_(Proved!vars)
         /\ \A e \in published' : e \in published \/ e.type \in BookingEventType
<1>1. CASE published' = published
  BY <1>1 DEF paymentVars, Proved!vars, Proved!paymentVars
<1>2. CASE published' # published
  <2> PICK w \in Workers : Emit(w)
    BY <1>2, BookingSpeaks
  <2> DEFINE type == Head(task[w].emits)
             S == IF type = "booking.confirmed" THEN task[w].seats ELSE {}
             b == task[w].b
  <2>1. task[w] # Idle /\ task[w].pc = "emit"
    BY DEF Emit, Idle
  <2>2. /\ task[w] \in TaskRecord /\ task[w].emits # <<>>
        /\ EmitsOK(published, task[w].emits, b)
    BY <2>1 DEF TypeOK, Task, Justified, Free, TaskOK
  <2>3. /\ type \in BookingEventType /\ EventOK(published, type, b)
        /\ b \in Bookings /\ S \in SUBSET Seats
    BY <2>2 DEF TaskRecord, EmitsOK
  <2>4. published' = published \cup {EventOf(type, b, S)}
    BY DEF Emit
  <2>5. S # {} => type = "booking.confirmed"
    OBVIOUS
  <2> HIDE DEF type, S, b
  <2>6. type = "booking.refund.requested" => Proved!Published("payment.settled", b)
    BY <2>3 DEF EventOK, Among, Proved!Published, Proved!Among
  <2>7. Proved!OthersPublish(b)
    BY <2>3, <2>4, <2>5, <2>6
       DEF Proved!OthersPublish, EventOf, Proved!EventOf, paymentVars, Proved!paymentVars
  <2> QED
    BY <2>3, <2>4, <2>7 DEF Proved!Next, Proved!PaymentRuns, EventOf
<1>3. QED
  BY <1>1, <1>2

\* A step of payment-service or of its provider.
PaymentStep ==
  \/ \E w \in PaymentWorkers : \/ Proved!PaymentHandler(w) \/ Proved!PaymentProceeds(w)
                               \/ \E b \in charged : Proved!Charge(w, b)
  \/ Proved!Provider
  \/ Proved!PaymentFaults

\* A step of payment-service that publishes is the last one of a handler.
LEMMA PaymentSpeaks ==
  ASSUME PaymentStep, published' # published
  PROVE  \E w \in PaymentWorkers : Proved!Emit(w)
<1>1. ASSUME NEW w \in PaymentWorkers,
             Proved!PaymentHandler(w) \/ \E b \in charged : Proved!Charge(w, b)
      PROVE  published' = published
  BY <1>1 DEF Proved!PaymentHandler, Proved!Webhook, Proved!SyncPaymentStatus,
     Proved!RequestRefund, Proved!ExpireInvoice, Proved!ReconcileRefund, Proved!Charge,
     Proved!Begin, Proved!Continue
<1>2. ASSUME NEW w \in PaymentWorkers, Proved!PaymentProceeds(w), ~Proved!Emit(w)
      PROVE  published' = published
  BY <1>2 DEF Proved!PaymentProceeds, Proved!ChargeGetInvoice, Proved!ChargeCreateInvoice,
     Proved!SyncGetInvoice, Proved!RefundCreated, Proved!ProviderRefuses,
     Proved!InvoiceExpireCall, Proved!GetRefund, Proved!Save, Proved!SaveConflict,
     Proved!Continue
<1>3. ASSUME Proved!Provider \/ Proved!PaymentFaults
      PROVE  published' = published
  BY <1>3 DEF Proved!Provider, Proved!CustomerPays, Proved!InvoiceLapses,
     Proved!RefundSettles, Proved!PaymentFaults, Proved!Crash, Proved!Throws,
     Proved!AnswerLost, Proved!RefundLookupThrows, Proved!Begin, Proved!Continue
<1>4. QED
  BY <1>1, <1>2, <1>3 DEF PaymentStep

\* What payment-service publishes is what booking-service expects of it.
LEMMA PaymentSuits ==
  ASSUME SagaInv, UNCHANGED serviceVars, PaymentStep
  PROVE  [Next]_vars
<1>1. CASE published' = published
  BY <1>1 DEF vars
<1>2. CASE published' # published
  <2> PICK w \in PaymentWorkers : Proved!Emit(w)
    BY <1>2, PaymentSpeaks
  <2> DEFINE type == job[w].emit
             b == job[w].b
  <2>1. job[w] # Proved!Idle /\ job[w].pc = "emit"
    BY DEF Proved!Emit, Proved!Idle
  <2>2. type \in Proved!PaymentEventType /\ b \in Bookings
    <3>1. job[w] \in Proved!Job /\ type # "none"
      BY <2>1 DEF SagaInv, Proved!TypeOK, Proved!Backed, Proved!JobBacked, Proved!Free
    <3> QED
      BY <3>1 DEF Proved!Job
  <2>3. JobLinked(charged, published, job[w])
    BY <2>1 DEF SagaInv, Linked
  <2>4. Publish(type, b)
    BY <2>2, AllEventsAssumption
       DEF Proved!Emit, Publish, EventOf, Proved!EventOf, PaymentEventType,
           Proved!PaymentEventType
  <2>5. CASE type \in {"payment.settled", "payment.failed"}
    BY <2>2, <2>3, <2>4, <2>5 DEF JobLinked, PaymentSettles, PaymentFails, Environment, Next
  <2>6. CASE type \notin {"payment.settled", "payment.failed"}
    <3>1. type \in {"payment.refund_pending", "payment.refunded", "payment.refund_failed"}
      BY <2>2, <2>6 DEF Proved!PaymentEventType
    <3>2. Published("booking.refund.requested", b)
      BY <2>3, <3>1 DEF JobLinked, OfRefund, Published
    <3>3. Published("payment.settled", b)
      BY <2>2, <3>2, AskedAfterSettled DEF SagaInv
    <3> QED
      BY <2>2, <2>4, <3>1, <3>2, <3>3 DEF PaymentRefunds, Environment, Next
  <2> QED
    BY <2>5, <2>6
<1>3. QED
  BY <1>1, <1>2

\* Payment steps of the saga, seen as such.
LEMMA PaymentStepsAre ==
  ASSUME PaymentSteps \/ \E w \in PaymentWorkers, b \in Bookings : Pay(w, b)
  PROVE  PaymentStep /\ UNCHANGED serviceVars
BY SameCharge, SameHandlers, SameSteps, SameFaults, SameProvider
   DEF PaymentSteps, Pay, PaymentStep

LEMMA PaymentLinked ==
  ASSUME SagaInv, UNCHANGED serviceVars, PaymentStep
  PROVE  Linked'
BY HandlerLinked, ProceedLinked, ChargeLinked, ProviderLinked, FaultLinked
   DEF PaymentStep, SagaInv

\* booking-service and ticket-service do not break the tie.
LEMMA OthersLinked ==
  ASSUME Linked, UNCHANGED paymentVars, charged \subseteq charged',
         published \subseteq published',
         \A e \in published' : e \in published \/ e.type # "payment.settled"
  PROVE  Linked'
<1>1. /\ \A b \in Bookings : RowLinked(charged', published', b, payments'[b])
      /\ \A w \in PaymentWorkers :
           job'[w] # Proved!Idle => JobLinked(charged', published', job'[w])
  BY StaysLinked DEF Linked, paymentVars
<1>2. \A b \in Bookings : Published("payment.settled", b)' => b \in charged'
  BY DEF Linked, Published, Among
<1>3. QED
  BY <1>1, <1>2 DEF Linked

LEMMA BookingGrows ==
  ASSUME ServiceRuns \/ ServiceFaults
  PROVE  charged \subseteq charged' /\ published \subseteq published'
<1>1. published \subseteq published'
  BY BookingSpeaks DEF Emit
<1>2. ASSUME NEW w \in Workers, NEW b \in Bookings, Handler(w, b)
      PROVE  charged' = charged
  BY <1>2 DEF Handler, HoldAcquire, Cancel, PrepareCharge, OnPaymentSettled, OnPaymentFailed,
     OnRefundPending, OnRefunded, OnRefundFailed, OnTicketsIssued, ExpireStaleBooking,
     RetryConfirmation, RetryRefund, Begin, Continue
<1>3. ASSUME NEW w \in Workers, Proceed(w)
      PROVE  charged \subseteq charged'
  BY <1>3 DEF Proceed, HoldCreate, HoldFindStale, HoldDeleteStale, HoldInsert, HoldConflict,
     HoldUndoRelease, HoldUndoDelete, ReadSeatRows, ChargeExists, SettledExtend, SettledExists,
     Save, ReleaseLocks, Emit, Continue
<1>4. ASSUME NEW w \in Workers, Fail(w)
      PROVE  charged' = charged
  BY <1>4 DEF Fail, HoldThrows, CleanupFails, ExtendThrows, HandlerThrows, Continue
<1>5. ASSUME Crash \/ (\E s \in Seats : LockExpires(s)) \/ \E b \in Bookings : HoldLapses(b)
      PROVE  charged' = charged
  BY <1>5 DEF Crash, LockExpires, HoldLapses
<1>6. QED
  BY <1>1, <1>2, <1>3, <1>4, <1>5 DEF ServiceRuns, ServiceFaults

-----------------------------------------------------------------------------
(* The saga.                                                                 *)

\* Every step of the saga is a step, or none, of each of the two systems.
LEMMA SagaStep ==
  ASSUME SagaInv, [SagaNext]_sagaVars
  PROVE  [Next]_vars /\ [Proved!Next]_(Proved!vars) /\ Linked'
<1> USE DEF SagaInv
<1>1. CASE BookingSteps
  <2>1. [Next]_vars
    BY <1>1 DEF BookingSteps, Next
  <2>2. /\ [Proved!Next]_(Proved!vars)
        /\ \A e \in published' : e \in published \/ e.type # "payment.settled"
    BY <1>1, BookingSuits DEF BookingSteps, BookingEventType
  <2> QED
    BY <1>1, <2>1, <2>2, BookingGrows, OthersLinked DEF BookingSteps
<1>2. CASE PaymentSteps \/ \E w \in PaymentWorkers, b \in Bookings : Pay(w, b)
  <2>1. PaymentStep /\ UNCHANGED serviceVars
    BY <1>2, PaymentStepsAre
  <2>2. Proved!Next
    BY <2>1 DEF PaymentStep, Proved!Next, Proved!PaymentRuns, TypeOK
  <2> QED
    BY <2>1, <2>2, PaymentSuits, PaymentLinked
<1>3. CASE TicketSteps
  <2> PICK b \in Bookings : TicketsIssue(b)
    BY <1>3 DEF TicketSteps
  <2>1. /\ published' = published \cup {EventOf("tickets.issued", b, {})}
        /\ UNCHANGED serviceVars /\ UNCHANGED paymentVars
    BY <1>3 DEF TicketSteps, TicketsIssue, Publish
  <2>2. [Next]_vars
    BY DEF Next, Environment
  <2>3. Proved!OthersPublish(b)
    BY <2>1 DEF Proved!OthersPublish, EventOf, Proved!EventOf, paymentVars, Proved!paymentVars
  <2>4. Linked'
    BY <2>1, OthersLinked DEF EventOf, serviceVars
  <2> QED
    BY <2>2, <2>3, <2>4 DEF Proved!Next, Proved!PaymentRuns
<1>4. CASE UNCHANGED sagaVars
  BY <1>4 DEF sagaVars, vars, serviceVars, paymentVars, Proved!vars, Proved!paymentVars,
     Linked, Published
<1>5. QED
  BY <1>1, <1>2, <1>3, <1>4 DEF SagaNext

LEMMA SagaStarts == SagaInit => Init /\ Proved!Init /\ SagaInv
<1> SUFFICES ASSUME SagaInit
             PROVE  Init /\ Proved!Init /\ SagaInv
  OBVIOUS
<1>1. Init
  BY DEF SagaInit, Init
<1>2. Proved!Init
  BY SameInit DEF SagaInit, Proved!Init
<1>3. TypeOK /\ Justified
  BY <1>1, InitOK
<1>4. Proved!TypeOK /\ Proved!Backed
  BY <1>2, Assumptions, Proved!InitBacked
<1>5. Linked
  <2>1. \A b \in Bookings : payments[b].status = "ABSENT"
    BY <1>2 DEF Proved!Init, Proved!PaymentInit, Proved!NoPayment
  <2>2. \A w \in PaymentWorkers : job[w] = Proved!Idle
    BY <1>2 DEF Proved!Init, Proved!PaymentInit
  <2>3. published = {}
    BY DEF SagaInit
  <2>4. \A b \in Bookings : RowLinked(charged, published, b, payments[b])
    BY <2>1 DEF RowLinked
  <2> QED
    BY <2>2, <2>3, <2>4 DEF Linked, Published, Among
<1>6. QED
  BY <1>1, <1>2, <1>3, <1>4, <1>5 DEF SagaInv

\* Together, with the tie between them, the invariants of the two services are
\* inductive for the saga.
LEMMA SagaAlways == SagaSpec => []SagaInv
<1>1. SagaInv /\ [SagaNext]_sagaVars => SagaInv'
  <2> SUFFICES ASSUME SagaInv, [SagaNext]_sagaVars
               PROVE  SagaInv'
    OBVIOUS
  <2>1. [Next]_vars /\ [Proved!Next]_(Proved!vars) /\ Linked'
    BY SagaStep
  <2>2. TypeOK' /\ Justified'
    BY <2>1, TypeStep, JustifiedStep DEF SagaInv
  <2>3. Proved!TypeOK' /\ Proved!Backed'
    BY <2>1, Assumptions, Proved!BackedStep DEF SagaInv
  <2> QED
    BY <2>1, <2>2, <2>3 DEF SagaInv
<1>2. QED
  BY <1>1, SagaStarts, PTL DEF SagaSpec

\* The two services fit together: whatever payment-service publishes,
\* booking-service was checked with, and whatever booking-service publishes,
\* payment-service was, for any number of handlers overlapping in both, crashes of
\* either, and events that are late, repeated or lost.
THEOREM ServicesCompose == SagaSpec => Composed
<1>1. SagaInit => Init
  BY SagaStarts
<1>2. SagaInit => Proved!Init
  BY SagaStarts
<1>3. SagaInv /\ [SagaNext]_sagaVars => [Next]_vars
  BY SagaStep
<1>4. SagaInv /\ [SagaNext]_sagaVars => [Proved!Next]_(Proved!vars)
  BY SagaStep
<1>5. SagaSpec => Spec
  BY <1>1, <1>3, SagaAlways, PTL DEF SagaSpec, Spec
<1>6. SagaSpec => Proved!Spec
  BY <1>2, <1>4, SagaAlways, PTL DEF SagaSpec, Proved!Spec
<1>7. QED
  BY <1>5, <1>6, SameSpec DEF Composed

\* No booking is paid, ticketed or refunded for money that the provider did not
\* receive, or give back, for that very booking.
THEOREM MoneyAlwaysReal == SagaSpec => []MoneyIsReal
<1>1. SagaInv => MoneyIsReal
  <2> SUFFICES ASSUME SagaInv, NEW b \in Bookings
               PROVE  /\ bookings[b].paidAt \/ Published("booking.confirmed", b)
                         => Payment!MoneyReceived(b)
                      /\ bookings[b].status = "REFUNDED" \/ Published("booking.refunded", b)
                         => Payment!MoneyReturned(b)
    BY DEF MoneyIsReal
  <2>1. Published("payment.settled", b) => Payment!MoneyReceived(b)
    BY DEF SagaInv, Proved!Backed, Proved!EventBacked, Published, Among, Proved!Received,
       Payment!MoneyReceived, Payment!Received
  <2>2. Published("payment.refunded", b) => Payment!MoneyReturned(b)
    BY DEF SagaInv, Proved!Backed, Proved!EventBacked, Published, Among, Proved!Returned,
       Payment!MoneyReturned, Payment!Returned
  <2>3. bookings[b].paidAt \/ Published("booking.confirmed", b)
        => Published("payment.settled", b)
    BY DEF SagaInv, Justified, RowOK, EventOK, Published, Among
  <2>4. bookings[b].status = "REFUNDED" \/ Published("booking.refunded", b)
        => Published("payment.refunded", b)
    BY DEF SagaInv, Justified, RowOK, EventOK, Published, Among
  <2> QED
    BY <2>1, <2>2, <2>3, <2>4
<1>2. QED
  BY <1>1, SagaAlways, PTL

\* With one handler of booking-service at a time, no seat is sold twice in the saga,
\* however many handlers of payment-service overlap.
THEOREM SagaNeverSellsTwice == ASSUME OneAtATime PROVE SagaSpec => []NoDoubleSale
<1>1. SagaSpec => Spec
  BY ServicesCompose DEF Composed
<1>2. QED
  BY <1>1, NeverSoldTwice, PTL

=============================================================================
