---------------------------- MODULE PaymentProofs ----------------------------
(***************************************************************************)
(* Proofs about payment-service for any number of bookings, invoices,      *)
(* refunds and concurrent handlers.                                        *)
(***************************************************************************)
EXTENDS PaymentSystem, TLAPS

-----------------------------------------------------------------------------
(* Types.                                                                    *)

\* The missing row is a row.
LEMMA NoPaymentType == NoPayment \in PaymentRow
BY DEF NoPayment, PaymentRow

\* Loading a row leaves a well-typed job.
LEMMA LoadedType ==
  ASSUME TypeOK, NEW b \in Bookings
  PROVE  Loaded(b) \in Job /\ Loaded(b).row = payments[b] /\ Loaded(b).b = b
BY DEF TypeOK, Loaded, Job, Call

\* Awaiting a call keeps a job well-typed.
LEMMA CallingType ==
  ASSUME NEW j \in Job, NEW pc \in Call
  PROVE  Calling(j, pc) \in Job
BY DEF Calling, Job

\* So does setting a flag on the way to a call.
LEMMA FlagType ==
  ASSUME NEW j \in Job, NEW pc \in Call, NEW flag \in BOOLEAN
  PROVE  /\ [j EXCEPT !.pc = pc, !.insert = flag] \in Job
         /\ [j EXCEPT !.pc = pc, !.guarded = flag] \in Job
BY DEF Job

\* Deciding to save a row and publish an event is a well-typed job.
LEMMA SavingType ==
  ASSUME NEW j \in Job, NEW row \in PaymentRow, NEW emit \in PaymentEventType \cup {"none"}
  PROVE  Saving(j, row, emit) \in Job
BY DEF Saving, Job

\* So is publishing only, unless there is nothing to publish.
LEMMA EmittingType ==
  ASSUME NEW j \in Job, NEW emit \in PaymentEventType \cup {"none"}
  PROVE  Emitting(j, emit) \in Job \cup {Idle}
BY NoPaymentType DEF Emitting, Job

\* The outcome of an invoice, and of a call that throws, are well-typed too.
LEMMA OutcomeType ==
  ASSUME NEW j \in Job
  PROVE  /\ ApplyPaid(j) \in Job \cup {Idle}
         /\ ApplyFailed(j) \in Job \cup {Idle}
         /\ Thrown(j) \in Job \cup {Idle}
<1>1. /\ [j.row EXCEPT !.status = "PAID"] \in PaymentRow
      /\ [j.row EXCEPT !.status = "FAILED"] \in PaymentRow
  BY DEF Job, PaymentRow, PaymentStatus
<1>2. /\ "payment.settled" \in PaymentEventType /\ "payment.failed" \in PaymentEventType
      /\ "payment.refund_failed" \in PaymentEventType
  BY DEF PaymentEventType
<1>3. Thrown(j) \in Job \cup {Idle}
  BY <1>2, NoPaymentType DEF Thrown, Emitting, Job
<1>4. QED
  BY <1>1, <1>2, <1>3, SavingType, EmittingType DEF ApplyPaid, ApplyFailed

\* A step that only moves a worker on keeps the types.
LEMMA ContinueType ==
  ASSUME TypeOK, NEW w \in Workers, NEW j \in Job \cup {Idle}, Continue(w, j)
  PROVE  TypeOK'
BY DEF TypeOK, Continue

\* Starting any handler keeps the types.
LEMMA HandlerType ==
  ASSUME TypeOK, Backed, NEW w \in Workers,
         PaymentHandler(w) \/ \E b \in Bookings : Charge(w, b)
  PROVE  TypeOK'
<1> USE DEF Begin
<1>1. ASSUME NEW b \in Bookings, Charge(w, b)
      PROVE  TypeOK'
  <2> DEFINE pc == IF payments[b].invoiceId # None THEN "getInvoice" ELSE "createInvoice"
             new == payments[b].status = "ABSENT"
  <2>1. pc \in Call /\ new \in BOOLEAN
    BY DEF Call
  <2>2. Continue(w, [Loaded(b) EXCEPT !.pc = pc, !.insert = new])
    BY <1>1 DEF Charge
  <2> HIDE DEF pc, new
  <2>3. [Loaded(b) EXCEPT !.pc = pc, !.insert = new] \in Job
    BY <2>1, LoadedType, FlagType
  <2> QED
    BY <2>2, <2>3, ContinueType
<1>2. ASSUME NEW i \in Invoices, Webhook(w, i)
      PROVE  TypeOK'
  <2> DEFINE b == invoices[i].booking
  <2>1. b \in Bookings
    BY <1>2 DEF Webhook, Backed, BooksOK
  <2> QED
    BY <1>2, <2>1, LoadedType, OutcomeType, ContinueType DEF Webhook
<1>3. ASSUME NEW b \in Bookings, SyncPaymentStatus(w, b)
      PROVE  TypeOK'
  BY <1>3, LoadedType, CallingType, ContinueType DEF SyncPaymentStatus, Call
<1>4. ASSUME NEW b \in Bookings, RequestRefund(w, b)
      PROVE  TypeOK'
  <2>1. [Calling(Loaded(b), "createRefund") EXCEPT !.guarded = TRUE] \in Job
    <3>1. [Loaded(b) EXCEPT !.pc = "createRefund", !.guarded = TRUE] \in Job
      BY LoadedType, FlagType DEF Call
    <3> QED
      BY <3>1 DEF Calling
  <2>2. \A type \in PaymentEventType : Emitting(Loaded(b), type) \in Job \cup {Idle}
    BY LoadedType, EmittingType
  <2> QED
    BY <1>4, <2>1, <2>2, ContinueType DEF RequestRefund, PaymentEventType
<1>5. ASSUME NEW b \in Bookings, ExpireInvoice(w, b)
      PROVE  TypeOK'
  BY <1>5, LoadedType, CallingType, ContinueType DEF ExpireInvoice, Call
<1>6. ASSUME NEW b \in Bookings, ReconcileRefund(w, b)
      PROVE  TypeOK'
  BY <1>6, LoadedType, CallingType, ContinueType DEF ReconcileRefund, Call
<1>7. QED
  BY <1>1, <1>2, <1>3, <1>4, <1>5, <1>6 DEF PaymentHandler

\* The job of a worker that is at some step is a job.
LEMMA InFlight ==
  ASSUME TypeOK, NEW w \in Workers, job[w] # Idle
  PROVE  /\ job[w] \in Job /\ job[w].b \in Bookings /\ job[w].row \in PaymentRow
         /\ job[w].emit \in PaymentEventType \cup {"none"}
BY DEF TypeOK, Job

\* Only an idle worker is at no step.
LEMMA AtStep ==
  ASSUME NEW w \in Workers, job[w].pc \in Call \cup {"save", "emit"}
  PROVE  job[w] # Idle
BY DEF Idle, Call

\* Creating an invoice keeps the provider's records well-typed.
LEMMA NewInvoiceType ==
  ASSUME TypeOK, NEW i \in Invoices, NEW b \in Bookings, NewInvoice(i, b)
  PROVE  invoices' \in [Invoices -> Invoice]
BY DEF NewInvoice, TypeOK, Invoice

\* So does starting a refund of the invoice on a row.
LEMMA NewRefundType ==
  ASSUME TypeOK, NEW r \in Refunds, NEW row \in PaymentRow,
         NEW status \in RefundAnswer, NewRefund(r, row.invoiceId, status)
  PROVE  refunds' \in [Refunds -> Refund]
<1>1. [invoice |-> row.invoiceId, status |-> status] \in Refund
  BY DEF PaymentRow, Refund, RefundAnswer
<1>2. QED
  BY <1>1 DEF NewRefund, TypeOK

\* A handler in flight keeps the types.
LEMMA ProceedType ==
  ASSUME TypeOK, Backed, NEW w \in Workers, PaymentProceeds(w)
  PROVE  TypeOK'
<1> USE AtStep, InFlight DEF Call
<1>1. CASE ChargeGetInvoice(w)
  <2>1. Calling(job[w], "createInvoice") \in Job
    BY <1>1, CallingType DEF ChargeGetInvoice
  <2> QED
    BY <1>1, <2>1, ContinueType DEF ChargeGetInvoice
<1>2. CASE ChargeCreateInvoice(w)
  <2> PICK i \in Invoices :
        /\ NewInvoice(i, job[w].b)
        /\ job' = [job EXCEPT ![w] =
                     Saving(job[w], [status |-> "PENDING", invoiceId |-> i,
                                     refundId |-> None], "none")]
    BY <1>2 DEF ChargeCreateInvoice
  <2>1. [status |-> "PENDING", invoiceId |-> i, refundId |-> None] \in PaymentRow
    BY DEF PaymentRow, PaymentStatus
  <2>2. Saving(job[w], [status |-> "PENDING", invoiceId |-> i, refundId |-> None], "none")
          \in Job
    BY <1>2, <2>1, SavingType DEF ChargeCreateInvoice
  <2>3. invoices' \in [Invoices -> Invoice]
    BY <1>2, NewInvoiceType DEF ChargeCreateInvoice
  <2> QED
    BY <1>2, <2>2, <2>3 DEF ChargeCreateInvoice, TypeOK
<1>3. CASE SyncGetInvoice(w)
  BY <1>3, OutcomeType, ContinueType DEF SyncGetInvoice
<1>4. CASE RefundCreated(w)
  <2>1. job[w] \in Job /\ job[w].row \in PaymentRow
    BY <1>4 DEF RefundCreated
  <2>2. ASSUME NEW r \in Refunds
        PROVE  /\ Saving(job[w], [job[w].row EXCEPT !.refundId = r, !.status = "REFUNDED"],
                         "payment.refunded") \in Job
               /\ Saving(job[w], [job[w].row EXCEPT !.refundId = r,
                                                    !.status = "REFUND_PENDING"],
                         "payment.refund_pending") \in Job
    <3>1. /\ [job[w].row EXCEPT !.refundId = r, !.status = "REFUNDED"] \in PaymentRow
          /\ [job[w].row EXCEPT !.refundId = r, !.status = "REFUND_PENDING"] \in PaymentRow
      BY <2>1 DEF PaymentRow, PaymentStatus
    <3> QED
      BY <2>1, <3>1, SavingType DEF PaymentEventType
  <2>3. refunds' \in [Refunds -> Refund]
    BY <1>4, <2>1, NewRefundType DEF RefundCreated
  <2>4. job' \in [Workers -> Job \cup {Idle}]
    BY <1>4, <2>2 DEF RefundCreated, TypeOK
  <2> QED
    BY <1>4, <2>3, <2>4 DEF RefundCreated, TypeOK
<1>5. CASE ProviderRefuses(w)
  BY <1>5, OutcomeType, ContinueType DEF ProviderRefuses
<1>6. CASE InvoiceExpireCall(w)
  <2>1. job[w] \in Job /\ job[w].row \in PaymentRow
    BY <1>6 DEF InvoiceExpireCall
  <2>2. Saving(job[w], [job[w].row EXCEPT !.status = "FAILED"], "none") \in Job
    <3>1. [job[w].row EXCEPT !.status = "FAILED"] \in PaymentRow
      BY <2>1 DEF PaymentRow, PaymentStatus
    <3> QED
      BY <2>1, <3>1, SavingType
  <2>3. invoices' \in [Invoices -> Invoice]
    BY <1>6 DEF InvoiceExpireCall, TypeOK, Invoice
  <2> QED
    BY <1>6, <2>2, <2>3 DEF InvoiceExpireCall, TypeOK
<1>7. CASE GetRefund(w)
  <2>1. job[w] \in Job /\ job[w].row \in PaymentRow
    BY <1>7 DEF GetRefund
  <2>2. /\ [job[w].row EXCEPT !.status = "REFUNDED"] \in PaymentRow
        /\ [job[w].row EXCEPT !.status = "PAID", !.refundId = None] \in PaymentRow
    BY <2>1 DEF PaymentRow, PaymentStatus
  <2>3. /\ Saving(job[w], [job[w].row EXCEPT !.status = "REFUNDED"], "payment.refunded") \in Job
        /\ Saving(job[w], [job[w].row EXCEPT !.status = "PAID", !.refundId = None],
                  "payment.refund_failed") \in Job
    BY <2>1, <2>2, SavingType DEF PaymentEventType
  <2> QED
    BY <1>7, <2>3, ContinueType DEF GetRefund
<1>8. CASE Save(w)
  <2>1. /\ job[w] \in Job /\ job[w].row \in PaymentRow /\ job[w].b \in Bookings
        /\ job[w].emit \in PaymentEventType \cup {"none"}
    BY <1>8 DEF Save
  <2>2. job[w].row.status = "PENDING" => job[w].row.invoiceId \in Invoices
    BY <1>8 DEF Save, Backed, Free, JobBacked, RowBacked
  <2>3. Emitting(job[w], job[w].emit) \in Job \cup {Idle}
    BY <2>1, EmittingType
  <2> QED
    BY <1>8, <2>1, <2>2, <2>3 DEF Save, TypeOK
<1>9. CASE SaveConflict(w)
  BY <1>9, ContinueType DEF SaveConflict
<1>10. CASE Emit(w)
  <2>1. job[w].b \in Bookings /\ job[w].emit \in PaymentEventType
    BY <1>10 DEF Emit, Backed, Free, JobBacked
  <2>2. EventOf(job[w].emit, job[w].b, {}) \in Event
    BY <2>1 DEF EventOf, Event, EventType
  <2> QED
    BY <1>10, <2>2 DEF Emit, TypeOK
<1>11. QED
  BY <1>1, <1>2, <1>3, <1>4, <1>5, <1>6, <1>7, <1>8, <1>9, <1>10 DEF PaymentProceeds

\* So does every fault.
LEMMA FaultType ==
  ASSUME TypeOK, PaymentFaults
  PROVE  TypeOK'
<1>1. CASE Crash
  BY <1>1 DEF Crash, TypeOK
<1>2. ASSUME NEW w \in Workers, Throws(w)
      PROVE  TypeOK'
  <2>1. job[w] \in Job
    BY <1>2, AtStep, InFlight DEF Throws, Call
  <2> QED
    BY <1>2, <2>1, CallingType, OutcomeType, ContinueType DEF Throws, Call
<1>3. ASSUME NEW w \in Workers, AnswerLost(w)
      PROVE  TypeOK'
  <2>1. job[w] \in Job /\ job[w].row \in PaymentRow /\ job[w].b \in Bookings
    BY <1>3, AtStep, InFlight DEF AnswerLost, Call
  <2>2. invoices' \in [Invoices -> Invoice] /\ refunds' \in [Refunds -> Refund]
    BY <1>3, <2>1, NewInvoiceType, NewRefundType DEF AnswerLost, TypeOK
  <2> QED
    BY <1>3, <2>1, <2>2, OutcomeType DEF AnswerLost, TypeOK
<1>4. ASSUME NEW w \in Workers, NEW b \in Bookings, RefundLookupThrows(w, b)
      PROVE  TypeOK'
  BY <1>4, LoadedType, EmittingType, ContinueType DEF RefundLookupThrows, Begin, PaymentEventType
<1>5. QED
  BY <1>1, <1>2, <1>3, <1>4 DEF PaymentFaults

\* So do the provider, the customer and the other services.
LEMMA EnvironmentType ==
  ASSUME TypeOK, Provider \/ \E b \in Bookings : OthersPublish(b)
  PROVE  TypeOK'
<1>1. ASSUME NEW i \in Invoices, CustomerPays(i) \/ InvoiceLapses(i)
      PROVE  TypeOK'
  BY <1>1 DEF CustomerPays, InvoiceLapses, TypeOK, Invoice
<1>2. ASSUME NEW r \in Refunds, RefundSettles(r)
      PROVE  TypeOK'
  BY <1>2 DEF RefundSettles, TypeOK, Refund
<1>3. ASSUME NEW b \in Bookings, OthersPublish(b)
      PROVE  TypeOK'
  BY <1>3, ForeignAssumption DEF OthersPublish, paymentVars, TypeOK, EventOf, Event, EventType
<1>4. QED
  BY <1>1, <1>2, <1>3 DEF Provider

-----------------------------------------------------------------------------
(* The provider's books only grow, so what they backed stays backed.         *)

\* Invoices keep their booking once created, and stay paid; refunds keep their
\* invoice, and stay done.
Grows(I, R, J, S) ==
  /\ \A i \in Invoices :
       /\ I[i].status # "NONE" => J[i].status # "NONE" /\ J[i].booking = I[i].booking
       /\ I[i].status = "PAID" => J[i].status = "PAID"
  /\ \A r \in Refunds :
       /\ R[r].status # "NONE" => S[r].status # "NONE" /\ S[r].invoice = R[r].invoice
       /\ R[r].status = "SUCCEEDED" => S[r].status = "SUCCEEDED"

\* Money that came in or went back stays so.
LEMMA MoneyStays ==
  ASSUME NEW I, NEW R, NEW J, NEW S, BooksOK(I, R), Grows(I, R, J, S), NEW b
  PROVE  /\ Received(I, b) => Received(J, b)
         /\ Returned(I, R, b) => Returned(J, S, b)
<1>1. Received(I, b) => Received(J, b)
  BY DEF Received, Grows
<1>2. ASSUME NEW r \in Refunds, R[r].status = "SUCCEEDED", I[R[r].invoice].booking = b
      PROVE  Returned(J, S, b)
  <2>1. /\ S[r].status = "SUCCEEDED" /\ S[r].invoice = R[r].invoice
        /\ R[r].invoice \in Invoices /\ I[R[r].invoice].status = "PAID"
    BY <1>2 DEF Grows, BooksOK
  <2>2. J[S[r].invoice].booking = b
    BY <1>2, <2>1 DEF Grows
  <2> QED
    BY <2>1, <2>2 DEF Returned
<1>3. QED
  BY <1>1, <1>2 DEF Returned

\* A backed row, event or job stays backed.
LEMMA StaysBacked ==
  ASSUME NEW I, NEW R, NEW J, NEW S, BooksOK(I, R), Grows(I, R, J, S)
  PROVE  /\ \A b, row : RowBacked(I, R, b, row) => RowBacked(J, S, b, row)
         /\ \A b, type : EventBacked(I, R, type, b) => EventBacked(J, S, type, b)
         /\ \A j : JobBacked(I, R, j) => JobBacked(J, S, j)
<1>1. ASSUME NEW b, NEW row, RowBacked(I, R, b, row)
      PROVE  RowBacked(J, S, b, row)
  <2>1. ASSUME row.status = "REFUND_PENDING"
        PROVE  /\ row.refundId \in Refunds
               /\ S[row.refundId].status # "NONE"
               /\ J[S[row.refundId].invoice].booking = b
    <3>1. /\ row.refundId \in Refunds /\ R[row.refundId].status # "NONE"
          /\ I[R[row.refundId].invoice].booking = b
      BY <1>1, <2>1 DEF RowBacked
    <3>2. /\ S[row.refundId].status # "NONE"
          /\ S[row.refundId].invoice = R[row.refundId].invoice
          /\ R[row.refundId].invoice \in Invoices
          /\ I[R[row.refundId].invoice].status # "NONE"
      BY <3>1 DEF Grows, BooksOK
    <3> QED
      BY <3>1, <3>2 DEF Grows
  <2>2. row.status # "ABSENT" => /\ row.invoiceId \in Invoices
                                 /\ J[row.invoiceId].status # "NONE"
                                 /\ J[row.invoiceId].booking = b
    BY <1>1 DEF RowBacked, Grows
  <2> QED
    BY <1>1, <2>1, <2>2, MoneyStays DEF RowBacked
<1>2. \A b, type : EventBacked(I, R, type, b) => EventBacked(J, S, type, b)
  BY MoneyStays DEF EventBacked
<1>3. QED
  BY <1>1, <1>2 DEF JobBacked

\* A step in which the books grow, worker w saves at most a backed row and goes
\* on to a backed job or to rest, and at most backed events are published.
LEMMA StepBacked ==
  ASSUME TypeOK, Backed, Grows(invoices, refunds, invoices', refunds'),
         BooksOK(invoices', refunds'),
         NEW w \in Workers, NEW j, job' = [job EXCEPT ![w] = j],
         j # Idle => JobBacked(invoices', refunds', j),
         \A b \in Bookings : \/ payments'[b] = payments[b]
                             \/ RowBacked(invoices', refunds', b, payments'[b]),
         \A e \in published' : \/ e \in published
                               \/ EventBacked(invoices', refunds', e.type, e.booking)
  PROVE  Backed'
<1>1. \A v \in Workers : job'[v] = IF v = w THEN j ELSE job[v]
  BY DEF TypeOK
<1>2. /\ \A b \in Bookings : RowBacked(invoices', refunds', b, payments'[b])
      /\ \A e \in published' : EventBacked(invoices', refunds', e.type, e.booking)
      /\ \A v \in Workers : job'[v] # Idle => JobBacked(invoices', refunds', job'[v])
  BY <1>1, StaysBacked DEF Backed, Free
<1>3. QED
  BY <1>2 DEF Backed, Free

\* The books may stay as they are.
LEMMA BooksUnchanged ==
  ASSUME Backed, UNCHANGED <<invoices, refunds>>
  PROVE  Grows(invoices, refunds, invoices', refunds') /\ BooksOK(invoices', refunds')
BY DEF Grows, Backed

\* A step that only moves a worker on to a backed job, or to rest.
LEMMA ContinueBacked ==
  ASSUME TypeOK, Backed, NEW w \in Workers, NEW j, Continue(w, j),
         j # Idle => JobBacked(invoices, refunds, j)
  PROVE  Backed'
BY BooksUnchanged, StepBacked DEF Continue

-----------------------------------------------------------------------------
(* Decisions leave backed jobs.                                              *)

\* A copy is as backed as its row.
LEMMA LoadedBacked ==
  ASSUME Backed, NEW b \in Bookings
  PROVE  /\ JobBacked(invoices, refunds, Loaded(b))
         /\ RowBacked(invoices, refunds, b, payments[b])
<1>1. /\ Loaded(b).b = b /\ Loaded(b).row = payments[b] /\ Loaded(b).pc = "save"
      /\ Loaded(b).emit = "none"
  BY DEF Loaded
<1>2. QED
  BY <1>1 DEF Backed, JobBacked, EventBacked

\* Awaiting a call keeps a job backed, if the copy has the status the call is
\* made for.
LEMMA CallingBacked ==
  ASSUME NEW I, NEW R, NEW j \in Job, NEW pc \in Call, JobBacked(I, R, j),
         pc \in {"syncInvoice", "expireInvoice"} => j.row.status = "PENDING",
         pc = "createRefund" => j.row.status = "PAID",
         pc = "getRefund" => j.row.status = "REFUND_PENDING"
  PROVE  JobBacked(I, R, Calling(j, pc))
<1>1. /\ Calling(j, pc).b = j.b /\ Calling(j, pc).row = j.row
      /\ Calling(j, pc).emit = j.emit /\ Calling(j, pc).pc = pc
  BY DEF Calling, Job
<1>2. QED
  BY <1>1 DEF JobBacked, Call

\* The flags of a job say nothing about money.
LEMMA FlagBacked ==
  ASSUME NEW I, NEW R, NEW j \in Job, NEW flag, JobBacked(I, R, j)
  PROVE  /\ JobBacked(I, R, [j EXCEPT !.insert = flag])
         /\ JobBacked(I, R, [j EXCEPT !.guarded = flag])
<1>1. ASSUME NEW k, k.b = j.b, k.row = j.row, k.emit = j.emit, k.pc = j.pc
      PROVE  JobBacked(I, R, k)
  BY <1>1 DEF JobBacked
<1>2. QED
  BY <1>1 DEF Job

\* Saving a backed row and publishing a backed event is a backed job.
LEMMA SavingBacked ==
  ASSUME NEW I, NEW R, NEW j \in Job, NEW row, NEW emit,
         RowBacked(I, R, j.b, row), EventBacked(I, R, emit, j.b)
  PROVE  JobBacked(I, R, Saving(j, row, emit))
<1> DEFINE k == Saving(j, row, emit)
<1>1. k.b = j.b /\ k.row = row /\ k.emit = emit /\ k.pc = "save"
  BY DEF Saving, Job
<1>2. QED
  BY <1>1 DEF JobBacked

\* So is publishing a backed event only.
LEMMA EmittingBacked ==
  ASSUME NEW I, NEW R, NEW j \in Job, NEW emit, EventBacked(I, R, emit, j.b)
  PROVE  Emitting(j, emit) # Idle => JobBacked(I, R, Emitting(j, emit))
<1> SUFFICES ASSUME emit # "none"
             PROVE  JobBacked(I, R, Emitting(j, emit))
  BY DEF Emitting
<1> DEFINE k == Emitting(j, emit)
<1>1. k.b = j.b /\ k.row = NoPayment /\ k.emit = emit /\ k.pc = "emit"
  BY DEF Emitting, Job
<1>2. RowBacked(I, R, j.b, NoPayment)
  BY DEF RowBacked, NoPayment, Settled
<1>3. QED
  BY <1>1, <1>2 DEF JobBacked

\* A failed invoice and a throwing call need no backing; a paid invoice needs
\* the money.
LEMMA OutcomeBacked ==
  ASSUME NEW I, NEW R, NEW j \in Job, RowBacked(I, R, j.b, j.row)
  PROVE  /\ ApplyFailed(j) # Idle => JobBacked(I, R, ApplyFailed(j))
         /\ Thrown(j) # Idle => JobBacked(I, R, Thrown(j))
         /\ Received(I, j.b) /\ j.row.status # "ABSENT"
            => (ApplyPaid(j) # Idle => JobBacked(I, R, ApplyPaid(j)))
<1>1. j.row \in PaymentRow
  BY DEF Job
<1>2. j.row.status # "ABSENT" => RowBacked(I, R, j.b, [j.row EXCEPT !.status = "FAILED"])
  BY <1>1 DEF RowBacked, PaymentRow, Settled
<1>3. j.row.status # "ABSENT" /\ Received(I, j.b)
      => RowBacked(I, R, j.b, [j.row EXCEPT !.status = "PAID"])
  BY <1>1 DEF RowBacked, PaymentRow, Settled
<1>4. /\ EventBacked(I, R, "payment.failed", j.b)
      /\ EventBacked(I, R, "payment.refund_failed", j.b)
      /\ Received(I, j.b) => EventBacked(I, R, "payment.settled", j.b)
  BY DEF EventBacked
<1>5. ApplyFailed(j) # Idle => JobBacked(I, R, ApplyFailed(j))
  BY <1>2, <1>4, SavingBacked, EmittingBacked DEF ApplyFailed
<1>6. Received(I, j.b) /\ j.row.status # "ABSENT"
      => (ApplyPaid(j) # Idle => JobBacked(I, R, ApplyPaid(j)))
  BY <1>3, <1>4, SavingBacked, EmittingBacked DEF ApplyPaid
<1>7. Thrown(j) # Idle => JobBacked(I, R, Thrown(j))
  <2> DEFINE k == Emitting(j, "payment.refund_failed")
  <2>1. k \in Job
    BY NoPaymentType DEF Emitting, Job, PaymentEventType
  <2>2. k # Idle
    BY DEF Emitting, Idle, Job
  <2>3. JobBacked(I, R, k)
    BY <1>4, <2>2, EmittingBacked
  <2> HIDE DEF k
  <2>4. JobBacked(I, R, [k EXCEPT !.guarded = FALSE])
    BY <2>1, <2>3, FlagBacked
  <2> QED
    BY <2>4 DEF Thrown, k
<1>8. QED
  BY <1>5, <1>6, <1>7

-----------------------------------------------------------------------------
(* Every step keeps the invariant.                                           *)

\* Each handler decides on a backed copy and so leaves a backed job.
LEMMA HandlerBacked ==
  ASSUME TypeOK, Backed, NEW w \in Workers,
         PaymentHandler(w) \/ \E b \in Bookings : Charge(w, b)
  PROVE  Backed'
<1> USE DEF Begin
<1>1. ASSUME NEW b \in Bookings, Charge(w, b)
      PROVE  Backed'
  <2> DEFINE pc == IF payments[b].invoiceId # None THEN "getInvoice" ELSE "createInvoice"
             new == payments[b].status = "ABSENT"
             j == [Loaded(b) EXCEPT !.pc = pc, !.insert = new]
  <2>1. Continue(w, j)
    BY <1>1 DEF Charge
  <2>2. /\ j.b = Loaded(b).b /\ j.row = Loaded(b).row /\ j.emit = Loaded(b).emit
        /\ j.pc \in {"getInvoice", "createInvoice"}
    BY LoadedType DEF Job
  <2>3. JobBacked(invoices, refunds, j)
    BY <2>2, LoadedBacked DEF JobBacked
  <2> QED
    BY <2>1, <2>3, ContinueBacked
<1>2. ASSUME NEW i \in Invoices, Webhook(w, i)
      PROVE  Backed'
  <2> DEFINE b == invoices[i].booking
  <2>1. b \in Bookings
    BY <1>2 DEF Webhook, Backed, BooksOK
  <2>2. invoices[i].status = "PAID" => Received(invoices, b)
    BY DEF Received
  <2> HIDE DEF b
  <2>3. /\ Loaded(b) \in Job /\ Loaded(b).b = b /\ Loaded(b).row = payments[b]
        /\ RowBacked(invoices, refunds, b, payments[b])
    BY <2>1, LoadedType, LoadedBacked
  <2> QED
    BY <1>2, <2>2, <2>3, OutcomeBacked, ContinueBacked DEF Webhook, b
<1>3. ASSUME NEW b \in Bookings, SyncPaymentStatus(w, b)
      PROVE  Backed'
  <2>1. JobBacked(invoices, refunds, Calling(Loaded(b), "syncInvoice"))
    BY <1>3, LoadedType, LoadedBacked, CallingBacked DEF SyncPaymentStatus, Call
  <2> QED
    BY <1>3, <2>1, ContinueBacked DEF SyncPaymentStatus
<1>4. ASSUME NEW b \in Bookings, RequestRefund(w, b)
      PROVE  Backed'
  <2>1. /\ Loaded(b) \in Job /\ Loaded(b).b = b /\ Loaded(b).row = payments[b]
        /\ RowBacked(invoices, refunds, b, payments[b])
        /\ JobBacked(invoices, refunds, Loaded(b))
    BY LoadedType, LoadedBacked
  <2>2. ASSUME NEW type, EventBacked(invoices, refunds, type, b),
               Continue(w, Emitting(Loaded(b), type))
        PROVE  Backed'
    BY <2>1, <2>2, EmittingBacked, ContinueBacked
  <2>3. CASE payments[b].status = "PAID"
    <3>1. JobBacked(invoices, refunds, Calling(Loaded(b), "createRefund"))
      BY <2>1, <2>3, CallingBacked DEF Call
    <3>2. Calling(Loaded(b), "createRefund") \in Job
      BY <2>1, CallingType DEF Call
    <3>3. JobBacked(invoices, refunds,
                    [Calling(Loaded(b), "createRefund") EXCEPT !.guarded = TRUE])
      BY <3>1, <3>2, FlagBacked
    <3>4. Continue(w, [Calling(Loaded(b), "createRefund") EXCEPT !.guarded = TRUE])
      BY <1>4, <2>3 DEF RequestRefund
    <3> QED
      BY <3>3, <3>4, ContinueBacked
  <2>4. /\ payments[b].status = "REFUNDED"
            => EventBacked(invoices, refunds, "payment.refunded", b)
        /\ EventBacked(invoices, refunds, "payment.refund_pending", b)
        /\ EventBacked(invoices, refunds, "payment.refund_failed", b)
    BY <2>1 DEF EventBacked, RowBacked
  <2> QED
    BY <1>4, <2>2, <2>3, <2>4 DEF RequestRefund
<1>5. ASSUME NEW b \in Bookings, ExpireInvoice(w, b)
      PROVE  Backed'
  <2>1. JobBacked(invoices, refunds, Calling(Loaded(b), "expireInvoice"))
    BY <1>5, LoadedType, LoadedBacked, CallingBacked DEF ExpireInvoice, Call
  <2> QED
    BY <1>5, <2>1, ContinueBacked DEF ExpireInvoice
<1>6. ASSUME NEW b \in Bookings, ReconcileRefund(w, b)
      PROVE  Backed'
  <2>1. JobBacked(invoices, refunds, Calling(Loaded(b), "getRefund"))
    BY <1>6, LoadedType, LoadedBacked, CallingBacked DEF ReconcileRefund, Call
  <2> QED
    BY <1>6, <2>1, ContinueBacked DEF ReconcileRefund
<1>7. QED
  BY <1>1, <1>2, <1>3, <1>4, <1>5, <1>6 DEF PaymentHandler

\* A new invoice makes the books grow.
LEMMA NewInvoiceGrows ==
  ASSUME TypeOK, Backed, NEW i \in Invoices, NEW b \in Bookings, NewInvoice(i, b),
         UNCHANGED refunds
  PROVE  /\ Grows(invoices, refunds, invoices', refunds') /\ BooksOK(invoices', refunds')
         /\ invoices'[i] = [booking |-> b, status |-> "PENDING"]
<1>1. \A k \in Invoices : invoices'[k] = IF k = i THEN [booking |-> b, status |-> "PENDING"]
                                        ELSE invoices[k]
  BY DEF NewInvoice, TypeOK
<1>2. Grows(invoices, refunds, invoices', refunds')
  BY <1>1 DEF NewInvoice, Grows
<1>3. BooksOK(invoices', refunds')
  BY <1>1 DEF NewInvoice, Backed, BooksOK
<1>4. QED
  BY <1>1, <1>2, <1>3

\* A refund of an invoice of the books makes them grow.
LEMMA NewRefundGrows ==
  ASSUME TypeOK, Backed, NEW r \in Refunds, NEW i \in Invoices, NEW status,
         status # "NONE", NewRefund(r, i, status), UNCHANGED invoices
  PROVE  /\ Grows(invoices, refunds, invoices', refunds') /\ BooksOK(invoices', refunds')
         /\ refunds'[r] = [invoice |-> i, status |-> status]
<1>1. \A k \in Refunds : refunds'[k] = IF k = r THEN [invoice |-> i, status |-> status]
                                      ELSE refunds[k]
  BY DEF NewRefund, TypeOK
<1>2. Grows(invoices, refunds, invoices', refunds')
  BY <1>1 DEF NewRefund, Grows
<1>3. BooksOK(invoices', refunds')
  BY <1>1 DEF NewRefund, Backed, BooksOK
<1>4. QED
  BY <1>1, <1>2, <1>3

\* Closing an open invoice, whichever way, makes them grow too.
LEMMA InvoiceCloses ==
  ASSUME TypeOK, Backed, NEW i \in Invoices, invoices[i].status = "PENDING",
         NEW status \in {"PAID", "EXPIRED"},
         invoices' = [invoices EXCEPT ![i].status = status], UNCHANGED refunds
  PROVE  Grows(invoices, refunds, invoices', refunds') /\ BooksOK(invoices', refunds')
<1>1. \A k \in Invoices :
        /\ invoices'[k].booking = invoices[k].booking
        /\ invoices'[k].status = IF k = i THEN status ELSE invoices[k].status
  BY DEF TypeOK, Invoice
<1>2. Grows(invoices, refunds, invoices', refunds')
  BY <1>1 DEF Grows
<1>3. BooksOK(invoices', refunds')
  BY <1>1 DEF Backed, BooksOK
<1>4. QED
  BY <1>2, <1>3

\* A handler in flight saves backed copies and publishes backed events.
LEMMA ProceedBacked ==
  ASSUME TypeOK, Backed, NEW w \in Workers, PaymentProceeds(w)
  PROVE  Backed'
<1> DEFINE j == job[w]
<1>1. ASSUME j.pc \in Call \cup {"save", "emit"}
      PROVE  /\ j # Idle /\ j \in Job /\ j.b \in Bookings /\ j.row \in PaymentRow
             /\ JobBacked(invoices, refunds, j)
             /\ RowBacked(invoices, refunds, j.b, j.row)
             /\ EventBacked(invoices, refunds, j.emit, j.b)
  BY <1>1, AtStep, InFlight DEF Backed, Free, JobBacked
<1>2. \A b : EventBacked(invoices', refunds', "none", b)
  BY DEF EventBacked
<1>3. CASE ChargeGetInvoice(w)
  <2>1. JobBacked(invoices, refunds, Calling(j, "createInvoice"))
    BY <1>1, <1>3, CallingBacked DEF ChargeGetInvoice, Call
  <2> QED
    BY <1>3, <2>1, ContinueBacked DEF ChargeGetInvoice
<1>4. CASE ChargeCreateInvoice(w)
  <2>1. PICK i \in Invoices :
          /\ NewInvoice(i, j.b)
          /\ job' = [job EXCEPT ![w] =
                       Saving(j, [status |-> "PENDING", invoiceId |-> i,
                                  refundId |-> None], "none")]
    BY <1>4 DEF ChargeCreateInvoice
  <2>2. /\ Grows(invoices, refunds, invoices', refunds') /\ BooksOK(invoices', refunds')
        /\ invoices'[i] = [booking |-> j.b, status |-> "PENDING"]
    BY <1>1, <1>4, <2>1, NewInvoiceGrows DEF ChargeCreateInvoice, Call
  <2>3. RowBacked(invoices', refunds', j.b,
                  [status |-> "PENDING", invoiceId |-> i, refundId |-> None])
    BY <2>2 DEF RowBacked, Settled
  <2>4. JobBacked(invoices', refunds',
                  Saving(j, [status |-> "PENDING", invoiceId |-> i, refundId |-> None], "none"))
    BY <1>1, <1>2, <1>4, <2>3, SavingBacked DEF ChargeCreateInvoice, Call
  <2> QED
    BY <1>4, <2>1, <2>2, <2>4, StepBacked DEF ChargeCreateInvoice
<1>5. CASE SyncGetInvoice(w)
  <2>1. /\ j \in Job /\ j.row.status = "PENDING" /\ j.row.invoiceId \in Invoices
        /\ invoices[j.row.invoiceId].booking = j.b
        /\ RowBacked(invoices, refunds, j.b, j.row)
    BY <1>1, <1>5 DEF SyncGetInvoice, Call, JobBacked, RowBacked
  <2>2. invoices[j.row.invoiceId].status = "PAID" => Received(invoices, j.b)
    BY <2>1 DEF Received
  <2> QED
    BY <1>5, <2>1, <2>2, OutcomeBacked, ContinueBacked DEF SyncGetInvoice
<1>6. CASE RefundCreated(w)
  <2>1. /\ j \in Job /\ j.row \in PaymentRow /\ j.row.status = "PAID"
        /\ j.row.invoiceId \in Invoices /\ invoices[j.row.invoiceId].booking = j.b
        /\ invoices[j.row.invoiceId].status # "NONE" /\ Received(invoices, j.b)
    BY <1>1, <1>6 DEF RefundCreated, Call, JobBacked, RowBacked, Settled
  <2>2. PICK r \in Refunds, status \in RefundAnswer :
          /\ NewRefund(r, j.row.invoiceId, status)
          /\ job' = [job EXCEPT ![w] =
               IF status = "SUCCEEDED"
               THEN Saving(j, [j.row EXCEPT !.refundId = r, !.status = "REFUNDED"],
                           "payment.refunded")
               ELSE Saving(j, [j.row EXCEPT !.refundId = r, !.status = "REFUND_PENDING"],
                           "payment.refund_pending")]
    BY <1>6 DEF RefundCreated
  <2>3. /\ Grows(invoices, refunds, invoices', refunds') /\ BooksOK(invoices', refunds')
        /\ refunds'[r] = [invoice |-> j.row.invoiceId, status |-> status]
        /\ invoices' = invoices
    BY <1>6, <2>1, <2>2, NewRefundGrows DEF RefundCreated, RefundAnswer
  <2>4. CASE status = "SUCCEEDED"
    <3> DEFINE row == [j.row EXCEPT !.refundId = r, !.status = "REFUNDED"]
    <3>1. Returned(invoices', refunds', j.b)
      BY <2>1, <2>3, <2>4 DEF Returned
    <3>2. row.status = "REFUNDED" /\ row.invoiceId = j.row.invoiceId
      BY <2>1 DEF PaymentRow
    <3>3. RowBacked(invoices', refunds', j.b, row)
      BY <2>1, <2>3, <3>1, <3>2 DEF RowBacked
    <3>4. EventBacked(invoices', refunds', "payment.refunded", j.b)
      BY <3>1 DEF EventBacked
    <3>5. JobBacked(invoices', refunds', Saving(j, row, "payment.refunded"))
      BY <2>1, <3>3, <3>4, SavingBacked
    <3>6. job' = [job EXCEPT ![w] = Saving(j, row, "payment.refunded")]
      BY <2>2, <2>4
    <3> QED
      BY <1>6, <2>3, <3>5, <3>6, StepBacked DEF RefundCreated
  <2>5. CASE status # "SUCCEEDED"
    <3> DEFINE row == [j.row EXCEPT !.refundId = r, !.status = "REFUND_PENDING"]
    <3>1. row.status = "REFUND_PENDING" /\ row.invoiceId = j.row.invoiceId /\ row.refundId = r
      BY <2>1 DEF PaymentRow
    <3>2. RowBacked(invoices', refunds', j.b, row)
      BY <2>1, <2>2, <2>3, <3>1 DEF RowBacked, RefundAnswer
    <3>3. EventBacked(invoices', refunds', "payment.refund_pending", j.b)
      BY DEF EventBacked
    <3>4. JobBacked(invoices', refunds', Saving(j, row, "payment.refund_pending"))
      BY <2>1, <3>2, <3>3, SavingBacked
    <3>5. job' = [job EXCEPT ![w] = Saving(j, row, "payment.refund_pending")]
      BY <2>2, <2>5
    <3> QED
      BY <1>6, <2>3, <3>4, <3>5, StepBacked DEF RefundCreated
  <2> QED
    BY <2>2, <2>4, <2>5
<1>7. CASE ProviderRefuses(w)
  BY <1>1, <1>7, OutcomeBacked, ContinueBacked DEF ProviderRefuses, Call
<1>8. CASE InvoiceExpireCall(w)
  <2>1. /\ j \in Job /\ j.row \in PaymentRow /\ j.row.status = "PENDING"
        /\ j.row.invoiceId \in Invoices /\ RowBacked(invoices, refunds, j.b, j.row)
    BY <1>1, <1>8 DEF InvoiceExpireCall, Call, JobBacked, RowBacked
  <2>2. Grows(invoices, refunds, invoices', refunds') /\ BooksOK(invoices', refunds')
    BY <1>8, <2>1, BooksUnchanged, InvoiceCloses DEF InvoiceExpireCall
  <2>3. RowBacked(invoices, refunds, j.b, [j.row EXCEPT !.status = "FAILED"])
    BY <2>1 DEF RowBacked, PaymentRow, Settled
  <2>4. RowBacked(invoices', refunds', j.b, [j.row EXCEPT !.status = "FAILED"])
    BY <2>2, <2>3, StaysBacked DEF Backed
  <2>5. JobBacked(invoices', refunds',
                  Saving(j, [j.row EXCEPT !.status = "FAILED"], "none"))
    BY <1>2, <2>1, <2>4, SavingBacked
  <2> QED
    BY <1>8, <2>2, <2>5, StepBacked DEF InvoiceExpireCall
<1>9. CASE GetRefund(w)
  <2>1. /\ j \in Job /\ j.row \in PaymentRow /\ j.row.status = "REFUND_PENDING"
        /\ RowBacked(invoices, refunds, j.b, j.row)
    BY <1>1, <1>9 DEF GetRefund, Call, JobBacked
  <2>2. ASSUME refunds[j.row.refundId].status = "SUCCEEDED"
        PROVE  JobBacked(invoices, refunds,
                 Saving(j, [j.row EXCEPT !.status = "REFUNDED"], "payment.refunded"))
    <3>1. Returned(invoices, refunds, j.b)
      BY <2>1, <2>2 DEF RowBacked, Returned
    <3>2. RowBacked(invoices, refunds, j.b, [j.row EXCEPT !.status = "REFUNDED"])
      BY <2>1, <3>1 DEF RowBacked, PaymentRow, Settled
    <3> QED
      BY <2>1, <3>1, <3>2, SavingBacked DEF EventBacked
  <2>3. JobBacked(invoices, refunds,
          Saving(j, [j.row EXCEPT !.status = "PAID", !.refundId = None],
                 "payment.refund_failed"))
    <3>1. RowBacked(invoices, refunds, j.b, [j.row EXCEPT !.status = "PAID", !.refundId = None])
      BY <2>1 DEF RowBacked, PaymentRow, Settled
    <3> QED
      BY <2>1, <3>1, SavingBacked DEF EventBacked
  <2> QED
    BY <1>9, <2>2, <2>3, ContinueBacked DEF GetRefund
<1>10. CASE Save(w)
  <2>1. /\ j \in Job /\ j.b \in Bookings /\ RowBacked(invoices, refunds, j.b, j.row)
        /\ EventBacked(invoices, refunds, j.emit, j.b)
    BY <1>1, <1>10 DEF Save
  <2>2. Emitting(j, j.emit) # Idle => JobBacked(invoices, refunds, Emitting(j, j.emit))
    BY <2>1, EmittingBacked
  <2>3. \A b \in Bookings : payments'[b] = IF b = j.b THEN j.row ELSE payments[b]
    BY <1>10 DEF Save, TypeOK
  <2> QED
    BY <1>10, <2>1, <2>2, <2>3, BooksUnchanged, StepBacked DEF Save
<1>11. CASE SaveConflict(w)
  BY <1>11, ContinueBacked DEF SaveConflict
<1>12. CASE Emit(w)
  <2> DEFINE e == EventOf(j.emit, j.b, {})
  <2>1. e.type = j.emit /\ e.booking = j.b /\ EventBacked(invoices, refunds, j.emit, j.b)
    BY <1>1, <1>12 DEF Emit, EventOf
  <2>2. \A f \in published' : f \in published \/ f = e
    BY <1>12 DEF Emit
  <2> QED
    BY <1>12, <2>1, <2>2, BooksUnchanged, StepBacked DEF Emit
<1>13. QED
  BY <1>3, <1>4, <1>5, <1>6, <1>7, <1>8, <1>9, <1>10, <1>11, <1>12 DEF PaymentProceeds

\* Faults lose jobs and answers, never what the provider did.
LEMMA FaultBacked ==
  ASSUME TypeOK, Backed, PaymentFaults
  PROVE  Backed'
<1>1. CASE Crash
  BY <1>1 DEF Crash, Backed, Free
<1>2. ASSUME NEW w \in Workers, job[w].pc \in Call \cup {"save", "emit"}
      PROVE  /\ job[w] \in Job /\ job[w].b \in Bookings
             /\ JobBacked(invoices, refunds, job[w])
             /\ RowBacked(invoices, refunds, job[w].b, job[w].row)
  BY <1>2, AtStep, InFlight DEF Backed, Free, JobBacked
<1>3. ASSUME NEW w \in Workers, Throws(w)
      PROVE  Backed'
  <2>1. CASE Continue(w, Thrown(job[w]))
    BY <1>2, <1>3, <2>1, OutcomeBacked, ContinueBacked DEF Throws, Call
  <2>2. CASE job[w].pc = "getInvoice" /\ Continue(w, Calling(job[w], "createInvoice"))
    <3>1. JobBacked(invoices, refunds, Calling(job[w], "createInvoice"))
      BY <1>2, <2>2, CallingBacked DEF Call
    <3> QED
      BY <2>2, <3>1, ContinueBacked
  <2> QED
    BY <1>3, <2>1, <2>2 DEF Throws
<1>4. ASSUME NEW w \in Workers, AnswerLost(w)
      PROVE  Backed'
  <2>1. /\ job[w] \in Job /\ job[w].b \in Bookings
        /\ RowBacked(invoices, refunds, job[w].b, job[w].row)
        /\ job[w].pc = "createRefund" => job[w].row.invoiceId \in Invoices
    BY <1>2, <1>4 DEF AnswerLost, Call, JobBacked, RowBacked
  <2>2. Grows(invoices, refunds, invoices', refunds') /\ BooksOK(invoices', refunds')
    BY <1>4, <2>1, NewInvoiceGrows, NewRefundGrows DEF AnswerLost, RefundAnswer
  <2>3. RowBacked(invoices', refunds', job[w].b, job[w].row)
    BY <2>1, <2>2, StaysBacked DEF Backed
  <2>4. Thrown(job[w]) # Idle => JobBacked(invoices', refunds', Thrown(job[w]))
    BY <2>1, <2>3, OutcomeBacked
  <2> QED
    BY <1>4, <2>2, <2>4, StepBacked DEF AnswerLost
<1>5. ASSUME NEW w \in Workers, NEW b \in Bookings, RefundLookupThrows(w, b)
      PROVE  Backed'
  <2>1. EventBacked(invoices, refunds, "payment.refund_failed", b)
    BY DEF EventBacked
  <2>2. Emitting(Loaded(b), "payment.refund_failed") # Idle
        => JobBacked(invoices, refunds, Emitting(Loaded(b), "payment.refund_failed"))
    BY <2>1, LoadedType, EmittingBacked
  <2> QED
    BY <1>5, <2>2, ContinueBacked DEF RefundLookupThrows, Begin
<1>6. QED
  BY <1>1, <1>3, <1>4, <1>5 DEF PaymentFaults

\* A step that touches no row and no job.
LEMMA OutsideBacked ==
  ASSUME TypeOK, Backed, Grows(invoices, refunds, invoices', refunds'),
         BooksOK(invoices', refunds'), UNCHANGED <<payments, job>>,
         \A e \in published' : \/ e \in published
                               \/ EventBacked(invoices', refunds', e.type, e.booking)
  PROVE  Backed'
<1>1. /\ \A b \in Bookings : RowBacked(invoices', refunds', b, payments[b])
      /\ \A e \in published' : EventBacked(invoices', refunds', e.type, e.booking)
      /\ \A w \in Workers : job[w] # Idle => JobBacked(invoices', refunds', job[w])
  BY StaysBacked DEF Backed, Free
<1>2. QED
  BY <1>1 DEF Backed, Free

\* The provider's books grow whatever it, the customer or other services do.
LEMMA EnvironmentBacked ==
  ASSUME TypeOK, Backed, Provider \/ \E b \in Bookings : OthersPublish(b)
  PROVE  Backed'
<1>1. ASSUME NEW i \in Invoices, CustomerPays(i) \/ InvoiceLapses(i)
      PROVE  Backed'
  <2>1. Grows(invoices, refunds, invoices', refunds') /\ BooksOK(invoices', refunds')
    BY <1>1, InvoiceCloses DEF CustomerPays, InvoiceLapses
  <2> QED
    BY <1>1, <2>1, OutsideBacked DEF CustomerPays, InvoiceLapses
<1>2. ASSUME NEW r \in Refunds, RefundSettles(r)
      PROVE  Backed'
  <2>1. PICK status \in {"SUCCEEDED", "FAILED"} :
          refunds' = [refunds EXCEPT ![r].status = status]
    BY <1>2 DEF RefundSettles
  <2>2. \A k \in Refunds :
          /\ refunds'[k].invoice = refunds[k].invoice
          /\ refunds'[k].status = IF k = r THEN status ELSE refunds[k].status
    BY <2>1 DEF TypeOK, Refund
  <2>3. Grows(invoices, refunds, invoices', refunds')
    BY <1>2, <2>2 DEF RefundSettles, Grows
  <2>4. BooksOK(invoices', refunds')
    BY <1>2, <2>2 DEF RefundSettles, Backed, BooksOK
  <2> QED
    BY <1>2, <2>3, <2>4, OutsideBacked DEF RefundSettles
<1>3. ASSUME NEW b \in Bookings, OthersPublish(b)
      PROVE  Backed'
  <2>1. \A e \in published' : \/ e \in published
                              \/ EventBacked(invoices', refunds', e.type, e.booking)
    BY <1>3, ForeignAssumption DEF OthersPublish, EventOf, EventBacked, BookingEventType
  <2> QED
    BY <1>3, <2>1, BooksUnchanged, OutsideBacked DEF OthersPublish, paymentVars
<1>4. QED
  BY <1>1, <1>2, <1>3 DEF Provider

-----------------------------------------------------------------------------

\* Types and backing hold at the start.
LEMMA InitBacked ==
  ASSUME Init
  PROVE  TypeOK /\ Backed
<1>1. TypeOK
  BY NoPaymentType DEF Init, PaymentInit, TypeOK, Invoice, Refund
<1>2. Backed
  BY DEF Init, PaymentInit, Backed, BooksOK, RowBacked, NoPayment, Settled, Free
<1>3. QED
  BY <1>1, <1>2

\* Types and backing are inductive.
LEMMA BackedStep ==
  ASSUME TypeOK, Backed, [Next]_vars
  PROVE  TypeOK' /\ Backed'
<1>1. CASE PaymentRuns
  BY <1>1, HandlerType, HandlerBacked, ProceedType, ProceedBacked, EnvironmentType,
     EnvironmentBacked DEF PaymentRuns
<1>2. CASE PaymentFaults
  BY <1>2, FaultType, FaultBacked
<1>3. CASE UNCHANGED vars
  BY <1>3 DEF vars, paymentVars, TypeOK, Backed, Free
<1>4. QED
  BY <1>1, <1>2, <1>3 DEF Next

\* Tables, books, jobs and events keep their types, and in every reachable
\* state of payment-service the provider's books back every row, every copy of
\* a row in flight and every event published or about to be: for any number of
\* bookings, invoices, refunds and overlapping handlers, with crashes, throwing
\* calls and lost answers.
THEOREM AlwaysBacked == Spec => [](TypeOK /\ Backed)
<1>1. Init => TypeOK /\ Backed
  BY InitBacked
<1>2. TypeOK /\ Backed /\ [Next]_vars => TypeOK' /\ Backed'
  BY BackedStep
<1>3. QED
  BY <1>1, <1>2, PTL DEF Spec

\* A payment is marked paid, and payment.settled published, only for money the
\* provider has for that very booking (applyPaid, charge, every stale save).
THEOREM SettledAlwaysReal == Spec => []SettledIsReal
<1>1. Backed => SettledIsReal
  BY DEF Backed, SettledIsReal, RowBacked, EventBacked, MoneyReceived, Published, Among
<1>2. QED
  BY <1>1, AlwaysBacked, PTL

\* REFUNDED is never said before the provider said SUCCEEDED (requestRefund,
\* reconcileRefunds).
THEOREM RefundedAlwaysReal == Spec => []RefundedIsReal
<1>1. Backed => RefundedIsReal
  BY DEF Backed, RefundedIsReal, RowBacked, EventBacked, MoneyReturned, Published, Among
<1>2. QED
  BY <1>1, AlwaysBacked, PTL

\* A refund under way can always be found again by reconcileRefunds.
THEOREM RefundsAlwaysReachable == Spec => []RefundsReachable
<1>1. Backed => RefundsReachable
  BY DEF Backed, RefundsReachable, RowBacked
<1>2. QED
  BY <1>1, AlwaysBacked, PTL

\* Types.
THEOREM TypeCorrect == Spec => []TypeOK
BY AlwaysBacked, PTL

-----------------------------------------------------------------------------
(* What holds when handlers run one at a time, with every fault.             *)

OneAtATime == \A v, w \in Workers : v = w

\* The calls that a handler only makes for a payment that is not settled.
UnsettledCall == {"getInvoice", "createInvoice", "syncInvoice", "expireInvoice"}

\* A job that will not take the stored row out of the settled statuses.
Keeps(row, j) ==
  /\ j.pc \in UnsettledCall => row.status \notin Settled
  /\ j.pc = "save" /\ row.status \in Settled => j.row.status \in Settled

\* The inductive invariant: the only copy in flight is of the row as it is.
JobsKeep == \A w \in Workers : ~Free(w) => Keeps(payments[job[w].b], job[w])

-----------------------------------------------------------------------------

\* A step of the only worker that leaves the rows alone.
LEMMA MoveOn ==
  ASSUME OneAtATime, TypeOK, NEW w \in Workers, NEW j,
         job' = [job EXCEPT ![w] = j], UNCHANGED payments,
         j # Idle => Keeps(payments[j.b], j)
  PROVE  JobsKeep'
<1>1. \A v \in Workers : v = w /\ job'[v] = j
  BY DEF OneAtATime, TypeOK
<1>2. QED
  BY <1>1 DEF JobsKeep, Free

\* A copy that is saved, if it is settled or replaces a row that is not.
LEMMA SavingKeeps ==
  ASSUME NEW j \in Job, NEW row, NEW copy, NEW emit,
         row.status \in Settled => copy.status \in Settled
  PROVE  Saving(j, copy, emit).b = j.b /\ Keeps(row, Saving(j, copy, emit))
<1>1. /\ Saving(j, copy, emit).b = j.b /\ Saving(j, copy, emit).pc = "save"
      /\ Saving(j, copy, emit).row = copy
  BY DEF Saving, Job
<1>2. QED
  BY <1>1 DEF Keeps, UnsettledCall

\* What is left of a job when a call throws saves nothing.
LEMMA ThrownKeeps ==
  ASSUME NEW j \in Job, NEW row
  PROVE  Thrown(j) # Idle => Thrown(j).b = j.b /\ Keeps(row, Thrown(j))
<1> SUFFICES ASSUME j.guarded
             PROVE  Thrown(j).b = j.b /\ Thrown(j).pc = "emit"
  BY DEF Thrown, Keeps, UnsettledCall
<1> QED
  BY DEF Thrown, Emitting, Job

\* Decisions on the copy of a row.
LEMMA DecisionKeeps ==
  ASSUME NEW j \in Job, NEW row,
         row.status \in Settled => j.row.status \in Settled
  PROVE  /\ ApplyPaid(j) # Idle => ApplyPaid(j).b = j.b /\ Keeps(row, ApplyPaid(j))
         /\ ApplyFailed(j) # Idle => ApplyFailed(j).b = j.b /\ Keeps(row, ApplyFailed(j))
         /\ \A emit : Emitting(j, emit) # Idle =>
              Emitting(j, emit).b = j.b /\ Keeps(row, Emitting(j, emit))
<1>1. ASSUME NEW emit, Emitting(j, emit) # Idle
      PROVE  /\ Emitting(j, emit).b = j.b /\ Emitting(j, emit).pc = "emit"
             /\ Keeps(row, Emitting(j, emit))
  <2>1. Emitting(j, emit).b = j.b /\ Emitting(j, emit).pc = "emit"
    BY <1>1 DEF Emitting, Job
  <2> QED
    BY <2>1 DEF Keeps, UnsettledCall
<1>2. [j.row EXCEPT !.status = "PAID"].status = "PAID"
  BY DEF Job, PaymentRow
<1>3. ApplyPaid(j) # Idle => ApplyPaid(j).b = j.b /\ Keeps(row, ApplyPaid(j))
  BY <1>1, <1>2, SavingKeeps DEF ApplyPaid, Settled
<1>4. ApplyFailed(j) # Idle => ApplyFailed(j).b = j.b /\ Keeps(row, ApplyFailed(j))
  BY <1>1, SavingKeeps DEF ApplyFailed, Settled
<1>5. QED
  BY <1>1, <1>3, <1>4

\* Each handler starts with a copy of the row as it is.
LEMMA HandlerKeeps ==
  ASSUME OneAtATime, TypeOK, Backed, NEW w \in Workers,
         PaymentHandler(w) \/ \E b \in Bookings : Charge(w, b) \/ RefundLookupThrows(w, b)
  PROVE  JobsKeep'
<1>1. ASSUME NEW b \in Bookings, NEW j, Begin(w, j),
             j # Idle => j.b = b /\ Keeps(payments[b], j)
      PROVE  JobsKeep'
  BY <1>1, MoveOn DEF Begin, Continue
<1>2. ASSUME NEW b \in Bookings
      PROVE  /\ Loaded(b) \in Job /\ Loaded(b).b = b /\ Loaded(b).row = payments[b]
             /\ payments[b].status \in Settled => Loaded(b).row.status \in Settled
  BY LoadedType
<1>3. ASSUME NEW i \in Invoices, Webhook(w, i)
      PROVE  JobsKeep'
  <2>1. invoices[i].booking \in Bookings
    BY <1>3 DEF Webhook, Backed, BooksOK
  <2> QED
    BY <1>1, <1>2, <1>3, <2>1, DecisionKeeps DEF Webhook
<1>4. ASSUME NEW b \in Bookings, NEW pc \in {"syncInvoice", "expireInvoice", "getRefund"},
             pc \in UnsettledCall => payments[b].status \notin Settled,
             Begin(w, Calling(Loaded(b), pc))
      PROVE  JobsKeep'
  <2>1. Calling(Loaded(b), pc).pc = pc /\ Calling(Loaded(b), pc).b = b
    BY <1>2 DEF Calling, Job
  <2> QED
    BY <1>1, <1>4, <2>1 DEF Keeps
<1>5. ASSUME NEW b \in Bookings, RequestRefund(w, b)
      PROVE  JobsKeep'
  <2>1. CASE Begin(w, [Calling(Loaded(b), "createRefund") EXCEPT !.guarded = TRUE])
    <3> DEFINE j == [Calling(Loaded(b), "createRefund") EXCEPT !.guarded = TRUE]
    <3>1. j.pc = "createRefund" /\ j.b = b
      BY <1>2 DEF Calling, Job
    <3>2. Begin(w, j)
      BY <2>1
    <3> HIDE DEF j
    <3> QED
      BY <1>1, <3>1, <3>2 DEF Keeps, UnsettledCall
  <2>2. ASSUME NEW type, Begin(w, Emitting(Loaded(b), type)) PROVE JobsKeep'
    BY <1>1, <1>2, <2>2, DecisionKeeps
  <2> QED
    BY <1>5, <2>1, <2>2 DEF RequestRefund
<1>6. ASSUME NEW b \in Bookings, Charge(w, b)
      PROVE  JobsKeep'
  <2> DEFINE pc == IF payments[b].invoiceId # None THEN "getInvoice" ELSE "createInvoice"
             flag == payments[b].status = "ABSENT"
             j == [Loaded(b) EXCEPT !.pc = pc, !.insert = flag]
  <2>1. pc \in UnsettledCall
    BY DEF UnsettledCall
  <2>2. Begin(w, j) /\ payments[b].status \in {"ABSENT", "PENDING", "FAILED"}
    BY <1>6 DEF Charge
  <2> HIDE DEF pc, flag
  <2>3. j.pc = pc /\ j.b = b
    BY <1>2 DEF Job
  <2> HIDE DEF j
  <2> QED
    BY <1>1, <2>1, <2>2, <2>3 DEF Keeps, UnsettledCall, Settled
<1>7. ASSUME NEW b \in Bookings, RefundLookupThrows(w, b)
      PROVE  JobsKeep'
  BY <1>1, <1>2, <1>7, DecisionKeeps DEF RefundLookupThrows
<1>8. ASSUME NEW b \in Bookings,
             SyncPaymentStatus(w, b) \/ ExpireInvoice(w, b) \/ ReconcileRefund(w, b)
      PROVE  JobsKeep'
  BY <1>4, <1>8 DEF SyncPaymentStatus, ExpireInvoice, ReconcileRefund, Settled, UnsettledCall
<1>9. QED
  BY <1>3, <1>5, <1>6, <1>7, <1>8 DEF PaymentHandler

\* A handler in flight goes on, or a call of it fails.
LEMMA ProceedKeeps ==
  ASSUME OneAtATime, TypeOK, JobsKeep, NEW w \in Workers,
         PaymentProceeds(w) \/ Throws(w) \/ AnswerLost(w)
  PROVE  JobsKeep'
<1> DEFINE j == job[w]
           row == payments[j.b]
<1>1. j # Idle
  <2>1. j.pc \in Call \cup {"save", "emit"}
    BY DEF PaymentProceeds, ChargeGetInvoice, ChargeCreateInvoice, SyncGetInvoice,
           RefundCreated, ProviderRefuses, InvoiceExpireCall, GetRefund, Save,
           SaveConflict, Emit, Throws, AnswerLost, Call
  <2> QED
    BY <2>1, AtStep
<1>2. j \in Job /\ j.row \in PaymentRow /\ Keeps(row, j)
  BY <1>1, InFlight DEF JobsKeep, Free
<1>3. ASSUME NEW u, job' = [job EXCEPT ![w] = u], UNCHANGED payments,
             u # Idle => u.b = j.b /\ Keeps(row, u)
      PROVE  JobsKeep'
  BY <1>3, MoveOn
<1>4. ASSUME NEW u, Continue(w, u), u # Idle => u.b = j.b /\ Keeps(row, u)
      PROVE  JobsKeep'
  BY <1>3, <1>4 DEF Continue
<1>5. ASSUME NEW copy, NEW emit, row.status \in Settled => copy.status \in Settled
      PROVE  Saving(j, copy, emit).b = j.b /\ Keeps(row, Saving(j, copy, emit))
  BY <1>2, <1>5, SavingKeeps
<1>6. Thrown(j) # Idle => Thrown(j).b = j.b /\ Keeps(row, Thrown(j))
  BY <1>2, ThrownKeeps
<1>7. j.pc = "getInvoice" =>
        /\ Calling(j, "createInvoice").b = j.b
        /\ Keeps(row, Calling(j, "createInvoice"))
  BY <1>2 DEF Calling, Job, Keeps, UnsettledCall
<1>8. CASE ChargeGetInvoice(w)
  BY <1>4, <1>7, <1>8 DEF ChargeGetInvoice
<1>9. CASE ChargeCreateInvoice(w)
  <2> PICK i \in Invoices :
        /\ job' = [job EXCEPT ![w] = Saving(j, [status |-> "PENDING", invoiceId |-> i,
                                                refundId |-> None], "none")]
        /\ UNCHANGED payments /\ j.pc = "createInvoice"
    BY <1>9 DEF ChargeCreateInvoice
  <2>1. row.status \notin Settled
    BY <1>2 DEF Keeps, UnsettledCall
  <2> QED
    BY <1>3, <1>5, <2>1
<1>10. CASE SyncGetInvoice(w)
  <2>1. row.status \notin Settled
    BY <1>2, <1>10 DEF SyncGetInvoice, Keeps, UnsettledCall
  <2> QED
    BY <1>2, <1>4, <1>10, <2>1, DecisionKeeps DEF SyncGetInvoice
<1>11. CASE RefundCreated(w)
  <2> PICK r \in Refunds, status \in {"REFUNDED", "REFUND_PENDING"}, type \in PaymentEventType :
        /\ job' = [job EXCEPT ![w] =
             Saving(j, [j.row EXCEPT !.refundId = r, !.status = status], type)]
        /\ UNCHANGED payments
    BY <1>11 DEF RefundCreated, PaymentEventType
  <2> DEFINE copy == [j.row EXCEPT !.refundId = r, !.status = status]
  <2>1. copy.status \in Settled
    BY <1>2 DEF PaymentRow, Settled
  <2>2. job' = [job EXCEPT ![w] = Saving(j, copy, type)] /\ UNCHANGED payments
    OBVIOUS
  <2> HIDE DEF copy
  <2> QED
    BY <1>3, <1>5, <2>1, <2>2
<1>12. CASE ProviderRefuses(w)
  BY <1>4, <1>6, <1>12 DEF ProviderRefuses
<1>13. CASE InvoiceExpireCall(w)
  <2>1. /\ job' = [job EXCEPT ![w] = Saving(j, [j.row EXCEPT !.status = "FAILED"], "none")]
        /\ UNCHANGED payments /\ j.pc = "expireInvoice"
    BY <1>13 DEF InvoiceExpireCall
  <2>2. row.status \notin Settled
    BY <1>2, <2>1 DEF Keeps, UnsettledCall
  <2> QED
    BY <1>3, <1>5, <2>1, <2>2
<1>14. CASE GetRefund(w)
  <2> DEFINE done == [j.row EXCEPT !.status = "REFUNDED"]
             again == [j.row EXCEPT !.status = "PAID", !.refundId = None]
  <2>1. done.status \in Settled /\ again.status \in Settled
    BY <1>2 DEF PaymentRow, Settled
  <2>2. \/ Continue(w, Saving(j, done, "payment.refunded"))
        \/ Continue(w, Saving(j, again, "payment.refund_failed"))
        \/ Continue(w, Idle)
    BY <1>14 DEF GetRefund
  <2> HIDE DEF done, again
  <2> QED
    BY <1>4, <1>5, <2>1, <2>2
<1>15. CASE Save(w)
  <2> DEFINE u == Emitting(j, j.emit)
  <2>1. job' = [job EXCEPT ![w] = u]
    BY <1>15 DEF Save
  <2>2. u # Idle => u.pc = "emit"
    BY <1>2 DEF Emitting, Job
  <2>3. \A v \in Workers : job'[v] = u
    BY <2>1 DEF OneAtATime, TypeOK
  <2> HIDE DEF u
  <2> QED
    BY <2>2, <2>3 DEF JobsKeep, Free, Keeps, UnsettledCall
<1>16. CASE SaveConflict(w)
  BY <1>4, <1>16 DEF SaveConflict
<1>17. CASE Emit(w)
  BY <1>3, <1>17 DEF Emit
<1>18. CASE Throws(w)
  BY <1>4, <1>6, <1>7, <1>18 DEF Throws
<1>19. CASE AnswerLost(w)
  BY <1>3, <1>6, <1>19 DEF AnswerLost
<1>20. QED
  BY <1>8, <1>9, <1>10, <1>11, <1>12, <1>13, <1>14, <1>15, <1>16, <1>17, <1>18, <1>19
     DEF PaymentProceeds

\* With one handler at a time, no copy in flight would take back a settlement.
THEOREM JobsAlwaysKeep == ASSUME OneAtATime PROVE Spec => []JobsKeep
<1>1. Init => JobsKeep
  BY DEF Init, PaymentInit, JobsKeep, Free
<1>2. TypeOK /\ Backed /\ JobsKeep /\ [Next]_vars => JobsKeep'
  <2> SUFFICES ASSUME TypeOK, Backed, JobsKeep, [Next]_vars
               PROVE  JobsKeep'
    OBVIOUS
  <2>1. ASSUME UNCHANGED <<payments, job>> PROVE JobsKeep'
    BY <2>1 DEF JobsKeep, Free
  <2>2. CASE Crash
    BY <2>2 DEF Crash, JobsKeep, Free
  <2>3. ASSUME Provider \/ \E b \in Bookings : OthersPublish(b)
        PROVE  UNCHANGED <<payments, job>>
    BY <2>3 DEF Provider, CustomerPays, InvoiceLapses, RefundSettles, OthersPublish,
                paymentVars
  <2>4. CASE UNCHANGED vars
    BY <2>1, <2>4 DEF vars, paymentVars
  <2> QED
    BY <2>1, <2>2, <2>3, <2>4, HandlerKeeps, ProceedKeeps DEF Next, PaymentRuns, PaymentFaults
<1>3. QED
  BY <1>1, <1>2, AlwaysBacked, PTL DEF Spec

\* Only Save writes a row.
LEMMA OnlySaveWrites ==
  ASSUME [Next]_vars, payments' # payments
  PROVE  \E w \in Workers : Save(w)
<1>1. ASSUME NEW w \in Workers, PaymentHandler(w)
      PROVE  payments' = payments
  BY <1>1 DEF PaymentHandler, Webhook, SyncPaymentStatus, RequestRefund, ExpireInvoice,
              ReconcileRefund, Begin, Continue
<1>2. ASSUME NEW w \in Workers, PaymentProceeds(w), ~Save(w)
      PROVE  payments' = payments
  BY <1>2 DEF PaymentProceeds, ChargeGetInvoice, ChargeCreateInvoice, SyncGetInvoice,
              RefundCreated, ProviderRefuses, InvoiceExpireCall, GetRefund, SaveConflict,
              Emit, Continue
<1>3. PaymentFaults => payments' = payments
  BY DEF PaymentFaults, Crash, Throws, AnswerLost, RefundLookupThrows, Begin, Continue
<1>4. Provider \/ (\E b \in Bookings : OthersPublish(b)) => payments' = payments
  BY DEF Provider, CustomerPays, InvoiceLapses, RefundSettles, OthersPublish, paymentVars
<1>5. ASSUME NEW w \in Workers, NEW b \in Bookings, Charge(w, b)
      PROVE  payments' = payments
  BY <1>5 DEF Charge, Begin, Continue
<1>6. QED
  BY <1>1, <1>2, <1>3, <1>4, <1>5 DEF Next, PaymentRuns, vars, paymentVars

\* With one handler at a time, no step takes a settled payment back to PENDING or
\* FAILED, whatever fails and however callbacks, charges and syncs follow each
\* other (charge, applyFailed, expireInvoice).
THEOREM PaidNeverForgotten == ASSUME OneAtATime PROVE Spec => PaidNotForgotten
<1>1. TypeOK /\ JobsKeep /\ [Next]_vars =>
        [\A b \in Bookings :
           payments[b].status \in Settled => payments'[b].status \in Settled]_vars
  <2> SUFFICES ASSUME TypeOK, JobsKeep, [Next]_vars, NEW b \in Bookings,
                      payments[b].status \in Settled
               PROVE  payments'[b].status \in Settled
    OBVIOUS
  <2>1. CASE payments' = payments
    BY <2>1
  <2>2. ASSUME NEW w \in Workers, Save(w)
        PROVE  payments'[b].status \in Settled
    <3>1. job[w] # Idle
      BY <2>2 DEF Save, Idle
    <3>2. Keeps(payments[job[w].b], job[w])
      BY <3>1 DEF JobsKeep, Free
    <3>3. payments'[b] = IF b = job[w].b THEN job[w].row ELSE payments[b]
      BY <2>2 DEF Save, TypeOK
    <3> QED
      BY <2>2, <3>2, <3>3 DEF Keeps, Save
  <2> QED
    BY <2>1, <2>2, OnlySaveWrites
<1>2. QED
  BY <1>1, AlwaysBacked, JobsAlwaysKeep, PTL DEF Spec, PaidNotForgotten

=============================================================================
