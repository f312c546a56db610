---------------------------- MODULE BookingProofs ----------------------------
(***************************************************************************)
(* Proofs about booking-service for any number of bookings, seats and      *)
(* concurrent handlers, whatever events the other services publish.        *)
(***************************************************************************)
EXTENDS BookingSystem, TLAPS

-----------------------------------------------------------------------------
(* Types of tasks.                                                          *)

\* findById yields a well-typed copy of the row.
LEMMA LoadedType ==
  ASSUME TypeOK, NEW b \in Bookings
  PROVE  Loaded(b) \in Task
BY DEF TypeOK, Loaded, SeatsOf, Task, TaskRecord, Step, HoldStep, CheckStep

\* A decision to save, release and publish is a well-typed task.
LEMMA SavingType ==
  ASSUME NEW t \in Task, NEW row \in BookingRow, NEW release \in BOOLEAN,
         NEW emits \in Seq(BookingEventType)
  PROVE  Saving(t, row, release, emits) \in Task
BY DEF Saving, Task, TaskRecord, Step, HoldStep, CheckStep

\* The missing row and the row of a new booking are rows.
LEMMA RowType == Absent \in BookingRow /\ NewBooking \in BookingRow
BY DEF NewBooking, Absent, BookingRow, Status, CancellationReason

\* So is a decision to publish only, unless nothing is left to publish.
LEMMA EmittingType ==
  ASSUME NEW t \in Task, NEW emits \in Seq(BookingEventType)
  PROVE  Emitting(t, emits) \in Task \cup {Idle}
<1>1. CASE emits = <<>>
  BY <1>1 DEF Emitting
<1>2. CASE emits # <<>>
  <2>1. [t EXCEPT !.pc = "emit", !.row = Absent, !.release = FALSE,
                  !.emits = emits] \in TaskRecord
    BY RowType DEF Task, TaskRecord, Step
  <2>2. [t EXCEPT !.pc = "emit", !.row = Absent, !.release = FALSE,
                  !.emits = emits].emits = emits
    BY DEF Task, TaskRecord
  <2> QED
    BY <1>2, <2>1, <2>2 DEF Emitting, Task
<1>3. QED
  BY <1>1, <1>2

\* The sequences of events the handlers publish.
LEMMA EmitsType ==
  /\ <<>> \in Seq(BookingEventType)
  /\ <<"booking.confirmed">> \in Seq(BookingEventType)
  /\ <<"booking.cancelled">> \in Seq(BookingEventType)
  /\ <<"booking.expired">> \in Seq(BookingEventType)
  /\ <<"booking.refunded">> \in Seq(BookingEventType)
  /\ <<"booking.refund.requested">> \in Seq(BookingEventType)
  /\ <<"booking.confirmed", "payment.received">> \in Seq(BookingEventType)
  /\ <<"booking.expired">> \o <<>> \in Seq(BookingEventType)
  /\ <<"booking.expired">> \o <<"booking.refund.requested">> \in Seq(BookingEventType)
BY DEF BookingEventType

\* Expiring a booking, with or without a refund request for late money, and
\* taking its payment are well-typed tasks.
LEMMA OutcomeType ==
  ASSUME NEW t \in Task
  PROVE  /\ Expiring(t, <<>>) \in Task
         /\ LatePayment(t) \in Task
         /\ TakePayment(t) \in Task
<1>1. [t.row EXCEPT !.status = "EXPIRED"] \in BookingRow
  BY DEF Task, TaskRecord, BookingRow, Status
<1>2. [t.row EXCEPT !.paidAt = TRUE] \in BookingRow
  BY DEF Task, TaskRecord, BookingRow
<1>3. QED
  BY <1>1, <1>2, EmitsType, SavingType DEF Expiring, LatePayment, TakePayment

\* A step that only moves a worker on keeps the types.
LEMMA ContinueType ==
  ASSUME TypeOK, NEW w \in Workers, NEW t \in Task \cup {Idle}, Continue(w, t)
  PROVE  TypeOK'
BY DEF TypeOK, Continue

\* Starting any handler keeps the types.
LEMMA HandlerType ==
  ASSUME TypeOK, NEW w \in Workers, NEW b \in Bookings, Handler(w, b)
  PROVE  TypeOK'
<1> DEFINE t == Loaded(b)
<1>1. /\ t \in Task /\ t.row = bookings[b] /\ bookings[b] \in BookingRow
      /\ activeLocks[b] \in SUBSET Seats
  BY LoadedType DEF Loaded, TypeOK
<1> HIDE DEF t
<1>2. CASE \E S \in SUBSET Seats : HoldAcquire(w, b, S)
  <2> PICK S \in SUBSET Seats : HoldAcquire(w, b, S)
    BY <1>2
  <2>1. [pc |-> "create", b |-> b, row |-> Absent, seats |-> S, keys |-> {},
         stale |-> {}, release |-> FALSE, emits |-> <<>>] \in Task
    BY RowType DEF Task, TaskRecord, Step, HoldStep, CheckStep
  <2> QED
    BY <2>1 DEF HoldAcquire, TypeOK
<1>3. CASE Cancel(w, b)
  <2>1. /\ [t.row EXCEPT !.status = "REFUND_PENDING", !.refundRequestedAt = TRUE] \in BookingRow
        /\ [t.row EXCEPT !.status = "CANCELLED", !.cancellationReason = "CUSTOMER"] \in BookingRow
    BY <1>1 DEF BookingRow, Status, CancellationReason
  <2> QED
    BY <1>1, <1>3, <2>1, EmitsType, SavingType, ContinueType DEF Cancel, Begin, t
<1>4. CASE PrepareCharge(w, b)
  <2>1. [t EXCEPT !.pc = "chargeRows"] \in Task
    BY <1>1 DEF Task, TaskRecord, Step, HoldStep, CheckStep
  <2> QED
    BY <1>1, <1>4, <2>1, OutcomeType, ContinueType DEF PrepareCharge, Begin, t
<1>5. CASE OnPaymentSettled(w, b)
  <2>1. /\ [t EXCEPT !.pc = "settledExtend", !.keys = activeLocks[b]] \in Task
        /\ [t EXCEPT !.pc = "settledRows"] \in Task
    BY <1>1 DEF Task, TaskRecord, Step, HoldStep, CheckStep
  <2>2. /\ Emitting(t, <<"booking.confirmed">>) \in Task \cup {Idle}
        /\ Emitting(t, <<"booking.refund.requested">>) \in Task \cup {Idle}
    BY <1>1, EmitsType, EmittingType
  <2> QED
    BY <1>1, <1>5, <2>1, <2>2, OutcomeType, ContinueType DEF OnPaymentSettled, Begin, t
<1>6. CASE OnPaymentFailed(w, b)
  <2>1. [t.row EXCEPT !.status = "CANCELLED",
                      !.cancellationReason = "PAYMENT_DECLINED"] \in BookingRow
    BY <1>1 DEF BookingRow, Status, CancellationReason
  <2> QED
    BY <1>1, <1>6, <2>1, EmitsType, SavingType, ContinueType DEF OnPaymentFailed, Begin, t
<1>7. CASE OnRefundPending(w, b)
  <2>1. [t.row EXCEPT !.status = "REFUND_PENDING", !.refundRequestedAt = TRUE] \in BookingRow
    BY <1>1 DEF BookingRow, Status
  <2> QED
    BY <1>1, <1>7, <2>1, EmitsType, SavingType, ContinueType DEF OnRefundPending, Begin, t
<1>8. CASE OnRefunded(w, b)
  <2>1. [t.row EXCEPT !.status = "REFUNDED", !.refundRequestedAt = TRUE] \in BookingRow
    BY <1>1 DEF BookingRow, Status
  <2>2. Emitting(t, <<"booking.refunded">>) \in Task \cup {Idle}
    BY <1>1, EmitsType, EmittingType
  <2> QED
    BY <1>1, <1>8, <2>1, <2>2, EmitsType, SavingType, ContinueType DEF OnRefunded, Begin, t
<1>9. CASE OnRefundFailed(w, b)
  <2> DEFINE kept == [t.row EXCEPT !.refundRequestedAt = FALSE]
  <2>1. /\ [kept EXCEPT !.status = "CONFIRMED"] \in BookingRow
        /\ [kept EXCEPT !.status = "PENDING"] \in BookingRow
        /\ [kept EXCEPT !.status = "CANCELLED",
                        !.cancellationReason = "PAYMENT_DECLINED"] \in BookingRow
    BY <1>1 DEF BookingRow, Status, CancellationReason
  <2>2. /\ Saving(t, [kept EXCEPT !.status = "CONFIRMED"], FALSE, <<>>) \in Task
        /\ Saving(t, [kept EXCEPT !.status = "PENDING"], FALSE,
                  <<"booking.confirmed">>) \in Task
        /\ Saving(t, [kept EXCEPT !.status = "CANCELLED",
                                  !.cancellationReason = "PAYMENT_DECLINED"],
                  FALSE, <<>>) \in Task
    BY <1>1, <2>1, EmitsType, SavingType
  <2> QED
    BY <1>9, <2>2, ContinueType DEF OnRefundFailed, Begin, t
<1>10. CASE OnTicketsIssued(w, b)
  <2>1. [t.row EXCEPT !.status = "CONFIRMED", !.ticketsIssuedAt = TRUE] \in BookingRow
    BY <1>1 DEF BookingRow, Status
  <2>2. /\ Emitting(t, <<"booking.refunded">>) \in Task \cup {Idle}
        /\ Emitting(t, <<"booking.cancelled">>) \in Task \cup {Idle}
        /\ Emitting(t, <<"booking.expired">>) \in Task \cup {Idle}
    BY <1>1, EmitsType, EmittingType
  <2> QED
    BY <1>1, <1>10, <2>1, <2>2, EmitsType, SavingType, ContinueType DEF OnTicketsIssued, Begin, t
<1>11. CASE ExpireStaleBooking(w, b)
  BY <1>1, <1>11, OutcomeType, ContinueType DEF ExpireStaleBooking, t
<1>12. CASE RetryConfirmation(w, b)
  BY <1>1, <1>12, EmitsType, SavingType, ContinueType DEF RetryConfirmation, Begin, t
<1>13. CASE RetryRefund(w, b)
  <2>1. [bookings[b] EXCEPT !.refundRequestedAt = TRUE] \in BookingRow
    BY <1>1 DEF BookingRow
  <2> QED
    BY <1>1, <1>13, <2>1, EmitsType, SavingType, ContinueType DEF RetryRefund, Begin, t
<1>14. QED
  BY <1>2, <1>3, <1>4, <1>5, <1>6, <1>7, <1>8, <1>9, <1>10, <1>11, <1>12, <1>13
     DEF Handler

\* Only a handler in flight goes on or fails.
LEMMA InFlight ==
  ASSUME TypeOK, NEW w \in Workers, Proceed(w) \/ Fail(w)
  PROVE  task[w] \in Task
<1>1. task[w].pc # "idle"
  BY DEF Proceed, Fail, HoldCreate, HoldFindStale, HoldDeleteStale, HoldInsert,
         HoldConflict, HoldUndoRelease, HoldUndoDelete, ReadSeatRows, ChargeExists,
         SettledExtend, SettledExists, Save, ReleaseLocks, Emit, HoldThrows,
         CleanupFails, ExtendThrows, HandlerThrows
<1>2. QED
  BY <1>1 DEF TypeOK, Idle

\* A handler going on keeps the types.
LEMMA ProceedType ==
  ASSUME TypeOK, NEW w \in Workers, Proceed(w)
  PROVE  TypeOK'
<1> DEFINE t == task[w]
<1>1. /\ t \in Task /\ t.b \in Bookings /\ t.row \in BookingRow
      /\ t.seats \in SUBSET Seats /\ t.emits \in Seq(BookingEventType)
  BY InFlight DEF Task, TaskRecord
<1>2. CASE HoldCreate(w)
  <2>1. [t EXCEPT !.pc = "findStale"] \in Task
    BY <1>1 DEF Task, TaskRecord, Step, HoldStep, CheckStep
  <2> QED
    BY <1>1, <1>2, <2>1, RowType DEF HoldCreate, TypeOK
<1>3. CASE HoldFindStale(w)
  <2> DEFINE rows == {p \in t.seats \X Bookings : seatRow[p[1]] = p[2] /\ Stale(p[2])}
  <2>1. rows \in SUBSET (Seats \X Bookings)
    BY <1>1
  <2> HIDE DEF rows
  <2>2. [t EXCEPT !.stale = rows,
                  !.pc = IF rows = {} THEN "insert" ELSE "deleteStale"] \in Task
    BY <1>1, <2>1 DEF Task, TaskRecord, Step, HoldStep, CheckStep
  <2> QED
    BY <1>3, <2>2, ContinueType DEF HoldFindStale, rows
<1>4. CASE HoldDeleteStale(w)
  <2>1. [t EXCEPT !.pc = "insert", !.stale = {}] \in Task
    BY <1>1 DEF Task, TaskRecord, Step, HoldStep, CheckStep
  <2> QED
    BY <1>1, <1>4, <2>1 DEF HoldDeleteStale, TypeOK
<1>5. CASE HoldInsert(w)
  BY <1>1, <1>5 DEF HoldInsert, TypeOK
<1>6. CASE HoldConflict(w)
  <2>1. [t EXCEPT !.pc = "undoRelease"] \in Task
    BY <1>1 DEF Task, TaskRecord, Step, HoldStep, CheckStep
  <2> QED
    BY <1>6, <2>1, ContinueType DEF HoldConflict
<1>7. CASE HoldUndoRelease(w)
  <2>1. [t EXCEPT !.pc = "undoDelete"] \in Task
    BY <1>1 DEF Task, TaskRecord, Step, HoldStep, CheckStep
  <2> QED
    BY <1>1, <1>7, <2>1 DEF HoldUndoRelease, Unlocked, TypeOK
<1>8. CASE HoldUndoDelete(w)
  BY <1>1, <1>8, RowType DEF HoldUndoDelete, TypeOK
<1>9. CASE ReadSeatRows(w)
  <2>1. SeatsOf(t.b) \in SUBSET Seats
    BY DEF SeatsOf
  <2>2. /\ [t EXCEPT !.pc = "chargeExists", !.keys = SeatsOf(t.b)] \in Task
        /\ [t EXCEPT !.pc = "settledExists", !.keys = SeatsOf(t.b)] \in Task
    BY <1>1, <2>1 DEF Task, TaskRecord, Step, HoldStep, CheckStep
  <2> QED
    BY <1>9, <2>2, ContinueType DEF ReadSeatRows
<1>10. CASE ChargeExists(w)
  <2>1. CASE Continue(w, Expiring(t, <<>>))
    BY <1>1, <2>1, OutcomeType, ContinueType
  <2>2. CASE /\ charged' = charged \cup {t.b} /\ task' = [task EXCEPT ![w] = Idle]
             /\ UNCHANGED <<bookings, seatRow, lock, activeLocks, lapsed, published>>
    BY <1>1, <2>2 DEF TypeOK
  <2> QED
    BY <1>10, <2>1, <2>2 DEF ChargeExists
<1>11. CASE SettledExtend(w) \/ SettledExists(w)
  BY <1>1, <1>11, OutcomeType, ContinueType DEF SettledExtend, SettledExists
<1>12. CASE Save(w)
  <2>1. [t EXCEPT !.pc = "release", !.row = Absent] \in Task
    BY <1>1, RowType DEF Task, TaskRecord, Step, HoldStep, CheckStep
  <2>2. Emitting(t, t.emits) \in Task \cup {Idle}
    BY <1>1, EmittingType
  <2> QED
    BY <1>1, <1>12, <2>1, <2>2 DEF Save, TypeOK
<1>13. CASE ReleaseLocks(w)
  <2>1. Emitting(t, t.emits) \in Task \cup {Idle}
    BY <1>1, EmittingType
  <2> QED
    BY <1>1, <1>13, <2>1 DEF ReleaseLocks, Unlocked, TypeOK
<1>14. CASE Emit(w)
  <2>1. t.emits # <<>>
    BY <1>1, <1>14 DEF Emit, Task
  <2>2. Head(t.emits) \in BookingEventType /\ Tail(t.emits) \in Seq(BookingEventType)
    BY <1>1, <2>1
  <2>3. Emitting(t, Tail(t.emits)) \in Task \cup {Idle}
    BY <1>1, <2>2, EmittingType
  <2>4. \A S \in SUBSET Seats : EventOf(Head(t.emits), t.b, S) \in Event
    BY <1>1, <2>2 DEF EventOf, Event, EventType
  <2> QED
    BY <1>1, <1>14, <2>3, <2>4 DEF Emit, TypeOK
<1>15. QED
  BY <1>2, <1>3, <1>4, <1>5, <1>6, <1>7, <1>8, <1>9, <1>10, <1>11, <1>12, <1>13, <1>14
     DEF Proceed

\* A failing call keeps the types.
LEMMA FailType ==
  ASSUME TypeOK, NEW w \in Workers, Fail(w)
  PROVE  TypeOK'
<1> DEFINE t == task[w]
<1>1. t \in Task /\ t.b \in Bookings /\ t.emits \in Seq(BookingEventType)
  BY InFlight DEF Task, TaskRecord
<1>2. CASE HoldThrows(w)
  <2>1. /\ [t EXCEPT !.pc = "undoRelease"] \in Task
        /\ [t EXCEPT !.pc = "insert", !.stale = {}] \in Task
    BY <1>1 DEF Task, TaskRecord, Step, HoldStep, CheckStep
  <2> QED
    BY <1>2, <2>1, ContinueType DEF HoldThrows
<1>3. CASE CleanupFails(w)
  <2>1. [t EXCEPT !.pc = "undoDelete"] \in Task
    BY <1>1 DEF Task, TaskRecord, Step, HoldStep, CheckStep
  <2>2. Emitting(t, t.emits) \in Task \cup {Idle}
    BY <1>1, EmittingType
  <2>3. CASE t.pc = "undoDelete" /\ Continue(w, Idle)
    BY <2>3, ContinueType
  <2>4. CASE ~(t.pc = "undoDelete" /\ Continue(w, Idle))
    BY <1>1, <1>3, <2>1, <2>2, <2>4 DEF CleanupFails, TypeOK
  <2> QED
    BY <2>3, <2>4
<1>4. CASE ExtendThrows(w)
  BY <1>1, <1>4, OutcomeType, ContinueType DEF ExtendThrows
<1>5. CASE HandlerThrows(w)
  BY <1>5, ContinueType DEF HandlerThrows
<1>6. QED
  BY <1>2, <1>3, <1>4, <1>5 DEF Fail

\* The other services publish well-typed events and touch nothing else.
LEMMA EnvironmentType ==
  ASSUME TypeOK, Environment
  PROVE  TypeOK'
<1> PICK b \in Bookings :
       PaymentSettles(b) \/ PaymentFails(b) \/ PaymentRefunds(b) \/ TicketsIssue(b)
  BY DEF Environment
<1>1. PICK type \in EventType : Publish(type, b)
  BY DEF PaymentSettles, PaymentFails, PaymentRefunds, TicketsIssue,
         EventType, PaymentEventType
<1>2. EventOf(type, b, {}) \in Event
  BY DEF EventOf, Event
<1>3. QED
  BY <1>1, <1>2 DEF Publish, serviceVars, TypeOK

\* Every step keeps the types.
LEMMA TypeStep ==
  ASSUME TypeOK, [Next]_vars
  PROVE  TypeOK'
<1>1. CASE ServiceRuns
  <2>1. ASSUME NEW b \in Bookings, HoldLapses(b)
        PROVE  TypeOK'
    BY <2>1 DEF HoldLapses, TypeOK
  <2> QED
    BY <1>1, <2>1, HandlerType, ProceedType DEF ServiceRuns
<1>2. CASE ServiceFaults
  <2>1. CASE Crash
    BY <2>1 DEF Crash, TypeOK
  <2>2. ASSUME NEW s \in Seats, LockExpires(s)
        PROVE  TypeOK'
    BY <2>2 DEF LockExpires, TypeOK
  <2> QED
    BY <1>2, <2>1, <2>2, FailType DEF ServiceFaults
<1>3. CASE Environment
  BY <1>3, EnvironmentType
<1>4. CASE UNCHANGED vars
  BY <1>4 DEF vars, serviceVars, TypeOK
<1> QED
  BY <1>1, <1>2, <1>3, <1>4 DEF Next

\* TypeOK is inductive: tables, Redis keys, handles, the tasks of all handlers
\* in flight and the events on the exchange keep their types in every step.
THEOREM TypeCorrect == Spec => []TypeOK
<1>1. Init => TypeOK
  BY RowType DEF Init, ServiceInit, TypeOK
<1>2. TypeOK /\ [Next]_vars => TypeOK'
  BY TypeStep
<1>3. QED
  BY <1>1, <1>2, PTL DEF Spec

-----------------------------------------------------------------------------
(* Every row, every copy and every event is justified by earlier events.    *)

\* Events are never taken back, so what they justify stays justified.
LEMMA StillOK ==
  ASSUME NEW P, NEW Q, P \subseteq Q
  PROVE  /\ \A b, row : RowOK(P, b, row) => RowOK(Q, b, row)
         /\ \A type, b : EventOK(P, type, b) => EventOK(Q, type, b)
         /\ \A t : TaskOK(P, t) => TaskOK(Q, t)
<1>1. \A type, b : Among(P, type, b) => Among(Q, type, b)
  BY DEF Among
<1>2. \A b, row : RowOK(P, b, row) => RowOK(Q, b, row)
  BY <1>1 DEF RowOK
<1>3. \A type, b : EventOK(P, type, b) => EventOK(Q, type, b)
  BY <1>1 DEF EventOK
<1>4. \A t : TaskOK(P, t) => TaskOK(Q, t)
  BY <1>1, <1>2, <1>3 DEF TaskOK, EmitsOK
<1>5. QED
  BY <1>2, <1>3, <1>4

\* A step that only moves a worker on to a justified task, or to rest.
LEMMA ContinueOK ==
  ASSUME TypeOK, Justified, NEW w \in Workers, NEW t, Continue(w, t),
         t # Idle => TaskOK(published, t)
  PROVE  Justified'
<1>1. /\ published' = published /\ bookings' = bookings
      /\ \A v \in Workers : task'[v] = IF v = w THEN t ELSE task[v]
  BY DEF Continue, TypeOK
<1>2. QED
  BY <1>1 DEF Justified, Free

\* A copy is as justified as the row it was read from.
LEMMA LoadedOK ==
  ASSUME Justified, NEW b \in Bookings
  PROVE  TaskOK(published, Loaded(b))
<1>1. /\ Loaded(b).b = b /\ Loaded(b).row = bookings[b] /\ Loaded(b).pc = "save"
      /\ Loaded(b).emits = <<>>
  BY DEF Loaded
<1>2. QED
  BY <1>1 DEF Justified, TaskOK, EmitsOK

\* Saving a justified row and then publishing justified events is justified.
LEMMA SavingOK ==
  ASSUME NEW P, NEW t \in Task, NEW row, NEW release, NEW emits,
         RowOK(P, t.b, row), EmitsOK(P, emits, t.b)
  PROVE  TaskOK(P, Saving(t, row, release, emits))
<1> DEFINE u == Saving(t, row, release, emits)
<1>1. u.b = t.b /\ u.row = row /\ u.emits = emits /\ u.pc = "save"
  BY DEF Saving, Task, TaskRecord
<1>2. QED
  BY <1>1 DEF TaskOK

\* So is publishing justified events only.
LEMMA EmittingOK ==
  ASSUME NEW P, NEW t \in Task, NEW emits, EmitsOK(P, emits, t.b)
  PROVE  Emitting(t, emits) # Idle => TaskOK(P, Emitting(t, emits))
<1> SUFFICES ASSUME emits # <<>>
             PROVE  TaskOK(P, Emitting(t, emits))
  BY DEF Emitting
<1> DEFINE u == Emitting(t, emits)
<1>1. u.b = t.b /\ u.row = Absent /\ u.emits = emits /\ u.pc = "emit"
  BY DEF Emitting, Task, TaskRecord
<1>2. RowOK(P, t.b, Absent)
  BY DEF RowOK, Absent
<1>3. QED
  BY <1>1, <1>2 DEF TaskOK

\* Events that need no justification, and those that settled money justifies.
LEMMA EmitsJustified ==
  ASSUME NEW P, NEW b
  PROVE  /\ EmitsOK(P, <<>>, b)
         /\ EmitsOK(P, <<"booking.cancelled">>, b)
         /\ EmitsOK(P, <<"booking.expired">>, b)
         /\ EmitsOK(P, <<"booking.expired">> \o <<>>, b)
         /\ Among(P, "payment.settled", b) =>
              /\ EmitsOK(P, <<"booking.confirmed">>, b)
              /\ EmitsOK(P, <<"booking.refund.requested">>, b)
              /\ EmitsOK(P, <<"booking.confirmed", "payment.received">>, b)
              /\ EmitsOK(P, <<"booking.expired">> \o <<"booking.refund.requested">>, b)
         /\ Among(P, "payment.refunded", b) => EmitsOK(P, <<"booking.refunded">>, b)
BY DEF EmitsOK, EventOK

\* Expiring a justified copy needs nothing more; refunding or taking money
\* needs the settlement.
LEMMA OutcomeOK ==
  ASSUME NEW P, NEW t \in Task, RowOK(P, t.b, t.row)
  PROVE  /\ TaskOK(P, Expiring(t, <<>>))
         /\ Among(P, "payment.settled", t.b) =>
              TaskOK(P, LatePayment(t)) /\ TaskOK(P, TakePayment(t))
<1>1. RowOK(P, t.b, [t.row EXCEPT !.status = "EXPIRED"])
  BY DEF RowOK, Task, TaskRecord, BookingRow
<1>2. Among(P, "payment.settled", t.b) => RowOK(P, t.b, [t.row EXCEPT !.paidAt = TRUE])
  BY DEF RowOK, Task, TaskRecord, BookingRow
<1>3. QED
  BY <1>1, <1>2, SavingOK, EmitsJustified DEF Expiring, LatePayment, TakePayment

\* Each handler decides on a justified copy and so on a justified task.
LEMMA HandlerOK ==
  ASSUME TypeOK, Justified, NEW w \in Workers, NEW b \in Bookings, Handler(w, b)
  PROVE  Justified'
<1> DEFINE t == Loaded(b)
           Paid == Among(published, "payment.settled", b)
<1>1. /\ t \in Task /\ t.b = b /\ t.row = bookings[b] /\ t.row \in BookingRow
      /\ t.emits = <<>> /\ TaskOK(published, t) /\ RowOK(published, b, t.row)
  BY LoadedType, LoadedOK DEF Loaded, TypeOK, TaskOK
<1>2. t.row.paidAt => Paid
  BY <1>1 DEF RowOK
<1> HIDE DEF t
<1>3. CASE \E S \in SUBSET Seats : HoldAcquire(w, b, S)
  <2> PICK S \in SUBSET Seats : HoldAcquire(w, b, S)
    BY <1>3
  <2> DEFINE u == [pc |-> "create", b |-> b, row |-> Absent, seats |-> S, keys |-> {},
                   stale |-> {}, release |-> FALSE, emits |-> <<>>]
  <2>1. TaskOK(published, u)
    BY DEF TaskOK, RowOK, Absent, EmitsOK
  <2> HIDE DEF u
  <2>2. /\ published' = published /\ bookings' = bookings
        /\ \A v \in Workers : task'[v] = IF v = w THEN u ELSE task[v]
    BY DEF HoldAcquire, TypeOK, u
  <2> QED
    BY <2>1, <2>2 DEF Justified, Free
<1>4. CASE Cancel(w, b)
  <2>1. t.row.status = "CONFIRMED" => t.row.paidAt
    BY <1>1 DEF RowOK
  <2>2. t.row.paidAt =>
          RowOK(published, b, [t.row EXCEPT !.status = "REFUND_PENDING",
                                            !.refundRequestedAt = TRUE])
    BY <1>1 DEF RowOK, BookingRow
  <2>3. RowOK(published, b, [t.row EXCEPT !.status = "CANCELLED",
                                          !.cancellationReason = "CUSTOMER"])
    BY <1>1 DEF RowOK, BookingRow
  <2> QED
    BY <1>1, <1>2, <1>4, <2>1, <2>2, <2>3, SavingOK, EmitsJustified, ContinueOK
       DEF Cancel, Begin, t
<1>5. CASE PrepareCharge(w, b)
  <2>1. TaskOK(published, [t EXCEPT !.pc = "chargeRows"])
    BY <1>1 DEF TaskOK, Task, TaskRecord
  <2> QED
    BY <1>1, <1>5, <2>1, OutcomeOK, ContinueOK DEF PrepareCharge, Begin, t
<1>6. CASE OnPaymentSettled(w, b)
  <2>1. Paid
    BY <1>6 DEF OnPaymentSettled, Published
  <2>2. /\ TaskOK(published, [t EXCEPT !.pc = "settledExtend", !.keys = activeLocks[b]])
        /\ TaskOK(published, [t EXCEPT !.pc = "settledRows"])
    BY <1>1, <2>1 DEF TaskOK, Task, TaskRecord
  <2>3. /\ Emitting(t, <<"booking.confirmed">>) # Idle
           => TaskOK(published, Emitting(t, <<"booking.confirmed">>))
        /\ Emitting(t, <<"booking.refund.requested">>) # Idle
           => TaskOK(published, Emitting(t, <<"booking.refund.requested">>))
    BY <1>1, <2>1, EmittingOK, EmitsJustified
  <2> QED
    BY <1>1, <1>6, <2>1, <2>2, <2>3, OutcomeOK, ContinueOK
       DEF OnPaymentSettled, Begin, t
<1>7. CASE OnPaymentFailed(w, b)
  <2>1. RowOK(published, b, [t.row EXCEPT !.status = "CANCELLED",
                                          !.cancellationReason = "PAYMENT_DECLINED"])
    BY <1>1 DEF RowOK, BookingRow
  <2> QED
    BY <1>1, <1>7, <2>1, SavingOK, EmitsJustified, ContinueOK
       DEF OnPaymentFailed, Begin, t
<1>8. CASE OnRefundPending(w, b)
  <2>1. t.row.paidAt =>
          RowOK(published, b, [t.row EXCEPT !.status = "REFUND_PENDING",
                                            !.refundRequestedAt = TRUE])
    BY <1>1 DEF RowOK, BookingRow
  <2> QED
    BY <1>1, <1>8, <2>1, SavingOK, EmitsJustified, ContinueOK
       DEF OnRefundPending, Begin, t
<1>9. CASE OnRefunded(w, b)
  <2>1. Among(published, "payment.refunded", b)
    BY <1>9 DEF OnRefunded, Published
  <2>2. RowOK(published, b, [t.row EXCEPT !.status = "REFUNDED",
                                          !.refundRequestedAt = TRUE])
    BY <1>1, <2>1 DEF RowOK, BookingRow
  <2>3. Emitting(t, <<"booking.refunded">>) # Idle
        => TaskOK(published, Emitting(t, <<"booking.refunded">>))
    BY <1>1, <2>1, EmittingOK, EmitsJustified
  <2> QED
    BY <1>1, <1>9, <2>1, <2>2, <2>3, SavingOK, EmitsJustified, ContinueOK
       DEF OnRefunded, Begin, t
<1>10. CASE OnRefundFailed(w, b)
  <2> DEFINE kept == [t.row EXCEPT !.refundRequestedAt = FALSE]
             Undone == Saving(t, [kept EXCEPT !.status = "CONFIRMED"], FALSE, <<>>)
             Retried == Saving(t, [kept EXCEPT !.status = "PENDING"], FALSE,
                               <<"booking.confirmed">>)
             Dropped == Saving(t, [kept EXCEPT !.status = "CANCELLED",
                                               !.cancellationReason = "PAYMENT_DECLINED"],
                               FALSE, <<>>)
  <2>1. /\ t.row.ticketsIssuedAt => RowOK(published, b, [kept EXCEPT !.status = "CONFIRMED"])
        /\ RowOK(published, b, [kept EXCEPT !.status = "PENDING"])
        /\ RowOK(published, b, [kept EXCEPT !.status = "CANCELLED",
                                            !.cancellationReason = "PAYMENT_DECLINED"])
    BY <1>1 DEF RowOK, BookingRow
  <2>2. /\ t.row.ticketsIssuedAt => TaskOK(published, Undone)
        /\ Paid => TaskOK(published, Retried)
        /\ TaskOK(published, Dropped)
    BY <1>1, <2>1, SavingOK, EmitsJustified
  <2>3. \/ t.row.ticketsIssuedAt /\ Continue(w, Undone)
        \/ t.row.paidAt /\ Continue(w, Retried)
        \/ Continue(w, Dropped)
    BY <1>10 DEF OnRefundFailed, Begin, t
  <2> HIDE DEF Undone, Retried, Dropped
  <2> QED
    BY <1>2, <2>2, <2>3, ContinueOK
<1>11. CASE OnTicketsIssued(w, b)
  <2>1. Among(published, "tickets.issued", b)
    BY <1>11 DEF OnTicketsIssued, Published
  <2>2. t.row.status = "CONFIRMED" => t.row.paidAt
    BY <1>1 DEF RowOK
  <2>3. t.row.paidAt => RowOK(published, b, [t.row EXCEPT !.status = "CONFIRMED",
                                                         !.ticketsIssuedAt = TRUE])
    BY <1>1, <2>1 DEF RowOK, BookingRow
  <2>4. /\ t.row.status = "REFUNDED" /\ Emitting(t, <<"booking.refunded">>) # Idle
           => TaskOK(published, Emitting(t, <<"booking.refunded">>))
        /\ Emitting(t, <<"booking.cancelled">>) # Idle
           => TaskOK(published, Emitting(t, <<"booking.cancelled">>))
        /\ Emitting(t, <<"booking.expired">>) # Idle
           => TaskOK(published, Emitting(t, <<"booking.expired">>))
    BY <1>1, EmittingOK, EmitsJustified DEF RowOK
  <2> QED
    BY <1>1, <1>11, <2>2, <2>3, <2>4, SavingOK, EmitsJustified, ContinueOK
       DEF OnTicketsIssued, Begin, t
<1>12. CASE ExpireStaleBooking(w, b)
  BY <1>1, <1>12, OutcomeOK, ContinueOK DEF ExpireStaleBooking, t
<1>13. CASE RetryConfirmation(w, b)
  BY <1>1, <1>2, <1>13, SavingOK, EmitsJustified, ContinueOK
     DEF RetryConfirmation, Begin, t
<1>14. CASE RetryRefund(w, b)
  <2>1. /\ RowOK(published, b, [bookings[b] EXCEPT !.refundRequestedAt = TRUE])
        /\ bookings[b].status = "REFUND_PENDING" => bookings[b].paidAt
    BY <1>1 DEF RowOK, BookingRow
  <2> QED
    BY <1>1, <1>2, <1>14, <2>1, SavingOK, EmitsJustified, ContinueOK
       DEF RetryRefund, Begin, t
<1>15. QED
  BY <1>3, <1>4, <1>5, <1>6, <1>7, <1>8, <1>9, <1>10, <1>11, <1>12, <1>13, <1>14
     DEF Handler

\* A step of worker w that leaves the exchange alone, writes at most a
\* justified row, and goes on to a justified task or to rest.
LEMMA StepOK ==
  ASSUME TypeOK, Justified, NEW w \in Workers, NEW u,
         task' = [task EXCEPT ![w] = u], published' = published,
         u # Idle => TaskOK(published, u),
         \A b \in Bookings : \/ bookings'[b] = bookings[b]
                             \/ RowOK(published, b, bookings'[b])
  PROVE  Justified'
<1>1. \A v \in Workers : task'[v] = IF v = w THEN u ELSE task[v]
  BY DEF TypeOK
<1>2. QED
  BY <1>1 DEF Justified, Free

\* A handler going on stays justified and publishes only justified events.
LEMMA ProceedOK ==
  ASSUME TypeOK, Justified, NEW w \in Workers, Proceed(w)
  PROVE  Justified'
<1> DEFINE t == task[w]
<1>1. /\ t \in Task /\ t.b \in Bookings /\ t.row \in BookingRow
      /\ t.emits \in Seq(BookingEventType) /\ t # Idle
  BY InFlight DEF Task, TaskRecord, Step, HoldStep, CheckStep, Idle
<1>2. /\ TaskOK(published, t) /\ RowOK(published, t.b, t.row)
      /\ EmitsOK(published, t.emits, t.b)
  BY <1>1 DEF Justified, Free, TaskOK
<1>3. RowOK(published, t.b, Absent) /\ RowOK(published, t.b, NewBooking)
  BY DEF RowOK, NewBooking, Absent
<1>4. Emitting(t, t.emits) # Idle => TaskOK(published, Emitting(t, t.emits))
  BY <1>1, <1>2, EmittingOK
<1>5. CASE HoldCreate(w)
  <2>1. TaskOK(published, [t EXCEPT !.pc = "findStale"])
    BY <1>1, <1>2 DEF TaskOK, Task, TaskRecord
  <2>2. \A b \in Bookings : bookings'[b] = bookings[b] \/ RowOK(published, b, bookings'[b])
    BY <1>1, <1>3, <1>5 DEF HoldCreate, TypeOK
  <2> QED
    BY <1>5, <2>1, <2>2, StepOK DEF HoldCreate
<1>6. CASE HoldFindStale(w)
  <2>1. \A rows, pc : pc \in {"insert", "deleteStale"} =>
          TaskOK(published, [t EXCEPT !.stale = rows, !.pc = pc])
    BY <1>1, <1>2 DEF TaskOK, Task, TaskRecord
  <2> QED
    BY <1>6, <2>1, ContinueOK DEF HoldFindStale
<1>7. CASE HoldDeleteStale(w)
  <2>1. TaskOK(published, [t EXCEPT !.pc = "insert", !.stale = {}])
    BY <1>1, <1>2 DEF TaskOK, Task, TaskRecord
  <2> QED
    BY <1>7, <2>1, StepOK DEF HoldDeleteStale
<1>8. CASE HoldInsert(w)
  BY <1>8, StepOK DEF HoldInsert
<1>9. CASE HoldConflict(w)
  <2>1. TaskOK(published, [t EXCEPT !.pc = "undoRelease"])
    BY <1>1, <1>2 DEF TaskOK, Task, TaskRecord
  <2> QED
    BY <1>9, <2>1, ContinueOK DEF HoldConflict
<1>10. CASE HoldUndoRelease(w)
  <2>1. TaskOK(published, [t EXCEPT !.pc = "undoDelete"])
    BY <1>1, <1>2 DEF TaskOK, Task, TaskRecord
  <2> QED
    BY <1>10, <2>1, StepOK DEF HoldUndoRelease
<1>11. CASE HoldUndoDelete(w)
  <2>1. \A b \in Bookings : bookings'[b] = bookings[b] \/ RowOK(published, b, bookings'[b])
    BY <1>1, <1>3, <1>11 DEF HoldUndoDelete, TypeOK
  <2> QED
    BY <1>11, <2>1, StepOK DEF HoldUndoDelete
<1>12. CASE ReadSeatRows(w)
  <2>1. /\ t.pc = "chargeRows" =>
             TaskOK(published, [t EXCEPT !.pc = "chargeExists", !.keys = SeatsOf(t.b)])
        /\ t.pc = "settledRows" =>
             TaskOK(published, [t EXCEPT !.pc = "settledExists", !.keys = SeatsOf(t.b)])
    BY <1>1, <1>2 DEF TaskOK, Task, TaskRecord
  <2> QED
    BY <1>12, <2>1, ContinueOK DEF ReadSeatRows
<1>13. CASE ChargeExists(w)
  <2>1. CASE Continue(w, Expiring(t, <<>>))
    BY <1>1, <1>2, <2>1, OutcomeOK, ContinueOK
  <2>2. CASE /\ task' = [task EXCEPT ![w] = Idle]
             /\ UNCHANGED <<bookings, seatRow, lock, activeLocks, lapsed, published>>
    BY <2>2, StepOK
  <2> QED
    BY <1>13, <2>1, <2>2 DEF ChargeExists
<1>14. CASE SettledExtend(w) \/ SettledExists(w)
  <2>1. Among(published, "payment.settled", t.b)
    BY <1>2, <1>14 DEF SettledExtend, SettledExists, TaskOK
  <2>2. TaskOK(published, LatePayment(t)) /\ TaskOK(published, TakePayment(t))
    BY <1>1, <1>2, <2>1, OutcomeOK
  <2> QED
    BY <1>14, <2>2, ContinueOK DEF SettledExtend, SettledExists
<1>15. CASE Save(w)
  <2>1. TaskOK(published, [t EXCEPT !.pc = "release", !.row = Absent])
    BY <1>1, <1>2, <1>3 DEF TaskOK, Task, TaskRecord
  <2>2. \A b \in Bookings : bookings'[b] = bookings[b] \/ RowOK(published, b, bookings'[b])
    BY <1>1, <1>2, <1>15 DEF Save, TypeOK
  <2> QED
    BY <1>4, <1>15, <2>1, <2>2, StepOK DEF Save
<1>16. CASE ReleaseLocks(w)
  BY <1>4, <1>16, StepOK DEF ReleaseLocks
<1>17. CASE Emit(w)
  <2> DEFINE e == Head(t.emits)
             rest == Tail(t.emits)
  <2>1. t.emits # <<>>
    BY <1>1, <1>17 DEF Emit, Task
  <2>2. EventOK(published, e, t.b) /\ EmitsOK(published, rest, t.b)
    BY <1>1, <1>2, <2>1 DEF EmitsOK
  <2>3. PICK S : published' = published \cup {EventOf(e, t.b, S)}
    BY <1>17 DEF Emit
  <2>4. /\ EventOf(e, t.b, S).type = e /\ EventOf(e, t.b, S).booking = t.b
        /\ published \subseteq published'
    BY <2>3 DEF EventOf
  <2>5. Emitting(t, rest) # Idle => TaskOK(published, Emitting(t, rest))
    BY <1>1, <2>2, EmittingOK
  <2>6. \A f \in published' : EventOK(published', f.type, f.booking)
    <3>1. ASSUME NEW f \in published PROVE EventOK(published', f.type, f.booking)
      BY <2>4, StillOK DEF Justified
    <3>2. EventOK(published', EventOf(e, t.b, S).type, EventOf(e, t.b, S).booking)
      BY <2>2, <2>4, StillOK
    <3> QED BY <2>3, <3>1, <3>2
  <2>7. \A b \in Bookings : RowOK(published', b, bookings[b])
    BY <2>4, StillOK DEF Justified
  <2>8. \A v \in Workers : task[v] # Idle => TaskOK(published', task[v])
    BY <2>4, StillOK DEF Justified, Free
  <2>9. Emitting(t, rest) # Idle => TaskOK(published', Emitting(t, rest))
    BY <2>4, <2>5, StillOK
  <2>10. /\ bookings' = bookings
         /\ \A v \in Workers : task'[v] = IF v = w THEN Emitting(t, rest) ELSE task[v]
    BY <1>17 DEF Emit, TypeOK
  <2> QED
    BY <2>6, <2>7, <2>8, <2>9, <2>10 DEF Justified, Free
<1>18. QED
  BY <1>5, <1>6, <1>7, <1>8, <1>9, <1>10, <1>11, <1>12, <1>13, <1>14, <1>15, <1>16, <1>17
     DEF Proceed

\* A failing call leaves a justified rest of the handler, or none.
LEMMA FailOK ==
  ASSUME TypeOK, Justified, NEW w \in Workers, Fail(w)
  PROVE  Justified'
<1> DEFINE t == task[w]
<1>1. t \in Task /\ t # Idle
  <2>1. t.pc \in Step
    BY DEF Fail, HoldThrows, CleanupFails, ExtendThrows, HandlerThrows,
           Step, HoldStep, CheckStep
  <2> QED
    BY <2>1 DEF TypeOK, Idle, Step, HoldStep, CheckStep
<1>2. /\ TaskOK(published, t) /\ RowOK(published, t.b, t.row)
      /\ EmitsOK(published, t.emits, t.b)
  BY <1>1 DEF Justified, Free, TaskOK
<1>3. CASE HoldThrows(w)
  <2>1. /\ TaskOK(published, [t EXCEPT !.pc = "undoRelease"])
        /\ TaskOK(published, [t EXCEPT !.pc = "insert", !.stale = {}])
    BY <1>1, <1>2 DEF TaskOK, Task, TaskRecord
  <2> QED
    BY <1>3, <2>1, ContinueOK DEF HoldThrows
<1>4. CASE CleanupFails(w)
  <2>1. TaskOK(published, [t EXCEPT !.pc = "undoDelete"])
    BY <1>1, <1>2 DEF TaskOK, Task, TaskRecord
  <2>2. Emitting(t, t.emits) # Idle => TaskOK(published, Emitting(t, t.emits))
    BY <1>1, <1>2, EmittingOK
  <2> QED
    BY <1>4, <2>1, <2>2, StepOK, ContinueOK DEF CleanupFails
<1>5. CASE ExtendThrows(w)
  <2>1. Among(published, "payment.settled", t.b)
    BY <1>2, <1>5 DEF ExtendThrows, TaskOK
  <2> QED
    BY <1>1, <1>2, <1>5, <2>1, OutcomeOK, ContinueOK DEF ExtendThrows
<1>6. CASE HandlerThrows(w)
  BY <1>6, ContinueOK DEF HandlerThrows
<1>7. QED
  BY <1>3, <1>4, <1>5, <1>6 DEF Fail

\* The other services only add events, none of which needs a justification
\* by booking-service.
LEMMA EnvironmentOK ==
  ASSUME TypeOK, Justified, Environment
  PROVE  Justified'
<1>1. PICK b \in Bookings, type \in Foreign : Publish(type, b)
  BY DEF Environment, PaymentSettles, PaymentFails, PaymentRefunds, TicketsIssue, Publish
<1> DEFINE e == EventOf(type, b, {})
<1>2. /\ published' = published \cup {e} /\ bookings' = bookings /\ task' = task
      /\ published \subseteq published'
  BY <1>1 DEF Publish, serviceVars
<1>3. e.type = type /\ EventOK(published', type, e.booking)
  BY ForeignAssumption DEF EventOf, EventOK, PaymentEventType
<1>4. /\ \A c \in Bookings : RowOK(published', c, bookings[c])
      /\ \A v \in Workers : task[v] # Idle => TaskOK(published', task[v])
      /\ \A f \in published' : EventOK(published', f.type, f.booking)
  BY <1>2, <1>3, StillOK DEF Justified, Free
<1>5. QED
  BY <1>2, <1>4 DEF Justified, Free

\* Justified is inductive.
LEMMA JustifiedStep ==
  ASSUME TypeOK, Justified, [Next]_vars
  PROVE  Justified'
<1>1. CASE ServiceRuns
  <2>1. ASSUME NEW b \in Bookings, HoldLapses(b)
        PROVE  Justified'
    BY <2>1 DEF HoldLapses, Justified, Free
  <2> QED
    BY <1>1, <2>1, HandlerOK, ProceedOK DEF ServiceRuns
<1>2. CASE ServiceFaults
  <2>1. CASE Crash
    BY <2>1 DEF Crash, Justified, Free
  <2>2. ASSUME NEW s \in Seats, LockExpires(s)
        PROVE  Justified'
    BY <2>2 DEF LockExpires, Justified, Free
  <2> QED
    BY <1>2, <2>1, <2>2, FailOK DEF ServiceFaults
<1>3. CASE Environment
  BY <1>3, EnvironmentOK
<1>4. CASE UNCHANGED vars
  BY <1>4 DEF vars, serviceVars, Justified, Free
<1> QED
  BY <1>1, <1>2, <1>3, <1>4 DEF Next

\* Justified and the types hold at the start.
LEMMA InitOK == Init => TypeOK /\ Justified
BY RowType DEF Init, ServiceInit, TypeOK, Justified, Free, RowOK, Absent

\* In every reachable state, for any number of bookings, seats and handlers in
\* flight, every row, every copy of a row and every event booking-service has
\* published or is about to publish is justified by events that came before.
THEOREM AlwaysJustified == Spec => []Justified
<1>1. Init => Justified
  BY InitOK
<1>2. TypeOK /\ Justified /\ [Next]_vars => Justified'
  BY JustifiedStep
<1>3. QED
  BY <1>1, <1>2, TypeCorrect, PTL DEF Spec

\* However handlers interleave, crash or are repeated, booking-service never
\* marks a booking paid, orders its tickets or requests its refund before
\* payment-service settled the payment.
THEOREM MoneyAlwaysFirst == Spec => []MoneyFirst
<1>1. Justified => MoneyFirst
  <2> SUFFICES ASSUME Justified, NEW b \in Bookings
               PROVE  \/ bookings[b].paidAt
                      \/ Published("booking.confirmed", b)
                      \/ Published("booking.refund.requested", b)
                      => Published("payment.settled", b)
    BY DEF MoneyFirst
  <2>1. bookings[b].paidAt => Published("payment.settled", b)
    BY DEF Justified, RowOK, Published
  <2>2. \A e \in published :
          /\ e.type \in {"booking.confirmed", "booking.refund.requested"}
          /\ e.booking = b
          => Published("payment.settled", b)
    BY DEF Justified, EventOK, Published
  <2> QED
    BY <2>1, <2>2 DEF Published, Among
<1>2. QED
  BY <1>1, AlwaysJustified, PTL

\* A booking is REFUNDED, and ticket-service told to void its tickets for
\* that, only after payment-service reported the completed refund.
THEOREM AlwaysRefundedByProvider == Spec => []RefundedByProvider
<1>1. Justified => RefundedByProvider
  <2> SUFFICES ASSUME Justified, NEW b \in Bookings
               PROVE  bookings[b].status = "REFUNDED" \/ Published("booking.refunded", b)
                      => Published("payment.refunded", b)
    BY DEF RefundedByProvider
  <2>1. bookings[b].status = "REFUNDED" => Published("payment.refunded", b)
    BY DEF Justified, RowOK, Published
  <2>2. \A e \in published : e.type = "booking.refunded" /\ e.booking = b
          => Published("payment.refunded", b)
    BY DEF Justified, EventOK, Published
  <2> QED
    BY <2>1, <2>2 DEF Published, Among
<1>2. QED
  BY <1>1, AlwaysJustified, PTL

\* The columns of a booking agree with each other and with the events, for
\* every interleaving of whole-row saves.
THEOREM RowsAlwaysCoherent == Spec => []RowsCoherent
<1>1. Justified => RowsCoherent
  BY DEF Justified, RowOK, RowsCoherent, Published
<1>2. QED
  BY <1>1, AlwaysJustified, PTL

=============================================================================
