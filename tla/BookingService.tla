--------------------------- MODULE BookingService ---------------------------
(***************************************************************************)
(* booking-service: the owner of the purchase saga.                        *)
(*                                                                         *)
(* A handler (an RPC, an event applier, one booking of a cron pass) runs   *)
(* as a task of a worker.  The code gives up the event loop at every       *)
(* await, so a task takes one step per database, Redis or broker call and  *)
(* other tasks run in between.  Workers is the number of handlers that can *)
(* be in flight together: with one worker handlers run one at a time, with *)
(* more they interleave at the awaits, as they do in the deployed service. *)
(*                                                                         *)
(* A handler reads a booking once, decides on that copy, and later writes  *)
(* the WHOLE copy back (TypeORM's save updates every column that differs). *)
(* The task record keeps the copy and what is left to do:                  *)
(*   save the copy, release the seat locks, publish the events.            *)
(*                                                                         *)
(* Time is abstracted: lapsed holds the bookings whose expiresAt is past,  *)
(* a Redis key may reach its TTL in any step, and the 30 s throttles of    *)
(* the crons are taken to have run out.  One showtime, one replica.        *)
(***************************************************************************)
EXTENDS Exchange, Naturals, FiniteSets, Sequences

CONSTANTS Workers,              \* handlers that may be in flight together
          MAX_SEATS_PER_HOLD,
          None                  \* no owner

ASSUME NoneAssumption == None \notin Bookings

VARIABLES bookings,     \* table bookings
          seatRow,      \* table booking_seats: UNIQUE (showtime_id, seat_id)
          lock,         \* Redis: the booking whose redlock owns the seat's key
          activeLocks,  \* in-memory redlock handles: the keys of each handle
          lapsed,       \* bookings whose expiresAt has passed
          task,         \* what each worker is doing
          charged       \* bookings for which prepareCharge let a charge start

serviceVars == <<bookings, seatRow, lock, activeLocks, lapsed, task, charged>>

-----------------------------------------------------------------------------
(* Rows.  A timestamp column is modelled by whether it is set.  confirmedAt *)
(* and ticketsIssuedAt are only ever set together, and never cleared.       *)

Status == {"PENDING", "CONFIRMED", "EXPIRED", "CANCELLED",
           "REFUND_PENDING", "REFUNDED"}

CancellationReason == {"null", "CUSTOMER", "PAYMENT_DECLINED"}

BookingRow == [status : Status \cup {"ABSENT"}, paidAt : BOOLEAN,
               ticketsIssuedAt : BOOLEAN, refundRequestedAt : BOOLEAN,
               cancellationReason : CancellationReason]

\* No row with this id.
Absent == [status |-> "ABSENT", paidAt |-> FALSE, ticketsIssuedAt |-> FALSE,
           refundRequestedAt |-> FALSE, cancellationReason |-> "null"]

\* The row hold() inserts.
NewBooking == [Absent EXCEPT !.status = "PENDING"]

Exists(b) == bookings[b].status # "ABSENT"

SeatsOf(b) == {s \in Seats : seatRow[s] = b}

\* Mutant of Stale: paid_at IS NULL is forgotten.
StaleIfPaid(b) ==
  \/ bookings[b].status \in {"CANCELLED", "EXPIRED", "REFUNDED"}
  \/ bookings[b].status = "PENDING" /\ b \in lapsed

\* Mutant of Stale: a refund under way is taken for a dead booking.
StaleIfRefunding(b) ==
  \/ bookings[b].status \in {"CANCELLED", "EXPIRED", "REFUNDED", "REFUND_PENDING"}
  \/ bookings[b].status = "PENDING" /\ ~bookings[b].paidAt /\ b \in lapsed

\* The rows deleteStaleSeatRows may remove: their booking is dead.
Stale(b) ==
  \/ bookings[b].status \in {"CANCELLED", "EXPIRED", "REFUNDED"}
  \/ bookings[b].status = "PENDING" /\ ~bookings[b].paidAt /\ b \in lapsed

\* Mutant of SeatStatus: a paid booking counts until its hold is over.
SeatStatusUntilLapsed(b) ==
  CASE bookings[b].status \in {"CONFIRMED", "REFUND_PENDING"} -> "BOOKED"
    [] bookings[b].status = "PENDING" /\ b \notin lapsed -> "HELD"
    [] OTHER -> "AVAILABLE"

\* What the seat map says of the seats of booking b.
SeatStatus(b) ==
  CASE bookings[b].status \in {"CONFIRMED", "REFUND_PENDING"} -> "BOOKED"
    [] bookings[b].status = "PENDING" /\ bookings[b].paidAt -> "BOOKED"
    [] bookings[b].status = "PENDING" /\ ~bookings[b].paidAt /\ b \notin lapsed -> "HELD"
    [] OTHER -> "AVAILABLE"

\* availability()
Availability(s) == IF seatRow[s] = None THEN "AVAILABLE" ELSE SeatStatus(seatRow[s])

-----------------------------------------------------------------------------
(* Tasks.                                                                   *)

HoldStep == {"create", "findStale", "deleteStale", "insert",
             "undoRelease", "undoDelete"}

CheckStep == {"settledExtend", "settledRows", "settledExists",
              "chargeRows", "chargeExists"}

Step == HoldStep \cup CheckStep \cup {"save", "release", "emit"}

TaskRecord == [pc : Step, b : Bookings, row : BookingRow, seats : SUBSET Seats,
               keys : SUBSET Seats, stale : SUBSET (Seats \X Bookings),
               release : BOOLEAN, emits : Seq(BookingEventType)]

Task == {t \in TaskRecord : t.pc = "emit" => t.emits # <<>>}

Idle == [pc |-> "idle"]

\* Booking b as findById loads it: its row and its seat rows.
Loaded(b) == [pc |-> "save", b |-> b, row |-> bookings[b], seats |-> SeatsOf(b),
              keys |-> {}, stale |-> {}, release |-> FALSE, emits |-> <<>>]

\* await save(row); await releaseLocks(b) if release; await each emit in turn.
Saving(t, row, release, emits) ==
  [t EXCEPT !.pc = "save", !.row = row, !.keys = {},
            !.release = release, !.emits = emits]

\* Mutant of Emitting: the last event is not the end of the handler.
EmittingOn(t, emits) ==
  [t EXCEPT !.pc = "emit", !.row = Absent, !.release = FALSE, !.emits = emits]

\* Nothing to save: await each emit in turn.  The copy is dead from here on;
\* only its seats are still read, by confirmedPayload.
Emitting(t, emits) ==
  IF emits = <<>> THEN Idle
  ELSE [t EXCEPT !.pc = "emit", !.row = Absent, !.release = FALSE,
                 !.emits = emits]

\* expireBooking(b) on the copy, then the given further events.
Expiring(t, emits) ==
  Saving(t, [t.row EXCEPT !.status = "EXPIRED"], TRUE,
         <<"booking.expired">> \o emits)

\* The late-money branch of onPaymentSettled.
LatePayment(t) == Expiring(t, <<"booking.refund.requested">>)

\* The branch of onPaymentSettled that takes the money.  A customer without a
\* contact gets no receipt (payment.received), which nothing here depends on.
TakePayment(t) ==
  Saving(t, [t.row EXCEPT !.paidAt = TRUE], TRUE,
         <<"booking.confirmed", "payment.received">>)

Free(w) == task[w] = Idle

\* Worker w goes on with task t; the step changes nothing else.
Continue(w, t) ==
  /\ task' = [task EXCEPT ![w] = t]
  /\ UNCHANGED <<bookings, seatRow, lock, activeLocks, lapsed, charged, published>>

\* hold() has not returned yet, so no client knows the booking.
BeingHeld(b) == \E w \in Workers : ~Free(w) /\ task[w].pc \in HoldStep /\ task[w].b = b

\* A free worker starts a handler on an existing booking whose id is known.
Begin(w, b, t) == Free(w) /\ Exists(b) /\ ~BeingHeld(b) /\ Continue(w, t)

\* Releasing a redlock deletes the keys it still owns.
Unlocked(b, keys) ==
  [s \in Seats |-> IF s \in keys /\ lock[s] = b THEN None ELSE lock[s]]

-----------------------------------------------------------------------------
(* hold(): lock the seats, insert the booking, clear dead seat rows, insert *)
(* the seat rows; on an error release the locks and delete the booking.     *)

\* Nothing refers to the id: stands for the fresh uuid of the next insert.
Unused(b) ==
  /\ ~Exists(b) /\ b \notin charged /\ activeLocks[b] = {}
  /\ \A s \in Seats : lock[s] # b
  /\ \A w \in Workers : ~Free(w) => task[w].b # b
  /\ \A e \in published : e.booking # b

\* Redlock acquires all keys or none; a key already owned ends in a 409.
HoldAcquire(w, b, S) ==
  /\ Free(w) /\ Unused(b)
  /\ S # {} /\ Cardinality(S) <= MAX_SEATS_PER_HOLD
  /\ \A s \in S : lock[s] = None
  /\ lock' = [s \in Seats |-> IF s \in S THEN b ELSE lock[s]]
  /\ task' = [task EXCEPT ![w] =
                [pc |-> "create", b |-> b, row |-> Absent, seats |-> S, keys |-> {},
                 stale |-> {}, release |-> FALSE, emits |-> <<>>]]
  /\ UNCHANGED <<bookings, seatRow, activeLocks, lapsed, charged, published>>

HoldCreate(w) ==
  /\ task[w].pc = "create"
  /\ LET b == task[w].b IN
     /\ bookings' = [bookings EXCEPT ![b] = NewBooking]
     /\ activeLocks' = [activeLocks EXCEPT ![b] = task[w].seats]
     /\ lapsed' = lapsed \ {b}
  /\ task' = [task EXCEPT ![w].pc = "findStale"]
  /\ UNCHANGED <<seatRow, lock, charged, published>>

HoldFindStale(w) ==
  /\ task[w].pc = "findStale"
  /\ LET rows == {p \in task[w].seats \X Bookings :
                    seatRow[p[1]] = p[2] /\ Stale(p[2])}
     IN  Continue(w, [task[w] EXCEPT !.stale = rows,
                        !.pc = IF rows = {} THEN "insert" ELSE "deleteStale"])

\* Rows are deleted by id: a row that was replaced meanwhile is not hit.
HoldDeleteStale(w) ==
  /\ task[w].pc = "deleteStale"
  /\ seatRow' = [s \in Seats |->
                   IF <<s, seatRow[s]>> \in task[w].stale THEN None ELSE seatRow[s]]
  /\ task' = [task EXCEPT ![w].pc = "insert", ![w].stale = {}]
  /\ UNCHANGED <<bookings, lock, activeLocks, lapsed, charged, published>>

\* One transaction; the unique index admits it only if every seat is clear.
HoldInsert(w) ==
  /\ task[w].pc = "insert"
  /\ \A s \in task[w].seats : seatRow[s] = None
  /\ seatRow' = [s \in Seats |->
                   IF s \in task[w].seats THEN task[w].b ELSE seatRow[s]]
  /\ task' = [task EXCEPT ![w] = Idle]
  /\ UNCHANGED <<bookings, lock, activeLocks, lapsed, charged, published>>

\* The unique index refuses the insert.
HoldConflict(w) ==
  /\ task[w].pc = "insert"
  /\ \E s \in task[w].seats : seatRow[s] # None
  /\ Continue(w, [task[w] EXCEPT !.pc = "undoRelease"])

\* A database call throws.  Errors of deleteStaleSeatRows are swallowed: the
\* insert is tried anyway.
HoldThrows(w) ==
  \/ /\ task[w].pc \in {"create", "insert"}
     /\ Continue(w, [task[w] EXCEPT !.pc = "undoRelease"])
  \/ /\ task[w].pc \in {"findStale", "deleteStale"}
     /\ Continue(w, [task[w] EXCEPT !.pc = "insert", !.stale = {}])

HoldUndoRelease(w) ==
  /\ task[w].pc = "undoRelease"
  /\ activeLocks' = [activeLocks EXCEPT ![task[w].b] = {}]
  /\ lock' = Unlocked(task[w].b, task[w].seats)
  /\ task' = [task EXCEPT ![w].pc = "undoDelete"]
  /\ UNCHANGED <<bookings, seatRow, lapsed, charged, published>>

\* The delete cascades to the seat rows.
HoldUndoDelete(w) ==
  /\ task[w].pc = "undoDelete"
  /\ bookings' = [bookings EXCEPT ![task[w].b] = Absent]
  /\ seatRow' = [s \in Seats |->
                   IF seatRow[s] = task[w].b THEN None ELSE seatRow[s]]
  /\ task' = [task EXCEPT ![w] = Idle]
  /\ UNCHANGED <<lock, activeLocks, lapsed, charged, published>>

-----------------------------------------------------------------------------
(* cancel() and prepareCharge().                                            *)

Cancel(w, b) ==
  LET t == Loaded(b) IN
  \/ /\ t.row.status = "CONFIRMED" \/ (t.row.status = "PENDING" /\ t.row.paidAt)
     /\ Begin(w, b, Saving(t, [t.row EXCEPT !.status = "REFUND_PENDING",
                                            !.refundRequestedAt = TRUE],
                           TRUE, <<"booking.refund.requested">>))
  \/ /\ t.row.status = "PENDING" /\ ~t.row.paidAt
     /\ Begin(w, b, Saving(t, [t.row EXCEPT !.status = "CANCELLED",
                                            !.cancellationReason = "CUSTOMER"],
                           TRUE, <<"booking.cancelled">>))

\* A lapsed booking is expired; for another the seat locks are looked up.
PrepareCharge(w, b) ==
  /\ bookings[b].status = "PENDING" /\ ~bookings[b].paidAt
  /\ Begin(w, b, IF b \in lapsed THEN Expiring(Loaded(b), <<>>)
                 ELSE [Loaded(b) EXCEPT !.pc = "chargeRows"])

\* hasLiveSeatLocks() first re-reads the booking's seat rows ...
ReadSeatRows(w) ==
  \/ /\ task[w].pc = "chargeRows"
     /\ Continue(w, [task[w] EXCEPT !.pc = "chargeExists", !.keys = SeatsOf(task[w].b)])
  \/ /\ task[w].pc = "settledRows"
     /\ Continue(w, [task[w] EXCEPT !.pc = "settledExists", !.keys = SeatsOf(task[w].b)])

\* ... and then counts their Redis keys, whoever owns them.
AllKeysExist(keys) == keys # {} /\ \A s \in keys : lock[s] # None

\* The gateway goes on to payment-service's Charge with the returned context.
ChargeExists(w) ==
  /\ task[w].pc = "chargeExists"
  /\ \/ /\ AllKeysExist(task[w].keys)
        /\ charged' = charged \cup {task[w].b}
        /\ task' = [task EXCEPT ![w] = Idle]
        /\ UNCHANGED <<bookings, seatRow, lock, activeLocks, lapsed, published>>
     \/ /\ ~AllKeysExist(task[w].keys)
        /\ Continue(w, Expiring(task[w], <<>>))

-----------------------------------------------------------------------------
(* Event appliers.                                                          *)

OnPaymentSettled(w, b) ==
  LET t == Loaded(b)
      s == t.row.status
  IN
  /\ Published("payment.settled", b)
  /\ \/ /\ s = "PENDING" /\ ~t.row.paidAt /\ b \in lapsed
        /\ Begin(w, b, LatePayment(t))
     \/ /\ s = "PENDING" /\ ~t.row.paidAt /\ b \notin lapsed
        /\ Begin(w, b, IF activeLocks[b] # {}
                       THEN [t EXCEPT !.pc = "settledExtend", !.keys = activeLocks[b]]
                       ELSE [t EXCEPT !.pc = "settledRows"])
     \/ /\ s = "PENDING" /\ t.row.paidAt
        /\ Begin(w, b, Emitting(t, <<"booking.confirmed">>))
     \/ /\ s \in {"REFUND_PENDING", "REFUNDED", "EXPIRED", "CANCELLED"}
        /\ Begin(w, b, Emitting(t, <<"booking.refund.requested">>))

\* extend() succeeds only while every key is still this lock's.
SettledExtend(w) ==
  /\ task[w].pc = "settledExtend"
  /\ Continue(w, IF \A s \in task[w].keys : lock[s] = task[w].b
                 THEN TakePayment(task[w]) ELSE LatePayment(task[w]))

\* Any other error of extend() is caught too, and taken for a lost lock; so is
\* redlock's refusal to extend through a handle it has extended before.
ExtendThrows(w) ==
  /\ task[w].pc = "settledExtend"
  /\ Continue(w, LatePayment(task[w]))

SettledExists(w) ==
  /\ task[w].pc = "settledExists"
  /\ Continue(w, IF AllKeysExist(task[w].keys) THEN TakePayment(task[w])
                                               ELSE LatePayment(task[w]))

OnPaymentFailed(w, b) ==
  LET t == Loaded(b) IN
  /\ Published("payment.failed", b)
  /\ t.row.status = "PENDING" /\ ~t.row.paidAt
  /\ Begin(w, b, Saving(t, [t.row EXCEPT !.status = "CANCELLED",
                                         !.cancellationReason = "PAYMENT_DECLINED"],
                        TRUE, <<"booking.cancelled">>))

\* Mutant of OnRefundPending: the request is taken for the refund.
RefundPendingIsRefund(w, b) ==
  /\ Published("payment.refund_pending", b)
  /\ bookings[b].status # "REFUNDED" /\ bookings[b].paidAt
  /\ Begin(w, b, Saving(Loaded(b), [bookings[b] EXCEPT !.status = "REFUNDED"],
                        FALSE, <<>>))

\* Mutant of OnRefundPending: the paidAt guard is dropped.
RefundPendingUnpaid(w, b) ==
  LET t == Loaded(b) IN
  /\ Published("payment.refund_pending", b)
  /\ t.row.status # "REFUNDED"
  /\ Begin(w, b, Saving(t, [t.row EXCEPT !.status = "REFUND_PENDING",
                                         !.refundRequestedAt = TRUE],
                        FALSE, <<>>))

OnRefundPending(w, b) ==
  LET t == Loaded(b) IN
  /\ Published("payment.refund_pending", b)
  /\ t.row.status # "REFUNDED" /\ t.row.paidAt
  /\ ~(t.row.status = "REFUND_PENDING" /\ t.row.refundRequestedAt)
  /\ Begin(w, b, Saving(t, [t.row EXCEPT !.status = "REFUND_PENDING",
                                         !.refundRequestedAt = TRUE],
                        FALSE, <<>>))

OnRefunded(w, b) ==
  LET t == Loaded(b) IN
  /\ Published("payment.refunded", b)
  /\ \/ /\ t.row.status = "REFUNDED"
        /\ Begin(w, b, Emitting(t, <<"booking.refunded">>))
     \/ /\ t.row.status # "REFUNDED"
        /\ Begin(w, b, Saving(t, [t.row EXCEPT !.status = "REFUNDED",
                                               !.refundRequestedAt = TRUE],
                              TRUE, <<"booking.refunded">>))

\* Mutant of OnRefundFailed: the booking goes back to CONFIRMED, ticketed or not.
RefundFailedConfirms(w, b) ==
  /\ Published("payment.refund_failed", b)
  /\ bookings[b].status = "REFUND_PENDING"
  /\ Begin(w, b, Saving(Loaded(b), [bookings[b] EXCEPT !.status = "CONFIRMED",
                                                       !.refundRequestedAt = FALSE],
                        FALSE, <<>>))

OnRefundFailed(w, b) ==
  LET t == Loaded(b)
      kept == [t.row EXCEPT !.refundRequestedAt = FALSE]
  IN
  /\ Published("payment.refund_failed", b)
  /\ t.row.status = "REFUND_PENDING"
  /\ Begin(w, b,
       CASE t.row.ticketsIssuedAt ->
              Saving(t, [kept EXCEPT !.status = "CONFIRMED"], FALSE, <<>>)
         [] ~t.row.ticketsIssuedAt /\ t.row.paidAt ->
              Saving(t, [kept EXCEPT !.status = "PENDING"], FALSE,
                     <<"booking.confirmed">>)
         [] OTHER ->
              Saving(t, [kept EXCEPT !.status = "CANCELLED",
                                     !.cancellationReason = "PAYMENT_DECLINED"],
                     FALSE, <<>>))

\* Mutant of OnTicketsIssued: the early returns for dead bookings are lost.
TicketsIssuedAnyStatus(w, b) ==
  /\ Published("tickets.issued", b)
  /\ Begin(w, b, Saving(Loaded(b), [bookings[b] EXCEPT !.status = "CONFIRMED",
                                                       !.ticketsIssuedAt = TRUE],
                        FALSE, <<>>))

OnTicketsIssued(w, b) ==
  LET t == Loaded(b)
      Again(status, type) == t.row.status = status /\ Begin(w, b, Emitting(t, <<type>>))
  IN
  /\ Published("tickets.issued", b)
  /\ \/ /\ t.row.status = "CONFIRMED" \/ (t.row.status = "PENDING" /\ t.row.paidAt)
        /\ Begin(w, b, Saving(t, [t.row EXCEPT !.status = "CONFIRMED",
                                               !.ticketsIssuedAt = TRUE],
                              FALSE, <<>>))
     \/ Again("REFUNDED", "booking.refunded")
     \/ Again("CANCELLED", "booking.cancelled")
     \/ Again("EXPIRED", "booking.expired")

-----------------------------------------------------------------------------
(* reconcileCron(), one candidate booking of a pass.  A pass reads all its  *)
(* candidates first and works through them with those copies; a task per    *)
(* candidate has the same reads and writes.                                 *)

\* Mutant of ExpireStaleBooking: paidAt: IsNull() is forgotten.
ExpireStalePaid(w, b) ==
  /\ Free(w)
  /\ bookings[b].status = "PENDING" /\ b \in lapsed
  /\ Continue(w, Expiring(Loaded(b), <<>>))

\* Mutant of ExpireStaleBooking: an inner join finds only bookings with seats.
ExpireStaleJoined(w, b) ==
  /\ Free(w) /\ SeatsOf(b) # {}
  /\ bookings[b].status = "PENDING" /\ ~bookings[b].paidAt /\ b \in lapsed
  /\ Continue(w, Expiring(Loaded(b), <<>>))

ExpireStaleBooking(w, b) ==
  /\ Free(w)
  /\ bookings[b].status = "PENDING" /\ ~bookings[b].paidAt /\ b \in lapsed
  /\ Continue(w, Expiring(Loaded(b), <<>>))

\* Mutant of RetryConfirmation: paidAt: Not(IsNull()) is forgotten.
RetryUnpaid(w, b) ==
  /\ bookings[b].status = "PENDING" /\ ~bookings[b].ticketsIssuedAt
  /\ Begin(w, b, Saving(Loaded(b), bookings[b], FALSE, <<"booking.confirmed">>))

\* Mutant of RetryConfirmation: a hold that lapsed is not retried.
RetryUnlapsed(w, b) ==
  /\ bookings[b].status = "PENDING" /\ bookings[b].paidAt
  /\ ~bookings[b].ticketsIssuedAt /\ b \notin lapsed
  /\ Begin(w, b, Saving(Loaded(b), bookings[b], FALSE, <<"booking.confirmed">>))

RetryConfirmation(w, b) ==
  /\ bookings[b].status = "PENDING" /\ bookings[b].paidAt
  /\ ~bookings[b].ticketsIssuedAt
  /\ Begin(w, b, Saving(Loaded(b), bookings[b], FALSE, <<"booking.confirmed">>))

RetryRefund(w, b) ==
  /\ bookings[b].status = "REFUND_PENDING"
  /\ Begin(w, b, Saving(Loaded(b), [bookings[b] EXCEPT !.refundRequestedAt = TRUE],
                        FALSE, <<"booking.refund.requested">>))

-----------------------------------------------------------------------------
(* What handlers have in common after their decision.                       *)

\* save() writes the copy over whatever the row holds by now.
Save(w) ==
  /\ task[w].pc = "save"
  /\ bookings' = [bookings EXCEPT ![task[w].b] = task[w].row]
  /\ task' = [task EXCEPT ![w] =
                IF task[w].release THEN [task[w] EXCEPT !.pc = "release", !.row = Absent]
                                   ELSE Emitting(task[w], task[w].emits)]
  /\ UNCHANGED <<seatRow, lock, activeLocks, lapsed, charged, published>>

\* releaseLocks(): without a handle in this process nothing is released.
ReleaseLocks(w) ==
  /\ task[w].pc = "release"
  /\ LET b == task[w].b IN
     /\ activeLocks' = [activeLocks EXCEPT ![b] = {}]
     /\ lock' = Unlocked(b, activeLocks[b])
  /\ task' = [task EXCEPT ![w] = Emitting(task[w], task[w].emits)]
  /\ UNCHANGED <<bookings, seatRow, lapsed, charged, published>>

\* Only booking.confirmed carries seats, those of the copy.
Emit(w) ==
  /\ task[w].pc = "emit"
  /\ LET type == Head(task[w].emits)
         S == IF type = "booking.confirmed" THEN task[w].seats ELSE {}
     IN  published' = published \cup {EventOf(type, task[w].b, S)}
  /\ task' = [task EXCEPT ![w] = Emitting(task[w], Tail(task[w].emits))]
  /\ UNCHANGED <<bookings, seatRow, lock, activeLocks, lapsed, charged>>

\* Clean-up is best-effort: a handle is forgotten although its keys could not
\* be deleted, a failed hold ends although its booking could not be.
CleanupFails(w) ==
  \/ /\ task[w].pc \in {"release", "undoRelease"}
     /\ activeLocks' = [activeLocks EXCEPT ![task[w].b] = {}]
     /\ task' = [task EXCEPT ![w] =
                   IF task[w].pc = "release" THEN Emitting(task[w], task[w].emits)
                   ELSE [task[w] EXCEPT !.pc = "undoDelete"]]
     /\ UNCHANGED <<bookings, seatRow, lock, lapsed, charged, published>>
  \/ task[w].pc = "undoDelete" /\ Continue(w, Idle)

\* A database, Redis or broker call throws: the rest of the handler is lost,
\* an RPC fails, an event is nacked without requeue.
HandlerThrows(w) ==
  /\ task[w].pc \in {"settledRows", "settledExists", "chargeRows", "chargeExists",
                     "save", "emit"}
  /\ Continue(w, Idle)

-----------------------------------------------------------------------------
(* The process and its surroundings.                                        *)

\* The process dies and is restarted: handlers and lock handles are gone,
\* tables and Redis keys remain, unacked events are delivered again.
Crash ==
  /\ task' = [w \in Workers |-> Idle]
  /\ activeLocks' = [b \in Bookings |-> {}]
  /\ UNCHANGED <<bookings, seatRow, lock, lapsed, charged, published>>

\* The key reaches its TTL, or Redis loses it.
LockExpires(s) ==
  /\ lock[s] # None
  /\ lock' = [lock EXCEPT ![s] = None]
  /\ UNCHANGED <<bookings, seatRow, activeLocks, lapsed, task, charged, published>>

\* expiresAt passes.
HoldLapses(b) ==
  /\ Exists(b) /\ b \notin lapsed
  /\ lapsed' = lapsed \cup {b}
  /\ UNCHANGED <<bookings, seatRow, lock, activeLocks, task, charged, published>>

-----------------------------------------------------------------------------

ServiceInit ==
  /\ bookings = [b \in Bookings |-> Absent]
  /\ seatRow = [s \in Seats |-> None]
  /\ lock = [s \in Seats |-> None]
  /\ activeLocks = [b \in Bookings |-> {}]
  /\ lapsed = {}
  /\ task = [w \in Workers |-> Idle]
  /\ charged = {}

\* A handler starts.
Handler(w, b) ==
  \/ \E S \in SUBSET Seats : HoldAcquire(w, b, S)
  \/ Cancel(w, b)
  \/ PrepareCharge(w, b)
  \/ OnPaymentSettled(w, b)
  \/ OnPaymentFailed(w, b)
  \/ OnRefundPending(w, b)
  \/ OnRefunded(w, b)
  \/ OnRefundFailed(w, b)
  \/ OnTicketsIssued(w, b)
  \/ ExpireStaleBooking(w, b)
  \/ RetryConfirmation(w, b)
  \/ RetryRefund(w, b)

\* A handler in flight goes on.
Proceed(w) ==
  \/ HoldCreate(w) \/ HoldFindStale(w) \/ HoldDeleteStale(w) \/ HoldInsert(w)
  \/ HoldConflict(w) \/ HoldUndoRelease(w) \/ HoldUndoDelete(w)
  \/ ReadSeatRows(w) \/ ChargeExists(w) \/ SettledExtend(w) \/ SettledExists(w)
  \/ Save(w) \/ ReleaseLocks(w) \/ Emit(w)

\* A call of a handler in flight fails.
Fail(w) == HoldThrows(w) \/ CleanupFails(w) \/ ExtendThrows(w) \/ HandlerThrows(w)

\* The service on a good day: handlers start, interleave and go on, and time
\* passes.
ServiceRuns ==
  \/ \E w \in Workers : Proceed(w) \/ \E b \in Bookings : Handler(w, b)
  \/ \E b \in Bookings : HoldLapses(b)

\* What can go wrong around it.
ServiceFaults ==
  \/ Crash
  \/ \E w \in Workers : Fail(w)
  \/ \E s \in Seats : LockExpires(s)

=============================================================================
