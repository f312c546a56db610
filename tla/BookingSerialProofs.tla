------------------------- MODULE BookingSerialProofs -------------------------
(***************************************************************************)
(* What booking-service promises when handlers run one at a time, for any  *)
(* number of bookings and seats, with every fault: no seat is sold twice,  *)
(* sold seats stay with their booking, and bookings follow the life cycle. *)
(***************************************************************************)
EXTENDS BookingProofs

-----------------------------------------------------------------------------
(* The invariant.  It speaks of the stage of a booking; B, R, L, C and P     *)
(* stand for bookings, seatRow, lapsed, charged and published, so that it    *)
(* can be carried from one state to the next.                                *)

OneAtATime == \A v, w \in Workers : v = w

Sold == {"PAID", "CONFIRMED", "REFUND_PENDING"}

Dead == {"CANCELLED", "EXPIRED"}

Unsold == {"NONE", "HELD"}

Follows(x, y) == y = x \/ y \in Lifecycle!After[x]

RowsOf(R, b) == {s \in Seats : R[s] = b}

\* A row with seat rows own: no money in a dead booking, no sale without seats.
RowSound(row, own) ==
  /\ StageOf(row) \in Dead => ~row.paidAt
  /\ StageOf(row) \in Sold => own # {}

RowsSound(B, R) ==
  /\ \A b \in Bookings : RowSound(B[b], RowsOf(R, b))
  /\ \A s \in Seats : R[s] # None => StageOf(B[R[s]]) # "NONE"

\* A booking that was charged keeps its seats while its hold lasts.
ChargesSound(B, R, L, C) ==
  \A b \in C : /\ StageOf(B[b]) # "NONE"
               /\ StageOf(B[b]) = "HELD" /\ b \notin L => RowsOf(R, b) # {}

Voiding == {"booking.cancelled", "booking.expired"}

Refunding == {"booking.refund.requested", "payment.refund_pending",
              "payment.refunded", "payment.refund_failed"}

\* What an event that is out says of its booking, in stage x with seat rows own.
Tells(x, own, type, S) ==
  /\ type = "booking.confirmed" => x = "REFUNDED" \/ (x \in Sold /\ S # {} /\ S = own)
  /\ type \in Voiding => x \in Dead \cup {"REFUNDED"}
  /\ type \in Refunding => x \notin Unsold

EventsSound(B, R, C, P) ==
  \A e \in P : /\ Tells(StageOf(B[e.booking]), RowsOf(R, e.booking), e.type, e.seats)
               /\ e.type = "payment.settled" => e.booking \in C

OnlyRefunds(P) ==
  \A e, f \in P : e.type = "booking.confirmed" /\ f.type \in Voiding => e.booking # f.booking

\* When a handler may publish an event.
Tellable(x, own, type, S) ==
  /\ type = "booking.confirmed" => x = "PAID" /\ S # {} /\ S = own
  /\ type \in Voiding => x \in Dead
  /\ type \in Refunding => x \notin Unsold

MayTell(x, own, t) == \A i \in 1 .. Len(t.emits) : Tellable(x, own, t.emits[i], t.seats)

StaleIn(B, L, c) ==
  StageOf(B[c]) \in Dead \cup {"REFUNDED"} \/ (StageOf(B[c]) = "HELD" /\ c \in L)

HoldSound(t, x, B, L, C) ==
  /\ t.pc \in HoldStep => t.b \notin C /\ x \in Unsold
  /\ t.pc = "create" => x = "NONE"
  /\ t.pc \in {"findStale", "deleteStale", "insert"} => x = "HELD"
  /\ t.pc = "deleteStale" => \A p \in t.stale : StaleIn(B, L, p[2])

CheckSound(t, row, own) ==
  /\ t.pc \in CheckStep => t.row = row /\ StageOf(row) = "HELD" /\ t.seats = own
  /\ t.pc = "settledExtend" => own # {}
  /\ t.pc \in {"settledExists", "chargeExists"} => t.keys = own

SaveSound(t, x, own) ==
  /\ t.pc = "save" => /\ Follows(x, StageOf(t.row)) /\ StageOf(t.row) # "NONE"
                      /\ RowSound(t.row, own)
                      /\ MayTell(StageOf(t.row), own, t)
  /\ t.pc \in {"release", "emit"} => MayTell(x, own, t)

TaskSound(t, B, R, L, C) ==
  /\ HoldSound(t, StageOf(B[t.b]), B, L, C)
  /\ CheckSound(t, B[t.b], RowsOf(R, t.b))
  /\ SaveSound(t, StageOf(B[t.b]), RowsOf(R, t.b))

Serial ==
  /\ RowsSound(bookings, seatRow)
  /\ ChargesSound(bookings, seatRow, lapsed, charged)
  /\ EventsSound(bookings, seatRow, charged, published)
  /\ OnlyRefunds(published)
  /\ \A w \in Workers : ~Free(w) => TaskSound(task[w], bookings, seatRow, lapsed, charged)

-----------------------------------------------------------------------------
(* Stages.                                                                   *)

\* The stage of a row, without the CASE.
LEMMA Stages ==
  ASSUME NEW row \in BookingRow
  PROVE  /\ StageOf(row) \in Lifecycle!Stage
         /\ StageOf(row) = "NONE" <=> row.status = "ABSENT"
         /\ StageOf(row) = "HELD" <=> row.status = "PENDING" /\ ~row.paidAt
         /\ StageOf(row) = "PAID" <=> row.status = "PENDING" /\ row.paidAt
         /\ \A x \in {"CONFIRMED", "EXPIRED", "CANCELLED", "REFUND_PENDING", "REFUNDED"} :
              StageOf(row) = x <=> row.status = x
<1>1. row.status \in Status \cup {"ABSENT"}
  BY DEF BookingRow
<1>2. CASE row.status = "ABSENT"
  BY <1>2 DEF StageOf, Lifecycle!Stage
<1>3. CASE row.status = "PENDING" /\ row.paidAt
  BY <1>3 DEF StageOf, Lifecycle!Stage
<1>4. CASE row.status = "PENDING" /\ ~row.paidAt
  BY <1>4 DEF StageOf, Lifecycle!Stage
<1>5. CASE row.status \in {"CONFIRMED", "EXPIRED", "CANCELLED", "REFUND_PENDING", "REFUNDED"}
  BY <1>5 DEF StageOf, Lifecycle!Stage
<1>6. QED
  BY <1>1, <1>2, <1>3, <1>4, <1>5 DEF Status

\* What the order of stages keeps.
LEMMA Order ==
  ASSUME NEW x \in Lifecycle!Stage, NEW y, Follows(x, y)
  PROVE  /\ x \in Sold \cup {"REFUNDED"} => y \in Sold \cup {"REFUNDED"}
         /\ x \in Dead \cup {"REFUNDED"} => y \in Dead \cup {"REFUNDED"}
         /\ x \notin Unsold => y \notin Unsold
         /\ x = "REFUNDED" => y = "REFUNDED"
         /\ y = "HELD" /\ x # "NONE" => x = "HELD"
BY DEF Follows, Sold, Dead, Unsold, Lifecycle!Stage, Lifecycle!After

\* The moves the handlers of a paid booking make.
LEMMA Moves ==
  /\ \A x \in Sold : Follows(x, "REFUND_PENDING")
  /\ \A x \in Lifecycle!Stage \ Unsold : Follows(x, "REFUNDED")
  /\ \A x \in {"PAID", "CONFIRMED"} : Follows(x, "CONFIRMED")
<1>1. /\ Follows("PAID", "REFUND_PENDING") /\ Follows("CONFIRMED", "REFUND_PENDING")
      /\ Follows("REFUND_PENDING", "REFUND_PENDING")
  BY DEF Follows, Lifecycle!After
<1>2. /\ Follows("PAID", "REFUNDED") /\ Follows("CONFIRMED", "REFUNDED")
      /\ Follows("EXPIRED", "REFUNDED") /\ Follows("CANCELLED", "REFUNDED")
      /\ Follows("REFUND_PENDING", "REFUNDED") /\ Follows("REFUNDED", "REFUNDED")
  BY DEF Follows, Lifecycle!After
<1>3. Follows("PAID", "CONFIRMED") /\ Follows("CONFIRMED", "CONFIRMED")
  BY DEF Follows, Lifecycle!After
<1>4. QED
  BY <1>1, <1>2, <1>3 DEF Sold, Unsold, Lifecycle!Stage

LEMMA StageTypes ==
  ASSUME TypeOK, NEW b \in Bookings
  PROVE  bookings[b] \in BookingRow /\ StageOf(bookings[b]) \in Lifecycle!Stage
BY Stages DEF TypeOK

\* Stale, said of the stage.
LEMMA StaleStage ==
  ASSUME TypeOK, NEW b \in Bookings
  PROVE  Stale(b) <=> StaleIn(bookings, lapsed, b)
<1>1. bookings[b] \in BookingRow
  BY DEF TypeOK
<1>2. QED
  BY <1>1, Stages DEF Stale, StaleIn, Dead

-----------------------------------------------------------------------------
(* Tasks of the only worker.                                                 *)

\* After a step of the only worker there is one task to look at.
LEMMA OnlyTask ==
  ASSUME OneAtATime, TypeOK, NEW w \in Workers, NEW u, task' = [task EXCEPT ![w] = u]
  PROVE  \A v \in Workers : v = w /\ task'[v] = u
BY DEF OneAtATime, TypeOK

\* A step that changes no table, clock or event, and leaves a sound task.
LEMMA MoveOn ==
  ASSUME OneAtATime, TypeOK, Serial, NEW w \in Workers, NEW u,
         task' = [task EXCEPT ![w] = u],
         UNCHANGED <<bookings, seatRow, lapsed, charged, published>>,
         u # Idle => TaskSound(u, bookings, seatRow, lapsed, charged)
  PROVE  Serial'
<1>1. \A v \in Workers : v = w /\ task'[v] = u
  BY OnlyTask
<1>2. /\ RowsSound(bookings', seatRow')
      /\ ChargesSound(bookings', seatRow', lapsed', charged')
      /\ EventsSound(bookings', seatRow', charged', published')
      /\ OnlyRefunds(published')
  BY DEF Serial
<1>3. \A v \in Workers : task'[v] # Idle =>
        TaskSound(task'[v], bookings', seatRow', lapsed', charged')
  BY <1>1
<1>4. QED
  BY <1>2, <1>3 DEF Serial, Free

\* A copy with seats own, saved over a row in stage x.
LEMMA SavingSound ==
  ASSUME NEW B, NEW R, NEW L, NEW C,
         NEW t \in Task, t.seats = RowsOf(R, t.b),
         NEW row, NEW release, NEW emits,
         Follows(StageOf(B[t.b]), StageOf(row)), StageOf(row) # "NONE",
         RowSound(row, RowsOf(R, t.b)),
         \A i \in 1 .. Len(emits) : Tellable(StageOf(row), RowsOf(R, t.b), emits[i], RowsOf(R, t.b))
  PROVE  TaskSound(Saving(t, row, release, emits), B, R, L, C)
<1> DEFINE u == Saving(t, row, release, emits)
<1>1. u.pc = "save" /\ u.b = t.b /\ u.row = row /\ u.emits = emits /\ u.seats = t.seats
  BY DEF Saving, Task, TaskRecord
<1> HIDE DEF u
<1>2. HoldSound(u, StageOf(B[t.b]), B, L, C)
  BY <1>1 DEF HoldSound, HoldStep
<1>3. CheckSound(u, B[t.b], RowsOf(R, t.b))
  BY <1>1 DEF CheckSound, CheckStep
<1>4. SaveSound(u, StageOf(B[t.b]), RowsOf(R, t.b))
  BY <1>1 DEF SaveSound, MayTell
<1>5. TaskSound(u, B, R, L, C)
  BY <1>1, <1>2, <1>3, <1>4 DEF TaskSound
<1>6. QED
  BY <1>5 DEF u

\* What is left to publish.
LEMMA EmittingSound ==
  ASSUME NEW B, NEW R, NEW L, NEW C, NEW t \in Task, NEW emits,
         \A i \in 1 .. Len(emits) : Tellable(StageOf(B[t.b]), RowsOf(R, t.b), emits[i], t.seats)
  PROVE  Emitting(t, emits) # Idle => TaskSound(Emitting(t, emits), B, R, L, C)
<1> SUFFICES ASSUME emits # <<>>
             PROVE  TaskSound(Emitting(t, emits), B, R, L, C)
  BY DEF Emitting
<1> DEFINE u == Emitting(t, emits)
<1>1. u.pc = "emit" /\ u.b = t.b /\ u.emits = emits /\ u.seats = t.seats
  BY DEF Emitting, Task, TaskRecord
<1> HIDE DEF u
<1>2. HoldSound(u, StageOf(B[t.b]), B, L, C)
  BY <1>1 DEF HoldSound, HoldStep
<1>3. CheckSound(u, B[t.b], RowsOf(R, t.b))
  BY <1>1 DEF CheckSound, CheckStep
<1>4. SaveSound(u, StageOf(B[t.b]), RowsOf(R, t.b))
  BY <1>1 DEF SaveSound, MayTell
<1>5. TaskSound(u, B, R, L, C)
  BY <1>1, <1>2, <1>3, <1>4 DEF TaskSound
<1>6. QED
  BY <1>5 DEF u

\* When each sequence of events the handlers publish may be published.
LEMMA Told ==
  ASSUME NEW x, NEW own
  PROVE  LET May(emits) == \A i \in 1 .. Len(emits) : Tellable(x, own, emits[i], own) IN
         /\ May(<<>>)
         /\ May(<<"booking.refunded">>)
         /\ x \in Dead => /\ May(<<"booking.cancelled">>)
                          /\ May(<<"booking.expired">>)
                          /\ May(<<"booking.expired">> \o <<>>)
                          /\ May(<<"booking.expired">> \o <<"booking.refund.requested">>)
         /\ x \notin Unsold => May(<<"booking.refund.requested">>)
         /\ x = "PAID" /\ own # {} => /\ May(<<"booking.confirmed">>)
                                      /\ May(<<"booking.confirmed", "payment.received">>)
BY DEF Tellable, Dead, Unsold, Voiding, Refunding

-----------------------------------------------------------------------------
(* Handlers start.                                                           *)

\* A handler's copy, its row, and what is known of it.
LEMMA LoadedSound ==
  ASSUME TypeOK, Justified, Serial, NEW b \in Bookings
  PROVE  /\ Loaded(b) \in Task /\ Loaded(b).b = b /\ Loaded(b).row = bookings[b]
         /\ Loaded(b).seats = RowsOf(seatRow, b) /\ Loaded(b).emits = <<>>
         /\ bookings[b] \in BookingRow /\ StageOf(bookings[b]) \in Lifecycle!Stage
         /\ RowSound(bookings[b], RowsOf(seatRow, b))
         /\ RowOK(published, b, bookings[b])
<1>1. /\ Loaded(b).b = b /\ Loaded(b).row = bookings[b]
      /\ Loaded(b).seats = RowsOf(seatRow, b) /\ Loaded(b).emits = <<>>
  BY DEF Loaded, SeatsOf, RowsOf
<1>2. Loaded(b) \in Task
  BY LoadedType
<1>3. QED
  BY <1>1, <1>2, StageTypes DEF Serial, RowsSound, Justified

\* What the copy of a hold becomes.
LEMMA ExpiringSound ==
  ASSUME NEW B, NEW R, NEW L, NEW C,
         NEW t \in Task, t.row = B[t.b], t.seats = RowsOf(R, t.b), StageOf(t.row) = "HELD",
         NEW emits \in {<<>>, <<"booking.refund.requested">>}
  PROVE  TaskSound(Expiring(t, emits), B, R, L, C)
<1> DEFINE row == [t.row EXCEPT !.status = "EXPIRED"]
<1>1. t.row \in BookingRow
  BY DEF Task, TaskRecord
<1>2. row \in BookingRow /\ row.status = "EXPIRED" /\ row.paidAt = t.row.paidAt
  BY <1>1 DEF BookingRow, Status
<1>3. StageOf(row) = "EXPIRED" /\ ~row.paidAt
  BY <1>1, <1>2, Stages
<1> HIDE DEF row
<1>4. Follows("HELD", "EXPIRED")
  BY DEF Follows, Lifecycle!After
<1>5. RowSound(row, RowsOf(R, t.b))
  BY <1>3 DEF RowSound, Sold
<1>6. \A i \in 1 .. Len(<<"booking.expired">> \o emits) :
        Tellable("EXPIRED", RowsOf(R, t.b), (<<"booking.expired">> \o emits)[i], RowsOf(R, t.b))
  BY Told DEF Dead
<1>7. TaskSound(Saving(t, row, TRUE, <<"booking.expired">> \o emits), B, R, L, C)
  BY <1>3, <1>4, <1>5, <1>6, SavingSound
<1>8. QED
  BY <1>7 DEF Expiring, row

LEMMA TakingSound ==
  ASSUME NEW B, NEW R, NEW L, NEW C,
         NEW t \in Task, t.row = B[t.b], t.seats = RowsOf(R, t.b), StageOf(t.row) = "HELD",
         RowsOf(R, t.b) # {}
  PROVE  TaskSound(TakePayment(t), B, R, L, C)
<1> DEFINE row == [t.row EXCEPT !.paidAt = TRUE]
           emits == <<"booking.confirmed", "payment.received">>
<1>1. t.row \in BookingRow
  BY DEF Task, TaskRecord
<1>2. row \in BookingRow /\ row.status = t.row.status /\ row.paidAt
  BY <1>1 DEF BookingRow
<1>3. StageOf(row) = "PAID"
  BY <1>1, <1>2, Stages
<1> HIDE DEF row
<1>4. Follows("HELD", "PAID")
  BY DEF Follows, Lifecycle!After
<1>5. RowSound(row, RowsOf(R, t.b))
  BY <1>3 DEF RowSound, Dead
<1>6. \A i \in 1 .. Len(emits) : Tellable("PAID", RowsOf(R, t.b), emits[i], RowsOf(R, t.b))
  BY Told
<1>7. TaskSound(Saving(t, row, TRUE, emits), B, R, L, C)
  BY <1>3, <1>4, <1>5, <1>6, SavingSound
<1>8. QED
  BY <1>7 DEF TakePayment, row

\* Saving a row that keeps a sold booking's seats, and then one event of a kind.
LEMMA SaveNew ==
  ASSUME TypeOK, Justified, Serial, NEW b \in Bookings,
         NEW row \in BookingRow, NEW release, NEW emits,
         row.paidAt = bookings[b].paidAt, StageOf(row) # "NONE",
         Follows(StageOf(bookings[b]), StageOf(row)),
         StageOf(row) \in Dead => ~bookings[b].paidAt,
         StageOf(row) \in Sold => StageOf(bookings[b]) \in Sold,
         \A i \in 1 .. Len(emits) :
           Tellable(StageOf(row), RowsOf(seatRow, b), emits[i], RowsOf(seatRow, b))
  PROVE  TaskSound(Saving(Loaded(b), row, release, emits), bookings, seatRow, lapsed, charged)
<1>1. RowSound(row, RowsOf(seatRow, b))
  BY LoadedSound DEF RowSound
<1>2. QED
  BY <1>1, LoadedSound, SavingSound

\* A booking whose refund was talked about is no longer merely held.
LEMMA Settled ==
  ASSUME Serial, NEW b, NEW type \in Refunding, Published(type, b)
  PROVE  StageOf(bookings[b]) \notin Unsold
BY DEF Serial, EventsSound, Tells, Published, Among

\* Each handler starts with a sound task.
LEMMA HandlerSound ==
  ASSUME OneAtATime, TypeOK, Justified, Serial,
         NEW w \in Workers, NEW b \in Bookings, Handler(w, b)
  PROVE  Serial'
<1> DEFINE t == Loaded(b)
           old == bookings[b]
           x == StageOf(old)
           own == RowsOf(seatRow, b)
           Starts(u) == u # Idle => TaskSound(u, bookings, seatRow, lapsed, charged)
<1>1. /\ t \in Task /\ t.b = b /\ t.row = old /\ t.seats = own /\ t.emits = <<>>
      /\ old \in BookingRow /\ x \in Lifecycle!Stage
      /\ RowSound(old, own) /\ RowOK(published, b, old)
  BY LoadedSound
<1>2. ASSUME NEW u, Starts(u), Continue(w, u) PROVE Serial'
  BY <1>2, MoveOn DEF Continue
<1>3. ASSUME NEW u, Starts(u), Begin(w, b, u) PROVE Serial'
  BY <1>2, <1>3 DEF Begin
<1>4. /\ old = bookings[b]
      /\ x = "NONE" <=> old.status = "ABSENT"
      /\ x = "HELD" <=> old.status = "PENDING" /\ ~old.paidAt
      /\ x = "PAID" <=> old.status = "PENDING" /\ old.paidAt
      /\ \A y \in {"CONFIRMED", "EXPIRED", "CANCELLED", "REFUND_PENDING", "REFUNDED"} :
           x = y <=> old.status = y
  BY <1>1, Stages
  \* A row in stage y that keeps the money, saved with events that may then be told.
<1>5. ASSUME NEW row \in BookingRow, NEW y, y = StageOf(row), row.paidAt = old.paidAt,
             y # "NONE", Follows(x, y), y \in Dead => x = "HELD", y \in Sold => x \in Sold,
             NEW release, NEW emits,
             \A i \in 1 .. Len(emits) : Tellable(y, own, emits[i], own)
      PROVE  TaskSound(Saving(t, row, release, emits), bookings, seatRow, lapsed, charged)
  <2>1. y \in Dead => ~old.paidAt
    BY <1>1, <1>5, Stages
  <2> QED
    BY <1>5, <2>1, SaveNew
<1>6. ASSUME NEW type, Tellable(x, own, type, own)
      PROVE  Starts(Emitting(t, <<type>>))
  <2>1. \A i \in 1 .. Len(<<type>>) :
          Tellable(StageOf(bookings[t.b]), RowsOf(seatRow, t.b), <<type>>[i], t.seats)
    BY <1>1, <1>6
  <2> QED
    BY <1>1, <2>1, EmittingSound
<1>7. ASSUME x = "HELD", NEW emits \in {<<>>, <<"booking.refund.requested">>}
      PROVE  Starts(Expiring(t, emits))
  BY <1>1, <1>7, ExpiringSound
<1> HIDE DEF t, old, x, own, Starts
<1>8. CASE \E S \in SUBSET Seats : HoldAcquire(w, b, S)
  <2> PICK S \in SUBSET Seats : HoldAcquire(w, b, S)
    BY <1>8
  <2> DEFINE u == [pc |-> "create", b |-> b, row |-> Absent, seats |-> S, keys |-> {},
                   stale |-> {}, release |-> FALSE, emits |-> <<>>]
  <2>1. b \notin charged /\ x = "NONE"
    BY <1>1, <1>4, Stages DEF HoldAcquire, Unused, Exists
  <2>2. TaskSound(u, bookings, seatRow, lapsed, charged)
    BY <2>1 DEF TaskSound, HoldSound, CheckSound, SaveSound, CheckStep, Unsold, x, old
  <2> HIDE DEF u
  <2>3. /\ task' = [task EXCEPT ![w] = u]
        /\ UNCHANGED <<bookings, seatRow, lapsed, charged, published>>
    BY DEF HoldAcquire, u
  <2> QED
    BY <2>2, <2>3, MoveOn
<1>9. CASE Cancel(w, b)
  <2>1. CASE x \in {"PAID", "CONFIRMED"}
    <3> DEFINE row == [t.row EXCEPT !.status = "REFUND_PENDING", !.refundRequestedAt = TRUE]
    <3>1. row \in BookingRow /\ row.status = "REFUND_PENDING" /\ row.paidAt = old.paidAt
      BY <1>1 DEF BookingRow, Status
    <3>2. StageOf(row) = "REFUND_PENDING" /\ Follows(x, "REFUND_PENDING")
      BY <2>1, <3>1, Stages, Moves DEF Sold
    <3> HIDE DEF row
    <3>3. TaskSound(Saving(t, row, TRUE, <<"booking.refund.requested">>),
                    bookings, seatRow, lapsed, charged)
      BY <1>5, <2>1, <3>1, <3>2, Told DEF Dead, Sold, Unsold
    <3>4. Begin(w, b, Saving(t, row, TRUE, <<"booking.refund.requested">>))
      BY <1>1, <1>4, <1>9, <2>1, Stages DEF Cancel, t, row
    <3> QED
      BY <1>3, <3>3, <3>4 DEF Starts
  <2>2. CASE x = "HELD"
    <3> DEFINE row == [t.row EXCEPT !.status = "CANCELLED", !.cancellationReason = "CUSTOMER"]
    <3>1. row \in BookingRow /\ row.status = "CANCELLED" /\ row.paidAt = old.paidAt
      BY <1>1 DEF BookingRow, Status, CancellationReason
    <3>2. StageOf(row) = "CANCELLED" /\ Follows(x, "CANCELLED")
      BY <2>2, <3>1, Stages DEF Follows, Lifecycle!After
    <3> HIDE DEF row
    <3>3. TaskSound(Saving(t, row, TRUE, <<"booking.cancelled">>),
                    bookings, seatRow, lapsed, charged)
      BY <1>5, <2>2, <3>1, <3>2, Told DEF Dead, Sold, Unsold
    <3>4. Begin(w, b, Saving(t, row, TRUE, <<"booking.cancelled">>))
      BY <1>1, <1>4, <1>9, <2>2, Stages DEF Cancel, t, row
    <3> QED
      BY <1>3, <3>3, <3>4 DEF Starts
  <2>3. x \in {"PAID", "CONFIRMED", "HELD"}
    BY <1>1, <1>4, <1>9, Stages DEF Cancel, t
  <2> QED
    BY <2>1, <2>2, <2>3
<1>10. CASE PrepareCharge(w, b)
  <2>1. x = "HELD"
    BY <1>1, <1>4, <1>10, Stages DEF PrepareCharge, old
  <2> DEFINE u == [t EXCEPT !.pc = "chargeRows"]
  <2>2. u.pc = "chargeRows" /\ u.b = t.b /\ u.row = t.row /\ u.seats = t.seats
    BY <1>1 DEF Task, TaskRecord
  <2>3. \/ Begin(w, b, Expiring(t, <<>>))
        \/ Begin(w, b, u)
    BY <1>10 DEF PrepareCharge, t
  <2> HIDE DEF u
  <2>4. TaskSound(u, bookings, seatRow, lapsed, charged)
    BY <1>1, <1>4, <2>1, <2>2 DEF TaskSound, HoldSound, CheckSound, SaveSound, HoldStep, x, old, own
  <2> QED
    BY <1>3, <1>7, <2>1, <2>3, <2>4 DEF Starts
<1>11. CASE OnPaymentSettled(w, b)
  <2>1. b \in charged
    BY <1>11 DEF OnPaymentSettled, Published, Among, Serial, EventsSound
  <2>2. CASE x = "HELD" /\ b \in lapsed
    <3>1. Begin(w, b, LatePayment(t))
      BY <1>1, <1>4, <1>11, <2>2, Stages DEF OnPaymentSettled, t
    <3> QED
      BY <1>3, <1>7, <2>2, <3>1 DEF LatePayment
  <2>3. CASE x = "HELD" /\ b \notin lapsed
    <3> DEFINE u == [t EXCEPT !.pc = "settledExtend", !.keys = activeLocks[b]]
               v == [t EXCEPT !.pc = "settledRows"]
    <3>1. own # {}
      BY <2>1, <2>3 DEF Serial, ChargesSound, x, old, own
    <3>2. /\ u.pc = "settledExtend" /\ u.b = t.b /\ u.row = t.row /\ u.seats = t.seats
          /\ v.pc = "settledRows" /\ v.b = t.b /\ v.row = t.row /\ v.seats = t.seats
      BY <1>1 DEF Task, TaskRecord
    <3>3. Begin(w, b, u) \/ Begin(w, b, v)
      BY <1>1, <1>4, <1>11, <2>3, Stages DEF OnPaymentSettled, t
    <3> HIDE DEF u, v
    <3>4. TaskSound(u, bookings, seatRow, lapsed, charged)
      BY <1>1, <1>4, <2>3, <3>1, <3>2
         DEF TaskSound, HoldSound, CheckSound, SaveSound, HoldStep, x, old, own
    <3>5. TaskSound(v, bookings, seatRow, lapsed, charged)
      BY <1>1, <1>4, <2>3, <3>2
         DEF TaskSound, HoldSound, CheckSound, SaveSound, HoldStep, x, old, own
    <3> QED
      BY <1>3, <3>3, <3>4, <3>5 DEF Starts
  <2>4. CASE x = "PAID"
    <3>1. Begin(w, b, Emitting(t, <<"booking.confirmed">>))
      BY <1>1, <1>4, <1>11, <2>4, Stages DEF OnPaymentSettled, t
    <3>2. Tellable(x, own, "booking.confirmed", own)
      BY <1>1, <1>4, <2>4 DEF Tellable, RowSound, Voiding, Refunding, Sold, x
    <3> QED
      BY <1>3, <1>6, <3>1, <3>2
  <2>5. CASE x \in Dead \cup {"REFUND_PENDING", "REFUNDED"}
    <3>1. Begin(w, b, Emitting(t, <<"booking.refund.requested">>))
      BY <1>1, <1>4, <1>11, <2>5, Stages DEF OnPaymentSettled, t, Dead
    <3>2. Tellable(x, own, "booking.refund.requested", own)
      BY <2>5 DEF Tellable, Voiding, Refunding, Unsold, Dead
    <3> QED
      BY <1>3, <1>6, <3>1, <3>2
  <2>6. x \in {"HELD", "PAID", "REFUND_PENDING", "REFUNDED"} \cup Dead
    BY <1>1, <1>4, <1>11, Stages DEF OnPaymentSettled, t, Dead
  <2> QED
    BY <2>2, <2>3, <2>4, <2>5, <2>6
<1>12. CASE OnPaymentFailed(w, b)
  <2> DEFINE row == [t.row EXCEPT !.status = "CANCELLED", !.cancellationReason = "PAYMENT_DECLINED"]
  <2>1. row \in BookingRow /\ row.status = "CANCELLED" /\ row.paidAt = old.paidAt
    BY <1>1 DEF BookingRow, Status, CancellationReason
  <2>2. x = "HELD"
    BY <1>1, <1>4, <1>12, Stages DEF OnPaymentFailed, t
  <2>3. StageOf(row) = "CANCELLED" /\ Follows(x, "CANCELLED")
    BY <2>1, <2>2, Stages DEF Follows, Lifecycle!After
  <2>4. Begin(w, b, Saving(t, row, TRUE, <<"booking.cancelled">>))
    BY <1>12 DEF OnPaymentFailed, t
  <2> HIDE DEF row
  <2>5. TaskSound(Saving(t, row, TRUE, <<"booking.cancelled">>),
                  bookings, seatRow, lapsed, charged)
    BY <1>5, <2>1, <2>2, <2>3, Told DEF Dead, Sold, Unsold
  <2> QED
    BY <1>3, <2>4, <2>5 DEF Starts
<1>13. CASE OnRefundPending(w, b)
  <2> DEFINE row == [t.row EXCEPT !.status = "REFUND_PENDING", !.refundRequestedAt = TRUE]
  <2>1. row \in BookingRow /\ row.status = "REFUND_PENDING" /\ row.paidAt = old.paidAt
    BY <1>1 DEF BookingRow, Status
  <2>2. old.paidAt /\ old.status # "REFUNDED" /\ x \notin Unsold
    BY <1>1, <1>4, <1>13, Settled DEF OnRefundPending, t, x, old, Refunding
  <2>3. x \in Sold
    BY <1>1, <1>4, <2>2, Stages DEF RowSound, Dead, Sold, Unsold, x, Lifecycle!Stage
  <2>4. StageOf(row) = "REFUND_PENDING" /\ Follows(x, "REFUND_PENDING")
    BY <2>1, <2>3, Stages, Moves
  <2>5. Begin(w, b, Saving(t, row, FALSE, <<>>))
    BY <1>13 DEF OnRefundPending, t
  <2> HIDE DEF row
  <2>6. TaskSound(Saving(t, row, FALSE, <<>>), bookings, seatRow, lapsed, charged)
    BY <1>5, <2>1, <2>3, <2>4, Told DEF Dead
  <2> QED
    BY <1>3, <2>5, <2>6 DEF Starts
<1>14. CASE OnRefunded(w, b)
  <2> DEFINE row == [t.row EXCEPT !.status = "REFUNDED", !.refundRequestedAt = TRUE]
  <2>1. row \in BookingRow /\ row.status = "REFUNDED" /\ row.paidAt = old.paidAt
    BY <1>1 DEF BookingRow, Status
  <2>2. x \notin Unsold
    BY <1>14, Settled DEF OnRefunded, x, old, Refunding
  <2>3. StageOf(row) = "REFUNDED" /\ Follows(x, "REFUNDED")
    BY <1>1, <2>1, <2>2, Stages, Moves
  <2>4. \/ Begin(w, b, Emitting(t, <<"booking.refunded">>))
        \/ Begin(w, b, Saving(t, row, TRUE, <<"booking.refunded">>))
    BY <1>14 DEF OnRefunded, t
  <2> HIDE DEF row
  <2>5. TaskSound(Saving(t, row, TRUE, <<"booking.refunded">>),
                  bookings, seatRow, lapsed, charged)
    BY <1>5, <2>1, <2>3, Told DEF Dead, Sold
  <2>6. Tellable(x, own, "booking.refunded", own)
    BY DEF Tellable, Voiding, Refunding
  <2> QED
    BY <1>3, <1>6, <2>4, <2>5, <2>6 DEF Starts
<1>15. CASE OnRefundFailed(w, b)
  <2> DEFINE kept == [t.row EXCEPT !.refundRequestedAt = FALSE]
             done == [kept EXCEPT !.status = "CONFIRMED"]
             again == [kept EXCEPT !.status = "PENDING"]
  <2>1. /\ done \in BookingRow /\ done.status = "CONFIRMED" /\ done.paidAt = old.paidAt
        /\ again \in BookingRow /\ again.status = "PENDING" /\ again.paidAt = old.paidAt
    BY <1>1 DEF BookingRow, Status
  <2>2. old.status = "REFUND_PENDING" /\ old.paidAt
    BY <1>1, <1>4, <1>15 DEF OnRefundFailed, RowOK, t
  <2>3. x = "REFUND_PENDING" /\ own # {}
    BY <1>1, <1>4, <2>2, Stages DEF RowSound, Sold, x
  <2>4. /\ StageOf(done) = "CONFIRMED" /\ Follows(x, "CONFIRMED")
        /\ StageOf(again) = "PAID" /\ Follows(x, "PAID")
    BY <2>1, <2>2, <2>3, Stages DEF Follows, Lifecycle!After
  <2>5. \/ Begin(w, b, Saving(t, done, FALSE, <<>>))
        \/ Begin(w, b, Saving(t, again, FALSE, <<"booking.confirmed">>))
    BY <1>1, <1>4, <1>15, <2>2 DEF OnRefundFailed, t
  <2> HIDE DEF kept, done, again
  <2>6. TaskSound(Saving(t, done, FALSE, <<>>), bookings, seatRow, lapsed, charged)
    BY <1>5, <2>1, <2>3, <2>4, Told DEF Dead, Sold
  <2>7. TaskSound(Saving(t, again, FALSE, <<"booking.confirmed">>),
                  bookings, seatRow, lapsed, charged)
    BY <1>5, <2>1, <2>3, <2>4, Told DEF Dead, Sold
  <2> QED
    BY <1>3, <2>5, <2>6, <2>7 DEF Starts
<1>16. CASE OnTicketsIssued(w, b)
  <2> DEFINE row == [t.row EXCEPT !.status = "CONFIRMED", !.ticketsIssuedAt = TRUE]
  <2>1. CASE x \in {"PAID", "CONFIRMED"}
    <3>1. row \in BookingRow /\ row.status = "CONFIRMED" /\ row.paidAt = old.paidAt
      BY <1>1 DEF BookingRow, Status
    <3>2. StageOf(row) = "CONFIRMED" /\ Follows(x, "CONFIRMED")
      BY <2>1, <3>1, Stages, Moves
    <3>3. Begin(w, b, Saving(t, row, FALSE, <<>>))
      BY <1>1, <1>4, <1>16, <2>1, Stages DEF OnTicketsIssued, t
    <3> HIDE DEF row
    <3>4. TaskSound(Saving(t, row, FALSE, <<>>), bookings, seatRow, lapsed, charged)
      BY <1>5, <2>1, <3>1, <3>2, Told DEF Dead, Sold
    <3> QED
      BY <1>3, <3>3, <3>4 DEF Starts
  <2>2. \/ x \in {"PAID", "CONFIRMED"}
        \/ x = "REFUNDED" /\ Begin(w, b, Emitting(t, <<"booking.refunded">>))
        \/ x = "CANCELLED" /\ Begin(w, b, Emitting(t, <<"booking.cancelled">>))
        \/ x = "EXPIRED" /\ Begin(w, b, Emitting(t, <<"booking.expired">>))
    BY <1>1, <1>4, <1>16, Stages DEF OnTicketsIssued, t
  <2>3. /\ Tellable(x, own, "booking.refunded", own)
        /\ x \in Dead => /\ Tellable(x, own, "booking.cancelled", own)
                         /\ Tellable(x, own, "booking.expired", own)
    BY DEF Tellable, Voiding, Refunding
  <2> QED
    BY <1>3, <1>6, <2>1, <2>2, <2>3 DEF Dead
<1>17. CASE ExpireStaleBooking(w, b)
  <2>1. x = "HELD"
    BY <1>1, <1>4, <1>17, Stages DEF ExpireStaleBooking, old
  <2> QED
    BY <1>2, <1>7, <1>17, <2>1 DEF ExpireStaleBooking, t
<1>18. CASE RetryConfirmation(w, b)
  <2>1. x = "PAID" /\ own # {}
    BY <1>1, <1>4, <1>18, Stages DEF RetryConfirmation, old, RowSound, Sold, x
  <2>2. TaskSound(Saving(t, old, FALSE, <<"booking.confirmed">>),
                  bookings, seatRow, lapsed, charged)
    BY <1>1, <1>4, <1>5, <2>1, Told DEF Dead, Sold, Follows, x
  <2> QED
    BY <1>3, <1>18, <2>2 DEF RetryConfirmation, t, old, Starts
<1>19. CASE RetryRefund(w, b)
  <2> DEFINE row == [bookings[b] EXCEPT !.refundRequestedAt = TRUE]
  <2>1. row \in BookingRow /\ row.status = old.status /\ row.paidAt = old.paidAt
    BY <1>1, <1>4 DEF BookingRow
  <2>2. x = "REFUND_PENDING" /\ StageOf(row) = "REFUND_PENDING"
    BY <1>1, <1>4, <1>19, <2>1, Stages DEF RetryRefund, old, x
  <2>3. Begin(w, b, Saving(t, row, FALSE, <<"booking.refund.requested">>))
    BY <1>19 DEF RetryRefund, t
  <2> HIDE DEF row
  <2>4. TaskSound(Saving(t, row, FALSE, <<"booking.refund.requested">>),
                  bookings, seatRow, lapsed, charged)
    BY <1>5, <2>1, <2>2, Told DEF Dead, Sold, Unsold, Follows
  <2> QED
    BY <1>3, <2>3, <2>4 DEF Starts
<1> QED
  BY <1>8, <1>9, <1>10, <1>11, <1>12, <1>13, <1>14, <1>15, <1>16, <1>17, <1>18, <1>19
     DEF Handler

-----------------------------------------------------------------------------
(* Handlers go on.                                                           *)

\* The only worker, at work.
LEMMA AtWork ==
  ASSUME TypeOK, Serial, NEW w \in Workers, Proceed(w) \/ Fail(w)
  PROVE  /\ task[w] \in Task /\ task[w] # Idle
         /\ task[w].b \in Bookings /\ task[w].row \in BookingRow
         /\ task[w].seats \in SUBSET Seats /\ task[w].emits \in Seq(BookingEventType)
         /\ bookings[task[w].b] \in BookingRow
         /\ StageOf(bookings[task[w].b]) \in Lifecycle!Stage
         /\ TaskSound(task[w], bookings, seatRow, lapsed, charged)
<1>1. task[w] \in Task
  BY InFlight
<1>2. task[w].b \in Bookings /\ task[w].row \in BookingRow
      /\ task[w].seats \in SUBSET Seats /\ task[w].emits \in Seq(BookingEventType)
      /\ task[w].pc \in Step
  BY <1>1 DEF Task, TaskRecord
<1>3. task[w] # Idle
  BY <1>2 DEF Idle, Step, HoldStep, CheckStep
<1>4. QED
  BY <1>1, <1>2, <1>3, StageTypes DEF Serial, Free

\* A step of the only worker, table by table.
LEMMA StepSound ==
  ASSUME OneAtATime, TypeOK, NEW w \in Workers, NEW u, task' = [task EXCEPT ![w] = u],
         RowsSound(bookings', seatRow'),
         ChargesSound(bookings', seatRow', lapsed', charged'),
         EventsSound(bookings', seatRow', charged', published'),
         OnlyRefunds(published'),
         u # Idle => TaskSound(u, bookings', seatRow', lapsed', charged')
  PROVE  Serial'
<1>1. \A v \in Workers : task'[v] = u
  BY OnlyTask
<1>2. \A v \in Workers : task'[v] # Idle =>
        TaskSound(task'[v], bookings', seatRow', lapsed', charged')
  BY <1>1
<1>3. QED
  BY <1>2 DEF Serial, Free

\* The booking of a hold comes, goes and gets its seat rows; nobody knows it.
LEMMA HoldTables ==
  ASSUME TypeOK, Serial, NEW b \in Bookings, b \notin charged,
         StageOf(bookings[b]) \in Unsold,
         NEW B, NEW R, NEW L, lapsed \ {b} \subseteq L,
         StageOf(B[b]) \in Unsold,
         \A c \in Bookings \ {b} : B[c] = bookings[c] /\ RowsOf(R, c) = RowsOf(seatRow, c),
         \A s \in Seats : /\ R[s] \in Bookings \cup {None}
                          /\ R[s] = b => StageOf(B[b]) # "NONE"
  PROVE  /\ RowsSound(B, R)
         /\ ChargesSound(B, R, L, charged)
         /\ EventsSound(B, R, charged, published)
<1>1. \A c \in Bookings : RowSound(B[c], RowsOf(R, c))
  <2>1. RowSound(B[b], RowsOf(R, b))
    BY DEF RowSound, Unsold, Dead, Sold
  <2> QED
    BY <2>1 DEF Serial, RowsSound
<1>2. ASSUME NEW s \in Seats, R[s] # None PROVE StageOf(B[R[s]]) # "NONE"
  <2>1. CASE R[s] # b
    <3>1. R[s] \in Bookings \ {b} /\ s \in RowsOf(R, R[s])
      BY <1>2, <2>1 DEF RowsOf
    <3>2. seatRow[s] = R[s]
      BY <3>1 DEF RowsOf
    <3> QED
      BY <1>2, <3>1, <3>2 DEF Serial, RowsSound
  <2> QED
    BY <2>1
<1>3. ChargesSound(B, R, L, charged)
  BY DEF Serial, ChargesSound, TypeOK
<1>4. ASSUME NEW e \in published
      PROVE  /\ Tells(StageOf(B[e.booking]), RowsOf(R, e.booking), e.type, e.seats)
             /\ e.type = "payment.settled" => e.booking \in charged
  <2>1. /\ Tells(StageOf(bookings[e.booking]), RowsOf(seatRow, e.booking), e.type, e.seats)
        /\ e.type = "payment.settled" => e.booking \in charged
        /\ e.booking \in Bookings
    BY DEF Serial, EventsSound, TypeOK, Event
  <2>2. CASE e.booking = b
    <3>1. e.type # "booking.confirmed" /\ e.type \notin Voiding \cup Refunding
      BY <2>1, <2>2 DEF Tells, Unsold, Sold, Dead
    <3> QED
      BY <2>1, <3>1 DEF Tells
  <2> QED
    BY <2>1, <2>2
<1>5. QED
  BY <1>1, <1>2, <1>3, <1>4 DEF RowsSound, EventsSound

\* Seat rows of dead bookings and of holds that lapsed may go.
LEMMA StaleTables ==
  ASSUME TypeOK, Serial, NEW R,
         \A s \in Seats :
           \/ R[s] = seatRow[s]
           \/ R[s] = None /\ seatRow[s] \in Bookings /\ StaleIn(bookings, lapsed, seatRow[s])
  PROVE  /\ RowsSound(bookings, R)
         /\ ChargesSound(bookings, R, lapsed, charged)
         /\ EventsSound(bookings, R, charged, published)
<1>1. \A c \in Bookings : ~StaleIn(bookings, lapsed, c) => RowsOf(R, c) = RowsOf(seatRow, c)
  BY NoneAssumption DEF RowsOf
<1>2. \A c \in Bookings : StageOf(bookings[c]) \in Sold => RowsOf(R, c) = RowsOf(seatRow, c)
  BY <1>1 DEF StaleIn, Sold, Dead
<1>3. RowsSound(bookings, R)
  BY <1>2 DEF Serial, RowsSound, RowSound
<1>4. ChargesSound(bookings, R, lapsed, charged)
  BY <1>1 DEF Serial, ChargesSound, StaleIn, Dead, TypeOK
<1>5. ASSUME NEW e \in published
      PROVE  Tells(StageOf(bookings[e.booking]), RowsOf(R, e.booking), e.type, e.seats)
  <2>1. /\ Tells(StageOf(bookings[e.booking]), RowsOf(seatRow, e.booking), e.type, e.seats)
        /\ e.booking \in Bookings
    BY DEF Serial, EventsSound, TypeOK, Event
  <2> QED
    BY <1>2, <2>1 DEF Tells
<1>6. QED
  BY <1>3, <1>4, <1>5 DEF Serial, EventsSound

\* A copy that follows the row it is saved over.
LEMMA SavedTables ==
  ASSUME TypeOK, Serial, NEW b \in Bookings, NEW row \in BookingRow,
         Follows(StageOf(bookings[b]), StageOf(row)), StageOf(row) # "NONE",
         RowSound(row, RowsOf(seatRow, b)),
         NEW B, B = [bookings EXCEPT ![b] = row]
  PROVE  /\ RowsSound(B, seatRow)
         /\ ChargesSound(B, seatRow, lapsed, charged)
         /\ EventsSound(B, seatRow, charged, published)
<1>1. \A c \in Bookings : B[c] = IF c = b THEN row ELSE bookings[c]
  BY DEF TypeOK
<1>2. RowsSound(B, seatRow)
  BY <1>1 DEF Serial, RowsSound, TypeOK
<1>3. ChargesSound(B, seatRow, lapsed, charged)
  <2>1. ASSUME b \in charged, StageOf(row) = "HELD"
        PROVE  StageOf(bookings[b]) = "HELD"
    BY <2>1, StageTypes, Order DEF Serial, ChargesSound
  <2> QED
    BY <1>1, <2>1 DEF Serial, ChargesSound, TypeOK
<1>4. ASSUME NEW e \in published
      PROVE  Tells(StageOf(B[e.booking]), RowsOf(seatRow, e.booking), e.type, e.seats)
  <2>1. /\ Tells(StageOf(bookings[e.booking]), RowsOf(seatRow, e.booking), e.type, e.seats)
        /\ e.booking \in Bookings
    BY DEF Serial, EventsSound, TypeOK, Event
  <2>2. CASE e.booking = b
    BY <1>1, <2>1, <2>2, StageTypes, Order DEF Tells
  <2> QED
    BY <1>1, <2>1, <2>2
<1>5. QED
  BY <1>2, <1>3, <1>4 DEF Serial, EventsSound

\* A hold that goes on, and a look-up that goes on.
LEMMA HoldTask ==
  ASSUME NEW B, NEW R, NEW L, NEW C, NEW u,
         u.pc \in HoldStep, HoldSound(u, StageOf(B[u.b]), B, L, C)
  PROVE  TaskSound(u, B, R, L, C)
BY DEF TaskSound, CheckSound, SaveSound, HoldStep, CheckStep

LEMMA CheckTask ==
  ASSUME NEW B, NEW R, NEW L, NEW C, NEW u,
         u.pc \in CheckStep, CheckSound(u, B[u.b], RowsOf(R, u.b))
  PROVE  TaskSound(u, B, R, L, C)
BY DEF TaskSound, HoldSound, SaveSound, HoldStep, CheckStep

\* A seat row belongs to a booking or to nobody.
LEMMA Owners ==
  ASSUME TypeOK
  PROVE  \A s \in Seats : seatRow[s] \in Bookings \cup {None}
BY DEF TypeOK

\* A hold in flight: nobody else knows its booking.
LEMMA Holding ==
  ASSUME TypeOK, Serial, NEW w \in Workers, Proceed(w) \/ Fail(w), task[w].pc \in HoldStep
  PROVE  /\ task[w].b \notin charged /\ StageOf(bookings[task[w].b]) \in Unsold
         /\ task[w].pc = "create" => StageOf(bookings[task[w].b]) = "NONE"
         /\ task[w].pc \in {"findStale", "deleteStale", "insert"} =>
              StageOf(bookings[task[w].b]) = "HELD"
         /\ task[w].pc = "deleteStale" =>
              \A p \in task[w].stale : StaleIn(bookings, lapsed, p[2])
BY AtWork DEF TaskSound, HoldSound

\* The stages of the row a hold inserts and of a deleted one.
LEMMA NewStages == StageOf(NewBooking) = "HELD" /\ StageOf(Absent) = "NONE"
BY DEF StageOf, NewBooking, Absent

\* hold() goes on.
LEMMA HoldProceedSound ==
  ASSUME OneAtATime, TypeOK, Serial, NEW w \in Workers,
         \/ HoldCreate(w) \/ HoldFindStale(w) \/ HoldDeleteStale(w) \/ HoldInsert(w)
         \/ HoldConflict(w) \/ HoldUndoRelease(w) \/ HoldUndoDelete(w)
  PROVE  Serial'
<1> DEFINE t == task[w]
           b == t.b
<1>1. /\ t \in Task /\ t # Idle /\ b \in Bookings
      /\ t.pc \in HoldStep
      /\ b \notin charged /\ StageOf(bookings[b]) \in Unsold
      /\ t.pc = "create" => StageOf(bookings[b]) = "NONE"
      /\ t.pc \in {"findStale", "deleteStale", "insert"} => StageOf(bookings[b]) = "HELD"
      /\ t.pc = "deleteStale" => \A p \in t.stale : StaleIn(bookings, lapsed, p[2])
  <2>1. Proceed(w) /\ t.pc \in HoldStep
    BY DEF Proceed, HoldStep, HoldCreate, HoldFindStale, HoldDeleteStale, HoldInsert,
           HoldConflict, HoldUndoRelease, HoldUndoDelete
  <2> QED
    BY <2>1, AtWork, Holding
\* The task after a step that keeps the booking.
<1>2. ASSUME NEW pc \in HoldStep, NEW stale, NEW B, NEW L,
             pc # "create",
             StageOf(B[b]) \in Unsold,
             pc \in {"findStale", "deleteStale", "insert"} => StageOf(B[b]) = "HELD",
             pc = "deleteStale" => \A p \in stale : StaleIn(B, L, p[2]),
             NEW u, u.pc = pc, u.b = b, u.stale = stale, NEW R
      PROVE  TaskSound(u, B, R, L, charged)
  <2>1. HoldSound(u, StageOf(B[u.b]), B, L, charged)
    BY <1>1, <1>2 DEF HoldSound
  <2> QED
    BY <1>2, <2>1, HoldTask
<1>3. /\ RowsSound(bookings, seatRow) /\ ChargesSound(bookings, seatRow, lapsed, charged)
      /\ EventsSound(bookings, seatRow, charged, published) /\ OnlyRefunds(published)
  BY DEF Serial
<1>4. CASE HoldCreate(w)
  <2> DEFINE u == [t EXCEPT !.pc = "findStale"]
  <2>1. /\ bookings' = [bookings EXCEPT ![b] = NewBooking] /\ lapsed' = lapsed \ {b}
        /\ seatRow' = seatRow /\ charged' = charged /\ published' = published
        /\ task' = [task EXCEPT ![w] = u]
    BY <1>4 DEF HoldCreate
  <2>2. bookings'[b] = NewBooking /\ \A c \in Bookings \ {b} : bookings'[c] = bookings[c]
    BY <1>1, <2>1 DEF TypeOK
  <2>3. /\ RowsSound(bookings', seatRow')
        /\ ChargesSound(bookings', seatRow', lapsed', charged')
        /\ EventsSound(bookings', seatRow', charged', published')
    BY <1>1, <2>1, <2>2, NewStages, HoldTables, Owners DEF Unsold
  <2>4. u.pc = "findStale" /\ u.b = b /\ u.stale = t.stale
    BY <1>1 DEF Task, TaskRecord
  <2>5. TaskSound(u, bookings', seatRow', lapsed', charged')
    BY <1>2, <2>1, <2>2, <2>4, NewStages DEF Unsold, HoldStep
  <2> QED
    BY <1>3, <2>1, <2>3, <2>5, StepSound
<1>5. CASE HoldFindStale(w)
  <2> DEFINE rows == {p \in t.seats \X Bookings : seatRow[p[1]] = p[2] /\ Stale(p[2])}
             u == [t EXCEPT !.stale = rows, !.pc = IF rows = {} THEN "insert" ELSE "deleteStale"]
  <2>1. Continue(w, u) /\ t.pc = "findStale"
    BY <1>5 DEF HoldFindStale
  <2>2. \A p \in rows : StaleIn(bookings, lapsed, p[2])
    BY StaleStage
  <2> HIDE DEF rows
  <2>3. u.pc \in {"insert", "deleteStale"} /\ u.b = b /\ u.stale = rows
    BY <1>1 DEF Task, TaskRecord
  <2> HIDE DEF u
  <2>4. TaskSound(u, bookings, seatRow, lapsed, charged)
    BY <1>1, <1>2, <2>1, <2>2, <2>3 DEF HoldStep
  <2> QED
    BY <2>1, <2>4, MoveOn DEF Continue
<1>6. CASE HoldDeleteStale(w)
  <2> DEFINE u == [t EXCEPT !.pc = "insert", !.stale = {}]
  <2>1. /\ seatRow' = [s \in Seats |-> IF <<s, seatRow[s]>> \in t.stale THEN None ELSE seatRow[s]]
        /\ UNCHANGED <<bookings, lapsed, charged, published>>
        /\ task' = [task EXCEPT ![w] = u] /\ t.pc = "deleteStale"
    BY <1>6 DEF HoldDeleteStale
  <2>2. \A s \in Seats :
          \/ seatRow'[s] = seatRow[s]
          \/ seatRow'[s] = None /\ seatRow[s] \in Bookings /\ StaleIn(bookings, lapsed, seatRow[s])
    <3> SUFFICES ASSUME NEW s \in Seats, <<s, seatRow[s]>> \in t.stale
                 PROVE  seatRow[s] \in Bookings /\ StaleIn(bookings, lapsed, seatRow[s])
      BY <2>1
    <3>1. StaleIn(bookings, lapsed, <<s, seatRow[s]>>[2])
      BY <1>1, <2>1
    <3>2. <<s, seatRow[s]>> \in Seats \X Bookings
      BY <1>1 DEF Task, TaskRecord
    <3> QED
      BY <3>1, <3>2
  <2>3. /\ RowsSound(bookings', seatRow')
        /\ ChargesSound(bookings', seatRow', lapsed', charged')
        /\ EventsSound(bookings', seatRow', charged', published')
    BY <2>1, <2>2, StaleTables
  <2>4. u.pc = "insert" /\ u.b = b /\ u.stale = {}
    BY <1>1 DEF Task, TaskRecord
  <2> HIDE DEF u
  <2>5. TaskSound(u, bookings', seatRow', lapsed', charged')
    BY <1>1, <1>2, <2>1, <2>4 DEF HoldStep
  <2> QED
    BY <1>3, <2>1, <2>3, <2>5, StepSound
<1>7. CASE HoldInsert(w)
  <2>1. /\ seatRow' = [s \in Seats |-> IF s \in t.seats THEN b ELSE seatRow[s]]
        /\ UNCHANGED <<bookings, lapsed, charged, published>>
        /\ task' = [task EXCEPT ![w] = Idle] /\ t.pc = "insert"
        /\ \A s \in t.seats : seatRow[s] = None
    BY <1>7 DEF HoldInsert
  <2>2. \A c \in Bookings \ {b} : RowsOf(seatRow', c) = RowsOf(seatRow, c)
    BY <2>1, NoneAssumption DEF RowsOf
  <2>3. \A s \in Seats : seatRow'[s] \in Bookings \cup {None}
    BY <1>1, <2>1, Owners
  <2>4. /\ RowsSound(bookings', seatRow')
        /\ ChargesSound(bookings', seatRow', lapsed', charged')
        /\ EventsSound(bookings', seatRow', charged', published')
    BY <1>1, <2>1, <2>2, <2>3, HoldTables
  <2> QED
    BY <1>3, <2>1, <2>4, StepSound
<1>8. CASE HoldConflict(w)
  <2> DEFINE u == [t EXCEPT !.pc = "undoRelease"]
  <2>1. u.pc = "undoRelease" /\ u.b = b /\ u.stale = t.stale
    BY <1>1 DEF Task, TaskRecord
  <2>2. Continue(w, u)
    BY <1>8 DEF HoldConflict
  <2> HIDE DEF u
  <2>3. TaskSound(u, bookings, seatRow, lapsed, charged)
    BY <1>1, <1>2, <2>1 DEF HoldStep
  <2> QED
    BY <2>2, <2>3, MoveOn DEF Continue
<1>9. CASE HoldUndoRelease(w)
  <2> DEFINE u == [t EXCEPT !.pc = "undoDelete"]
  <2>1. u.pc = "undoDelete" /\ u.b = b /\ u.stale = t.stale
    BY <1>1 DEF Task, TaskRecord
  <2>2. /\ task' = [task EXCEPT ![w] = u]
        /\ UNCHANGED <<bookings, seatRow, lapsed, charged, published>>
    BY <1>9 DEF HoldUndoRelease
  <2> HIDE DEF u
  <2>3. TaskSound(u, bookings, seatRow, lapsed, charged)
    BY <1>1, <1>2, <2>1 DEF HoldStep
  <2> QED
    BY <2>2, <2>3, MoveOn
<1>10. CASE HoldUndoDelete(w)
  <2>1. /\ bookings' = [bookings EXCEPT ![b] = Absent]
        /\ seatRow' = [s \in Seats |-> IF seatRow[s] = b THEN None ELSE seatRow[s]]
        /\ UNCHANGED <<lapsed, charged, published>>
        /\ task' = [task EXCEPT ![w] = Idle]
    BY <1>10 DEF HoldUndoDelete
  <2>2. bookings'[b] = Absent /\ \A c \in Bookings \ {b} : bookings'[c] = bookings[c]
    BY <1>1, <2>1 DEF TypeOK
  <2>3. \A c \in Bookings \ {b} : RowsOf(seatRow', c) = RowsOf(seatRow, c)
    BY <2>1, NoneAssumption DEF RowsOf
  <2>4. \A s \in Seats : seatRow'[s] \in Bookings \cup {None} /\ seatRow'[s] # b
    BY <1>1, <2>1, Owners, NoneAssumption
  <2>5. /\ RowsSound(bookings', seatRow')
        /\ ChargesSound(bookings', seatRow', lapsed', charged')
        /\ EventsSound(bookings', seatRow', charged', published')
    BY <1>1, <2>1, <2>2, <2>3, <2>4, NewStages, HoldTables DEF Unsold
  <2> QED
    BY <1>3, <2>1, <2>5, StepSound
<1>11. QED
  BY <1>4, <1>5, <1>6, <1>7, <1>8, <1>9, <1>10

\* What is left to publish when a row is as the handler saved it.
LEMMA LeftToTell ==
  ASSUME TypeOK, Serial, NEW w \in Workers, Proceed(w) \/ Fail(w),
         task[w].pc \in {"release", "emit"}
  PROVE  \A i \in 1 .. Len(task[w].emits) :
           Tellable(StageOf(bookings[task[w].b]), RowsOf(seatRow, task[w].b),
                    task[w].emits[i], task[w].seats)
BY AtWork DEF TaskSound, SaveSound, MayTell

\* A look-up that goes on.
LEMMA CheckProceedSound ==
  ASSUME OneAtATime, TypeOK, Serial, NEW w \in Workers,
         ReadSeatRows(w) \/ ChargeExists(w) \/ SettledExtend(w) \/ SettledExists(w)
  PROVE  Serial'
<1> DEFINE t == task[w]
           b == t.b
           own == RowsOf(seatRow, b)
<1>1. /\ t \in Task /\ t # Idle /\ b \in Bookings /\ t.pc \in CheckStep
      /\ t.row = bookings[b] /\ StageOf(t.row) = "HELD" /\ t.seats = own
      /\ t.pc = "settledExtend" => own # {}
      /\ t.pc \in {"settledExists", "chargeExists"} => t.keys = own
  <2>1. Proceed(w) /\ t.pc \in CheckStep
    BY DEF Proceed, CheckStep, ReadSeatRows, ChargeExists, SettledExtend, SettledExists
  <2>2. t \in Task /\ t # Idle /\ b \in Bookings /\ CheckSound(t, bookings[b], own)
    BY <2>1, AtWork DEF TaskSound
  <2> QED
    BY <2>1, <2>2 DEF CheckSound
<1>2. own # {} => TaskSound(TakePayment(t), bookings, seatRow, lapsed, charged)
  BY <1>1, TakingSound
<1>3. /\ TaskSound(Expiring(t, <<>>), bookings, seatRow, lapsed, charged)
      /\ TaskSound(LatePayment(t), bookings, seatRow, lapsed, charged)
  BY <1>1, ExpiringSound DEF LatePayment
<1>4. CASE ReadSeatRows(w)
  <2>1. ASSUME NEW pc \in {"chargeExists", "settledExists"},
               Continue(w, [t EXCEPT !.pc = pc, !.keys = SeatsOf(b)])
        PROVE  Serial'
    <3> DEFINE u == [t EXCEPT !.pc = pc, !.keys = SeatsOf(b)]
    <3>1. u.pc = pc /\ u.b = b /\ u.row = t.row /\ u.seats = t.seats /\ u.keys = own
      BY <1>1 DEF Task, TaskRecord, RowsOf, SeatsOf
    <3>2. Continue(w, u)
      BY <2>1
    <3> HIDE DEF u
    <3>3. CheckSound(u, bookings[u.b], RowsOf(seatRow, u.b))
      BY <1>1, <3>1 DEF CheckSound
    <3>4. TaskSound(u, bookings, seatRow, lapsed, charged)
      BY <3>1, <3>3, CheckTask DEF CheckStep
    <3> QED
      BY <3>2, <3>4, MoveOn DEF Continue
  <2> QED
    BY <1>4, <2>1 DEF ReadSeatRows
<1>5. CASE ChargeExists(w)
  <2>1. CASE Continue(w, Expiring(t, <<>>))
    BY <1>3, <2>1, MoveOn DEF Continue
  <2>2. CASE /\ AllKeysExist(t.keys) /\ t.pc = "chargeExists"
             /\ charged' = charged \cup {b}
             /\ task' = [task EXCEPT ![w] = Idle]
             /\ UNCHANGED <<bookings, seatRow, lapsed, published>>
    <3>1. own # {}
      BY <1>1, <2>2 DEF AllKeysExist
    <3>2. ChargesSound(bookings', seatRow', lapsed', charged')
      BY <1>1, <2>2, <3>1 DEF Serial, ChargesSound
    <3>3. EventsSound(bookings', seatRow', charged', published')
      BY <2>2 DEF Serial, EventsSound
    <3>4. RowsSound(bookings', seatRow') /\ OnlyRefunds(published')
      BY <2>2 DEF Serial
    <3> QED
      BY <2>2, <3>2, <3>3, <3>4, StepSound
  <2> QED
    BY <1>5, <2>1, <2>2 DEF ChargeExists
<1>6. CASE SettledExtend(w)
  BY <1>1, <1>2, <1>3, <1>6, MoveOn DEF SettledExtend, Continue
<1>7. CASE SettledExists(w)
  <2>1. AllKeysExist(t.keys) => own # {}
    BY <1>1, <1>7 DEF SettledExists, AllKeysExist
  <2> QED
    BY <1>2, <1>3, <1>7, <2>1, MoveOn DEF SettledExists, Continue
<1>8. QED
  BY <1>4, <1>5, <1>6, <1>7

\* Saving the copy.
LEMMA SaveSoundly ==
  ASSUME OneAtATime, TypeOK, Serial, NEW w \in Workers, Save(w)
  PROVE  Serial'
<1> DEFINE t == task[w]
           b == t.b
           row == t.row
           u == IF t.release THEN [t EXCEPT !.pc = "release", !.row = Absent]
                             ELSE Emitting(t, t.emits)
<1>1. /\ t \in Task /\ t # Idle /\ b \in Bookings /\ row \in BookingRow
      /\ SaveSound(t, StageOf(bookings[b]), RowsOf(seatRow, b))
  BY AtWork DEF Proceed, TaskSound
<1>2. /\ t.pc = "save" /\ task' = [task EXCEPT ![w] = u]
      /\ bookings' = [bookings EXCEPT ![b] = row]
      /\ UNCHANGED <<seatRow, lapsed, charged, published>>
  BY DEF Save
<1>3. /\ Follows(StageOf(bookings[b]), StageOf(row)) /\ StageOf(row) # "NONE"
      /\ RowSound(row, RowsOf(seatRow, b))
      /\ MayTell(StageOf(row), RowsOf(seatRow, b), t)
  BY <1>1, <1>2 DEF SaveSound
<1>4. /\ RowsSound(bookings', seatRow')
      /\ ChargesSound(bookings', seatRow', lapsed', charged')
      /\ EventsSound(bookings', seatRow', charged', published')
      /\ OnlyRefunds(published')
  BY <1>1, <1>2, <1>3, SavedTables DEF Serial
<1>5. bookings'[b] = row
  BY <1>1, <1>2 DEF TypeOK
<1>6. \A i \in 1 .. Len(t.emits) :
        Tellable(StageOf(bookings'[b]), RowsOf(seatRow', b), t.emits[i], t.seats)
  BY <1>2, <1>3, <1>5 DEF MayTell
<1>7. CASE t.release
  <2> DEFINE v == [t EXCEPT !.pc = "release", !.row = Absent]
  <2>1. v.pc = "release" /\ v.b = b /\ v.emits = t.emits /\ v.seats = t.seats
    BY <1>1 DEF Task, TaskRecord
  <2> HIDE DEF v
  <2>2. HoldSound(v, StageOf(bookings'[b]), bookings', lapsed', charged')
    BY <2>1 DEF HoldSound, HoldStep
  <2>3. CheckSound(v, bookings'[b], RowsOf(seatRow', b))
    BY <2>1 DEF CheckSound, CheckStep
  <2>4. SaveSound(v, StageOf(bookings'[b]), RowsOf(seatRow', b))
    BY <1>6, <2>1 DEF SaveSound, MayTell
  <2>5. TaskSound(v, bookings', seatRow', lapsed', charged')
    BY <2>1, <2>2, <2>3, <2>4 DEF TaskSound
  <2>6. u = v
    BY <1>7 DEF v
  <2> QED
    BY <1>2, <1>4, <2>5, <2>6, StepSound
<1>8. CASE ~t.release
  <2>1. u = Emitting(t, t.emits)
    BY <1>8
  <2>2. u # Idle => TaskSound(u, bookings', seatRow', lapsed', charged')
    BY <1>1, <1>6, <2>1, EmittingSound
  <2> HIDE DEF u
  <2> QED
    BY <1>2, <1>4, <2>2, StepSound
<1>9. QED
  BY <1>7, <1>8

\* Publishing the next event.
LEMMA EmitSound ==
  ASSUME OneAtATime, TypeOK, Serial, NEW w \in Workers, Emit(w)
  PROVE  Serial'
<1> DEFINE t == task[w]
           b == t.b
           type == Head(t.emits)
           S == IF type = "booking.confirmed" THEN t.seats ELSE {}
           e == EventOf(type, b, S)
           x == StageOf(bookings[b])
           own == RowsOf(seatRow, b)
           u == Emitting(t, Tail(t.emits))
<1>1. /\ t \in Task /\ t # Idle /\ b \in Bookings /\ t.emits \in Seq(BookingEventType)
      /\ t.pc = "emit"
      /\ \A i \in 1 .. Len(t.emits) : Tellable(x, own, t.emits[i], t.seats)
  <2>1. Proceed(w) /\ t.pc = "emit"
    BY DEF Proceed, Emit
  <2> QED
    BY <2>1, AtWork, LeftToTell
<1>2. t.emits # <<>>
  BY <1>1 DEF Task
<1>3. type \in BookingEventType /\ Tellable(x, own, type, t.seats)
  BY <1>1, <1>2
<1>4. \A i \in 1 .. Len(Tail(t.emits)) : Tellable(x, own, Tail(t.emits)[i], t.seats)
  BY <1>1, <1>2
<1>5. /\ published' = published \cup {e} /\ task' = [task EXCEPT ![w] = u]
      /\ UNCHANGED <<bookings, seatRow, lapsed, charged>>
  BY DEF Emit
<1>6. e.type = type /\ e.booking = b /\ e.seats = S
  BY DEF EventOf
<1>7. Tells(x, own, type, S) /\ type # "payment.settled"
  BY <1>3 DEF Tellable, Tells, Sold, BookingEventType
<1>8. u # Idle => TaskSound(u, bookings, seatRow, lapsed, charged)
  BY <1>1, <1>4, EmittingSound
<1>9. \A f \in published : f.booking = b => Tells(x, own, f.type, f.seats)
  BY DEF Serial, EventsSound
<1> HIDE DEF S, e, x, own, u, type
<1>10. EventsSound(bookings', seatRow', charged', published')
  BY <1>5, <1>6, <1>7 DEF Serial, EventsSound, x, own
<1>11. OnlyRefunds(published')
  <2>1. ASSUME NEW f \in published, f.booking = b
        PROVE  /\ ~(type = "booking.confirmed" /\ f.type \in Voiding)
               /\ ~(f.type = "booking.confirmed" /\ type \in Voiding)
    BY <1>3, <1>9, <2>1 DEF Tellable, Tells, Dead, Sold
  <2>2. ~(type = "booking.confirmed" /\ type \in Voiding)
    BY DEF Voiding
  <2> QED
    BY <1>5, <1>6, <2>1, <2>2 DEF Serial, OnlyRefunds
<1>12. RowsSound(bookings', seatRow') /\ ChargesSound(bookings', seatRow', lapsed', charged')
  BY <1>5 DEF Serial
<1>13. QED
  BY <1>5, <1>8, <1>10, <1>11, <1>12, StepSound

\* A handler in flight goes on.
LEMMA ProceedSound ==
  ASSUME OneAtATime, TypeOK, Serial, NEW w \in Workers, Proceed(w)
  PROVE  Serial'
<1>1. CASE ReleaseLocks(w)
  <2> DEFINE u == Emitting(task[w], task[w].emits)
  <2>1. task[w].pc = "release" /\ task' = [task EXCEPT ![w] = u]
        /\ UNCHANGED <<bookings, seatRow, lapsed, charged, published>>
    BY <1>1 DEF ReleaseLocks
  <2>2. u # Idle => TaskSound(u, bookings, seatRow, lapsed, charged)
    BY <2>1, AtWork, LeftToTell, EmittingSound
  <2> QED
    BY <2>1, <2>2, MoveOn
<1>2. QED
  BY <1>1, HoldProceedSound, CheckProceedSound, SaveSoundly, EmitSound DEF Proceed

\* A call of a handler in flight fails.
LEMMA FailSound ==
  ASSUME OneAtATime, TypeOK, Serial, NEW w \in Workers, Fail(w)
  PROVE  Serial'
<1> DEFINE t == task[w]
           b == t.b
<1>1. t \in Task /\ t # Idle /\ TaskSound(t, bookings, seatRow, lapsed, charged)
  BY AtWork
<1>2. ASSUME Continue(w, Idle) PROVE Serial'
  BY <1>2, MoveOn DEF Continue
<1>3. ASSUME NEW pc \in {"undoRelease", "undoDelete", "insert"},
             t.pc \in HoldStep,
             pc = "insert" => t.pc \in {"findStale", "deleteStale"},
             NEW u, u.pc = pc, u.b = b
      PROVE  TaskSound(u, bookings, seatRow, lapsed, charged)
  <2>1. HoldSound(u, StageOf(bookings[u.b]), bookings, lapsed, charged)
    BY <1>3, Holding DEF HoldSound
  <2> QED
    BY <1>3, <2>1, HoldTask DEF HoldStep
<1>4. CASE HoldThrows(w)
  <2>1. CASE t.pc \in {"create", "insert"} /\ Continue(w, [t EXCEPT !.pc = "undoRelease"])
    <3> DEFINE u == [t EXCEPT !.pc = "undoRelease"]
    <3>1. u.pc = "undoRelease" /\ u.b = b
      BY <1>1 DEF Task, TaskRecord
    <3>2. Continue(w, u)
      BY <2>1
    <3> HIDE DEF u
    <3> QED
      BY <1>3, <2>1, <3>1, <3>2, MoveOn DEF Continue, HoldStep
  <2>2. CASE /\ t.pc \in {"findStale", "deleteStale"}
             /\ Continue(w, [t EXCEPT !.pc = "insert", !.stale = {}])
    <3> DEFINE u == [t EXCEPT !.pc = "insert", !.stale = {}]
    <3>1. u.pc = "insert" /\ u.b = b
      BY <1>1 DEF Task, TaskRecord
    <3>2. Continue(w, u)
      BY <2>2
    <3> HIDE DEF u
    <3> QED
      BY <1>3, <2>2, <3>1, <3>2, MoveOn DEF Continue, HoldStep
  <2> QED
    BY <1>4, <2>1, <2>2 DEF HoldThrows
<1>5. CASE CleanupFails(w)
  <2>1. CASE /\ t.pc = "release"
             /\ task' = [task EXCEPT ![w] = Emitting(t, t.emits)]
             /\ UNCHANGED <<bookings, seatRow, lapsed, charged, published>>
    <3> DEFINE u == Emitting(t, t.emits)
    <3>1. u # Idle => TaskSound(u, bookings, seatRow, lapsed, charged)
      BY <1>1, <2>1, LeftToTell, EmittingSound
    <3> QED
      BY <2>1, <3>1, MoveOn
  <2>2. CASE /\ t.pc = "undoRelease"
             /\ task' = [task EXCEPT ![w] = [t EXCEPT !.pc = "undoDelete"]]
             /\ UNCHANGED <<bookings, seatRow, lapsed, charged, published>>
    <3> DEFINE u == [t EXCEPT !.pc = "undoDelete"]
    <3>1. u.pc = "undoDelete" /\ u.b = b
      BY <1>1 DEF Task, TaskRecord
    <3>2. task' = [task EXCEPT ![w] = u]
      BY <2>2
    <3> HIDE DEF u
    <3> QED
      BY <1>3, <2>2, <3>1, <3>2, MoveOn DEF HoldStep
  <2> QED
    BY <1>2, <1>5, <2>1, <2>2 DEF CleanupFails
<1>6. CASE ExtendThrows(w)
  <2>1. t.pc = "settledExtend" /\ Continue(w, LatePayment(t))
    BY <1>6 DEF ExtendThrows
  <2>2. t.row = bookings[b] /\ StageOf(t.row) = "HELD" /\ t.seats = RowsOf(seatRow, b)
    BY <1>1, <2>1 DEF TaskSound, CheckSound, CheckStep
  <2>3. TaskSound(LatePayment(t), bookings, seatRow, lapsed, charged)
    BY <1>1, <2>2, ExpiringSound DEF LatePayment
  <2> QED
    BY <2>1, <2>3, MoveOn DEF Continue
<1>7. CASE HandlerThrows(w)
  BY <1>2, <1>7 DEF HandlerThrows
<1>8. QED
  BY <1>4, <1>5, <1>6, <1>7 DEF Fail

\* The process dies, or a hold's time is up.
LEMMA CrashSound ==
  ASSUME Serial, Crash
  PROVE  Serial'
BY DEF Serial, Crash, Free

LEMMA LapseSound ==
  ASSUME TypeOK, Serial, NEW b \in Bookings, HoldLapses(b)
  PROVE  Serial'
<1>1. /\ lapsed' = lapsed \cup {b}
      /\ UNCHANGED <<bookings, seatRow, task, charged, published>>
  BY DEF HoldLapses
<1>2. \A c : StaleIn(bookings, lapsed, c) => StaleIn(bookings, lapsed', c)
  BY <1>1 DEF StaleIn
<1>3. ASSUME NEW t, TaskSound(t, bookings, seatRow, lapsed, charged)
      PROVE  TaskSound(t, bookings, seatRow, lapsed', charged)
  BY <1>2, <1>3 DEF TaskSound, HoldSound
<1>4. ChargesSound(bookings, seatRow, lapsed', charged)
  BY <1>1 DEF Serial, ChargesSound
<1>5. QED
  BY <1>1, <1>3, <1>4 DEF Serial, Free

\* The other services: an invoice is paid or refunded after a charge.
LEMMA EnvironmentSound ==
  ASSUME TypeOK, Serial, Environment
  PROVE  Serial'
<1>1. PICK b \in Bookings, type \in Foreign :
        /\ Publish(type, b)
        /\ type = "payment.settled" => b \in charged
        /\ type \in Refunding => Published("booking.refund.requested", b)
  BY DEF Environment, PaymentSettles, PaymentFails, PaymentRefunds, TicketsIssue, Publish,
         Refunding
<1> DEFINE e == EventOf(type, b, {})
<1>2. /\ published' = published \cup {e}
      /\ UNCHANGED <<bookings, seatRow, lapsed, task, charged>>
  BY <1>1 DEF Publish, serviceVars
<1>3. e.type = type /\ e.booking = b
  BY DEF EventOf
<1>4. type # "booking.confirmed" /\ type \notin Voiding
  BY ForeignAssumption DEF PaymentEventType, Voiding
<1>5. type \in Refunding => StageOf(bookings[b]) \notin Unsold
  BY <1>1, Settled DEF Refunding
<1>6. Tells(StageOf(bookings[b]), RowsOf(seatRow, b), type, e.seats)
  BY <1>4, <1>5 DEF Tells
<1> HIDE DEF e
<1>7. EventsSound(bookings', seatRow', charged', published')
  BY <1>1, <1>2, <1>3, <1>6 DEF Serial, EventsSound
<1>8. OnlyRefunds(published')
  BY <1>2, <1>3, <1>4 DEF Serial, OnlyRefunds
<1>9. QED
  BY <1>2, <1>7, <1>8 DEF Serial, Free

-----------------------------------------------------------------------------
(* The theorems.                                                             *)

\* With one handler in flight at a time, every state of the service, whatever
\* fails and whatever the other services publish, is sound in the sense above.
THEOREM AlwaysSerial == ASSUME OneAtATime PROVE Spec => []Serial
<1>1. Init => Serial
  <2> SUFFICES ASSUME Init PROVE Serial
    OBVIOUS
  <2>1. /\ \A b \in Bookings : StageOf(bookings[b]) = "NONE"
        /\ \A s \in Seats : seatRow[s] = None
    BY NewStages DEF Init, ServiceInit
  <2>2. RowsSound(bookings, seatRow)
    BY <2>1 DEF RowsSound, RowSound, Dead, Sold
  <2> QED
    BY <2>2 DEF Init, ServiceInit, Serial, ChargesSound, EventsSound, OnlyRefunds, Free
<1>2. TypeOK /\ Justified /\ Serial /\ [Next]_vars => Serial'
  <2> SUFFICES ASSUME TypeOK, Justified, Serial, [Next]_vars
               PROVE  Serial'
    OBVIOUS
  <2>1. CASE ServiceRuns
    BY <2>1, HandlerSound, ProceedSound, LapseSound DEF ServiceRuns
  <2>2. CASE ServiceFaults
    <3>1. ASSUME NEW s \in Seats, LockExpires(s)
          PROVE  Serial'
      BY <3>1 DEF LockExpires, Serial, Free
    <3> QED
      BY <2>2, <3>1, FailSound, CrashSound DEF ServiceFaults
  <2>3. CASE Environment
    BY <2>3, EnvironmentSound
  <2>4. CASE UNCHANGED vars
    BY <2>4 DEF vars, serviceVars, Serial, Free
  <2> QED
    BY <2>1, <2>2, <2>3, <2>4 DEF Next
<1>3. QED
  BY <1>1, <1>2, TypeCorrect, AlwaysJustified, PTL DEF Spec

\* The status of a booking whose tickets were ordered.
LEMMA Ordered ==
  ASSUME TypeOK, Serial, NEW e \in published, e.type = "booking.confirmed"
  PROVE  /\ e.booking \in Bookings /\ bookings[e.booking] \in BookingRow
         /\ bookings[e.booking].status # "REFUNDED" =>
              /\ StageOf(bookings[e.booking]) \in Sold
              /\ e.seats # {} /\ e.seats = RowsOf(seatRow, e.booking)
<1>1. e.booking \in Bookings /\ bookings[e.booking] \in BookingRow
  BY DEF TypeOK, Event
<1>2. Tells(StageOf(bookings[e.booking]), RowsOf(seatRow, e.booking), e.type, e.seats)
  BY DEF Serial, EventsSound
<1>3. StageOf(bookings[e.booking]) = "REFUNDED" <=> bookings[e.booking].status = "REFUNDED"
  BY <1>1, Stages
<1>4. QED
  BY <1>1, <1>2, <1>3 DEF Tells

\* With one handler at a time, tickets are ordered for exactly the seat rows the
\* booking has and keeps until it is REFUNDED.
THEOREM TicketedSeatsAlwaysOwned ==
  ASSUME OneAtATime PROVE Spec => []TicketedSeatsOwned
<1>1. TypeOK /\ Serial => TicketedSeatsOwned
  BY Ordered DEF TicketedSeatsOwned, RowsOf, SeatsOf
<1>2. QED
  BY <1>1, TypeCorrect, AlwaysSerial, PTL

\* With one handler at a time, no two standing bookings ever have tickets ordered
\* for the same seat, for any number of seats and bookings, over crashes, lost
\* Redis keys and repeated events.
THEOREM NeverSoldTwice ==
  ASSUME OneAtATime PROVE Spec => []NoDoubleSale
<1>1. TypeOK /\ Serial => NoDoubleSale
  <2> SUFFICES ASSUME TypeOK, Serial, NEW e \in published, NEW f \in published,
                      e.type = "booking.confirmed", f.type = "booking.confirmed",
                      e.booking # f.booking, e.seats \cap f.seats # {},
                      \A b \in {e.booking, f.booking} :
                        bookings[b].status \in {"PENDING", "CONFIRMED", "REFUND_PENDING"}
               PROVE  FALSE
    BY DEF NoDoubleSale
  <2>1. e.seats = RowsOf(seatRow, e.booking) /\ f.seats = RowsOf(seatRow, f.booking)
    BY Ordered
  <2> QED
    BY <2>1 DEF RowsOf
<1>2. QED
  BY <1>1, TypeCorrect, AlwaysSerial, PTL

\* With one handler at a time, the seat map never shows a ticketed seat as free,
\* and never shows as free a seat whose row the next hold could not remove.
THEOREM SeatMapAlwaysHonest ==
  ASSUME OneAtATime PROVE Spec => []SeatMapHonest
<1>1. TypeOK /\ Serial => SeatMapHonest
  <2> SUFFICES ASSUME TypeOK, Serial
               PROVE  SeatMapHonest
    OBVIOUS
  <2>1. ASSUME NEW e \in published, e.type = "booking.confirmed",
               bookings[e.booking].status # "REFUNDED", NEW s \in e.seats
        PROVE  Availability(s) = "BOOKED"
    <3> DEFINE row == bookings[e.booking]
    <3>1. /\ row \in BookingRow /\ StageOf(row) \in Sold /\ seatRow[s] = e.booking
          /\ e.booking \in Bookings
      BY <2>1, Ordered DEF RowsOf
    <3>2. \/ row.status \in {"CONFIRMED", "REFUND_PENDING"}
          \/ row.status = "PENDING" /\ row.paidAt
      BY <3>1, Stages DEF Sold
    <3>3. SeatStatus(e.booking) = "BOOKED"
      BY <3>2 DEF SeatStatus
    <3> QED
      BY <3>1, <3>3, NoneAssumption DEF Availability
  <2>2. ASSUME NEW s \in Seats, Availability(s) = "AVAILABLE", seatRow[s] # None
        PROVE  Stale(seatRow[s])
    <3> DEFINE b == seatRow[s]
    <3>1. b \in Bookings /\ bookings[b] \in BookingRow
      BY <2>2, Owners DEF TypeOK
    <3>2. StageOf(bookings[b]) # "NONE"
      BY <2>2 DEF Serial, RowsSound
    <3>3. bookings[b].status \in Status /\ bookings[b].paidAt \in BOOLEAN
      BY <3>1, <3>2, Stages DEF BookingRow
    <3>4. SeatStatus(b) = "AVAILABLE"
      BY <2>2 DEF Availability
    <3> HIDE DEF b
    <3>5. CASE bookings[b].status \in {"CANCELLED", "EXPIRED", "REFUNDED"}
      BY <3>5 DEF Stale, b
    <3>6. CASE bookings[b].status \in {"CONFIRMED", "REFUND_PENDING"}
      BY <3>4, <3>6 DEF SeatStatus
    <3>7. CASE bookings[b].status = "PENDING"
      BY <3>3, <3>4, <3>7 DEF SeatStatus, Stale, b
    <3> QED
      BY <3>3, <3>5, <3>6, <3>7 DEF Status
  <2> QED
    BY <2>1, <2>2 DEF SeatMapHonest
<1>2. QED
  BY <1>1, TypeCorrect, AlwaysSerial, PTL

\* With one handler at a time, a booking whose tickets were ordered is never
\* announced as cancelled or expired: its tickets fall only with its refund.
THEOREM AlwaysVoidedOnlyByRefund ==
  ASSUME OneAtATime PROVE Spec => []VoidedOnlyByRefund
<1>1. Serial => VoidedOnlyByRefund
  BY DEF Serial, OnlyRefunds, VoidedOnlyByRefund, Published, Among, Voiding
<1>2. QED
  BY <1>1, AlwaysSerial, PTL

\* A step of the service moves at most one booking, along the life cycle.
LEMMA StepFollows ==
  ASSUME OneAtATime, TypeOK, Serial, [Next]_vars
  PROVE  \/ bookings' = bookings
         \/ \E b \in Bookings, row \in BookingRow :
              /\ bookings' = [bookings EXCEPT ![b] = row]
              /\ Follows(StageOf(bookings[b]), StageOf(row))
<1> USE DEF Continue
<1>1. CASE UNCHANGED vars
  BY <1>1 DEF vars, serviceVars
<1>2. CASE Environment
  BY <1>2 DEF Environment, PaymentSettles, PaymentFails, PaymentRefunds, TicketsIssue,
              Publish, serviceVars
<1>3. CASE ServiceFaults
  BY <1>3 DEF ServiceFaults, Crash, Fail, HoldThrows, CleanupFails, ExtendThrows,
              HandlerThrows, LockExpires
<1>4. ASSUME NEW w \in Workers, NEW b \in Bookings, Handler(w, b)
      PROVE  bookings' = bookings
  BY <1>4 DEF Handler, HoldAcquire, Begin, Cancel, PrepareCharge, OnPaymentSettled,
              OnPaymentFailed, OnRefundPending, OnRefunded, OnRefundFailed,
              OnTicketsIssued, ExpireStaleBooking, RetryConfirmation, RetryRefund
<1>5. ASSUME NEW w \in Workers, Proceed(w), bookings' # bookings
      PROVE  \E row \in BookingRow :
               /\ bookings' = [bookings EXCEPT ![task[w].b] = row]
               /\ Follows(StageOf(bookings[task[w].b]), StageOf(row))
  <2>1. HoldCreate(w) \/ HoldUndoDelete(w) \/ Save(w)
    BY <1>5 DEF Proceed, HoldFindStale, HoldDeleteStale, HoldInsert, HoldConflict,
                HoldUndoRelease, ReadSeatRows, ChargeExists, SettledExtend,
                SettledExists, ReleaseLocks, Emit
  <2>2. CASE HoldCreate(w)
    <3>1. StageOf(bookings[task[w].b]) = "NONE"
      BY <1>5, <2>2, Holding DEF HoldCreate, HoldStep
    <3>2. Follows("NONE", "HELD")
      BY DEF Follows, Lifecycle!After
    <3> QED
      BY <2>2, <3>1, <3>2, NewStages, RowType DEF HoldCreate
  <2>3. CASE HoldUndoDelete(w)
    <3>1. StageOf(bookings[task[w].b]) \in Unsold
      BY <1>5, <2>3, Holding DEF HoldUndoDelete, HoldStep
    <3>2. Follows("NONE", "NONE") /\ Follows("HELD", "NONE")
      BY DEF Follows, Lifecycle!After
    <3> QED
      BY <2>3, <3>1, <3>2, NewStages, RowType DEF HoldUndoDelete, Unsold
  <2>4. CASE Save(w)
    BY <1>5, <2>4, AtWork DEF Save, TaskSound, SaveSound
  <2> QED
    BY <2>1, <2>2, <2>3, <2>4
<1>6. CASE ServiceRuns
  <2>1. ASSUME NEW w \in Workers, Proceed(w)
        PROVE  task[w].b \in Bookings
    BY <2>1, AtWork
  <2>2. ASSUME NEW b \in Bookings, HoldLapses(b) PROVE bookings' = bookings
    BY <2>2 DEF HoldLapses
  <2> QED
    BY <1>4, <1>5, <1>6, <2>1, <2>2 DEF ServiceRuns
<1>7. QED
  BY <1>1, <1>2, <1>3, <1>6 DEF Next

\* With one handler at a time, booking-service implements the life cycle: no
\* step undoes a payment or revives a finished booking.
THEOREM LifecycleFollowed ==
  ASSUME OneAtATime PROVE Spec => FollowsLifecycle
<1> DEFINE stage == [b \in Bookings |-> StageOf(bookings[b])]
<1>1. Init => Lifecycle!Init
  BY NewStages DEF Init, ServiceInit, Lifecycle!Init
<1>2. TypeOK /\ Serial /\ [Next]_vars => [Lifecycle!Next]_stage
  <2> SUFFICES ASSUME TypeOK, Serial, [Next]_vars
               PROVE  [Lifecycle!Next]_stage
    OBVIOUS
  <2>1. CASE bookings' = bookings
    BY <2>1
  <2>2. ASSUME NEW b \in Bookings, NEW row \in BookingRow,
               bookings' = [bookings EXCEPT ![b] = row],
               Follows(StageOf(bookings[b]), StageOf(row))
        PROVE  [Lifecycle!Next]_stage
    <3>1. stage' = [stage EXCEPT ![b] = StageOf(row)]
      BY <2>2 DEF TypeOK
    <3>2. CASE StageOf(row) = StageOf(bookings[b])
      BY <3>1, <3>2
    <3>3. CASE StageOf(row) \in Lifecycle!After[stage[b]]
      BY <3>1, <3>3 DEF Lifecycle!Next, Lifecycle!Advance
    <3> QED
      BY <2>2, <3>2, <3>3 DEF Follows
  <2> QED
    BY <2>1, <2>2, StepFollows
<1>3. QED
  BY <1>1, <1>2, TypeCorrect, AlwaysSerial, PTL DEF Spec, FollowsLifecycle, Lifecycle!Spec

=============================================================================
