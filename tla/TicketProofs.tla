---------------------------- MODULE TicketProofs ----------------------------
(***************************************************************************)
(* The tickets a customer is told of are the ones at the door, for any     *)
(* number of bookings, seats, codes and handlers in flight.                *)
(***************************************************************************)
EXTENDS TicketSystem, TLAPS

-----------------------------------------------------------------------------
(* The invariant.  What events, messages and handlers in flight say of a     *)
(* booking is said of its stage S[b] and of the table T, so that it can be   *)
(* carried from one state to the next.                                       *)

PaidFor == {"PAID", "CONFIRMED", "REFUND_PENDING", "REFUNDED"}

Over == {"CANCELLED", "EXPIRED", "REFUNDED"}

RowsOf(T, b) == {t \in T : t.booking = b}

Whole(rows) == {t.seat : t \in rows} = Seats

EventOK(S, e) ==
  /\ e.type = "booking.confirmed" => S[e.booking] \in PaidFor
  /\ e.type = "booking.refunded" => S[e.booking] = "REFUNDED"
  /\ e.type \in {"booking.cancelled", "booking.expired"} => S[e.booking] \in Over

\* These rows may be told about booking b.
TellOK(S, T, b, rows) ==
  /\ S[b] \in PaidFor
  /\ S[b] # "REFUNDED" => rows = RowsOf(T, b) /\ Whole(rows)

JobOK(S, T, j) ==
  j # Idle => /\ j.event.type = "booking.confirmed" /\ EventOK(S, j.event)
              /\ j.pc = "announce" => TellOK(S, T, j.event.booking, j.rows)

TicketsWhole(T) == \A b \in Bookings : RowsOf(T, b) = {} \/ Whole(RowsOf(T, b))

Messages == issuedQueue \cup mailQueue \cup mailed

Inv ==
  /\ TypeOK
  /\ \A e \in queue : EventOK(stage, e)
  /\ \A m \in Messages : TellOK(stage, tickets, m.booking, m.tickets)
  /\ \A w \in Workers : JobOK(stage, tickets, job[w])
  /\ TicketsWhole(tickets)

-----------------------------------------------------------------------------
(* Steps of booking-service.                                                 *)

\* No step takes back that a booking was paid for, is over or is refunded.
Later(S, R) ==
  \A b \in Bookings : /\ S[b] \in PaidFor => R[b] \in PaidFor
                      /\ S[b] \in Over => R[b] \in Over
                      /\ S[b] = "REFUNDED" => R[b] = "REFUNDED"

\* What was said of the earlier stages stands.
LEMMA StillOK ==
  ASSUME NEW S, NEW R, Later(S, R), NEW T
  PROVE  /\ \A e \in Event : EventOK(S, e) => EventOK(R, e)
         /\ \A b \in Bookings : \A rows : TellOK(S, T, b, rows) => TellOK(R, T, b, rows)
         /\ \A j \in Job \cup {Idle} : JobOK(S, T, j) => JobOK(R, T, j)
<1>1. \A e \in Event : e.booking \in Bookings
  BY DEF Event
<1>2. \A e \in Event : EventOK(S, e) => EventOK(R, e)
  BY <1>1 DEF Later, EventOK
<1>3. \A b \in Bookings : \A rows : TellOK(S, T, b, rows) => TellOK(R, T, b, rows)
  BY DEF Later, TellOK
<1>4. \A j \in Job \cup {Idle} : j # Idle => j.event \in Event
  BY DEF Job
<1> QED BY <1>1, <1>2, <1>3, <1>4 DEF JobOK

\* A booking enters a stage, and at most an event about that is queued; at most a
\* message of ticket-service is taken for it.
LEMMA StageInv ==
  ASSUME Inv, NEW b \in Bookings, NEW s \in Lifecycle!Stage,
         stage[b] \in PaidFor => s \in PaidFor,
         stage[b] \in Over => s \in Over,
         stage[b] = "REFUNDED" => s = "REFUNDED",
         stage' = [stage EXCEPT ![b] = s],
         NEW type \in Terminal \cup {"booking.confirmed"}, EventOK(stage', Told(type, b)),
         queue' \in {queue, queue \cup {Told(type, b)}},
         dropped' \in {dropped, dropped \cup {b}}, ticketed' \in {ticketed, ticketed \cup {b}},
         issuedQueue' \subseteq issuedQueue,
         UNCHANGED <<tickets, mailQueue, job, mailed, outage>>
  PROVE  Inv'
<1>1. /\ stage' \in [Bookings -> Lifecycle!Stage]
      /\ stage'[b] = s /\ \A c \in Bookings \ {b} : stage'[c] = stage[c]
  BY DEF Inv, TypeOK
<1>2. Later(stage, stage')
  BY <1>1 DEF Later
<1>3. Told(type, b) \in Event
  BY DEF Told, Event
<1>4. TypeOK'
  BY <1>1, <1>3 DEF Inv, TypeOK
<1>5. \A e \in queue' : EventOK(stage', e)
  BY <1>2, StillOK DEF Inv, TypeOK
<1>6. \A m \in Messages' : TellOK(stage', tickets, m.booking, m.tickets)
  <2>1. Messages' \subseteq Messages
    BY DEF Messages
  <2>2. \A m \in Messages : m.booking \in Bookings
    BY DEF Inv, TypeOK, Messages
  <2> QED BY <1>2, <2>1, <2>2, StillOK DEF Inv
<1>7. \A w \in Workers : JobOK(stage', tickets, job[w])
  BY <1>2, StillOK DEF Inv, TypeOK
<1> QED BY <1>4, <1>5, <1>6, <1>7 DEF Inv, Messages

\* The handlers and crons of booking-service.
LEMMA BookingInv ==
  ASSUME Inv, NEW b \in Bookings, Booking(b)
  PROVE  Inv'
<1> USE DEF PaidFor, Over, Terminal
<1>1. stage[b] \in Lifecycle!Stage
  BY DEF Inv, TypeOK
<1>2. ASSUME NEW s \in Lifecycle!Stage, NEW type \in Terminal \cup {"booking.confirmed"},
             Enter(b, s, type), UNCHANGED <<issuedQueue, ticketed>>,
             stage[b] \in PaidFor => s \in PaidFor,
             stage[b] \in Over => s \in Over,
             stage[b] = "REFUNDED" => s = "REFUNDED",
             \/ type = "booking.confirmed" /\ s = "PAID"
             \/ type = "booking.refunded" /\ s = "REFUNDED"
             \/ type \in {"booking.cancelled", "booking.expired"} /\ s \in Over
      PROVE  Inv'
  <2>1. stage' = [stage EXCEPT ![b] = s] /\ stage'[b] = s
    BY <1>2 DEF Enter, Inv, TypeOK
  <2>2. EventOK(stage', Told(type, b))
    BY <1>2, <2>1 DEF EventOK, Told
  <2> QED BY <1>2, <2>1, <2>2, StageInv DEF Enter
<1>3. ASSUME NEW s \in Lifecycle!Stage, stage' = [stage EXCEPT ![b] = s],
             UNCHANGED <<ticketVars, ticketed, outage>>,
             s \in {"HELD", "REFUND_PENDING", "CONFIRMED"},
             \/ stage[b] = "NONE"
             \/ stage[b] \in {"PAID", "CONFIRMED", "REFUND_PENDING"} /\ s # "HELD"
      PROVE  Inv'
  <2>1. stage'[b] = s
    BY <1>3 DEF Inv, TypeOK
  <2>2. CASE s \in PaidFor
    <3>1. EventOK(stage', Told("booking.confirmed", b))
      BY <2>1, <2>2 DEF EventOK, Told
    <3> QED BY <1>3, <2>2, <3>1, StageInv DEF ticketVars
  <2>3. CASE s = "HELD"
    <3>1. Later(stage, stage') /\ stage' \in [Bookings -> Lifecycle!Stage]
      BY <1>3, <2>3 DEF Later, Inv, TypeOK
    <3>2. \A m \in Messages : m.booking \in Bookings
      BY DEF Inv, TypeOK, Messages
    <3> QED BY <1>3, <3>1, <3>2, StillOK DEF Inv, TypeOK, ticketVars, Messages
  <2> QED BY <1>3, <2>2, <2>3
<1>4. {"NONE", "HELD", "PAID", "CONFIRMED", "EXPIRED", "CANCELLED", "REFUND_PENDING", "REFUNDED"}
        = Lifecycle!Stage
  BY DEF Lifecycle!Stage
<1>5. CASE Hold(b)
  BY <1>3, <1>4, <1>5 DEF Hold
<1>6. CASE HoldEnds(b)
  BY <1>2, <1>4, <1>6 DEF HoldEnds
<1>7. CASE Settle(b)
  BY <1>2, <1>4, <1>7 DEF Settle
<1>8. CASE RetryConfirmation(b)
  BY <1>2, <1>4, <1>8 DEF RetryConfirmation
<1>9. CASE AskRefund(b)
  BY <1>3, <1>4, <1>9 DEF AskRefund
<1>10. CASE Refunded(b)
  BY <1>2, <1>4, <1>10 DEF Refunded
<1>11. CASE OnRefundFailed(b)
  <2>1. CASE b \notin ticketed /\ Enter(b, "PAID", "booking.confirmed") /\ UNCHANGED issuedQueue
    BY <1>2, <1>4, <1>11, <2>1 DEF OnRefundFailed
  <2>2. CASE stage' = [stage EXCEPT ![b] = "CONFIRMED"] /\ UNCHANGED <<ticketVars, outage>>
    BY <1>3, <1>4, <1>11, <2>2 DEF OnRefundFailed
  <2> QED BY <1>11, <2>1, <2>2 DEF OnRefundFailed
<1> QED BY <1>5, <1>6, <1>7, <1>8, <1>9, <1>10, <1>11 DEF Booking

\* tickets.issued: taken, refused, answered with a terminal event, or lost.
LEMMA OnTicketsIssuedInv ==
  ASSUME Inv, NEW m \in issuedQueue, OnTicketsIssued(m) \/ OnTicketsIssuedThrows(m)
  PROVE  Inv'
<1> DEFINE b == m.booking
<1> USE DEF PaidFor, Over, Terminal
<1>1. b \in Bookings /\ stage[b] \in Lifecycle!Stage /\ stage[b] \in PaidFor
  BY DEF Inv, TypeOK, Messages, TellOK
<1>2. issuedQueue' \subseteq issuedQueue
  BY DEF OnTicketsIssued, OnTicketsIssuedThrows
<1>3. ASSUME NEW s \in {"CONFIRMED", "REFUNDED"}, stage' = [stage EXCEPT ![b] = s],
             s = "CONFIRMED" => stage[b] \in {"PAID", "CONFIRMED"},
             queue' \in {queue, queue \cup {Told("booking.refunded", b)}},
             s = "CONFIRMED" => queue' = queue,
             dropped' \in {dropped, dropped \cup {b}}, ticketed' \in {ticketed, ticketed \cup {b}},
             UNCHANGED <<tickets, mailQueue, job, mailed, outage>>
      PROVE  Inv'
  <2>1. stage'[b] = s /\ s \in Lifecycle!Stage
    BY <1>1, <1>3 DEF Inv, TypeOK, Lifecycle!Stage
  <2>2. CASE s = "REFUNDED"
    <3>1. EventOK(stage', Told("booking.refunded", b))
      BY <2>1, <2>2 DEF EventOK, Told
    <3> QED BY <1>1, <1>2, <1>3, <2>1, <2>2, <3>1, StageInv
  <2>3. CASE s = "CONFIRMED"
    <3>1. EventOK(stage', Told("booking.confirmed", b))
      BY <2>1, <2>3 DEF EventOK, Told
    <3> QED BY <1>1, <1>2, <1>3, <2>1, <2>3, <3>1, StageInv
  <2> QED BY <2>2, <2>3
<1>4. ASSUME UNCHANGED <<tickets, queue, mailQueue, job, mailed, stage, ticketed, outage>>,
             dropped' \subseteq Bookings
      PROVE  Inv'
  BY <1>2, <1>4 DEF Inv, TypeOK, Messages
<1>5. CASE OnTicketsIssuedThrows(m)
  BY <1>1, <1>4, <1>5 DEF OnTicketsIssuedThrows, Inv, TypeOK
<1>6. CASE OnTicketsIssued(m)
  <2>1. CASE stage[b] \in {"PAID", "CONFIRMED"}
    BY <1>3, <1>6, <2>1 DEF OnTicketsIssued
  <2>2. CASE stage[b] = "REFUND_PENDING"
    BY <1>4, <1>6, <2>2 DEF OnTicketsIssued, Inv, TypeOK
  <2>3. CASE stage[b] = "REFUNDED"
    BY <1>3, <1>6, <2>3 DEF OnTicketsIssued, Enter
  <2> QED BY <1>1, <2>1, <2>2, <2>3
<1> QED BY <1>5, <1>6

-----------------------------------------------------------------------------
(* Steps of ticket-service and notification-service.                         *)

\* A handler goes on or ends; what it or an earlier one said is moved along, and
\* its event may be queued again.
LEMMA JobInv ==
  ASSUME Inv, UNCHANGED <<tickets, stage, ticketed, outage>>, dropped' \subseteq Bookings,
         queue' \subseteq Event, \A e \in queue' : EventOK(stage, e),
         job' \in [Workers -> Job \cup {Idle}],
         \A w \in Workers : JobOK(stage, tickets, job'[w]),
         Messages' \subseteq [booking : Bookings, tickets : SUBSET Ticket],
         \A m \in Messages' : TellOK(stage, tickets, m.booking, m.tickets)
  PROVE  Inv'
BY DEF Inv, TypeOK, Messages

\* One handler goes on or ends.
LEMMA OneJobInv ==
  ASSUME Inv, NEW w \in Workers, NEW j \in Job \cup {Idle}, JobOK(stage, tickets, j),
         job' = [job EXCEPT ![w] = j], UNCHANGED <<tickets, stage, ticketed, outage>>,
         queue' \subseteq queue, dropped' \subseteq Bookings,
         Messages' \subseteq [booking : Bookings, tickets : SUBSET Ticket],
         \A m \in Messages' : TellOK(stage, tickets, m.booking, m.tickets)
  PROVE  Inv'
<1>1. job' \in [Workers -> Job \cup {Idle}] /\ \A v \in Workers : JobOK(stage, tickets, job'[v])
  BY DEF Inv, TypeOK
<1>2. queue' \subseteq Event /\ \A e \in queue' : EventOK(stage, e)
  BY DEF Inv, TypeOK
<1> QED BY <1>1, <1>2, JobInv

\* What a handler in flight is.
LEMMA JobKinds ==
  ASSUME Inv, NEW w \in Workers, job[w] # Idle
  PROVE  /\ job[w] \in Job /\ job[w].event \in Event /\ job[w].event.booking \in Bookings
         /\ job[w].event.type = "booking.confirmed" /\ EventOK(stage, job[w].event)
         /\ stage[job[w].event.booking] \in PaidFor
<1>1. job[w] \in Job
  BY DEF Inv, TypeOK
<1>2. job[w].event \in Event /\ job[w].event.booking \in Bookings
  BY <1>1 DEF Job, Event
<1>3. job[w].event.type = "booking.confirmed" /\ EventOK(stage, job[w].event)
  BY DEF Inv, JobOK
<1> QED BY <1>1, <1>2, <1>3 DEF EventOK

\* A handler may announce the tickets its booking has.
LEMMA AnnounceOK ==
  ASSUME Inv, NEW j \in Job, j.event.type = "booking.confirmed", EventOK(stage, j.event),
         TicketsOf(j.event.booking) # {}, j.rows = TicketsOf(j.event.booking)
  PROVE  JobOK(stage, tickets, j)
<1>1. j.event.booking \in Bookings /\ j.rows = RowsOf(tickets, j.event.booking)
  BY DEF Job, Event, TicketsOf, RowsOf
<1>2. TellOK(stage, tickets, j.event.booking, j.rows)
  BY <1>1 DEF TellOK, EventOK, Inv, TicketsWhole
<1> QED BY <1>2 DEF JobOK

\* issue() and the message that follows it, up to the insert.
LEMMA IssueInv ==
  ASSUME Inv, NEW w \in Workers, UNCHANGED <<stage, ticketed, outage>>
  PROVE  /\ \A e \in queue : OnConfirmed(w, e) => Inv'
         /\ InsertConflict(w) \/ FindRaced(w) \/ Announce(w) \/ IssueThrows(w) => Inv'
<1> DEFINE t == job[w]
           b == t.event.booking
<1>1. /\ Messages \subseteq [booking : Bookings, tickets : SUBSET Ticket]
      /\ \A m \in Messages : TellOK(stage, tickets, m.booking, m.tickets)
      /\ dropped \subseteq Bookings
  BY DEF Inv, TypeOK, Messages
<1>2. Idle \in Job \cup {Idle} /\ JobOK(stage, tickets, Idle)
  BY DEF JobOK
<1>3. ASSUME NEW e \in queue, OnConfirmed(w, e) PROVE Inv'
  <2>1. e \in Event /\ e.type = "booking.confirmed" /\ EventOK(stage, e) /\ queue' \subseteq queue
        /\ Messages' = Messages
    BY <1>3 DEF OnConfirmed, Inv, TypeOK, Messages
  <2>2. CASE TicketsOf(e.booking) = {}
    <3> DEFINE j == [pc |-> "insert", event |-> e, rows |-> {}]
    <3>1. j \in Job /\ JobOK(stage, tickets, j)
      BY <2>1 DEF Job, JobOK
    <3>2. job' = [job EXCEPT ![w] = j]
      BY <1>3, <2>2 DEF OnConfirmed
    <3> HIDE DEF j
    <3> QED BY <1>1, <1>3, <2>1, <3>1, <3>2, OneJobInv DEF OnConfirmed
  <2>3. CASE TicketsOf(e.booking) # {}
    <3> DEFINE j == [pc |-> "announce", event |-> e, rows |-> TicketsOf(e.booking)]
    <3>1. j \in Job /\ j.event = e /\ j.rows = TicketsOf(e.booking)
      BY <2>1 DEF Job, TicketsOf, Inv, TypeOK
    <3>2. job' = [job EXCEPT ![w] = j]
      BY <1>3, <2>3 DEF OnConfirmed
    <3> HIDE DEF j
    <3>3. JobOK(stage, tickets, j)
      BY <2>1, <2>3, <3>1, AnnounceOK
    <3> QED BY <1>1, <1>3, <2>1, <3>1, <3>2, <3>3, OneJobInv DEF OnConfirmed
  <2> QED BY <2>2, <2>3
<1>4. CASE InsertConflict(w)
  <2> DEFINE j == [t EXCEPT !.pc = "findRaced"]
  <2>1. t # Idle
    BY <1>4 DEF InsertConflict, Idle
  <2>2. j \in Job /\ j.pc = "findRaced" /\ j.event = t.event
    BY <2>1, JobKinds DEF Job
  <2>3. job' = [job EXCEPT ![w] = j]
    BY <1>4 DEF InsertConflict
  <2> HIDE DEF j
  <2>4. JobOK(stage, tickets, j)
    BY <2>1, <2>2, JobKinds DEF JobOK
  <2> QED BY <1>1, <1>4, <2>2, <2>3, <2>4, OneJobInv DEF InsertConflict, Messages
<1>5. CASE FindRaced(w)
  <2>1. t # Idle
    BY <1>5 DEF FindRaced, Idle
  <2>2. CASE TicketsOf(b) = {}
    BY <1>1, <1>2, <1>5, <2>1, <2>2, JobKinds, OneJobInv DEF FindRaced, Messages
  <2>3. CASE TicketsOf(b) # {}
    <3> DEFINE j == [[t EXCEPT !.pc = "announce"] EXCEPT !.rows = TicketsOf(b)]
    <3>1. TicketsOf(b) \in SUBSET Ticket
      BY DEF TicketsOf, Inv, TypeOK
    <3>2. j \in Job /\ j.event = t.event /\ j.rows = TicketsOf(b)
      BY <2>1, <3>1, JobKinds DEF Job
    <3>3. job' = [job EXCEPT ![w] = j]
      BY <1>5, <2>3 DEF FindRaced, Inv, TypeOK
    <3> HIDE DEF j
    <3>4. JobOK(stage, tickets, j)
      BY <2>1, <2>3, <3>2, JobKinds, AnnounceOK
    <3> QED BY <1>1, <1>5, <2>3, <3>2, <3>3, <3>4, OneJobInv DEF FindRaced, Messages
  <2> QED BY <2>2, <2>3
<1>6. CASE Announce(w)
  <2>1. t # Idle
    BY <1>6 DEF Announce, Idle
  <2>2. TellOK(stage, tickets, b, t.rows) /\ t.rows \in SUBSET Ticket
    BY <1>6, <2>1, JobKinds DEF Announce, Inv, JobOK, Job
  <2>3. Messages' \subseteq Messages \cup {Issued(b, t.rows)}
    BY <1>6 DEF Announce, Messages
  <2>4. /\ Messages' \subseteq [booking : Bookings, tickets : SUBSET Ticket]
        /\ \A m \in Messages' : TellOK(stage, tickets, m.booking, m.tickets)
    BY <1>1, <2>1, <2>2, <2>3, JobKinds DEF Issued
  <2> QED BY <1>1, <1>2, <1>6, <2>4, OneJobInv DEF Announce
<1>7. CASE IssueThrows(w)
  <2>1. t # Idle
    BY <1>7 DEF IssueThrows, Free
  <2> QED BY <1>1, <1>2, <1>7, <2>1, JobKinds, OneJobInv DEF IssueThrows, Messages
<1> QED BY <1>3, <1>4, <1>5, <1>6, <1>7

\* The insert: whatever was told of the booking before was the empty set of
\* tickets, of a booking without seats.
LEMMA InsertInv ==
  ASSUME Inv, NEW w \in Workers, Insert(w), UNCHANGED <<stage, ticketed, outage>>
  PROVE  Inv'
<1> DEFINE t == job[w]
           b == t.event.booking
<1>1. t # Idle
  BY DEF Insert, Idle
<1>2. /\ t \in Job /\ b \in Bookings /\ t.event.type = "booking.confirmed"
      /\ EventOK(stage, t.event) /\ stage[b] \in PaidFor
  BY <1>1, JobKinds
<1>3. PICK code \in [Seats -> Codes] :
        LET rows == {[booking |-> b, seat |-> s, code |-> code[s]] : s \in Seats}
        IN  /\ tickets' = tickets \cup rows
            /\ job' = [job EXCEPT ![w].pc = "announce", ![w].rows = rows]
  BY DEF Insert, Injection
<1> DEFINE rows == {[booking |-> b, seat |-> s, code |-> code[s]] : s \in Seats}
           j == [[t EXCEPT !.pc = "announce"] EXCEPT !.rows = rows]
<1>4. /\ rows \subseteq Ticket /\ Whole(rows) /\ \A r \in rows : r.booking = b
  <2> DEFINE row(s) == [booking |-> b, seat |-> s, code |-> code[s]]
  <2>1. \A s \in Seats : row(s) \in Ticket /\ row(s).seat = s /\ row(s).booking = b
    BY <1>2 DEF Ticket
  <2>2. rows = {row(s) : s \in Seats}
    OBVIOUS
  <2> HIDE DEF rows, row
  <2>3. {r.seat : r \in rows} = Seats
    BY <2>1, <2>2
  <2> QED BY <2>1, <2>2, <2>3 DEF Whole
<1>5. tickets' = tickets \cup rows /\ job' = [job EXCEPT ![w] = j]
  BY <1>3 DEF Inv, TypeOK
<1>6. j \in Job /\ j.event = t.event /\ j.rows = rows
  BY <1>2, <1>4 DEF Job
<1>7. RowsOf(tickets, b) = {}
  BY DEF Insert, TicketsOf, RowsOf
<1> HIDE DEF rows, j
<1>8. /\ RowsOf(tickets', b) = rows
      /\ \A c \in Bookings \ {b} : RowsOf(tickets', c) = RowsOf(tickets, c)
  BY <1>4, <1>5, <1>7 DEF RowsOf
<1>9. ASSUME NEW c \in Bookings, NEW told, TellOK(stage, tickets, c, told)
      PROVE  TellOK(stage, tickets', c, told)
  <2>1. CASE c = b /\ stage[b] # "REFUNDED"
    <3>1. told = {} /\ Seats = {}
      BY <1>7, <1>9, <2>1 DEF TellOK, Whole
    <3>2. rows = {}
      BY <3>1 DEF rows
    <3> QED BY <1>8, <1>9, <2>1, <3>1, <3>2 DEF TellOK
  <2>2. CASE c # b \/ stage[b] = "REFUNDED"
    BY <1>8, <1>9, <2>2 DEF TellOK
  <2> QED BY <2>1, <2>2
<1>10. job' \in [Workers -> Job \cup {Idle}] /\ job'[w] = j /\ \A v \in Workers \ {w} : job'[v] = job[v]
  BY <1>5, <1>6 DEF Inv, TypeOK
<1>11. TypeOK'
  BY <1>4, <1>5, <1>10 DEF Insert, Inv, TypeOK
<1>12. TicketsWhole(tickets')
  BY <1>4, <1>8 DEF Inv, TicketsWhole
<1>13. \A v \in Workers : JobOK(stage, tickets', job'[v])
  <2>1. TellOK(stage, tickets', b, rows)
    BY <1>2, <1>4, <1>8 DEF TellOK
  <2>2. JobOK(stage, tickets', j)
    BY <1>2, <1>6, <2>1 DEF JobOK
  <2>3. ASSUME NEW v \in Workers \ {w} PROVE JobOK(stage, tickets', job[v])
    BY <1>9, JobKinds DEF Inv, JobOK
  <2> QED BY <1>10, <2>2, <2>3
<1>14. \A m \in Messages' : TellOK(stage, tickets', m.booking, m.tickets)
  <2>1. Messages' = Messages
    BY DEF Insert, Messages
  <2>2. \A m \in Messages : m.booking \in Bookings
    BY DEF Inv, TypeOK, Messages
  <2> QED BY <1>9, <2>1, <2>2 DEF Inv
<1>15. \A e \in queue' : EventOK(stage, e)
  BY DEF Insert, Inv
<1> QED BY <1>11, <1>12, <1>13, <1>14, <1>15 DEF Inv, Messages

\* Tickets are voided only for bookings nobody is told of, or refunded ones.
LEMMA VoidInv ==
  ASSUME Inv, NEW e \in queue, UNCHANGED <<stage, ticketed, outage>>
  PROVE  Void(e) \/ VoidThrows(e) => Inv'
<1>1. CASE VoidThrows(e)
  <2>1. e.booking \in Bookings
    BY DEF Inv, TypeOK, Event
  <2> QED BY <1>1, <2>1 DEF VoidThrows, Inv, TypeOK, Messages
<1>2. CASE Void(e)
  <2> DEFINE b == e.booking
  <2>1. e.type \in Terminal /\ EventOK(stage, e) /\ tickets' = tickets \ TicketsOf(b)
    BY <1>2 DEF Void, Inv
  <2>2. stage[b] \notin PaidFor \/ stage[b] = "REFUNDED"
    BY <2>1 DEF Terminal, EventOK, Over, PaidFor
  <2>3. \A c \in Bookings : RowsOf(tickets', c) = IF c = b THEN {} ELSE RowsOf(tickets, c)
    BY <2>1 DEF RowsOf, TicketsOf
  <2>4. \A c \in Bookings : \A told : TellOK(stage, tickets, c, told) => TellOK(stage, tickets', c, told)
    BY <2>2, <2>3 DEF TellOK
  <2>5. TypeOK' /\ TicketsWhole(tickets') /\ \A f \in queue' : EventOK(stage, f)
    BY <1>2, <2>1, <2>3 DEF Void, Inv, TypeOK, TicketsWhole
  <2>6. \A v \in Workers : JobOK(stage, tickets', job[v])
    BY <2>4, JobKinds DEF Inv, JobOK
  <2>7. \A m \in Messages : m.booking \in Bookings
    BY DEF Inv, TypeOK, Messages
  <2>8. \A m \in Messages : TellOK(stage, tickets', m.booking, m.tickets)
    BY <2>4, <2>7 DEF Inv
  <2> QED BY <1>2, <2>5, <2>6, <2>8 DEF Void, Inv, Messages
<1> QED BY <1>1, <1>2

\* A crash puts events back that were true; e-mails say what was said before.
LEMMA OtherInv ==
  ASSUME Inv, UNCHANGED <<stage, ticketed, outage>>
  PROVE  /\ Crash => Inv'
         /\ \A m \in mailQueue : Mail(m) \/ MailLost(m) => Inv'
<1>1. CASE Crash
  <2>1. \A e \in queue' : e \in Event /\ EventOK(stage, e)
    BY <1>1, JobKinds DEF Crash, Free, Inv, TypeOK
  <2>2. job' \in [Workers -> Job \cup {Idle}] /\ \A w \in Workers : JobOK(stage, tickets, job'[w])
    BY <1>1 DEF Crash, JobOK
  <2> QED BY <1>1, <2>1, <2>2, JobInv DEF Crash, Inv, TypeOK, Messages
<1>2. ASSUME NEW m \in mailQueue, Mail(m) \/ MailLost(m) PROVE Inv'
  <2>1. Messages' \subseteq Messages
    BY <1>2 DEF Mail, MailLost, Messages
  <2> QED BY <1>2, <2>1, JobInv DEF Mail, MailLost, Inv, TypeOK, Messages
<1> QED BY <1>1, <1>2

-----------------------------------------------------------------------------

\* Every step keeps the invariant.
LEMMA StepInv ==
  ASSUME Inv, [Next]_vars
  PROVE  Inv'
<1>1. CASE UNCHANGED vars
  BY <1>1 DEF vars, ticketVars, Inv, TypeOK, Messages
<1>2. CASE (TicketRuns \/ TicketFaults) /\ UNCHANGED <<stage, ticketed, outage>>
  <2>1. ASSUME NEW w \in Workers, Proceed(w) PROVE Inv'
    BY <1>2, <2>1, IssueInv, InsertInv DEF Proceed
  <2> QED BY <1>2, <2>1, IssueInv, VoidInv, OtherInv DEF TicketRuns, TicketFaults
<1>3. CASE OutageEnds
  BY <1>3 DEF OutageEnds, ticketVars, Inv, TypeOK, Messages
<1> QED BY <1>1, <1>2, <1>3, BookingInv, OnTicketsIssuedInv DEF Next

\* The invariant holds at first.
LEMMA InitInv == Init => Inv
<1> SUFFICES ASSUME Init PROVE Inv
  OBVIOUS
<1>1. TypeOK
  BY DEF Init, TicketInit, TypeOK, Lifecycle!Stage
<1> QED BY <1>1 DEF Init, TicketInit, Inv, Messages, JobOK, TicketsWhole, RowsOf

\* The invariant holds forever.
LEMMA AlwaysInv == Spec => []Inv
<1>1. Inv /\ [Next]_vars => Inv'
  BY StepInv
<1> QED BY <1>1, InitInv, PTL DEF Spec

\* Types.
THEOREM TypeCorrect == Spec => []TypeOK
<1>1. Inv => TypeOK
  BY DEF Inv
<1> QED BY <1>1, AlwaysInv, PTL

\* Until the booking is refunded, every replay, race and redelivery of
\* booking.confirmed names the tickets that open the door, one for each seat.
THEOREM SameTicketsAlwaysTold == Spec => []SameTicketsTold
<1>1. ASSUME Inv PROVE SameTicketsTold
  <2> SUFFICES ASSUME NEW b \in Bookings, stage[b] # "REFUNDED", NEW told \in ToldTickets(b)
               PROVE  told = TicketsOf(b) /\ Whole(told)
    BY DEF SameTicketsTold, Whole
  <2>1. CASE \E m \in Messages : m.booking = b /\ m.tickets = told
    BY <1>1, <2>1 DEF Inv, TellOK, RowsOf, TicketsOf
  <2>2. CASE \E w \in Workers : job[w].pc = "announce" /\ job[w].event.booking = b /\ job[w].rows = told
    BY <1>1, <2>2 DEF Inv, JobOK, Idle, TellOK, RowsOf, TicketsOf
  <2> QED BY <2>1, <2>2 DEF ToldTickets, Messages
<1> QED BY <1>1, AlwaysInv, PTL

\* booking-service, as this module supposes it, goes through the stages its own
\* module promises.
THEOREM LifecycleFollowed == Spec => FollowsLifecycle
<1>1. Init => Lifecycle!Init
  BY DEF Init, Lifecycle!Init
<1>2. ASSUME Inv, [Next]_vars PROVE [Lifecycle!Next]_stage
  <2>1. ASSUME NEW b \in Bookings, NEW s \in Lifecycle!After[stage[b]] \cup {stage[b]},
               stage' = [stage EXCEPT ![b] = s]
        PROVE  [Lifecycle!Next]_stage
    BY <1>2, <2>1 DEF Lifecycle!Next, Lifecycle!Advance, Inv, TypeOK
  <2>2. ASSUME NEW b \in Bookings, Booking(b) PROVE [Lifecycle!Next]_stage
    BY <2>1, <2>2 DEF Booking, Hold, HoldEnds, Settle, RetryConfirmation, AskRefund, Refunded,
                      OnRefundFailed, Enter, Lifecycle!After
  <2>3. ASSUME NEW m \in issuedQueue, OnTicketsIssued(m) PROVE [Lifecycle!Next]_stage
    <3>1. m.booking \in Bookings
      BY <1>2 DEF Inv, TypeOK
    <3> QED BY <2>1, <2>3, <3>1 DEF OnTicketsIssued, Enter, Lifecycle!After
  <2> QED BY <1>2, <2>2, <2>3 DEF Next, OnTicketsIssuedThrows, OutageEnds, vars
<1> QED BY <1>1, <1>2, AlwaysInv, PTL DEF Spec, FollowsLifecycle, Lifecycle!Spec

=============================================================================
