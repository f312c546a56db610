--------------------------- MODULE TicketService ---------------------------
(***************************************************************************)
(* ticket-service and the e-mails notification-service sends for it.       *)
(*                                                                         *)
(* Here a message is an item of a queue, delivered once: it leaves its     *)
(* queue when a handler starts and is acknowledged when the handler ends.  *)
(* A handler that throws loses it (nack without requeue); a process that   *)
(* dies before the acknowledgement gets it again.  Messages of a queue are *)
(* handled in any order, several at a time (prefetch is not limited).      *)
(* Equal messages waiting in one queue are one element of the set.         *)
(*                                                                         *)
(* issue() takes one step per call of the database or the broker; the      *)
(* delete of void() is a single statement.                                 *)
(***************************************************************************)
EXTENDS Functions

CONSTANTS Bookings,
          Seats,        \* the seats of a booking: bookings are alike
          Workers,      \* handlers that may be in flight together
          Codes         \* bound: ticket codes in use together

VARIABLES tickets,      \* table tickets
          queue,        \* ticket-service's queue: events of booking-service
          issuedQueue,  \* booking-service's queue: tickets.issued
          mailQueue,    \* notification-service's queue: tickets.issued
          job,          \* what each worker is doing
          mailed,       \* e-mails with ticket codes that were sent
          dropped       \* bookings that lost a message to a nack

ticketVars == <<tickets, queue, issuedQueue, mailQueue, job, mailed, dropped>>

\* The events of booking-service that ticket-service subscribes to.
Terminal == {"booking.refunded", "booking.cancelled", "booking.expired"}

Event == [type : Terminal \cup {"booking.confirmed"}, booking : Bookings]

\* A row; title, theatre, times and labels are copied from the event.
Ticket == [booking : Bookings, seat : Seats, code : Codes]

TicketsOf(b) == {t \in tickets : t.booking = b}

\* The door scan: the public look-up of a code.
GetByCode(code) == {t \in tickets : t.code = code}

\* tickets.issued carries the rows.
Issued(b, rows) == [booking |-> b, tickets |-> rows]

Job == [pc : {"insert", "findRaced", "announce"}, event : Event,
        rows : SUBSET Ticket]

Idle == [pc |-> "idle"]

Free(w) == job[w] = Idle

-----------------------------------------------------------------------------
(* onConfirmed(): issue(), then publish tickets.issued.                      *)

\* Tickets that exist are announced as they are.
OnConfirmed(w, e) ==
  /\ Free(w) /\ e \in queue /\ e.type = "booking.confirmed"
  /\ queue' = queue \ {e}
  /\ LET existing == TicketsOf(e.booking) IN
     job' = [job EXCEPT ![w] =
               [pc |-> IF existing = {} THEN "insert" ELSE "announce",
                event |-> e, rows |-> existing]]
  /\ UNCHANGED <<tickets, issuedQueue, mailQueue, mailed, dropped>>

\* The rows are inserted in one transaction, each with a random code.
Insert(w) ==
  /\ job[w].pc = "insert"
  /\ \E code \in Injection(Seats, Codes) :
       LET b == job[w].event.booking
           rows == {[booking |-> b, seat |-> s, code |-> code[s]] : s \in Seats}
       IN  /\ TicketsOf(b) = {}
           /\ \A s \in Seats : GetByCode(code[s]) = {}
           /\ tickets' = tickets \cup rows
           /\ job' = [job EXCEPT ![w].pc = "announce", ![w].rows = rows]
  /\ UNCHANGED <<queue, issuedQueue, mailQueue, mailed, dropped>>

\* UNIQUE (booking_id, seat_id), and rows come and go together: another handler was faster.
InsertConflict(w) ==
  /\ job[w].pc = "insert"
  /\ TicketsOf(job[w].event.booking) # {}
  /\ job' = [job EXCEPT ![w].pc = "findRaced"]
  /\ UNCHANGED <<tickets, queue, issuedQueue, mailQueue, mailed, dropped>>

\* Mutant of FindRaced: what was to be inserted is returned (and lost).
FindRacedOwn(w) ==
  /\ job[w].pc = "findRaced"
  /\ \E code \in Injection(Seats, Codes) :
       job' = [job EXCEPT ![w].pc = "announce",
                 ![w].rows = {[booking |-> job[w].event.booking, seat |-> s,
                               code |-> code[s]] : s \in Seats}]
  /\ UNCHANGED <<tickets, queue, issuedQueue, mailQueue, mailed, dropped>>

\* Its tickets are taken; if they were voided meanwhile the error stands.
FindRaced(w) ==
  /\ job[w].pc = "findRaced"
  /\ LET raced == TicketsOf(job[w].event.booking) IN
     \/ /\ raced # {}
        /\ job' = [job EXCEPT ![w].pc = "announce", ![w].rows = raced]
        /\ UNCHANGED dropped
     \/ /\ raced = {}
        /\ job' = [job EXCEPT ![w] = Idle]
        /\ dropped' = dropped \cup {job[w].event.booking}
  /\ UNCHANGED <<tickets, queue, issuedQueue, mailQueue, mailed>>

\* Mutant of Announce: the handler is not over when it has published.
AnnounceOn(w) ==
  /\ job[w].pc = "announce"
  /\ LET m == Issued(job[w].event.booking, job[w].rows) IN
     /\ issuedQueue' = issuedQueue \cup {m}
     /\ mailQueue' = mailQueue \cup {m}
  /\ job' = [job EXCEPT ![w].pc = "announced"]
  /\ UNCHANGED <<tickets, queue, mailed, dropped>>

Announce(w) ==
  /\ job[w].pc = "announce"
  /\ LET m == Issued(job[w].event.booking, job[w].rows) IN
     /\ issuedQueue' = issuedQueue \cup {m}
     /\ mailQueue' = mailQueue \cup {m}
  /\ job' = [job EXCEPT ![w] = Idle]
  /\ UNCHANGED <<tickets, queue, mailed, dropped>>

-----------------------------------------------------------------------------
(* onRefunded(), onCancelled(), onExpired(): void().  Nobody consumes the    *)
(* tickets.voided that follows.                                              *)

Void(e) ==
  /\ e \in queue /\ e.type \in Terminal
  /\ queue' = queue \ {e}
  /\ tickets' = tickets \ TicketsOf(e.booking)
  /\ UNCHANGED <<issuedQueue, mailQueue, job, mailed, dropped>>

-----------------------------------------------------------------------------
(* Faults.                                                                   *)

\* A call throws, or a random code is taken: the message is nacked.
IssueThrows(w) ==
  /\ ~Free(w)
  /\ job' = [job EXCEPT ![w] = Idle]
  /\ dropped' = dropped \cup {job[w].event.booking}
  /\ UNCHANGED <<tickets, queue, issuedQueue, mailQueue, mailed>>

VoidThrows(e) ==
  /\ e \in queue /\ e.type \in Terminal
  /\ queue' = queue \ {e}
  /\ dropped' = dropped \cup {e.booking}
  /\ UNCHANGED <<tickets, issuedQueue, mailQueue, job, mailed>>

\* The process dies: what it had not acknowledged is delivered again.
Crash ==
  /\ \E w \in Workers : ~Free(w)
  /\ queue' = queue \cup {job[w].event : w \in {v \in Workers : ~Free(v)}}
  /\ job' = [w \in Workers |-> Idle]
  /\ UNCHANGED <<tickets, issuedQueue, mailQueue, mailed, dropped>>

-----------------------------------------------------------------------------
(* notification-service: bookingConfirmed() never throws and its queue needs *)
(* no acknowledgement, so an e-mail that is not sent is not tried again.     *)

Mail(m) ==
  /\ m \in mailQueue
  /\ mailQueue' = mailQueue \ {m}
  /\ mailed' = mailed \cup {m}
  /\ UNCHANGED <<tickets, queue, issuedQueue, job, dropped>>

\* No recipient, an error of Resend, or the process dies.
MailLost(m) ==
  /\ m \in mailQueue
  /\ mailQueue' = mailQueue \ {m}
  /\ UNCHANGED <<tickets, queue, issuedQueue, job, mailed, dropped>>

-----------------------------------------------------------------------------

TicketInit ==
  /\ tickets = {} /\ queue = {} /\ issuedQueue = {} /\ mailQueue = {}
  /\ job = [w \in Workers |-> Idle]
  /\ mailed = {} /\ dropped = {}

\* A handler in flight goes on.
Proceed(w) == Insert(w) \/ InsertConflict(w) \/ FindRaced(w) \/ Announce(w)

TicketRuns ==
  \/ \E w \in Workers : Proceed(w) \/ \E e \in queue : OnConfirmed(w, e)
  \/ \E e \in queue : Void(e)
  \/ \E m \in mailQueue : Mail(m)

TicketFaults ==
  \/ \E w \in Workers : IssueThrows(w)
  \/ \E e \in queue : VoidThrows(e)
  \/ Crash
  \/ \E m \in mailQueue : MailLost(m)

=============================================================================
