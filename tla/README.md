# CinX: specifications of the ticket purchase saga

CinX sells cinema tickets.  Seven NestJS services and a Vue client cooperate;
the purchase of a ticket is a saga owned by booking-service that runs over
Redis locks, four Postgres databases, a payment provider (Xendit) and RabbitMQ
events, with no distributed transaction and no outbox.  Around it stand the
catalogue the tickets are sold from, and the web client with its session and
its booking pages.  These TLA+ modules model the saga, the catalogue and the
client from the source, check them with TLC and prove part of what they say
with TLAPS.

## Inventory

| Part | State | Operations | Talks to |
|---|---|---|---|
| gateway | none | REST to gRPC; `pay` = `PrepareCharge`, `Charge`, `Get`; `seatMap` = the theatre's seats merged with availability | all services |
| booking-service | tables `bookings`, `booking_seats` (UNIQUE showtime, seat); Redis seat locks; in-memory lock handles | `hold`, `cancel`, `prepareCharge`; appliers of payment and ticket events; crons `expireStaleBookings`, `retryConfirmations`, `retryRefunds` | cinema, user (gRPC), exchange |
| payment-service | table `payments` (one per booking) | `charge`, `webhook`, `syncPaymentStatus`; `requestRefund`, `expireInvoice` on booking events; cron `reconcileRefunds` | Xendit, exchange |
| ticket-service | table `tickets` (UNIQUE booking, seat) | `issue`, `void` on booking events | exchange |
| cinema-service | tables `movies`, `theaters`, `seats`, `showtimes`, `genres` | create, update, remove; overlap check; seat grid; lists | - |
| user-service | table `users` (UNIQUE e-mail) | `register`, `login`, `me` | - |
| notification-service | none | e-mails on events | Resend |
| exchange | RabbitMQ topic exchange, durable queues | publish; ack after the handler, nack without requeue when it throws | - |
| web client | auth store (and `localStorage`), router, the refs of the page in view | booking pages, session, lists, operator console | gateway |
| shared package | none | contracts, gRPC helpers, tracing | - |

The events between the three saga services:

    booking.confirmed        booking -> ticket      order tickets
    booking.cancelled        booking -> payment, ticket   expire invoice, void
    booking.expired          booking -> payment, ticket   expire invoice, void
    booking.refund.requested booking -> payment     refund
    booking.refunded         booking -> ticket      void
    payment.settled / failed / refund_pending / refunded / refund_failed
                             payment -> booking
    tickets.issued           ticket  -> booking

What is hard in this code:

* Every handler reads a row, awaits (Redis, cinema-service, provider), and then
  saves the whole copy.  Nothing locks the row or checks a version, Nest
  consumes with unlimited prefetch, and RPCs, events and crons overlap at every
  await.
* Events are published after the save, outside any transaction: a crash or a
  broker error between the two loses the event; a nacked event is gone.
  Duplicates come from redelivery and from producers that publish again.
* A seat is protected by a Redis lock with a TTL, by the unique index, and by
  the rule which seat rows count as dead.  The three are changed in separate
  steps.
* Money can arrive late: after the hold lapsed, was cancelled or was refunded.
* The schedule is guarded by a read before a write: no constraint of the
  database forbids two showtimes at one time in one theatre.
* The pages of the client apply answers whenever they come, to whatever the
  page shows by then; timers, watchers and buttons send requests that overtake
  each other.

What makes each part correct: booking-service never sells a seat twice, never
makes up money, never leaves a hold or a paid booking hanging; payment-service
never loses a settlement and never refunds twice; ticket-service holds valid
tickets for exactly the bookings that stand; cinema-service never schedules two
showtimes into one theatre at a time and keeps every showtime's movie and
theatre; a page never shows or enables what is not so, and never stays busy;
the signed-in user is the owner of the token.  `PROJECT.json` lists the hazards
at their lines.

## Modules

| Module | What it is |
|---|---|
| `Exchange` | the RabbitMQ exchange and the event contracts |
| `BookingService` | booking-service: state, handlers, steps, faults |
| `BookingSystem` | booking-service with the events payment- and ticket-service may publish; the specification and its properties |
| `BookingLifecycle` | abstract: the stages one booking goes through |
| `BookingLiveness` | the system with an outage that ends, and fairness |
| `BookingProofs` | TLAPS proofs about `BookingSystem`, for handlers that interleave |
| `BookingSerialProofs` | more of them, for handlers one at a time |
| `PaymentService` | payment-service and the provider behind it: state, handlers, steps, faults |
| `PaymentSystem` | payment-service with the events the other services may publish; the specification and its properties |
| `PaymentLiveness` | the same with an outage that ends, and fairness |
| `PaymentProofs` | TLAPS proofs about `PaymentSystem` |
| `Saga` | booking-service and payment-service over one exchange, and the gateway's `pay` between them; the specification and its properties |
| `SagaProofs` | TLAPS proofs about `Saga`: the two services compose |
| `TicketService` | ticket-service and the e-mails sent for it, over acknowledged queues |
| `TicketSystem` | ticket-service with the booking-service it answers to; the specification and its properties |
| `TicketProofs` | TLAPS proofs about `TicketSystem` |
| `Catalogue` | cinema-service: movies, theatres, showtimes; specification and properties |
| `CatalogueProofs` | TLAPS proofs about `Catalogue` |
| `Gateway` | the gateway as the booking pages see it: requests in flight and what they do |
| `BookingPages` | the seat picker, checkout, confirmation and history pages |
| `WebBooking` | the pages over the gateway; the specification and its properties |
| `WebBookingProofs` | TLAPS proofs about `WebBooking` |
| `Session` | auth store, router guard, login and register, and user-service behind them |
| `SessionProofs` | TLAPS proofs about `Session` |
| `MCBooking`, `MCBookingLiveness`, `MCPayment`, `MCPaymentLiveness`, `MCSaga`, `MCTicket`, `MCCatalogue`, `MCWebBooking`, `MCSession` | instances for TLC |

`BookingLifecycle` ties the parts together: `BookingSystem` refines it for
handlers one at a time, and `TicketSystem` and `Gateway` use it for the
booking-service behind them.  `Saga` puts booking-service and payment-service
behind one exchange and refines both `BookingSystem` and `PaymentSystem`.

### Exchange

`published` is the set of all events ever handed to the exchange.  A handler
may take any event of the set at any later time: this is late, duplicated,
reordered and lost delivery in one.  An event keeps its type, its booking and,
for `booking.confirmed`, the seats to ticket.

### BookingService

`bookings` is the table, one row per booking id: `status`,
`cancellationReason`, and for the timestamps `paidAt`, `ticketsIssuedAt`,
`refundRequestedAt` whether they are set.  `confirmedAt` is set in the same
assignment as `ticketsIssuedAt` and shares its column.
`confirmationAttemptedAt` only throttles a cron and is left out.  `seatRow` is `booking_seats`,
`lock` the Redis keys with the booking whose redlock owns each, `activeLocks` the
handles kept in memory, `lapsed` the bookings whose `expiresAt` is past, and
`charged` the bookings `prepareCharge` let through to `Charge`.

A handler is a task of a worker: the action that starts it does what the code
does up to the first await that matters (load the row, decide on it) and leaves
in `task` the copy and what remains: the steps of `hold`, the checks of
`hasLiveSeatLocks`, then `Save`, `ReleaseLocks`, `Emit`, each an action.
`Save` writes the whole copy: TypeORM's `save` compares the entity with the row
as it is then and updates every column that differs.  Its own read and write
are one step here.  The number of workers is the number of handlers in flight:
one worker runs handlers one after the other, two let them overlap.

| Code | Action |
|---|---|
| `hold` | `HoldAcquire`, `HoldCreate`, `HoldFindStale`, `HoldDeleteStale`, `HoldInsert`; `HoldConflict`, `HoldThrows`, `HoldUndoRelease`, `HoldUndoDelete` |
| `cancel`, `prepareCharge` | `Cancel`, `PrepareCharge`, `ReadSeatRows`, `ChargeExists` |
| `onPaymentSettled`, `isHoldLive` | `OnPaymentSettled`, `SettledExtend`, `ExtendThrows`, `ReadSeatRows`, `SettledExists` |
| other appliers | `OnPaymentFailed`, `OnRefundPending`, `OnRefunded`, `OnRefundFailed`, `OnTicketsIssued` |
| `reconcileCron` | `ExpireStaleBooking`, `RetryConfirmation`, `RetryRefund` |
| `save`, `releaseLocks`, publisher | `Save`, `ReleaseLocks`, `Emit` |
| a call throws | `HoldThrows`, `CleanupFails`, `ExtendThrows`, `HandlerThrows` |
| process, Redis, clock | `Crash`, `LockExpires`, `HoldLapses` |

A handler whose early return changes nothing is no step of the model.  Left
out: `validateSeats` (the seats of the model exist and are enabled), amounts,
the customer look-up for e-mail addresses, several replicas (a second replica
is a process without lock handles, which `Crash` also produces).

### BookingSystem, BookingLifecycle, BookingLiveness

payment-service and ticket-service appear as an environment that may publish
what their code can publish given the events so far: `payment.settled` and
`payment.failed` for a charged booking, a refund's outcome after
`booking.refund.requested`, `tickets.issued` after a `booking.confirmed` with
seats.  `Foreign` restricts an instance to some of these events.  `Spec` has all
faults; `CalmSpec` has none, so what it violates is interleaving alone.

`BookingLifecycle` is what a booking looks like from outside: NONE, HELD, PAID,
CONFIRMED, EXPIRED, CANCELLED, REFUND_PENDING, REFUNDED and which may follow
which.  The refinement mapping `StageOf` splits PENDING by `paidAt`.

`BookingLiveness` adds an outage during which calls throw and the process
crashes at will, and which ends.

### PaymentService, PaymentSystem, PaymentLiveness

`payments` is the table (at most one row per booking: `status`, `invoiceId`,
`refundId`), `job` the handlers in flight, each with the copy it loaded.
`invoices` and `refunds` are the provider's books, `offered` the invoices whose
checkout URL was returned.  The provider is external: it creates what it is
asked to, the customer pays an offered invoice or it lapses, a refund settles
later or at once.  Its calls may be refused, may throw, or may take effect and
lose their answer.

| Code | Action |
|---|---|
| `charge` | `Charge`, `ChargeGetInvoice`, `ChargeCreateInvoice`, `Save`, `SaveConflict` |
| `webhook`, `syncPaymentStatus` | `Webhook`; `SyncPaymentStatus`, `SyncGetInvoice` |
| `applyPaid`, `applyFailed` | operators `ApplyPaid`, `ApplyFailed` |
| `requestRefund` | `RequestRefund`, `RefundCreated`, `ProviderRefuses`; its catch block is `Thrown` |
| `expireInvoice` | `ExpireInvoice`, `InvoiceExpireCall` |
| `reconcileRefunds` | `ReconcileRefund`, `GetRefund`, one payment of a pass |
| `save`, publisher | `Save`, `Emit` |
| a call throws, an answer is lost | `Throws`, `AnswerLost`, `RefundLookupThrows` |
| process | `Crash` |
| customer and provider | `CustomerPays`, `InvoiceLapses`, `RefundSettles` |

`webhook` finds the payment by invoice and else by the external reference,
which is a function of the booking; both lead to the row of the booking the
invoice was made for, so `Webhook` goes there.  Left out: amounts, redirect
URLs, invoice durations, the callback token, and the several payments of one
pass of `reconcileRefunds` (each is a job of its own).  The other services appear
as the events they may publish (`OthersPublish`; `Foreign` restricts an instance
to some of them).  booking-service requests a refund only after `payment.settled`:
that is assumed here and a property of `Saga`.

### Saga

`Saga` extends `BookingSystem` and takes `PaymentSystem` as an instance on the same
`published`.  What each module assumes of the other service is replaced by that
service: `BookingSteps` and `PaymentSteps` are the steps of one with the tables of
the other unchanged.  `Pay` is the call `Charge` of the gateway's `pay`, for a
booking that `prepareCharge` let through, some time ago for all the model knows;
`PayUnprepared` is its mutant.  ticket-service is still what `BookingSystem`
assumes (`TicketSteps`).  The workers of the two services are separate
(`PaymentWorkers`).

`Composed` says that a behaviour of the saga is a behaviour of `BookingSystem` and
one of `PaymentSystem`.  `MoneyIsReal` goes from one end to the other: what
booking-service says of money is in the provider's books.

### TicketService, TicketSystem

`tickets` is the table.  Unlike `Exchange`, a message here is an item of a
queue: it leaves the queue when its handler starts, comes back if the process
dies before the acknowledgement, and is lost if the handler throws (nack without
requeue); `dropped` remembers the bookings that lost one.  `issuedQueue` and
`mailQueue` are the queues `tickets.issued` goes to, `mailed` the e-mails sent.

| Code | Action |
|---|---|
| `onConfirmed`, `issue` | `OnConfirmed` (look-up), `Insert` or `InsertConflict` (the transaction and the unique index), `FindRaced`, `Announce` |
| `onRefunded`, `onCancelled`, `onExpired`, `void` | `Void` |
| a call throws, the process dies | `IssueThrows`, `VoidThrows`, `Crash` |
| notification-service `bookingConfirmed` | `Mail`, `MailLost` |

In `TicketSystem` booking-service is its life cycle, one step per handler, with
what the handler publishes: `Hold`, `HoldEnds`, `Settle`, `RetryConfirmation`,
`AskRefund`, `Refunded`, `OnRefundFailed`, `OnTicketsIssued`,
`OnTicketsIssuedThrows`.  These steps stay within `BookingLifecycle`: that is
`FollowsLifecycle` here, which is proved only, and of booking-service itself
`FollowsLifecycle` of `BookingSystem`.

### Catalogue

`movies`, `theaters`, `showtimes` are the tables, reduced to what decides:
durations, layouts and whether the seats were saved, and movie, theatre and start
of a showtime.  `task` is what each request still has to do after its first read.
`suspect` is history: the showtimes whose slot nobody vouches for, because it
was written without a check, after an overtaken check, or because its movie
changed its length (`Written`, `SaveMovie`); `raced` marks the tasks whose check
was overtaken.

| Code | Action |
|---|---|
| showtimes `create`, `update`, `remove` | `CreateShowtime`, `UpdateShowtime`, `TouchShowtime`; `CheckSlot`, `SaveShowtime`; `RemoveShowtime` |
| `assertNoOverlap` | `Candidates`, `NoOverlapFound`, `overlaps`, `endOf` |
| movies `create`, `update`, `remove` | `CreateMovie`; `UpdateMovie`, `SaveMovie`; `RemoveMovie`, `DeleteMovie` |
| theatres `create`, `update`, `remove` | `CreateTheater`, `SaveSeats`; `UpdateTheater`, `SaveTheater`; `RemoveTheater` |
| `categoryForRowCol`, `generateSeatGrid` | `Category`, `SeatGrid` |
| a call throws, the process dies | `HandlerLost` |

Foreign keys are guards of the saves.  An id a request in flight still names is
not used for a new row (`Unnamed`): ids are fresh uuids.  `TimeAssumption`
supposes that no movie is longer than the window (240 minutes); the DTO accepts
any whole number, see the hazards.

### Gateway, BookingPages, WebBooking

`calls` holds the requests in flight, each in a slot: sent, in the middle of its
service calls, or answered and not yet applied.  `stage` and `lapsed` stand for
the services: bookings follow `BookingLifecycle` at any time (`BookingMoves`).
`page` is the page that is mounted, with its refs; a request without effects is
forgotten with its page, one with effects is served all the same.
`overlapped` (the history page read its list twice at a time) and `blind` (seats
picked while a new map was fetched) are history.

| Code | Action |
|---|---|
| gateway `get`, `syncPaymentStatus`, `list`, `seatMap`, `hold`, `cancel` | `ServeView`, `ServeList`, `ServeMap`, `ServeHold`, `ServeCancel`, `ReadBack` |
| gateway `pay` | `PrepareCharge`, `Charge`, `ReadBack` |
| an error, a 401, a lost answer | `Unserved` |
| router, address bar, reload | `Visit`, `OpenInBrowser`, `GoElsewhere`; `Ignored` for late answers |
| SeatPickerPage | `RetryMap`, `MapAnswered`, `Toggle`, `Hold`, `HoldAnswered`, `HoldRefused`, `RefreshAnswered` |
| CheckoutPage | `LoadCheckout`, `CheckoutLoaded`, `Pay`, `PayAnswered`, `PaySignedOut`, `GoToProvider` |
| ConfirmationPage | `LoadConfirmation`, `ConfirmationLoaded`, `Watched` (both watchers), `PollTick`, `PollStops`, `PollAnswered` |
| BookingHistoryPage | `Refresh`, `RefreshDue`, `ListAnswered`, `AskCancel`, `CloseDialog`, `Cancel`, `CancelAnswered`, `HoldLapses` |

### Session

`stored` is the token in `localStorage`, `token` and `user` the auth store,
`route` the page in view, `going` the navigation that waits for `me()`, `calls`
the requests in flight, `accounts` the rows of user-service.  `overtaken` is
history: an answer of `me()` met another session than the one it was asked for.

| Code | Action |
|---|---|
| user-service `me`, `login`, `register` | `ServeMe`, `ServeLogin`, `RegisterCheck`, `RegisterInsert` |
| `beforeEach`, `refreshMe` | `Guard` in `Navigate`, `NavigateUnverified`, `MeAnswered`; `Reload` |
| LoginPage, RegisterPage | `Login`, `LoginAnswered`, `Register`, `RegisterAnswered` |
| `logout`, a second tab | `SignOut`, `OtherTab` |

E-mails, passwords and tokens are the user they belong to.

## Runs

| Run | Instance | Shows |
|---|---|---|
| `booking_concurrent` | 1 booking, 1 seat, 2 workers, all events, all faults | `MoneyFirst`, `RefundedByProvider`, `RowsCoherent`, `TypeOK` and the inductive invariant `Justified` survive overlapping handlers |
| `booking_serial` | 2 bookings, 2 seats, 1 worker, settlements, refunds, tickets, all faults | one handler at a time, with partly overlapping seat sets: `NoDoubleSale`, `VoidedOnlyByRefund`, `TicketedSeatsOwned`, `SeatMapHonest` and the life cycle (`FollowsLifecycle`) hold |
| `booking_liveness` | 1 booking, 1 seat, 1 worker, outage | `HoldsEnd`, `PaidGetsAnswer` |
| `booking_double_sale` | 2 bookings, 1 seat, 2 workers, no faults | violated: `NoDoubleSale` |
| `payment_concurrent` | 1 booking, 2 invoices, 2 refunds, 2 workers, all faults | `SettledIsReal`, `RefundedIsReal`, `RefundsReachable`, `TypeOK` and the inductive invariant `Backed` survive overlapping handlers |
| `payment_liveness` | 1 booking, 2 invoices, 1 refund, 1 worker, outage | `SettlementReported`, `RefundAnswered`; one handler at a time, `PaidNotForgotten` |
| `payment_asks_once` | 1 booking, 1 invoice, 2 refunds, 1 worker, no faults | violated: `AsksOnce` |
| `saga` | 1 booking, 1 seat, 2 invoices, 1 refund, 1 worker on each side, all events, all faults | `Composed`, `MoneyIsReal` |
| `tickets` | 1 booking, 2 seats, 2 codes, 2 handlers, outage | `SameTicketsTold`, `RefundVoids`, `PaidGetsTickets`, `TypeOK` |
| `catalogue` | 1 movie, 2 theatres, 2 showtimes, 2 requests, times 0..2, durations 1 and 2, window 2, layouts of 5 rows of 3 | `ShowtimesComplete`, `ScheduleSound`, `GridSound`, `TypeOK` |
| `web_booking` | 2 bookings, one of them past, 2 seats, 1 seat a hold, 2 requests in flight | `SelectionHonest`, `WaitingIsHonest`, `CancelSeen`, `OnePayment`, `ComesToRest`, `TypeOK` |
| `web_session` | an admin, a user, 2 requests in flight | `SessionSound`, `OneOwner`, `NavigationEnds`, `TypeOK` |

### Bounds

Two workers are what it takes for one handler to read before and write after another; a
third adds a writer, not a new kind of overlap.  Two bookings are what it takes to
compete for a seat, two seats for seat sets to overlap in part.  No counter grows:
events form a set and times are flags, so the runs are complete for their instance.
`MAX_SEATS_PER_HOLD` has the code's value 8 in the booking runs.  The serial run leaves
refused refunds, `payment.failed` and `payment.refund_pending` to the concurrent run and
the saga, for size; with two bookings they are covered by the theorems, which have all
events.  The saga has one booking: the two services share nothing but events and
`pay`, and each of these is about one booking.  `Invoices` and `Refunds` bound how often the provider is asked:
two invoices are what it takes for a payment to have an old one and a new one, two
refunds for a second to be asked for.  When they are used up, the provider refuses.
Bookings, seats and workers are symmetric where a run declares it: nothing in the
modules distinguishes or orders them.

`Codes` has as many codes as one booking has seats: whoever inserts second
meets the unique index.  In the catalogue a window of 2 with three
starting times lets slots touch, overlap by one, and lie at the window's edge;
two showtimes in two theatres are what a move from one to the other takes.  The
theorem about the schedule does not depend on these bounds.  In `web_booking`
the past booking is what a second row of the history, another id of the
confirmation page and a stale answer need; `MAX_SEATS_PER_HOLD` is 1 so that the
limit is met.  `Slots` bounds the requests in flight: two are what it takes for
one to overtake another.

### What the violated runs mean

`booking_double_sale`: a handler saves a copy that was read before another
handler's save.  The serial runs show that nothing else is wrong: with a row
lock or a version check around read and save, the serial properties hold.  From
the same cause `expireBooking` (`bookings.service.ts:715`) can write EXPIRED over
a booking whose settlement was saved meanwhile, against
`docs/ARCHITECTURE.md:123`; `FollowsLifecycle` holds for one handler at a
time only.  `payment_asks_once`: `applyPaid` takes any status but PAID back to
PAID, so a repeated callback reopens a refund.

### Other disagreements met while modelling

These have no run of their own; the hazards name the lines.

* The catch block of `requestRefund` (`payments.service.ts:300-302`) says the
  refund failed also when the answer was lost or the save or publish after it
  threw: the refund may be under way.
* `docs/ARCHITECTURE.md:237-238` has `syncPaymentStatus` heal lost callbacks;
  it does not once `expireInvoice` recorded FAILED, after which it asks no
  more.  `SettlementReported` needs callbacks that are repeated until handled.
* `rmq-ack.interceptor.ts:17-18` counts on a retry cron in every consumer;
  ticket-service has none (`RefundVoids` excepts `dropped`).
* `docs/ERD.md:90` and `README.md:57` promise that showtimes in one theatre do
  not overlap: they can, as `ScheduleSound` says, after concurrent
  writes, a change of the theatre alone, or a new duration of a movie.
* The candidate window of 240 minutes misses overlaps with a movie that is
  longer; the DTO accepts one.
* The history page's notice "Booking cancelled" is worded by the row as it was
  shown; `RegisterPage.vue:52-56` sends to the login page only if the user is
  signed in, which a failed login leaves undone; after a failed refresh the seat
  picker still says that the map is up to date.

### Fairness

Booking: a handler in flight goes on, time passes (`WF`); the every-minute cron
reaches every candidate (`SF`, since with one worker in the model other handlers
keep disabling the cron's action, which in the service they do not).
ticket-service is only assumed to answer if `booking.confirmed` is published
again and again: a lost order or a lost answer is never made up except by the
code's own retry.  Nothing is assumed of customers, of payment-service or of
Redis keys.  The outage is assumed to end.

Payment: the provider repeats a callback until it got through and ends its
refunds, the cron reaches every payment in REFUND_PENDING, and booking-service
repeats a refund request (`retryRefunds`, which it does for REFUND_PENDING
bookings; the request for late money is published once, a hazard left to the
liveness of the saga).

Tickets: every message that is in its queue again and again is handled some
time (`SF` for `OnConfirmed`, which waits for a free worker; `WF` for the rest),
handlers go on, and `retryConfirmations` repeats `booking.confirmed`.

Pages and session: a request is answered or fails, and the handler that waits for
it goes on (`WF`); a timer that runs comes to its deadline.  The customer may
do nothing, or never stop: `ComesToRest` and `NavigationEnds` speak of customers
who stop.

### Mutants

Each property is paired in `PROJECT.json` with a mutant, an operator such as
`StaleIfPaid` in `BookingService` or `FindRacedOwn` in `TicketService`, that a
plausible mistake in the code would correspond to and under which TLC finds the
property violated.

## Proofs

`BookingProofs` proves about `BookingSystem`'s `Spec`, for any sets `Bookings`,
`Seats` and `Workers`, from the assumptions `NoneAssumption` (`None` is no
booking) and `ForeignAssumption` (the environment publishes only payment and
ticket events):

* `TypeCorrect`: `Spec => []TypeOK`, by one lemma per group of actions;
* `AlwaysJustified`: `Spec => []Justified`;
* `MoneyAlwaysFirst`, `AlwaysRefundedByProvider`, `RowsAlwaysCoherent`: the
  three safety properties, each a consequence of `Justified`.

The three properties are not inductive: `Save` writes a copy and `Emit`
publishes an event that were decided earlier.  `Justified` therefore says the
same of every copy in flight (`TaskOK`) and of every event still to be
published (`EmitsOK`).  It is inductive because events are never taken back
(`StillOK`): a copy that was justified when it was read is justified when it is
written, however late.  `HandlerOK`, `ProceedOK`, `FailOK` and `EnvironmentOK`
have one step per action.

`BookingSerialProofs` proves, from the same assumptions and `OneAtATime` (any two
members of `Workers` are equal), what only holds for handlers one at a time:

* `NeverSoldTwice`, `TicketedSeatsAlwaysOwned`, `SeatMapAlwaysHonest`,
  `AlwaysVoidedOnlyByRefund`: `Spec => []NoDoubleSale` and so on;
* `LifecycleFollowed`: `Spec => FollowsLifecycle`, a refinement.

`OneAtATime` is a hypothesis of the theorems, and `booking_double_sale` shows
that it is needed.  It does not mean that handlers run to their end: a crash or a
call that throws may stop one after any step.  The invariant, `Serial`, speaks of
the stage and the seat rows of a booking: a sold booking has seat rows, a dead one
has no money (`RowsSound`); a charged hold that has not lapsed has its seat rows,
so nobody can pay for a hold that is still being made or was undone
(`ChargesSound`); what an event says of its booking still holds (`EventsSound`),
in particular `booking.confirmed` names the seat rows of a sold booking; the copy
in flight is of the row as it is, and follows it in the life cycle (`TaskSound`).
Two standing bookings with a ticketed seat in common would then own one seat row.
`EventsSound` survives a step because stages only move forward (`Order`);
`HoldTables`, `StaleTables` and `SavedTables` are the three ways the tables change.

`PaymentProofs` proves about `PaymentSystem`'s `Spec`, for any sets `Bookings`,
`Invoices`, `Refunds` and `Workers`, from `NoIdAssumption` (`None` is no id):

* `AlwaysBacked`: `Spec => [](TypeOK /\ Backed)`, and from it `TypeCorrect`.
  Types and backing are proved together: that a callback leads to an existing
  booking, and that the invoice whose URL `charge` returns exists, are part of
  `Backed`;
* `SettledAlwaysReal`, `RefundedAlwaysReal`, `RefundsAlwaysReachable`: the three
  safety properties, each a consequence of `Backed`.

The argument is the one of `Justified` with the provider's books in place of the
events: every row, every copy in flight and every event is backed by an invoice
that is paid or a refund that is done, and the books only grow (`Grows`,
`StaysBacked`): an invoice keeps its booking and stays paid, a refund stays
done.  So a copy that was backed when it was read is backed when it is saved.

For handlers one at a time it adds `PaidNeverForgotten`: `Spec => PaidNotForgotten`,
an action property.  Its invariant `JobsKeep` says that
the copy in flight is settled if the row is, and that the calls that lead to an
unsettled copy (`charge`, the sync, expiring an invoice) are only under way for a
payment that is not settled.

`SagaProofs` proves about `SagaSpec`, for any bookings, seats, invoices, refunds and
workers of both services, from the assumptions above and `AllEventsAssumption`
(`Foreign` is every event: nothing is left out of the composition):

* `ServicesCompose`: `SagaSpec => Composed`, two refinements at once;
* `MoneyAlwaysReal`: `SagaSpec => []MoneyIsReal`;
* `SagaNeverSellsTwice`: `SagaSpec => []NoDoubleSale` when booking-service handles one
  thing at a time, with any number of handlers of payment-service.

With `ServicesCompose` every theorem of `BookingProofs`, `BookingSerialProofs` and
`PaymentProofs` holds of the two services together; `SagaNeverSellsTwice` is one
taken over that way.  The argument looks circular: that payment-service publishes
what booking-service was checked with depends on what booking-service published,
and the other way round.  It is an induction over steps instead: `SagaInv` is
the invariants of both (`TypeOK`, `Justified`, `Backed`) and `Linked`, all of them
hold before a step, and the step lemmas `JustifiedStep` and `BackedStep` carry them
over it.  `Linked` is the part neither service has alone: a payment, a job on one
and a settlement exist only for a booking that `prepareCharge` let through, and
what deals with a refund only for one that booking-service asked for.
`BookingSuits` and `PaymentSuits` say that each service's publications suit the other's
assumptions, the lemmas `Same...` that the instance of `PaymentSystem` in `Saga` is
the one `PaymentProofs` is about.

`TicketProofs` proves about `TicketSystem`'s `Spec`, for any bookings, seats,
codes and handlers, and without assumptions:

* `TypeCorrect`, `SameTicketsAlwaysTold`: `Spec => []TypeOK`,
  `Spec => []SameTicketsTold`;
* `LifecycleFollowed`: `Spec => FollowsLifecycle`, a refinement.

What is told names the rows of the table only as long as no terminal event of an
earlier life of the booking is still waiting to void them.  The invariant
therefore says which stages the events in the queue and the messages bear
witness of (`EventOK`, `TellOK`): `booking.cancelled` and `booking.expired` only
exist for bookings that are over, `booking.confirmed` only for those that were
paid, and no step takes that back (`Later`, `StillOK`).

`CatalogueProofs` proves about `Catalogue`'s `Spec`, for any tables, requests and
times, from `TimeAssumption` and `NoneAssumption`:

* `TypeCorrect`, `ShowtimesAlwaysComplete`, `ScheduleAlwaysSound`,
  `GridAlwaysSound`.

`ScheduleSound` is strengthened by what is known of the tasks (`TasksSound`): a
task that was checked and not overtaken will write a slot that meets suspects
only (`Vouched`), and thinks of its movie what the table says (`LengthKept`).
`WindowSound` is the arithmetic of the window: no showtime outside of it
overlaps.  `GridAlwaysSound` needs no invariant: it is arithmetic about
`Category`, for layouts of any size.

`SessionProofs` proves about `Session`'s `Spec`, for any users and slots, from
`SessionAssumption`:

* `TypeCorrect`, `SessionAlwaysSound`, and `OneOwnerEver`, an action property.

The invariant adds that a call that is answered with yes concerns a user who has
an account (`Sane`), and that one navigation waits at most (`OneAwaits`): without
it an answer could admit the wrong navigation.

`WebBookingProofs` proves about `WebBooking`'s `Spec`, for any bookings, seats and
slots (`PastAssumption` and `SlotsAssumption` are not needed):

* `TypeCorrect`, `OnePaymentEver`, `WaitingAlwaysHonest`, `SelectionAlwaysHonest`,
  `CancelAlwaysSeen`: the types and the four safety properties;
* `StagesFollow`: the server behind the pages moves bookings as
  `BookingLifecycle` allows, which `LifecycleFollowed` proves of booking-service.

What a page shows depends on answers that are under way, so the invariants speak of
those.  A request names a booking, and what is carried out in steps is about one
that is there (`CallOK`, `CarriedOK`); without it the types are not inductive.  A
map is asked for only while the page loads, with nothing selected, and at most once
at a time; while a refresh is under way everything selected counts as picked blindly
(`SeatsOK`).  An answer that says CANCELLED is about a booking that is cancelled or
refunded, and stays true because no stage leads back (`ViewOK`); so is the booking of
the notice in every list on its way, unless two reads overlapped (`HistoryOK`).  A
payment the page waits for belongs to a checkout that is busy with it alone
(`PayOK`).  `Steps` sorts the steps by what they do to pages and requests (`Moved`,
`Served`, `Posted`), so that an invariant looks at its own page and at few kinds of
step.

Only model-checked: the liveness properties (`HoldsEnd`, `PaidGetsAnswer`,
`SettlementReported`, `RefundAnswered`, `PaidGetsTickets`, `RefundVoids`,
`ComesToRest`, `NavigationEnds`).  They rest on fairness and `ENABLED`, which TLAPS
does not prove.  Every other property that a passing run checks is a theorem.

## Plan

1. Done: exchange, booking-service, its life cycle, liveness, proofs.
2. Done: payment-service with the provider, liveness, proofs.
3. Done: ticket-service over acknowledged queues, proofs.
4. Done: the catalogue with its overlap rule and seat grid, proofs.
5. Done: gateway and booking pages; session and user-service, proofs.
6. Done: proofs of what holds for handlers one at a time.
7. Done: `Saga`, booking-service and payment-service over one exchange, shown and
   proved to refine `BookingSystem` and `PaymentSystem`.
8. Left: ticket-service in `Saga`, in place of what `BookingSystem` assumes of it; the
   liveness of the saga, that late money, and money paid twice, is refunded in the end.

## Not modelled

* The operator console, the lists with filters and paging, and the landing page of
  the web client: forms that send one request each, which `Catalogue` has, and
  views.
* The rows of genres, posters and titles; DTO mapping and validation; wording
  and layout of pages and e-mails; the payment receipt e-mail, which goes the way
  of the tickets' e-mail.
* The RPCs of ticket-service that issue, void, list and look up by hand: the
  first two do what the events do, the others read.
* Xendit's HTTP requests, the callback token, and the parsing of callback bodies:
  `PaymentService` has the calls with their outcomes.
* Password hashing, JWTs, rate limits.
* The shared package (gRPC plumbing, tracing, metrics), seed and set-up scripts,
  load tests and deployment files: no state that a decision depends on.
