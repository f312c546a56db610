---------------------------- MODULE BookingPages ----------------------------
(***************************************************************************)
(* The pages of the web client a customer books with.  One is mounted at a *)
(* time; page holds its refs.  A handler runs up to its next await and     *)
(* goes on when its answer comes, perhaps after others, or when another    *)
(* page is there.  What a page shows and enables is a guard here.          *)
(***************************************************************************)
EXTENDS Gateway

VARIABLES page,
          overlapped   \* the history asked for its list twice at a time

vars == <<serverVars, calls, page, overlapped>>

\* What the other pages and the provider's page are to this model.
Elsewhere == [name |-> "movies"]
Provider(b) == [name |-> "provider", id |-> b]

\* blind: seats picked while a new map was on its way.
SeatPicker == [name : {"seats"}, loading : BOOLEAN, failed : BOOLEAN,
               map : (SUBSET Seats) \cup {None}, selected : SUBSET Seats,
               holding : BOOLEAN, blind : SUBSET Seats]

Checkout == [name : {"checkout"}, id : Bookings, loading : BOOLEAN, failed : BOOLEAN,
             shown : View \cup {None}, paying : BOOLEAN, leaving : BOOLEAN]

Confirmation == [name : {"confirm"}, id : Bookings, loading : BOOLEAN, failed : BOOLEAN,
                 shown : View \cup {None}, polling : BOOLEAN, ticked : BOOLEAN,
                 stopped : BOOLEAN]

\* asked: the booking the cancel dialog is about.  notice: the booking the page was
\* told is cancelled, rather than being refunded.  due: a reload in 1.5 s.
History == [name : {"history"}, loading : BOOLEAN, failed : BOOLEAN,
            list : [Bookings -> Statuses \cup {None}], asked : Bookings \cup {None},
            notice : Bookings \cup {None}, due : BOOLEAN]

On(name) == page.name = name

\* Only the page that asked goes on with an answer, but see HoldAnswered and
\* PayAnswered.
Answered(k, op) == At(k, "answered") /\ calls[k].op = op /\ calls[k].mounted

Got(k, is) == calls[k].answer.is = is

Ready == ~page.loading /\ ~page.failed

Shows(status) == page.shown # None /\ page.shown.status = status

\* "Payment processing", with a button to load again.
Processing == On("confirm") /\ Ready /\ Shows("PENDING")

-----------------------------------------------------------------------------
(* Moving between pages.                                                    *)

\* Requests without effects are forgotten with the page that made them.
Lasting == {"hold", "pay", "cancel"}

Forgotten(c) == c # None /\ c.op \notin Lasting

Orphans == [k \in Slots |->
              IF calls[k] = None \/ Forgotten(calls[k]) THEN None
              ELSE [calls[k] EXCEPT !.mounted = FALSE]]

\* The page that is mounted, and its first load.
FreshSeats == [name |-> "seats", loading |-> TRUE, failed |-> FALSE, map |-> None,
               selected |-> {}, holding |-> FALSE, blind |-> {}]

FreshCheckout(b) == [name |-> "checkout", id |-> b, loading |-> TRUE, failed |-> FALSE,
                     shown |-> None, paying |-> FALSE, leaving |-> FALSE]

FreshConfirmation(b) == [name |-> "confirm", id |-> b, loading |-> TRUE, failed |-> FALSE,
                         shown |-> None, polling |-> FALSE, ticked |-> FALSE, stopped |-> FALSE]

FreshHistory == [name |-> "history", loading |-> TRUE, failed |-> FALSE,
                 list |-> [b \in Bookings |-> None], asked |-> None,
                 notice |-> None, due |-> FALSE]

\* The ids of bookings are not to be guessed.
Fresh == {FreshSeats, FreshHistory}
         \cup UNION {{FreshCheckout(b), FreshConfirmation(b)} : b \in {c \in Bookings : Known(c)}}

FirstLoad(p) ==
  CASE p.name = "seats" -> Request("map", None)
    [] p.name = "history" -> Request("list", None)
    [] OTHER -> Request("load", p.id)

\* Mounts page p; freed is a slot that ends with it, or None.
Mount(p, freed) ==
  LET left == [k \in Slots |-> IF k = freed THEN None ELSE Orphans[k]] IN
  /\ page' = p
  /\ \E k \in Slots : /\ FirstUnused(k, left)
                       /\ calls' = [left EXCEPT ![k] = FirstLoad(p)]
  /\ overlapped' = FALSE

\* Links and the back button.  A new id for a page that is mounted only loads
\* again, see LoadCheckout and LoadConfirmation.
Visit(p) ==
  /\ p.name # page.name
  /\ Mount(p, None)
  /\ UNCHANGED serverVars

\* The browser loads the client anew: the way back from the provider, an address
\* opened from elsewhere, the reload button.  (An address typed over a page is a
\* reload and a visit.)
OpenInBrowser(k, p) ==
  /\ page.name \in {p.name, "movies", "provider"}
  /\ FirstUnused(k, [j \in Slots |-> None])
  /\ page' = p
  /\ calls' = [j \in Slots |-> IF j = k THEN FirstLoad(p) ELSE None]
  /\ overlapped' = FALSE
  /\ UNCHANGED serverVars

GoElsewhere ==
  /\ ~On("movies")
  /\ page' = Elsewhere
  /\ calls' = Orphans
  /\ overlapped' = FALSE
  /\ UNCHANGED serverVars

\* An answer for a page that is gone.
Ignored(k) ==
  /\ At(k, "answered") /\ ~calls[k].mounted
  /\ \/ calls[k].op = "cancel"
     \/ calls[k].op = "hold" /\ ~Got(k, "view")
     \/ calls[k].op = "pay" /\ Got(k, "failed")
  /\ Done(k)
  /\ UNCHANGED <<serverVars, page, overlapped>>

-----------------------------------------------------------------------------
(* SeatPickerPage.                                                          *)

RetryMap(k) ==
  /\ On("seats") /\ page.failed /\ ~page.loading
  /\ page' = [FreshSeats EXCEPT !.holding = page.holding]
  /\ Sent(k, "map", None)
  /\ UNCHANGED <<serverVars, overlapped>>

MapAnswered(k) ==
  /\ On("seats") /\ Answered(k, "map")
  /\ page' = [page EXCEPT !.loading = FALSE, !.failed = ~Got(k, "map"),
                          !.map = IF Got(k, "map") THEN calls[k].answer.taken ELSE None]
  /\ Done(k)
  /\ UNCHANGED <<serverVars, overlapped>>

Refreshing == \E k \in Slots : ~Unused(k) /\ calls[k].op = "refresh"

\* toggle(): a seat the map shows as taken is not to be had, nor given back.
Toggle(s) ==
  /\ On("seats") /\ Ready /\ s \notin page.map
  /\ \/ /\ s \in page.selected
        /\ page' = [page EXCEPT !.selected = @ \ {s}]
     \/ /\ s \notin page.selected /\ Cardinality(page.selected) < MAX_SEATS_PER_HOLD
        /\ page' = [page EXCEPT !.selected = @ \cup {s},
                                !.blind = IF Refreshing THEN @ \cup {s} ELSE @]
  /\ UNCHANGED <<serverVars, calls, overlapped>>

\* hold(): the button is inert while one is on its way.
Hold(k) ==
  /\ On("seats") /\ Ready /\ ~page.holding
  /\ page.selected # {} /\ Cardinality(page.selected) <= MAX_SEATS_PER_HOLD
  /\ page' = [page EXCEPT !.holding = TRUE]
  /\ Sent(k, "hold", None)
  /\ UNCHANGED <<serverVars, overlapped>>

\* The customer is taken to the checkout, wherever he is by now.
HoldAnswered(k) ==
  /\ At(k, "answered") /\ calls[k].op = "hold" /\ Got(k, "view")
  /\ LET b == calls[k].answer.view.booking IN
     \/ ~On("checkout") /\ Mount(FreshCheckout(b), k)
     \/ /\ On("checkout") /\ page.id # b
        /\ page' = [FreshCheckout(b) EXCEPT !.paying = page.paying]
        /\ calls' = [calls EXCEPT ![k] = Request("load", b)]
        /\ UNCHANGED overlapped
     \/ /\ On("checkout") /\ page.id = b
        /\ Done(k)
        /\ UNCHANGED <<page, overlapped>>
  /\ UNCHANGED serverVars

\* Mutant of HoldRefused: the selection that was lost is kept.
HoldRefusedKept(k) ==
  /\ On("seats") /\ Answered(k, "hold") /\ ~Got(k, "view")
  /\ \/ /\ Got(k, "conflict")
        /\ page' = [page EXCEPT !.blind = {}]
        /\ calls' = [calls EXCEPT ![k] = Request("refresh", None)]
     \/ /\ Got(k, "failed")
        /\ page' = [page EXCEPT !.holding = FALSE]
        /\ Done(k)
  /\ UNCHANGED <<serverVars, overlapped>>

\* refreshAfterConflict(): the selection is dead; the latest map is fetched.
HoldRefused(k) ==
  /\ On("seats") /\ Answered(k, "hold") /\ ~Got(k, "view")
  /\ \/ /\ Got(k, "conflict")
        /\ page' = [page EXCEPT !.selected = {}, !.blind = {}]
        /\ calls' = [calls EXCEPT ![k] = Request("refresh", None)]
     \/ /\ Got(k, "failed")
        /\ page' = [page EXCEPT !.holding = FALSE]
        /\ Done(k)
  /\ UNCHANGED <<serverVars, overlapped>>

\* Mutant of RefreshAnswered: a refresh that fails leaves the button busy.
RefreshAnsweredOnly(k) ==
  /\ On("seats") /\ Answered(k, "refresh")
  /\ page' = IF Got(k, "map")
             THEN [page EXCEPT !.map = calls[k].answer.taken, !.holding = FALSE]
             ELSE page
  /\ Done(k)
  /\ UNCHANGED <<serverVars, overlapped>>

\* A refresh that fails is passed over: the old map stays.
RefreshAnswered(k) ==
  /\ On("seats") /\ Answered(k, "refresh")
  /\ page' = [page EXCEPT !.map = IF Got(k, "map") THEN calls[k].answer.taken ELSE @,
                          !.holding = FALSE]
  /\ Done(k)
  /\ UNCHANGED <<serverVars, overlapped>>

-----------------------------------------------------------------------------
(* CheckoutPage.  Its countdown ticks against the booking that is shown.     *)

Expired == page.shown # None /\ page.shown.booking \in lapsed

\* load(), by the retry button and by a new id.
LoadCheckout(k, b) ==
  /\ On("checkout") /\ (b = page.id => page.failed /\ page.shown = None /\ ~page.loading)
  /\ page' = [FreshCheckout(b) EXCEPT !.paying = page.paying]
  /\ Sent(k, "load", b)
  /\ UNCHANGED <<serverVars, overlapped>>

\* Mutant of CheckoutLoaded: an error is shown as if it were the booking.
CheckoutLoadedAnyhow(k) ==
  /\ On("checkout") /\ Answered(k, "load")
  /\ page' = [page EXCEPT !.loading = FALSE,
                          !.shown = IF Got(k, "view") THEN calls[k].answer.view ELSE calls[k].answer]
  /\ Done(k)
  /\ UNCHANGED <<serverVars, overlapped>>

CheckoutLoaded(k) ==
  /\ On("checkout") /\ Answered(k, "load")
  /\ page' = [page EXCEPT !.loading = FALSE,
                          !.failed = IF Got(k, "view") THEN @ ELSE TRUE,
                          !.shown = IF Got(k, "view") THEN calls[k].answer.view ELSE @]
  /\ Done(k)
  /\ UNCHANGED <<serverVars, overlapped>>

\* Mutant of Pay: the button stays alive while the payment is being opened.
PayTwice(k) ==
  /\ On("checkout") /\ ~page.loading /\ Shows("PENDING")
  /\ ~Expired /\ ~page.leaving
  /\ page' = [page EXCEPT !.paying = TRUE, !.failed = FALSE]
  /\ Sent(k, "pay", page.id)
  /\ UNCHANGED <<serverVars, overlapped>>

Pay(k) ==
  /\ On("checkout") /\ ~page.loading /\ Shows("PENDING")
  /\ ~Expired /\ ~page.paying /\ ~page.leaving
  /\ page' = [page EXCEPT !.paying = TRUE, !.failed = FALSE]
  /\ Sent(k, "pay", page.id)
  /\ UNCHANGED <<serverVars, overlapped>>

\* The browser is sent to the invoice half a second after the answer, also from
\* another page; an answer that says CONFIRMED is shown.
PayAnswered(k) ==
  /\ At(k, "answered") /\ calls[k].op = "pay"
  /\ LET view == calls[k].answer.view
         here == calls[k].mounted
     IN \/ /\ Got(k, "invoice") /\ view.status = "CONFIRMED"
           /\ page' = IF here THEN [page EXCEPT !.shown = view, !.paying = FALSE] ELSE page
           /\ Done(k)
        \/ /\ Got(k, "invoice") /\ view.status # "CONFIRMED"
           /\ page' = IF here THEN [page EXCEPT !.leaving = TRUE] ELSE page
           /\ calls' = [calls EXCEPT ![k].at = "leaving"]
        \/ /\ Got(k, "failed") /\ here
           /\ page' = [page EXCEPT !.failed = TRUE, !.paying = FALSE]
           /\ Done(k)
  /\ UNCHANGED <<serverVars, overlapped>>

\* A 401 leads to the login page, and from there to another page of the client.
PaySignedOut(k) ==
  /\ At(k, "answered") /\ calls[k].op = "pay" /\ Got(k, "signedOut")
  /\ page' = Elsewhere
  /\ calls' = [Orphans EXCEPT ![k] = None]
  /\ overlapped' = FALSE
  /\ UNCHANGED serverVars

\* window.location.assign(): the client is gone with all it waited for.
GoToProvider(k) ==
  /\ At(k, "leaving")
  /\ page' = Provider(calls[k].booking)
  /\ calls' = [j \in Slots |-> None]
  /\ overlapped' = FALSE
  /\ UNCHANGED serverVars

-----------------------------------------------------------------------------
(* ConfirmationPage.                                                        *)

\* Mutant of Watched: the watcher looks at the status and not at the booking.
WatchedStatus(p, view) ==
  IF p.shown # None /\ p.shown.status = view.status THEN [p EXCEPT !.shown = view]
  ELSE IF view.status = "PENDING"
  THEN [p EXCEPT !.shown = view, !.polling = TRUE, !.ticked = p.polling /\ @]
  ELSE [p EXCEPT !.shown = view, !.polling = FALSE]

\* A new booking object: its watcher starts the timer, unless it runs, or stops it.
Watched(p, view) ==
  IF view.status = "PENDING"
  THEN [p EXCEPT !.shown = view, !.polling = TRUE, !.ticked = p.polling /\ @]
  ELSE [p EXCEPT !.shown = view, !.polling = FALSE]

\* load(): a new id stops the timer first, the buttons do not.
LoadConfirmation(k, b) ==
  /\ On("confirm")
  /\ b = page.id => Processing \/ (~page.loading /\ page.failed)
  /\ page' = [page EXCEPT !.id = b, !.loading = TRUE, !.failed = FALSE, !.stopped = FALSE,
                          !.polling = @ /\ b = page.id]
  /\ Sent(k, "load", b)
  /\ UNCHANGED <<serverVars, overlapped>>

ConfirmationLoaded(k) ==
  /\ On("confirm") /\ Answered(k, "load")
  /\ LET loaded == [page EXCEPT !.loading = FALSE] IN
     page' = IF Got(k, "view") THEN Watched(loaded, calls[k].answer.view)
             ELSE [loaded EXCEPT !.failed = TRUE, !.shown = None, !.polling = FALSE]
  /\ Done(k)
  /\ UNCHANGED <<serverVars, overlapped>>

\* The first tick asks for the booking, the later ones for a sync.
PollTick(k) ==
  /\ On("confirm") /\ page.polling
  /\ page' = [page EXCEPT !.ticked = TRUE]
  /\ Sent(k, IF page.ticked THEN "sync" ELSE "poll", page.id)
  /\ UNCHANGED <<serverVars, overlapped>>

\* A tick after the deadline of POLL_MAX_MS.
PollStops ==
  /\ On("confirm") /\ page.polling
  /\ page' = [page EXCEPT !.polling = FALSE, !.stopped = TRUE]
  /\ UNCHANGED <<serverVars, calls, overlapped>>

\* Applied whenever it comes; a failure is passed over.
PollAnswered(k) ==
  /\ On("confirm") /\ (Answered(k, "poll") \/ Answered(k, "sync"))
  /\ page' = IF Got(k, "view") THEN Watched(page, calls[k].answer.view) ELSE page
  /\ Done(k)
  /\ UNCHANGED <<serverVars, overlapped>>

-----------------------------------------------------------------------------
(* BookingHistoryPage.                                                      *)

ListAsked == \E k \in Slots : ~Unused(k) /\ calls[k].op = "list"

\* The refresh button.
Refresh(k) ==
  /\ On("history")
  /\ page' = [page EXCEPT !.loading = TRUE, !.failed = FALSE]
  /\ Sent(k, "list", None)
  /\ overlapped' = (overlapped \/ ListAsked)
  /\ UNCHANGED serverVars

\* The timer of markExpired().
RefreshDue(k) ==
  /\ On("history") /\ page.due
  /\ page' = [page EXCEPT !.loading = TRUE, !.failed = FALSE, !.due = FALSE]
  /\ Sent(k, "list", None)
  /\ overlapped' = (overlapped \/ ListAsked)
  /\ UNCHANGED serverVars

ListAnswered(k) ==
  /\ On("history") /\ Answered(k, "list")
  /\ page' = [page EXCEPT !.loading = FALSE, !.failed = IF Got(k, "list") THEN @ ELSE TRUE,
                          !.list = IF Got(k, "list") THEN calls[k].answer.list ELSE @]
  /\ Done(k)
  /\ UNCHANGED <<serverVars, overlapped>>

\* cancel(): asks before it does.
AskCancel(b) ==
  /\ On("history") /\ ~page.loading /\ page.asked = None
  /\ page.list[b] \in {"PENDING", "CONFIRMED"}
  /\ page' = [page EXCEPT !.asked = b]
  /\ UNCHANGED <<serverVars, calls, overlapped>>

CloseDialog ==
  /\ On("history") /\ page.asked # None
  /\ page' = [page EXCEPT !.asked = None]
  /\ UNCHANGED <<serverVars, calls, overlapped>>

Cancel(k) ==
  /\ On("history") /\ page.asked # None
  /\ page' = [page EXCEPT !.asked = None]
  /\ Sent(k, "cancel", page.asked)
  /\ UNCHANGED <<serverVars, overlapped>>

Cancelled(view) == IF view.status = "CANCELLED" THEN view.booking ELSE None

\* Mutant of CancelAnswered: the list is not read again.
CancelAnsweredOnly(k) ==
  /\ On("history") /\ Answered(k, "cancel")
  /\ page' = IF Got(k, "view") THEN [page EXCEPT !.notice = Cancelled(calls[k].answer.view)]
             ELSE [page EXCEPT !.failed = TRUE]
  /\ Done(k)
  /\ UNCHANGED <<serverVars, overlapped>>

\* Only a cancel that was answered has the list read again.
CancelAnswered(k) ==
  /\ On("history") /\ Answered(k, "cancel")
  /\ \/ /\ Got(k, "view")
        /\ page' = [page EXCEPT !.notice = Cancelled(calls[k].answer.view), !.loading = TRUE, !.failed = FALSE]
        /\ calls' = [calls EXCEPT ![k] = Request("list", None)]
        /\ overlapped' = (overlapped \/ ListAsked)
     \/ /\ ~Got(k, "view")
        /\ page' = [page EXCEPT !.failed = TRUE]
        /\ Done(k)
        /\ UNCHANGED overlapped
  /\ UNCHANGED serverVars

\* PendingCountdown of a row in view tells the page once, when it reaches zero.
HoldLapses(b) ==
  /\ Lapses(b)
  /\ page' = IF On("history") /\ ~page.loading /\ page.list[b] = "PENDING"
             THEN [page EXCEPT !.due = TRUE] ELSE page
  /\ UNCHANGED <<calls, overlapped>>

=============================================================================
