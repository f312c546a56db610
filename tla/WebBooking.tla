----------------------------- MODULE WebBooking -----------------------------
(***************************************************************************)
(* A customer books with the web client: the booking pages over the        *)
(* gateway.                                                                *)
(***************************************************************************)
EXTENDS BookingPages

Init == GatewayInit /\ page = Elsewhere /\ overlapped = FALSE

CustomerActs ==
  \/ \E k \in Slots :
       \/ \E p \in Fresh : OpenInBrowser(k, p)
       \/ RetryMap(k) \/ Hold(k) \/ Pay(k) \/ Refresh(k) \/ Cancel(k)
       \/ \E b \in Bookings : Known(b) /\ (LoadCheckout(k, b) \/ LoadConfirmation(k, b))
  \/ \E p \in Fresh : Visit(p)
  \/ \E s \in Seats : Toggle(s)
  \/ \E b \in Bookings : AskCancel(b)
  \/ GoElsewhere \/ CloseDialog

\* What the pages do with answers and timers.
Continues(k) ==
  \/ MapAnswered(k) \/ HoldAnswered(k) \/ HoldRefused(k) \/ RefreshAnswered(k)
  \/ CheckoutLoaded(k) \/ PayAnswered(k) \/ PaySignedOut(k) \/ GoToProvider(k)
  \/ ConfirmationLoaded(k) \/ PollAnswered(k)
  \/ ListAnswered(k) \/ CancelAnswered(k) \/ Ignored(k)

Server(k) == Serve(k) /\ UNCHANGED <<page, overlapped>>

Next ==
  \/ CustomerActs
  \/ \E k \in Slots : Continues(k) \/ Server(k) \/ PollTick(k) \/ RefreshDue(k)
  \/ PollStops
  \/ \E b \in Bookings :
       \/ HoldLapses(b)
       \/ BookingMoves(b) /\ UNCHANGED <<calls, page, overlapped>>

\* A request is answered or fails, its handler goes on, and a timer that runs
\* ticks until its deadline.  Nobody makes the customer do anything.
Fairness ==
  /\ \A k \in Slots : WF_vars(Server(k) \/ Continues(k))
  /\ WF_vars(PollStops)

Spec == Init /\ [][Next]_vars /\ Fairness

-----------------------------------------------------------------------------

TypeOK ==
  /\ GatewayTypeOK
  /\ page \in SeatPicker \cup Checkout \cup Confirmation \cup History
              \cup {Elsewhere} \cup {Provider(b) : b \in Bookings}
  /\ overlapped \in BOOLEAN

\* A seat that is selected is to be had on the map in view, whatever became of
\* the map after a lost seat, unless it was picked while that map was fetched
\* (toggle, refreshAfterConflict, load).
SelectionHonest ==
  On("seats") /\ Ready => page.selected \cap page.map \subseteq page.blind

\* A page that says a payment is being processed asks for it, or says that it
\* stopped asking, however answers of timers and buttons overtake each other
\* (the two watchers, load, startPolling, stopPolling).
WaitingIsHonest ==
  Processing => page.polling \/ page.stopped

\* A booking the page was told is cancelled is not in its list as one to pay or to
\* use, once the list has been read again and no two reads overlapped (cancel,
\* reload).
CancelSeen ==
  On("history") /\ Ready /\ ~ListAsked /\ ~overlapped /\ page.notice # None
  => page.list[page.notice] \in {"CANCELLED", "REFUNDED"}

\* The page that opens a payment has asked for one payment at most (pay).
OnePayment ==
  Cardinality({k \in Slots : ~Unused(k) /\ calls[k].op = "pay" /\ calls[k].mounted}) <= 1

Waiting ==
  /\ On("confirm") /\ ~page.stopped /\ ~page.failed
  /\ page.shown = None \/ Shows("PENDING")

Occupied ==
  \/ page.name \in {"seats", "checkout", "confirm", "history"} /\ page.loading
  \/ On("seats") /\ page.holding
  \/ On("checkout") /\ page.paying

\* A customer who leaves the page alone sees it come to rest: no page stays
\* busy (the finally of load, hold, pay), and the confirmation shows an outcome,
\* or that it gave up, or that it failed (startPolling, POLL_MAX_MS).
ComesToRest == []<>~(Waiting \/ Occupied) \/ []<><<CustomerActs>>_vars

=============================================================================
