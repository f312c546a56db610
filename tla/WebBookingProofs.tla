-------------------------- MODULE WebBookingProofs --------------------------
(***************************************************************************)
(* What the booking pages show is true to what they were told, for any     *)
(* number of bookings, seats and requests in flight.                       *)
(***************************************************************************)
EXTENDS WebBooking, FiniteSetTheorems, TLAPS

-----------------------------------------------------------------------------
(* The invariant.  Its parts are said of the page p, the requests cs, the    *)
(* stages S and the mark o of overlapping reloads, so that each can be       *)
(* carried over the steps that leave what it is about alone.                 *)

Gone == {"CANCELLED", "REFUNDED"}

Page == SeatPicker \cup Checkout \cup Confirmation \cup History
        \cup {Elsewhere} \cup {Provider(b) : b \in Bookings}

\* Requests about a booking name it; only payments are opened in steps, and
\* only cancels and payments are carried out before they are answered.
CallOK(c) ==
  /\ c \in Call
  /\ c.op \in {"load", "poll", "sync", "pay", "cancel"} => c.booking \in Bookings
  /\ c.at \in {"prepared", "leaving"} => c.op = "pay"
  /\ c.at = "applied" => c.op \in {"pay", "cancel"}
  /\ c.at = "answered" => c.answer \in Answer

CallsOK(cs) == \A k \in Slots : cs[k] # None => CallOK(cs[k])

\* What is carried out in steps is about a booking that is there.
CarriedOK(cs, S) ==
  \A k \in Slots : cs[k] # None /\ cs[k].at \in {"prepared", "applied"}
                   => S[cs[k].booking] # "NONE"

InFlight(cs, k, op) == cs[k] # None /\ cs[k].op = op

\* The seat picker fetches one map at a time, and nothing is selected meanwhile;
\* what is selected while a lost seat has the map fetched again was picked
\* blindly.
SeatsOK(p, cs) ==
  p.name = "seats" =>
    /\ p.loading => p.selected = {}
    /\ ~p.loading /\ ~p.failed =>
         /\ p.map \in SUBSET Seats
         /\ p.selected \cap p.map \subseteq p.blind
    /\ \A k \in Slots :
         /\ InFlight(cs, k, "map") =>
              p.loading /\ \A j \in Slots : InFlight(cs, j, "map") => j = k
         /\ InFlight(cs, k, "refresh") => p.selected \subseteq p.blind

\* Who is told of a cancelled booking is told the truth.
ViewOK(S, c) ==
  c.at = "answered" /\ c.answer.is = "view" /\ c.answer.view.status = "CANCELLED"
  => S[c.answer.view.booking] \in Gone

ViewsOK(cs, S) == \A k \in Slots : cs[k] # None => ViewOK(S, cs[k])

\* The list that is on its way in slot k has booking b as cancelled.
ListOK(cs, k, b) ==
  InFlight(cs, k, "list") /\ cs[k].at = "answered" /\ cs[k].answer.is = "list"
  => cs[k].answer.list[b] \in Gone

\* A list that has been read since the notice, and no other, comes into view.
HistoryOK(p, cs, S, o) ==
  p.name = "history" /\ p.notice # None =>
    /\ S[p.notice] \in Gone
    /\ ~o => /\ \A k \in Slots : ListOK(cs, k, p.notice)
             /\ p.failed \/ p.loading \/ p.list[p.notice] \in Gone

Paying(cs, k) == InFlight(cs, k, "pay") /\ cs[k].mounted

\* The page that opens a payment is a checkout that is busy with it alone.
PayOK(p, cs) ==
  \A k \in Slots : Paying(cs, k) =>
    /\ p.name = "checkout" /\ p.paying
    /\ \A j \in Slots : Paying(cs, j) => j = k

TypeInv == TypeOK /\ CallsOK(calls) /\ CarriedOK(calls, stage)

SeatsInv == SeatsOK(page, calls)

NoticeInv == HistoryOK(page, calls, stage, overlapped)

HistoryInv == ViewsOK(calls, stage) /\ NoticeInv

PayInv == PayOK(page, calls)

-----------------------------------------------------------------------------
(* Pages, requests and answers.                                              *)

Fresher == {FreshSeats, FreshHistory}
           \cup {FreshCheckout(b) : b \in Bookings} \cup {FreshConfirmation(b) : b \in Bookings}

\* What is on a page is told by its name.
LEMMA PageKinds ==
  ASSUME NEW p \in Page
  PROVE  /\ p.name = "seats" => p \in SeatPicker
         /\ p.name = "checkout" => p \in Checkout
         /\ p.name = "confirm" => p \in Confirmation
         /\ p.name = "history" => p \in History
  BY DEF Page, SeatPicker, Checkout, Confirmation, History, Elsewhere, Provider

\* What an answer carries is told by its kind.
LEMMA AnswerKinds ==
  ASSUME NEW a \in Answer
  PROVE  /\ a.is \in {"view", "invoice", "map", "list", "conflict", "signedOut", "failed"}
         /\ a.is \in {"view", "invoice"} => a.view \in View
         /\ a.is = "map" => a.taken \in SUBSET Seats
         /\ a.is = "list" => a.list \in [Bookings -> Statuses \cup {None}]
  BY DEF Answer

LEMMA RequestOK ==
  ASSUME NEW op \in Ops, NEW b \in Bookings \cup {None},
         op \in {"load", "poll", "sync", "pay", "cancel"} => b \in Bookings
  PROVE  CallOK(Request(op, b))
  BY DEF CallOK, Call, Request

\* The pages that are mounted, and the request each of them begins with.
LEMMA FreshOK ==
  /\ Fresh \subseteq Fresher
  /\ \A p \in Fresher : p \in Page /\ CallOK(FirstLoad(p))
<1>1. Fresh \subseteq Fresher
  BY DEF Fresh, Fresher
<1>2. FreshSeats \in Page /\ CallOK(FirstLoad(FreshSeats))
  <2>1. FreshSeats \in SeatPicker /\ FirstLoad(FreshSeats) = Request("map", None)
    BY DEF FreshSeats, SeatPicker, FirstLoad
  <2> QED
    BY <2>1, RequestOK DEF Page, Ops
<1>3. FreshHistory \in Page /\ CallOK(FirstLoad(FreshHistory))
  <2>1. FreshHistory \in History /\ FirstLoad(FreshHistory) = Request("list", None)
    BY DEF FreshHistory, History, FirstLoad
  <2> QED
    BY <2>1, RequestOK DEF Page, Ops
<1>4. ASSUME NEW b \in Bookings
      PROVE  /\ FreshCheckout(b) \in Page /\ CallOK(FirstLoad(FreshCheckout(b)))
             /\ FreshConfirmation(b) \in Page /\ CallOK(FirstLoad(FreshConfirmation(b)))
  <2>1. FreshCheckout(b) \in Checkout /\ FirstLoad(FreshCheckout(b)) = Request("load", b)
    BY DEF FreshCheckout, Checkout, FirstLoad
  <2>2. /\ FreshConfirmation(b) \in Confirmation
        /\ FirstLoad(FreshConfirmation(b)) = Request("load", b)
    BY DEF FreshConfirmation, Confirmation, FirstLoad
  <2> QED
    BY <2>1, <2>2, RequestOK DEF Page, Ops
<1> QED
  BY <1>1, <1>2, <1>3, <1>4 DEF Fresher

\* It is just sent, for what the page is about.
LEMMA FreshFirst ==
  ASSUME NEW p \in Fresher
  PROVE  /\ FirstLoad(p).at = "sent" /\ FirstLoad(p).mounted /\ FirstLoad(p).answer = None
         /\ FirstLoad(p).op \in {"map", "list", "load"}
         /\ FirstLoad(p).op = "map" => p = FreshSeats
         /\ FirstLoad(p).op = "list" => p = FreshHistory
         /\ p.name = "seats" => p = FreshSeats
         /\ p.name = "history" => p = FreshHistory
<1>1. CASE p = FreshSeats
  BY <1>1 DEF FreshSeats, FirstLoad, Request
<1>2. CASE p = FreshHistory
  BY <1>2 DEF FreshHistory, FirstLoad, Request
<1>3. ASSUME NEW b \in Bookings, p = FreshCheckout(b)
      PROVE  p.name = "checkout" /\ FirstLoad(p) = Request("load", b)
  BY <1>3 DEF FreshCheckout, FirstLoad
<1>4. ASSUME NEW b \in Bookings, p = FreshConfirmation(b)
      PROVE  p.name = "confirm" /\ FirstLoad(p) = Request("load", b)
  BY <1>4 DEF FreshConfirmation, FirstLoad
<1> QED
  BY <1>1, <1>2, <1>3, <1>4 DEF Fresher, Request

\* One slot is freed, or has a new request or a new answer.
LEMMA CallsKept ==
  ASSUME TypeInv, NEW k \in Slots, NEW c, c = None \/ CallOK(c),
         c # None /\ c.at \in {"prepared", "applied"} => stage'[c.booking] # "NONE",
         calls' = [calls EXCEPT ![k] = c], \A b \in Bookings : Known(b) => Known(b)'
  PROVE  /\ calls' \in [Slots -> Call \cup {None}]
         /\ CallsOK(calls') /\ CarriedOK(calls', stage')
         /\ calls'[k] = c
         /\ \A j \in Slots : j # k => calls'[j] = calls[j]
  BY DEF TypeInv, TypeOK, GatewayTypeOK, CallsOK, CallOK, CarriedOK, Known

LEMMA Stages ==
  /\ \A s \in Lifecycle!Stage : Lifecycle!After[s] \subseteq Lifecycle!Stage
  /\ Lifecycle!After["NONE"] = {"HELD"}
  /\ Lifecycle!After["HELD"] = {"NONE", "PAID", "EXPIRED", "CANCELLED"}
  /\ "REFUND_PENDING" \in Lifecycle!After["PAID"]
  /\ "REFUND_PENDING" \in Lifecycle!After["CONFIRMED"]
  /\ Lifecycle!After["CANCELLED"] = {"REFUNDED"}
  /\ Lifecycle!After["REFUNDED"] = {}
  BY DEF Lifecycle!After, Lifecycle!Stage

-----------------------------------------------------------------------------
(* What steps do to the requests.                                            *)

\* An orphan keeps what it is about.
Orphaned(k) ==
  /\ calls[k] # None /\ calls[k].op \in Lasting
  /\ calls'[k] = [calls[k] EXCEPT !.mounted = FALSE]

\* Another page is there, with its first load in slot f.
Moved(f) ==
  /\ stage' = stage /\ lapsed' = lapsed
  /\ ~overlapped' /\ overlapped' \in BOOLEAN
  /\ page' \in {Elsewhere} \cup {Provider(b) : b \in Bookings} \cup Fresher
  /\ calls' = [k \in Slots |-> calls'[k]]
  /\ \A k \in Slots :
       \/ calls'[k] = None
       \/ k = f /\ page' \in Fresher /\ calls'[k] = FirstLoad(page')
       \/ Orphaned(k)

\* What is told is true when it is told, or says PENDING.
Told(a) ==
  /\ a.is = "view" /\ a.view.status # "PENDING" =>
       stage' = stage /\ a.view.status = stage[a.view.booking]
  /\ a.is = "list" =>
       /\ stage' = stage
       /\ \A b \in Bookings : stage[b] \in Gone => a.list[b] = stage[b]

\* Bookings that are there stay.
Onward == [Lifecycle!Next]_stage /\ \A b \in Bookings : Known(b) => Known(b)'

\* Slot k is answered, or what it asks for is carried out.
Served(k, c) ==
  /\ page' = page /\ overlapped' = overlapped /\ lapsed' = lapsed
  /\ calls[k] # None /\ CallOK(c)
  /\ c.op = calls[k].op /\ c.booking = calls[k].booking /\ c.mounted = calls[k].mounted
  /\ calls' = [calls EXCEPT ![k] = c]
  /\ Onward
  /\ c.at \in {"prepared", "applied"} => stage'[c.booking] # "NONE"
  /\ c.at = "answered" => Told(c.answer)

\* Only requests with effects outlive their page.
LEMMA OrphansOK ==
  ASSUME TypeInv, NEW k \in Slots
  PROVE  /\ Orphans[k] = None \/ (/\ calls[k] # None /\ calls[k].op \in Lasting
                                  /\ Orphans[k] = [calls[k] EXCEPT !.mounted = FALSE])
         /\ DOMAIN Orphans = Slots
  BY DEF Orphans, Forgotten

LEMMA MountMoves ==
  ASSUME TypeInv, NEW p \in Fresher, NEW freed, Mount(p, freed), UNCHANGED serverVars
  PROVE  \E f \in Slots : Moved(f)
<1> DEFINE left == [k \in Slots |-> IF k = freed THEN None ELSE Orphans[k]]
<1>1. /\ page' = p /\ overlapped' = FALSE /\ stage' = stage /\ lapsed' = lapsed
  BY DEF Mount, serverVars
<1>2. PICK f \in Slots : calls' = [left EXCEPT ![f] = FirstLoad(p)]
  BY DEF Mount
<1>3. \A k \in Slots : calls'[k] = IF k = f THEN FirstLoad(p)
                                   ELSE IF k = freed THEN None ELSE Orphans[k]
  BY <1>2
<1>4. calls' = [k \in Slots |-> calls'[k]]
  BY <1>2
<1>5. \A k \in Slots : \/ calls'[k] = None
                       \/ k = f /\ page' \in Fresher /\ calls'[k] = FirstLoad(page')
                       \/ Orphaned(k)
  BY <1>1, <1>3, OrphansOK DEF Orphaned
<1> QED
  BY <1>1, <1>4, <1>5 DEF Moved

\* The steps that take the customer to another page.
Leaves ==
  \/ \E p \in Fresh : Visit(p)
  \/ GoElsewhere
  \/ \E k \in Slots : \/ \E p \in Fresh : OpenInBrowser(k, p)
                      \/ PaySignedOut(k) \/ GoToProvider(k)
                      \/ ~On("checkout") /\ HoldAnswered(k)

LEMMA LeavesMoves ==
  ASSUME TypeInv, Leaves
  PROVE  \E f : Moved(f)
<1>1. ASSUME NEW p \in Fresh, Visit(p)
      PROVE  \E f : Moved(f)
  BY <1>1, FreshOK, MountMoves DEF Visit
<1>2. ASSUME NEW k \in Slots, NEW p \in Fresh, OpenInBrowser(k, p)
      PROVE  Moved(k)
  BY <1>2, FreshOK DEF OpenInBrowser, Moved, serverVars
<1>3. CASE GoElsewhere
  <2>1. /\ page' = Elsewhere /\ overlapped' = FALSE /\ calls' = Orphans
        /\ stage' = stage /\ lapsed' = lapsed
    BY <1>3 DEF GoElsewhere, serverVars
  <2>2. calls' = [j \in Slots |-> calls'[j]]
    BY <2>1 DEF Orphans
  <2>3. Moved(None)
    BY <2>1, <2>2, OrphansOK DEF Moved, Orphaned
  <2> QED
    BY <2>3
<1>4. ASSUME NEW k \in Slots, PaySignedOut(k)
      PROVE  \E f : Moved(f)
  <2>1. /\ page' = Elsewhere /\ overlapped' = FALSE /\ stage' = stage /\ lapsed' = lapsed
        /\ calls' = [Orphans EXCEPT ![k] = None]
    BY <1>4 DEF PaySignedOut, serverVars
  <2>2. /\ calls' = [j \in Slots |-> calls'[j]]
        /\ \A j \in Slots : calls'[j] = IF j = k THEN None ELSE Orphans[j]
    BY <2>1, OrphansOK DEF Orphans
  <2>3. Moved(k)
    BY <2>1, <2>2, OrphansOK DEF Moved, Orphaned
  <2> QED
    BY <2>3
<1>5. ASSUME NEW k \in Slots, GoToProvider(k)
      PROVE  \E f : Moved(f)
  <2>1. calls[k].booking \in Bookings
    BY <1>5 DEF GoToProvider, TypeInv, CallsOK, CallOK, At, Unused
  <2>2. Moved(k)
    BY <1>5, <2>1 DEF GoToProvider, Moved, serverVars
  <2> QED
    BY <2>2
<1>6. ASSUME NEW k \in Slots, ~On("checkout"), HoldAnswered(k)
      PROVE  \E f : Moved(f)
  <2> DEFINE b == calls[k].answer.view.booking
  <2>1. b \in Bookings
    <3>1. CallOK(calls[k]) /\ calls[k].at = "answered" /\ calls[k].answer.is = "view"
      BY <1>6 DEF HoldAnswered, TypeInv, CallsOK, At, Unused, Got
    <3>2. calls[k].answer.view \in View
      BY <3>1, AnswerKinds DEF CallOK
    <3> QED
      BY <3>2 DEF View
  <2>2. Mount(FreshCheckout(b), k) /\ UNCHANGED serverVars
    BY <1>6 DEF HoldAnswered
  <2>3. FreshCheckout(b) \in Fresher
    BY <2>1 DEF Fresher
  <2> QED
    BY <2>2, <2>3, MountMoves
<1> QED
  BY <1>1, <1>2, <1>3, <1>4, <1>5, <1>6 DEF Leaves

LEMMA OrphanOK ==
  ASSUME NEW c, CallOK(c)
  PROVE  CallOK([c EXCEPT !.mounted = FALSE])
<1> DEFINE d == [c EXCEPT !.mounted = FALSE]
<1>1. /\ d \in Call /\ d.op = c.op /\ d.booking = c.booking /\ d.at = c.at
      /\ d.answer = c.answer
  BY DEF CallOK, Call
<1> HIDE DEF d
<1>2. CallOK(d)
  BY <1>1 DEF CallOK
<1> QED
  BY <1>2 DEF d

LEMMA MovedTypes ==
  ASSUME TypeInv, NEW f, Moved(f)
  PROVE  TypeInv'
<1>1. page' \in Page
  BY FreshOK DEF Moved, Page
<1>2. \A k \in Slots : calls'[k] # None => CallOK(calls'[k])
  BY FreshOK, OrphanOK DEF Moved, Orphaned, TypeInv, CallsOK
<1>3. calls' \in [Slots -> Call \cup {None}]
  BY <1>2 DEF Moved, CallOK
<1>4. overlapped' \in BOOLEAN
  BY DEF Moved
<1>5. stage' = stage /\ lapsed' = lapsed
  BY DEF Moved
<1>6. GatewayTypeOK'
  BY <1>3, <1>5 DEF TypeInv, TypeOK, GatewayTypeOK
<1>7. TypeOK'
  BY <1>1, <1>4, <1>6 DEF TypeOK, Page
<1>8. CarriedOK(calls', stage')
  <2> SUFFICES ASSUME NEW k \in Slots, calls'[k] # None, calls'[k].at \in {"prepared", "applied"}
               PROVE  stage'[calls'[k].booking] # "NONE"
    BY DEF CarriedOK
  <2>1. CASE calls'[k] = FirstLoad(page') /\ page' \in Fresher
    BY <2>1, FreshFirst
  <2>2. CASE Orphaned(k)
    <3>1. /\ calls[k] # None /\ calls'[k] = [calls[k] EXCEPT !.mounted = FALSE]
          /\ calls[k] \in Call
      BY <2>2 DEF Orphaned, TypeInv, CallsOK, CallOK
    <3>2. calls'[k].at = calls[k].at /\ calls'[k].booking = calls[k].booking
      BY <3>1 DEF Call
    <3> QED
      BY <1>5, <3>1, <3>2 DEF TypeInv, CarriedOK
  <2> QED
    BY <2>1, <2>2 DEF Moved
<1> QED
  BY <1>2, <1>7, <1>8 DEF TypeInv, CallsOK

LEMMA ReplyServes ==
  ASSUME TypeInv, NEW k \in Slots, calls[k] # None, NEW a \in Answer, Reply(k, a), Told(a),
         UNCHANGED <<page, overlapped, lapsed>>, Onward
  PROVE  \E c : Served(k, c)
<1> DEFINE c == [calls[k] EXCEPT !.at = "answered", !.answer = a]
<1>1. CallOK(calls[k]) /\ calls[k] \in Call
  BY DEF TypeInv, CallsOK, CallOK
<1>2. calls' = [calls EXCEPT ![k] = c]
  BY DEF Reply
<1>3. /\ c \in Call /\ c.op = calls[k].op /\ c.booking = calls[k].booking
      /\ c.mounted = calls[k].mounted /\ c.at = "answered" /\ c.answer = a
  BY <1>1 DEF Call
<1> HIDE DEF c
<1>4. CallOK(c)
  BY <1>1, <1>3 DEF CallOK
<1>5. Served(k, c)
  BY <1>2, <1>3, <1>4 DEF Served, Told
<1> QED
  BY <1>5

LEMMA AdvanceServes ==
  ASSUME TypeInv, NEW k \in Slots, calls[k] # None, NEW at,
         \/ at = "prepared" /\ calls[k].op = "pay"
         \/ at = "applied" /\ calls[k].op \in {"pay", "cancel"},
         calls' = [calls EXCEPT ![k].at = at], stage'[calls[k].booking] # "NONE",
         UNCHANGED <<page, overlapped, lapsed>>, Onward
  PROVE  \E c : Served(k, c)
<1> DEFINE c == [calls[k] EXCEPT !.at = at]
<1>1. CallOK(calls[k]) /\ calls[k] \in Call
  BY DEF TypeInv, CallsOK, CallOK
<1>2. calls' = [calls EXCEPT ![k] = c]
  OBVIOUS
<1>3. /\ c \in Call /\ c.op = calls[k].op /\ c.booking = calls[k].booking
      /\ c.mounted = calls[k].mounted /\ c.at = at
  BY <1>1 DEF Call
<1> HIDE DEF c
<1>4. CallOK(c)
  BY <1>1, <1>3 DEF CallOK
<1>5. Served(k, c)
  BY <1>2, <1>3, <1>4 DEF Served
<1> QED
  BY <1>5

LEMMA FailedOK == Failed \in Answer /\ Told(Failed)
  BY DEF Failed, Answer, Told

\* What customers are shown of a booking they can know.
LEMMA ViewOfOK ==
  ASSUME TypeInv, NEW b \in Bookings
  PROVE  /\ stage[b] \in Lifecycle!Stage
         /\ Known(b) => StatusOf(b) \in Statuses /\ ViewOf(b) \in View
         /\ StatusOf(b) # "PENDING" => StatusOf(b) = stage[b]
         /\ stage[b] \in Gone => Known(b) /\ StatusOf(b) = stage[b]
  BY DEF TypeInv, TypeOK, GatewayTypeOK, Lifecycle!Stage, Known, StatusOf, Statuses, ViewOf,
         View, Gone

LEMMA ServesAnswer ==
  ASSUME TypeInv, NEW k \in Slots, UNCHANGED <<page, overlapped>>,
         ServeView(k) \/ ServeList(k) \/ ServeMap(k) \/ Charge(k) \/ ReadBack(k) \/ Unserved(k)
  PROVE  \E c : Served(k, c)
<1>1. calls[k] # None /\ CallOK(calls[k]) /\ stage' = stage /\ lapsed' = lapsed
  BY DEF ServeView, ServeList, ServeMap, Charge, ReadBack, Unserved, Asked, At, Unused,
         TypeInv, CallsOK, serverVars
<1>2. Onward
  BY <1>1 DEF Onward, Known
<1> DEFINE b == calls[k].booking
<1>3. CASE ServeView(k)
  <2>1. b \in Bookings
    BY <1>1, <1>3 DEF ServeView, Asked, CallOK
  <2>2. CASE ~Known(b)
    BY <1>1, <1>2, <1>3, <2>2, FailedOK, ReplyServes DEF ServeView
  <2>3. CASE Known(b)
    <3> DEFINE a == [is |-> "view", view |-> ViewOf(b)]
    <3>1. Reply(k, a)
      BY <1>3, <2>3 DEF ServeView
    <3>2. a \in Answer
      BY <2>1, <2>3, ViewOfOK DEF Answer
    <3>3. Told(a)
      BY <1>1, <2>1, ViewOfOK DEF Told, ViewOf
    <3> HIDE DEF a
    <3> QED
      BY <1>1, <1>2, <3>1, <3>2, <3>3, ReplyServes
  <2> QED
    BY <2>2, <2>3
<1>4. CASE ServeList(k)
  <2> DEFINE list == [d \in Bookings |-> IF Known(d) THEN StatusOf(d) ELSE None]
             a == [is |-> "list", list |-> list]
  <2>1. Reply(k, a)
    BY <1>4 DEF ServeList
  <2>2. list \in [Bookings -> Statuses \cup {None}]
    BY ViewOfOK
  <2>3. \A d \in Bookings : stage[d] \in Gone => list[d] = stage[d]
    BY ViewOfOK
  <2> HIDE DEF list
  <2>4. a \in Answer /\ Told(a)
    BY <1>1, <2>2, <2>3 DEF Answer, Told
  <2> HIDE DEF a
  <2> QED
    BY <1>1, <1>2, <2>1, <2>4, ReplyServes
<1>5. CASE ServeMap(k)
  <2>1. PICK taken \in SUBSET Seats : Reply(k, [is |-> "map", taken |-> taken])
    BY <1>5 DEF ServeMap
  <2>2. [is |-> "map", taken |-> taken] \in Answer /\ Told([is |-> "map", taken |-> taken])
    BY DEF Answer, Told
  <2> QED
    BY <1>1, <1>2, <2>1, <2>2, ReplyServes
<1>6. CASE Charge(k)
  <2>1. calls[k].op = "pay"
    BY <1>1, <1>6 DEF Charge, At, CallOK
  <2>2. stage'[b] # "NONE"
    BY <1>1, <1>6 DEF Charge, TypeInv, CarriedOK, At
  <2>3. CASE Reply(k, Failed)
    BY <1>1, <1>2, <2>3, FailedOK, ReplyServes
  <2>4. CASE calls' = [calls EXCEPT ![k].at = "applied"]
    BY <1>1, <1>2, <2>1, <2>4, <2>2, AdvanceServes
  <2> QED
    BY <1>6, <2>3, <2>4 DEF Charge
<1>7. CASE ReadBack(k)
  <2> DEFINE a == [is |-> IF calls[k].op = "pay" THEN "invoice" ELSE "view",
                   view |-> ViewOf(b)]
  <2>1. Reply(k, a)
    BY <1>7 DEF ReadBack
  <2>2. b \in Bookings
    BY <1>1, <1>7 DEF ReadBack, At, CallOK
  <2>3. Known(b)
    BY <1>7 DEF ReadBack, TypeInv, CarriedOK, At, Unused, Known
  <2>4. a \in Answer
    BY <2>2, <2>3, ViewOfOK DEF Answer
  <2>5. Told(a)
    BY <1>1, <2>2, ViewOfOK DEF Told, ViewOf
  <2> HIDE DEF a
  <2> QED
    BY <1>1, <1>2, <2>1, <2>4, <2>5, ReplyServes
<1>8. CASE Unserved(k)
  <2>1. [is |-> "signedOut"] \in Answer /\ Told([is |-> "signedOut"])
    BY DEF Answer, Told
  <2> QED
    BY <1>1, <1>2, <1>8, <2>1, FailedOK, ReplyServes DEF Unserved
<1> QED
  BY <1>3, <1>4, <1>5, <1>6, <1>7, <1>8

LEMMA MoveOnward ==
  ASSUME TypeInv, NEW b \in Bookings, NEW s \in Lifecycle!After[stage[b]], s # "NONE",
         stage' = [stage EXCEPT ![b] = s]
  PROVE  Onward
  BY DEF Onward, Lifecycle!Next, Lifecycle!Advance, Known, TypeInv, TypeOK, GatewayTypeOK

LEMMA ServesHold ==
  ASSUME TypeInv, NEW k \in Slots, UNCHANGED <<page, overlapped>>, ServeHold(k)
  PROVE  \E c : Served(k, c)
<1>1. calls[k] # None /\ lapsed' = lapsed
  BY DEF ServeHold, Asked, At, Unused
<1>2. ASSUME NEW b \in Bookings, ~Known(b), stage' = [stage EXCEPT ![b] = "HELD"],
             \/ Reply(k, [is |-> "view", view |-> [booking |-> b, status |-> "PENDING"]])
             \/ Reply(k, Failed)
      PROVE  \E c : Served(k, c)
  <2> DEFINE a == [is |-> "view", view |-> [booking |-> b, status |-> "PENDING"]]
  <2>1. Onward
    BY <1>2, Stages, MoveOnward DEF Known
  <2>2. a \in Answer /\ Told(a)
    BY DEF Answer, View, Statuses, Told
  <2>3. Reply(k, a) \/ Reply(k, Failed)
    BY <1>2
  <2> HIDE DEF a
  <2> QED
    BY <1>1, <2>1, <2>2, <2>3, FailedOK, ReplyServes
<1>3. CASE Reply(k, [is |-> "conflict"]) /\ UNCHANGED stage
  <2>1. [is |-> "conflict"] \in Answer /\ Told([is |-> "conflict"]) /\ Onward
    BY <1>3 DEF Answer, Told, Onward, Known
  <2> QED
    BY <1>1, <1>3, <2>1, ReplyServes
<1> QED
  BY <1>2, <1>3 DEF ServeHold

LEMMA ServesCancel ==
  ASSUME TypeInv, NEW k \in Slots, UNCHANGED <<page, overlapped>>, ServeCancel(k)
  PROVE  \E c : Served(k, c)
<1> DEFINE b == calls[k].booking
<1>1. calls[k] # None /\ lapsed' = lapsed /\ calls[k].op = "cancel" /\ b \in Bookings
  BY DEF ServeCancel, Asked, At, Unused, TypeInv, CallsOK, CallOK
<1>2. CASE /\ stage[b] \in {"HELD", "PAID", "CONFIRMED"}
           /\ stage' = [stage EXCEPT ![b] = IF @ = "HELD" THEN "CANCELLED" ELSE "REFUND_PENDING"]
           /\ calls' = [calls EXCEPT ![k].at = "applied"]
  <2> DEFINE s == IF stage[b] = "HELD" THEN "CANCELLED" ELSE "REFUND_PENDING"
  <2>1. s # "NONE" /\ s \in Lifecycle!After[stage[b]]
    BY <1>2, Stages
  <2>2. stage' = [stage EXCEPT ![b] = s]
    BY <1>2
  <2> HIDE DEF s
  <2>3. Onward
    BY <1>1, <2>1, <2>2, MoveOnward
  <2>4. stage'[b] # "NONE"
    BY <1>1, <2>1, <2>2 DEF TypeInv, TypeOK, GatewayTypeOK
  <2> QED
    BY <1>1, <1>2, <2>3, <2>4, AdvanceServes
<1>3. CASE Reply(k, Failed) /\ UNCHANGED stage
  <2>1. Onward
    BY <1>3 DEF Onward, Known
  <2> QED
    BY <1>1, <1>3, <2>1, FailedOK, ReplyServes
<1> QED
  BY <1>2, <1>3 DEF ServeCancel

LEMMA ServesCharge ==
  ASSUME TypeInv, NEW k \in Slots, UNCHANGED <<page, overlapped>>, PrepareCharge(k)
  PROVE  \E c : Served(k, c)
<1> DEFINE b == calls[k].booking
<1>1. calls[k] # None /\ lapsed' = lapsed /\ calls[k].op = "pay" /\ b \in Bookings
  BY DEF PrepareCharge, Asked, At, Unused, TypeInv, CallsOK, CallOK
<1>2. CASE stage[b] = "HELD" /\ calls' = [calls EXCEPT ![k].at = "prepared"] /\ UNCHANGED stage
  <2>1. Onward /\ stage'[b] # "NONE"
    BY <1>2 DEF Onward, Known
  <2> QED
    BY <1>1, <1>2, <2>1, AdvanceServes
<1>3. CASE stage[b] = "HELD" /\ stage' = [stage EXCEPT ![b] = "EXPIRED"] /\ Reply(k, Failed)
  <2>1. "EXPIRED" \in Lifecycle!After[stage[b]]
    BY <1>3, Stages
  <2>2. Onward
    BY <1>1, <1>3, <2>1, MoveOnward
  <2> QED
    BY <1>1, <1>3, <2>2, FailedOK, ReplyServes
<1>4. CASE Reply(k, Failed) /\ UNCHANGED stage
  <2>1. Onward
    BY <1>4 DEF Onward, Known
  <2> QED
    BY <1>1, <1>4, <2>1, FailedOK, ReplyServes
<1> QED
  BY <1>2, <1>3, <1>4 DEF PrepareCharge

LEMMA ServerServes ==
  ASSUME TypeInv, NEW k \in Slots, Server(k)
  PROVE  \E c : Served(k, c)
  BY ServesAnswer, ServesHold, ServesCancel, ServesCharge DEF Server, Serve

LEMMA MovesOnward ==
  ASSUME TypeInv, NEW b \in Bookings, BookingMoves(b)
  PROVE  Onward /\ lapsed' = lapsed
<1>1. PICK s \in Lifecycle!After[stage[b]] \ {"NONE", "CANCELLED"} :
        stage' = [stage EXCEPT ![b] = s]
  BY DEF BookingMoves
<1>2. s \in Lifecycle!After[stage[b]] /\ s # "NONE"
  OBVIOUS
<1> QED
  BY <1>1, <1>2, MoveOnward DEF BookingMoves

\* What Onward says of a booking.
LEMMA OnwardOK ==
  ASSUME TypeInv, Onward
  PROVE  /\ stage' \in [Bookings -> Lifecycle!Stage]
         /\ \A b \in Bookings : stage[b] \in Gone => stage'[b] \in Gone
<1>1. stage \in [Bookings -> Lifecycle!Stage]
  BY DEF TypeInv, TypeOK, GatewayTypeOK
<1>2. CASE stage' = stage
  BY <1>1, <1>2
<1>3. ASSUME NEW b \in Bookings, NEW s \in Lifecycle!After[stage[b]],
             stage' = [stage EXCEPT ![b] = s]
      PROVE  /\ stage' \in [Bookings -> Lifecycle!Stage]
             /\ \A d \in Bookings : stage[d] \in Gone => stage'[d] \in Gone
  <2>1. s \in Lifecycle!Stage
    BY <1>1, Stages
  <2>2. stage[b] \in Gone => s \in Gone
    BY Stages DEF Gone
  <2> QED
    BY <1>1, <1>3, <2>1, <2>2
<1> QED
  BY <1>2, <1>3 DEF Onward, Lifecycle!Next, Lifecycle!Advance

-----------------------------------------------------------------------------
(* What steps do to the page.                                                *)

\* A handler of a page asks for something, in slot k, or frees it.
Posted(k, c, ops) ==
  /\ stage' = stage /\ lapsed' = lapsed
  /\ calls' = [calls EXCEPT ![k] = c]
  /\ c # None => CallOK(c) /\ c.at \in {"sent", "leaving"} /\ c.op \in ops

LEMMA PostedTypes ==
  ASSUME TypeInv, NEW k \in Slots, NEW c, NEW ops, Posted(k, c, ops),
         page' \in Page, overlapped' \in BOOLEAN
  PROVE  TypeInv' /\ calls'[k] = c /\ \A j \in Slots : j # k => calls'[j] = calls[j]
<1>1. /\ calls' \in [Slots -> Call \cup {None}]
      /\ CallsOK(calls') /\ CarriedOK(calls', stage')
      /\ calls'[k] = c
      /\ \A j \in Slots : j # k => calls'[j] = calls[j]
  BY CallsKept DEF Posted, Known
<1>2. stage' = stage /\ lapsed' = lapsed
  BY DEF Posted
<1>3. TypeOK'
  BY <1>1, <1>2 DEF TypeInv, TypeOK, GatewayTypeOK, Page
<1> QED
  BY <1>1, <1>3 DEF TypeInv

LEMMA StillTypes ==
  ASSUME TypeInv, stage' = stage, calls' = calls, lapsed' \subseteq Bookings,
         page' \in Page, overlapped' \in BOOLEAN
  PROVE  TypeInv'
<1>1. TypeOK'
  BY DEF TypeInv, TypeOK, GatewayTypeOK, Page
<1> QED
  BY <1>1 DEF TypeInv

LEMMA ServedTypes ==
  ASSUME TypeInv, NEW k \in Slots, NEW c, Served(k, c)
  PROVE  TypeInv' /\ calls'[k] = c /\ \A j \in Slots : j # k => calls'[j] = calls[j]
<1>1. /\ calls' \in [Slots -> Call \cup {None}]
      /\ CallsOK(calls') /\ CarriedOK(calls', stage')
      /\ calls'[k] = c
      /\ \A j \in Slots : j # k => calls'[j] = calls[j]
  BY CallsKept DEF Served, Onward
<1>2. stage' \in [Bookings -> Lifecycle!Stage]
  BY OnwardOK DEF Served
<1>3. page' = page /\ overlapped' = overlapped /\ lapsed' = lapsed
  BY DEF Served
<1>4. TypeOK'
  BY <1>1, <1>2, <1>3 DEF TypeInv, TypeOK, GatewayTypeOK
<1> QED
  BY <1>1, <1>4 DEF TypeInv

\* An answer to the page, and what it carries.
LEMMA AnsweredOK ==
  ASSUME TypeInv, NEW k \in Slots, At(k, "answered")
  PROVE  /\ calls[k] # None /\ CallOK(calls[k])
         /\ calls[k].answer \in Answer
         /\ Got(k, "view") \/ Got(k, "invoice") => calls[k].answer.view \in View
         /\ Got(k, "map") => calls[k].answer.taken \in SUBSET Seats
         /\ Got(k, "list") => calls[k].answer.list \in [Bookings -> Statuses \cup {None}]
<1>1. calls[k] # None /\ CallOK(calls[k]) /\ calls[k].answer \in Answer
  BY DEF TypeInv, CallsOK, CallOK, At, Unused
<1> QED
  BY <1>1, AnswerKinds DEF Got

LEMMA PageTypes ==
  ASSUME TypeInv
  PROVE  /\ page \in Page /\ overlapped \in BOOLEAN
         /\ On("seats") => page \in SeatPicker
         /\ On("checkout") => page \in Checkout
         /\ On("confirm") => page \in Confirmation
         /\ On("history") => page \in History
<1>1. page \in Page /\ overlapped \in BOOLEAN
  BY DEF TypeInv, TypeOK, Page
<1> QED
  BY <1>1, PageKinds DEF On

LEMMA FreesSlot ==
  ASSUME NEW k \in Slots, Done(k), UNCHANGED serverVars, NEW ops
  PROVE  Posted(k, None, ops)
  BY DEF Done, Posted, serverVars

LEMMA SendsRequest ==
  ASSUME NEW k \in Slots, NEW op, NEW b \in Bookings \cup {None},
         \/ op \in {"map", "refresh", "hold", "list"}
         \/ op \in {"load", "poll", "sync", "pay", "cancel"} /\ b \in Bookings,
         Sent(k, op, b) \/ calls' = [calls EXCEPT ![k] = Request(op, b)], UNCHANGED serverVars,
         NEW ops, op \in ops
  PROVE  Posted(k, Request(op, b), ops)
<1>1. CallOK(Request(op, b))
  BY RequestOK DEF Ops
<1>2. Request(op, b).at = "sent" /\ Request(op, b).op = op
  BY DEF Request
<1> QED
  BY <1>1, <1>2 DEF Sent, Posted, serverVars

SeatsStep(k) ==
  RetryMap(k) \/ MapAnswered(k) \/ Hold(k) \/ HoldRefused(k) \/ RefreshAnswered(k)

SeatsOps == {"map", "hold", "refresh"}

LEMMA SeatsTypes ==
  ASSUME TypeInv, NEW k \in Slots, SeatsStep(k)
  PROVE  /\ page \in SeatPicker /\ page' \in SeatPicker /\ overlapped' = overlapped
         /\ \E c : Posted(k, c, SeatsOps)
<1>1. page \in SeatPicker /\ overlapped' = overlapped /\ UNCHANGED serverVars
  BY PageTypes DEF SeatsStep, RetryMap, MapAnswered, Hold, HoldRefused, RefreshAnswered
<1>2. CASE RetryMap(k)
  <2>1. page' \in SeatPicker
    BY <1>1, <1>2 DEF RetryMap, FreshSeats, SeatPicker
  <2>2. Posted(k, Request("map", None), SeatsOps)
    BY <1>1, <1>2, SendsRequest DEF RetryMap, SeatsOps
  <2> QED
    BY <1>1, <2>1, <2>2
<1>3. CASE MapAnswered(k)
  <2>1. Got(k, "map") => calls[k].answer.taken \in SUBSET Seats
    BY <1>3, AnsweredOK DEF MapAnswered, Answered
  <2>2. page' \in SeatPicker
    BY <1>1, <1>3, <2>1 DEF MapAnswered, SeatPicker
  <2>3. Posted(k, None, SeatsOps)
    BY <1>1, <1>3, FreesSlot DEF MapAnswered
  <2> QED
    BY <1>1, <2>2, <2>3
<1>4. CASE Hold(k)
  <2>1. page' \in SeatPicker
    BY <1>1, <1>4 DEF Hold, SeatPicker
  <2>2. Posted(k, Request("hold", None), SeatsOps)
    BY <1>1, <1>4, SendsRequest DEF Hold, SeatsOps
  <2> QED
    BY <1>1, <2>1, <2>2
<1>5. CASE HoldRefused(k)
  <2>1. page' \in SeatPicker
    BY <1>1, <1>5 DEF HoldRefused, SeatPicker
  <2>2. Posted(k, Request("refresh", None), SeatsOps) \/ Posted(k, None, SeatsOps)
    BY <1>1, <1>5, SendsRequest, FreesSlot DEF HoldRefused, SeatsOps
  <2> QED
    BY <1>1, <2>1, <2>2
<1>6. CASE RefreshAnswered(k)
  <2>1. Got(k, "map") => calls[k].answer.taken \in SUBSET Seats
    BY <1>6, AnsweredOK DEF RefreshAnswered, Answered
  <2>2. page' \in SeatPicker
    BY <1>1, <1>6, <2>1 DEF RefreshAnswered, SeatPicker
  <2>3. Posted(k, None, SeatsOps)
    BY <1>1, <1>6, FreesSlot DEF RefreshAnswered
  <2> QED
    BY <1>1, <2>2, <2>3
<1> QED
  BY <1>2, <1>3, <1>4, <1>5, <1>6 DEF SeatsStep

LEMMA ToggleTypes ==
  ASSUME TypeInv, NEW s \in Seats, Toggle(s)
  PROVE  /\ page \in SeatPicker /\ page' \in SeatPicker
         /\ UNCHANGED <<serverVars, calls, overlapped>>
<1>1. page \in SeatPicker /\ UNCHANGED <<serverVars, calls, overlapped>>
  BY PageTypes DEF Toggle
<1>2. CASE page' = [page EXCEPT !.selected = @ \ {s}]
  BY <1>1, <1>2 DEF SeatPicker
<1>3. CASE page' = [page EXCEPT !.selected = @ \cup {s},
                                !.blind = IF Refreshing THEN @ \cup {s} ELSE @]
  BY <1>1, <1>3 DEF SeatPicker
<1> QED
  BY <1>1, <1>2, <1>3 DEF Toggle

\* The checkout, and the payment it opened, which may outlive it.
CheckoutStep(k) ==
  \/ \E b \in Bookings : Known(b) /\ LoadCheckout(k, b)
  \/ CheckoutLoaded(k) \/ Pay(k)
  \/ On("checkout") /\ HoldAnswered(k)

CheckoutOps == {"load", "pay"}

LEMMA CheckoutTypes ==
  ASSUME TypeInv, NEW k \in Slots, CheckoutStep(k)
  PROVE  /\ page \in Checkout /\ page' \in Checkout /\ overlapped' = overlapped
         /\ \E c : Posted(k, c, CheckoutOps)
<1>1. page \in Checkout /\ UNCHANGED serverVars
  BY PageTypes DEF CheckoutStep, LoadCheckout, CheckoutLoaded, Pay, HoldAnswered
<1>2. ASSUME NEW b \in Bookings, LoadCheckout(k, b)
      PROVE  /\ page' \in Checkout /\ overlapped' = overlapped
             /\ Posted(k, Request("load", b), CheckoutOps)
  <2>1. page' = [FreshCheckout(b) EXCEPT !.paying = page.paying] /\ overlapped' = overlapped
    BY <1>2 DEF LoadCheckout
  <2>2. page' \in Checkout
    BY <1>1, <2>1 DEF FreshCheckout, Checkout
  <2>3. Posted(k, Request("load", b), CheckoutOps)
    BY <1>1, <1>2, SendsRequest DEF LoadCheckout, CheckoutOps
  <2> QED
    BY <2>1, <2>2, <2>3
<1>3. CASE CheckoutLoaded(k)
  <2>1. Got(k, "view") => calls[k].answer.view \in View
    BY <1>3, AnsweredOK DEF CheckoutLoaded, Answered
  <2>2. page' \in Checkout
    BY <1>1, <1>3, <2>1 DEF CheckoutLoaded, Checkout
  <2>3. Posted(k, None, CheckoutOps)
    BY <1>1, <1>3, FreesSlot DEF CheckoutLoaded
  <2> QED
    BY <1>1, <1>3, <2>2, <2>3 DEF CheckoutLoaded
<1>4. CASE Pay(k)
  <2>1. page' \in Checkout
    BY <1>1, <1>4 DEF Pay, Checkout
  <2>2. page.id \in Bookings
    BY <1>1 DEF Checkout
  <2>3. Posted(k, Request("pay", page.id), CheckoutOps)
    BY <1>1, <1>4, <2>2, SendsRequest DEF Pay, CheckoutOps
  <2> QED
    BY <1>1, <1>4, <2>1, <2>3 DEF Pay
<1>5. CASE On("checkout") /\ HoldAnswered(k)
  <2> DEFINE b == calls[k].answer.view.booking
  <2>1. b \in Bookings
    BY <1>5, AnsweredOK DEF HoldAnswered, View
  <2>2. CASE /\ page' = [FreshCheckout(b) EXCEPT !.paying = page.paying]
             /\ calls' = [calls EXCEPT ![k] = Request("load", b)]
             /\ UNCHANGED overlapped
    <3>1. page' \in Checkout
      BY <1>1, <2>1, <2>2 DEF FreshCheckout, Checkout
    <3>2. Posted(k, Request("load", b), CheckoutOps)
      BY <1>1, <2>1, <2>2, SendsRequest DEF CheckoutOps
    <3> QED
      BY <1>1, <2>2, <3>1, <3>2
  <2>3. CASE Done(k) /\ UNCHANGED <<page, overlapped>>
    <3>1. Posted(k, None, CheckoutOps)
      BY <1>1, <2>3, FreesSlot
    <3> QED
      BY <1>1, <2>3, <3>1
  <2> QED
    BY <1>5, <2>2, <2>3 DEF HoldAnswered
<1> QED
  BY <1>1, <1>2, <1>3, <1>4, <1>5 DEF CheckoutStep

\* A payment that is answered: the page that asked for it, if it is still there,
\* is a checkout that waits for it.
LEMMA PayAnsweredTypes ==
  ASSUME TypeInv, PayInv, NEW k \in Slots, PayAnswered(k)
  PROVE  /\ page' \in Page /\ page'.name = page.name /\ overlapped' = overlapped
         /\ ~calls[k].mounted => page' = page
         /\ calls[k].mounted => page \in Checkout /\ page' \in Checkout
         /\ \E c : /\ Posted(k, c, {"pay"})
                   /\ c # None => c.mounted = calls[k].mounted /\ page'.paying = page.paying
<1>1. /\ UNCHANGED serverVars /\ overlapped' = overlapped
      /\ calls[k] # None /\ CallOK(calls[k]) /\ calls[k].op = "pay"
  BY AnsweredOK DEF PayAnswered
<1>2. calls[k].mounted => page \in Checkout
  BY <1>1, PageTypes DEF PayInv, PayOK, Paying, InFlight, On
<1>3. page \in Page
  BY PageTypes
<1> DEFINE view == calls[k].answer.view
<1>4. Got(k, "invoice") => view \in View
  BY AnsweredOK DEF PayAnswered
<1>5. CASE /\ Got(k, "invoice")
           /\ page' = IF calls[k].mounted THEN [page EXCEPT !.shown = view, !.paying = FALSE]
                      ELSE page
           /\ Done(k)
  <2>1. calls[k].mounted => page' \in Checkout /\ page'.name = page.name
    BY <1>2, <1>4, <1>5 DEF Checkout
  <2>2. Posted(k, None, {"pay"})
    BY <1>1, <1>5, FreesSlot
  <2> QED
    BY <1>1, <1>2, <1>3, <1>5, <2>1, <2>2 DEF Page
<1>6. CASE /\ page' = IF calls[k].mounted THEN [page EXCEPT !.leaving = TRUE] ELSE page
           /\ calls' = [calls EXCEPT ![k].at = "leaving"]
  <2> DEFINE c == [calls[k] EXCEPT !.at = "leaving"]
  <2>1. calls[k].mounted => /\ page' \in Checkout /\ page'.name = page.name
                            /\ page'.paying = page.paying
    BY <1>2, <1>6 DEF Checkout
  <2>2. /\ c \in Call /\ c.op = "pay" /\ c.at = "leaving" /\ c.mounted = calls[k].mounted
        /\ c.booking = calls[k].booking
    BY <1>1 DEF CallOK, Call
  <2>3. calls' = [calls EXCEPT ![k] = c]
    BY <1>6
  <2> HIDE DEF c
  <2>4. Posted(k, c, {"pay"})
    BY <1>1, <2>2, <2>3 DEF Posted, CallOK, serverVars
  <2> QED
    BY <1>1, <1>2, <1>3, <1>6, <2>1, <2>2, <2>4 DEF Page
<1>7. CASE /\ calls[k].mounted
           /\ page' = [page EXCEPT !.failed = TRUE, !.paying = FALSE]
           /\ Done(k)
  <2>1. page' \in Checkout /\ page'.name = page.name
    BY <1>2, <1>7 DEF Checkout
  <2>2. Posted(k, None, {"pay"})
    BY <1>1, <1>7, FreesSlot
  <2> QED
    BY <1>1, <1>2, <1>7, <2>1, <2>2 DEF Page
<1> QED
  BY <1>5, <1>6, <1>7 DEF PayAnswered

ConfirmStep(k) ==
  \/ \E b \in Bookings : Known(b) /\ LoadConfirmation(k, b)
  \/ ConfirmationLoaded(k) \/ PollTick(k) \/ PollAnswered(k)

ConfirmOps == {"load", "poll", "sync"}

LEMMA WatchedOK ==
  ASSUME NEW p \in Confirmation, NEW view \in View
  PROVE  Watched(p, view) \in Confirmation
  BY DEF Watched, Confirmation

LEMMA ConfirmTypes ==
  ASSUME TypeInv, NEW k \in Slots, ConfirmStep(k)
  PROVE  /\ page \in Confirmation /\ page' \in Confirmation /\ overlapped' = overlapped
         /\ \E c : Posted(k, c, ConfirmOps)
<1>1. page \in Confirmation /\ UNCHANGED serverVars /\ overlapped' = overlapped
  BY PageTypes DEF ConfirmStep, LoadConfirmation, ConfirmationLoaded, PollTick, PollAnswered
<1>2. ASSUME NEW b \in Bookings, LoadConfirmation(k, b)
      PROVE  page' \in Confirmation /\ Posted(k, Request("load", b), ConfirmOps)
  <2>1. page' \in Confirmation
    BY <1>1, <1>2 DEF LoadConfirmation, Confirmation
  <2>2. Posted(k, Request("load", b), ConfirmOps)
    BY <1>1, <1>2, SendsRequest DEF LoadConfirmation, ConfirmOps
  <2> QED
    BY <2>1, <2>2
<1>3. CASE ConfirmationLoaded(k)
  <2> DEFINE loaded == [page EXCEPT !.loading = FALSE]
  <2>1. Got(k, "view") => calls[k].answer.view \in View
    BY <1>3, AnsweredOK DEF ConfirmationLoaded, Answered
  <2>2. loaded \in Confirmation
    BY <1>1 DEF Confirmation
  <2>3. [loaded EXCEPT !.failed = TRUE, !.shown = None, !.polling = FALSE] \in Confirmation
    BY <2>2 DEF Confirmation
  <2>4. page' = IF Got(k, "view") THEN Watched(loaded, calls[k].answer.view)
                ELSE [loaded EXCEPT !.failed = TRUE, !.shown = None, !.polling = FALSE]
    BY <1>3 DEF ConfirmationLoaded
  <2>5. Posted(k, None, ConfirmOps)
    BY <1>1, <1>3, FreesSlot DEF ConfirmationLoaded
  <2> HIDE DEF loaded
  <2> QED
    BY <1>1, <2>1, <2>2, <2>3, <2>4, <2>5, WatchedOK
<1>4. CASE PollTick(k)
  <2>1. page' \in Confirmation /\ page.id \in Bookings
    BY <1>1, <1>4 DEF PollTick, Confirmation
  <2> DEFINE op == IF page.ticked THEN "sync" ELSE "poll"
  <2>2. Sent(k, op, page.id)
    BY <1>4 DEF PollTick
  <2>3. op \in {"sync", "poll"}
    OBVIOUS
  <2> HIDE DEF op
  <2>4. Posted(k, Request(op, page.id), ConfirmOps)
    BY <1>1, <2>1, <2>2, <2>3, SendsRequest DEF ConfirmOps
  <2> QED
    BY <1>1, <2>1, <2>4
<1>5. CASE PollAnswered(k)
  <2>1. Got(k, "view") => calls[k].answer.view \in View
    BY <1>5, AnsweredOK DEF PollAnswered, Answered
  <2>2. page' \in Confirmation
    BY <1>1, <1>5, <2>1, WatchedOK DEF PollAnswered
  <2>3. Posted(k, None, ConfirmOps)
    BY <1>1, <1>5, FreesSlot DEF PollAnswered
  <2> QED
    BY <1>1, <2>2, <2>3
<1> QED
  BY <1>1, <1>2, <1>3, <1>4, <1>5 DEF ConfirmStep

LEMMA PollStopsTypes ==
  ASSUME TypeInv, PollStops
  PROVE  /\ page \in Confirmation /\ page' \in Confirmation
         /\ UNCHANGED <<serverVars, calls, overlapped>>
<1>1. page \in Confirmation /\ UNCHANGED <<serverVars, calls, overlapped>>
  BY PageTypes DEF PollStops
<1> QED
  BY <1>1 DEF PollStops, Confirmation

HistoryStep(k) ==
  Refresh(k) \/ RefreshDue(k) \/ ListAnswered(k) \/ Cancel(k) \/ CancelAnswered(k)

HistoryOps == {"list", "cancel"}

LEMMA HistoryTypes ==
  ASSUME TypeInv, NEW k \in Slots, HistoryStep(k)
  PROVE  /\ page \in History /\ page' \in History /\ overlapped' \in BOOLEAN
         /\ \E c : Posted(k, c, HistoryOps)
<1>1. page \in History /\ UNCHANGED serverVars /\ overlapped \in BOOLEAN
  BY PageTypes DEF HistoryStep, Refresh, RefreshDue, ListAnswered, Cancel, CancelAnswered
<1>2. CASE Refresh(k)
  <2>1. page' \in History
    BY <1>1, <1>2 DEF Refresh, History
  <2>2. overlapped' \in BOOLEAN
    BY <1>1, <1>2 DEF Refresh
  <2>3. Posted(k, Request("list", None), HistoryOps)
    BY <1>1, <1>2, SendsRequest DEF Refresh, HistoryOps
  <2> QED
    BY <1>1, <2>1, <2>2, <2>3
<1>3. CASE RefreshDue(k)
  <2>1. page' \in History
    BY <1>1, <1>3 DEF RefreshDue, History
  <2>2. overlapped' \in BOOLEAN
    BY <1>1, <1>3 DEF RefreshDue
  <2>3. Posted(k, Request("list", None), HistoryOps)
    BY <1>1, <1>3, SendsRequest DEF RefreshDue, HistoryOps
  <2> QED
    BY <1>1, <2>1, <2>2, <2>3
<1>4. CASE ListAnswered(k)
  <2>1. Got(k, "list") => calls[k].answer.list \in [Bookings -> Statuses \cup {None}]
    BY <1>4, AnsweredOK DEF ListAnswered, Answered
  <2>2. page' \in History /\ overlapped' = overlapped
    BY <1>1, <1>4, <2>1 DEF ListAnswered, History
  <2>3. Posted(k, None, HistoryOps)
    BY <1>1, <1>4, FreesSlot DEF ListAnswered
  <2> QED
    BY <1>1, <2>2, <2>3
<1>5. CASE Cancel(k)
  <2>1. page' \in History /\ overlapped' = overlapped /\ page.asked \in Bookings
    BY <1>1, <1>5 DEF Cancel, History
  <2>2. Posted(k, Request("cancel", page.asked), HistoryOps)
    BY <1>1, <1>5, <2>1, SendsRequest DEF Cancel, HistoryOps
  <2> QED
    BY <1>1, <2>1, <2>2
<1>6. CASE CancelAnswered(k)
  <2>1. Got(k, "view") => Cancelled(calls[k].answer.view) \in Bookings \cup {None}
    BY <1>6, AnsweredOK DEF CancelAnswered, Answered, Cancelled, View
  <2>2. page' \in History
    BY <1>1, <1>6, <2>1 DEF CancelAnswered, History
  <2>3. overlapped' \in BOOLEAN
    BY <1>1, <1>6 DEF CancelAnswered
  <2>4. Posted(k, Request("list", None), HistoryOps) \/ Posted(k, None, HistoryOps)
    BY <1>1, <1>6, SendsRequest, FreesSlot DEF CancelAnswered, HistoryOps
  <2> QED
    BY <1>1, <2>2, <2>3, <2>4
<1> QED
  BY <1>2, <1>3, <1>4, <1>5, <1>6 DEF HistoryStep

\* The cancel dialog.
DialogStep == CloseDialog \/ \E b \in Bookings : AskCancel(b)

LEMMA DialogTypes ==
  ASSUME TypeInv, DialogStep
  PROVE  /\ page \in History /\ page' \in History /\ UNCHANGED <<serverVars, calls, overlapped>>
         /\ \A f \in {"name", "loading", "failed", "list", "notice"} : page'[f] = page[f]
<1>1. page \in History /\ UNCHANGED <<serverVars, calls, overlapped>>
  BY PageTypes DEF DialogStep, CloseDialog, AskCancel
<1>2. PICK a \in Bookings \cup {None} : page' = [page EXCEPT !.asked = a]
  BY DEF DialogStep, CloseDialog, AskCancel
<1> QED
  BY <1>1, <1>2 DEF History

\* A hold lapses in view of the history, or out of sight.
LEMMA LapseTypes ==
  ASSUME TypeInv, NEW b \in Bookings, HoldLapses(b)
  PROVE  /\ stage' = stage /\ calls' = calls /\ overlapped' = overlapped
         /\ lapsed' \subseteq Bookings
         /\ \/ page' = page
            \/ /\ page \in History /\ page' \in History
               /\ \A f \in {"name", "loading", "failed", "list", "notice"} : page'[f] = page[f]
<1>1. /\ stage' = stage /\ calls' = calls /\ overlapped' = overlapped
      /\ lapsed' \subseteq Bookings
  BY DEF HoldLapses, Lapses, TypeInv, TypeOK, GatewayTypeOK
<1>2. CASE On("history") /\ page' = [page EXCEPT !.due = TRUE]
  <2>1. page \in History
    BY <1>2, PageTypes
  <2> QED
    BY <1>1, <1>2, <2>1 DEF History
<1>3. CASE page' = page
  BY <1>1, <1>3
<1> QED
  BY <1>2, <1>3 DEF HoldLapses

\* An answer for a page that is gone.
LEMMA IgnoredFrees ==
  ASSUME NEW k \in Slots, Ignored(k)
  PROVE  Posted(k, None, {}) /\ page' = page /\ overlapped' = overlapped
  BY FreesSlot DEF Ignored

-----------------------------------------------------------------------------
(* The steps, by what they are about.                                        *)

LEMMA Steps ==
  ASSUME [Next]_vars
  PROVE  \/ Leaves
         \/ \E k \in Slots :
              \/ Server(k) \/ SeatsStep(k) \/ CheckoutStep(k) \/ PayAnswered(k)
              \/ ConfirmStep(k) \/ HistoryStep(k) \/ Ignored(k)
         \/ \E s \in Seats : Toggle(s)
         \/ PollStops \/ DialogStep
         \/ \E b \in Bookings :
              \/ HoldLapses(b)
              \/ BookingMoves(b) /\ UNCHANGED <<calls, page, overlapped>>
         \/ UNCHANGED vars
<1>1. ASSUME CustomerActs
      PROVE  \/ Leaves \/ DialogStep
             \/ \E k \in Slots :
                  SeatsStep(k) \/ CheckoutStep(k) \/ ConfirmStep(k) \/ HistoryStep(k)
             \/ \E s \in Seats : Toggle(s)
  BY <1>1 DEF CustomerActs, Leaves, SeatsStep, CheckoutStep, ConfirmStep, HistoryStep, DialogStep
<1>2. ASSUME NEW k \in Slots, Continues(k)
      PROVE  \/ Leaves \/ SeatsStep(k) \/ CheckoutStep(k) \/ PayAnswered(k)
             \/ ConfirmStep(k) \/ HistoryStep(k) \/ Ignored(k)
  BY <1>2 DEF Continues, Leaves, SeatsStep, CheckoutStep, ConfirmStep, HistoryStep
<1>3. ASSUME NEW k \in Slots, PollTick(k) \/ RefreshDue(k)
      PROVE  ConfirmStep(k) \/ HistoryStep(k)
  BY <1>3 DEF ConfirmStep, HistoryStep
<1>4. CASE Next
  BY <1>1, <1>2, <1>3, <1>4 DEF Next
<1> QED
  BY <1>4

\* The requests of other kinds are left as they are.
LEMMA PostedOps ==
  ASSUME TypeInv, NEW k \in Slots, NEW c, NEW ops, Posted(k, c, ops),
         NEW j \in Slots, NEW op, op \notin ops, InFlight(calls', j, op)
  PROVE  j # k /\ InFlight(calls, j, op) /\ calls'[j] = calls[j]
  BY DEF Posted, InFlight, TypeInv, TypeOK, GatewayTypeOK

LEMMA Frees ==
  ASSUME TypeInv, NEW k \in Slots, Done(k), NEW j \in Slots, calls'[j] # None
  PROVE  j # k /\ calls'[j] = calls[j]
  BY DEF Done, TypeInv, TypeOK, GatewayTypeOK

\* The requests after a change of pages.
LEMMA MovedOps ==
  ASSUME TypeInv, NEW f, Moved(f), NEW j \in Slots, calls'[j] # None
  PROVE  \/ /\ j = f /\ page' \in Fresher /\ calls'[j] = FirstLoad(page')
         \/ /\ calls[j] # None /\ calls'[j].op \in Lasting /\ calls'[j].op = calls[j].op
            /\ ~calls'[j].mounted
            /\ calls'[j].at = calls[j].at /\ calls'[j].answer = calls[j].answer
<1>1. CASE Orphaned(j)
  <2>1. calls[j] \in Call
    BY <1>1 DEF Orphaned, TypeInv, CallsOK, CallOK
  <2> QED
    BY <1>1, <2>1 DEF Orphaned, Call
<1> QED
  BY <1>1 DEF Moved

-----------------------------------------------------------------------------
(* One payment.                                                              *)

LEMMA PayKept ==
  ASSUME PayInv, page' = page \/ (page'.name = page.name /\ page.name # "checkout"),
         \A j \in Slots : Paying(calls', j) => Paying(calls, j)
  PROVE  PayInv'
  BY DEF PayInv, PayOK

LEMMA PostedPay ==
  ASSUME TypeInv, PayInv, NEW k \in Slots, NEW c, NEW ops, Posted(k, c, ops), "pay" \notin ops,
         page'.name = page.name, page.name = "checkout" => page'.paying = page.paying
  PROVE  PayInv'
<1>1. \A j \in Slots : Paying(calls', j) => Paying(calls, j)
  BY PostedOps DEF Paying
<1> QED
  BY <1>1 DEF PayInv, PayOK

LEMMA PayStep ==
  ASSUME TypeInv, PayInv, [Next]_vars
  PROVE  PayInv'
<1>1. ASSUME NEW f, Moved(f)
      PROVE  PayInv'
  <2>1. \A j \in Slots : ~Paying(calls', j)
    BY <1>1, MovedOps, FreshFirst DEF Paying, InFlight
  <2> QED
    BY <2>1 DEF PayInv, PayOK
<1>2. ASSUME NEW k \in Slots, NEW c, Served(k, c)
      PROVE  PayInv'
  <2>1. \A j \in Slots : Paying(calls', j) => Paying(calls, j)
    BY <1>2, ServedTypes DEF Served, Paying, InFlight
  <2> QED
    BY <1>2, <2>1, PayKept DEF Served
<1>3. ASSUME NEW k \in Slots, SeatsStep(k)
      PROVE  PayInv'
  <2>1. page.name = "seats" /\ page'.name = "seats" /\ \E c : Posted(k, c, SeatsOps)
    BY <1>3, SeatsTypes DEF SeatPicker
  <2> QED
    BY <2>1, PostedPay DEF SeatsOps
<1>4. ASSUME NEW k \in Slots, CheckoutStep(k)
      PROVE  PayInv'
  <2>1. /\ page.name = "checkout" /\ page'.name = "checkout" /\ page \in Checkout
        /\ UNCHANGED serverVars
    BY <1>4, CheckoutTypes
       DEF Checkout, CheckoutStep, LoadCheckout, CheckoutLoaded, Pay, HoldAnswered
  <2>2. ASSUME NEW b \in Bookings, LoadCheckout(k, b)
        PROVE  PayInv'
    <3>1. page'.paying = page.paying
      BY <2>2 DEF LoadCheckout, FreshCheckout
    <3>2. Posted(k, Request("load", b), {"load"})
      BY <2>1, <2>2, SendsRequest DEF LoadCheckout
    <3> QED
      BY <2>1, <3>1, <3>2, PostedPay
  <2>3. CASE CheckoutLoaded(k)
    <3>1. page'.paying = page.paying
      BY <2>1, <2>3 DEF CheckoutLoaded, Checkout
    <3>2. Posted(k, None, {"load"})
      BY <2>1, <2>3, FreesSlot DEF CheckoutLoaded
    <3> QED
      BY <2>1, <3>1, <3>2, PostedPay
  <2>4. CASE Pay(k)
    <3>1. ~page.paying /\ page'.paying
      BY <2>1, <2>4 DEF Pay, Checkout
    <3>2. \A j \in Slots : ~Paying(calls, j)
      BY <3>1 DEF PayInv, PayOK
    <3>3. page.id \in Bookings
      BY <2>1 DEF Checkout
    <3>4. Posted(k, Request("pay", page.id), {"pay"})
      BY <2>1, <2>4, <3>3, SendsRequest DEF Pay
    <3>5. \A j \in Slots : Paying(calls', j) => j = k
      BY <3>2, <3>4, PostedTypes DEF Paying, InFlight, Posted, TypeInv, TypeOK, GatewayTypeOK
    <3> QED
      BY <2>1, <3>1, <3>5 DEF PayInv, PayOK
  <2>5. CASE On("checkout") /\ HoldAnswered(k)
    <3>1. page'.paying = page.paying
      BY <2>1, <2>5 DEF HoldAnswered, FreshCheckout
    <3>2. calls[k].op = "hold" /\ calls[k] # None
      BY <2>5 DEF HoldAnswered, At, Unused
    <3>3. \A j \in Slots : Paying(calls', j) => Paying(calls, j)
      BY <2>5 DEF HoldAnswered, Done, Paying, InFlight, Request, TypeInv, TypeOK, GatewayTypeOK
    <3> QED
      BY <2>1, <3>1, <3>3 DEF PayInv, PayOK
  <2> QED
    BY <1>4, <2>2, <2>3, <2>4, <2>5 DEF CheckoutStep
<1>5. ASSUME NEW k \in Slots, PayAnswered(k)
      PROVE  PayInv'
  <2>1. PICK c : /\ Posted(k, c, {"pay"})
                 /\ c # None => c.mounted = calls[k].mounted /\ page'.paying = page.paying
    BY <1>5, PayAnsweredTypes
  <2>2. page'.name = page.name /\ (~calls[k].mounted => page' = page)
    BY <1>5, PayAnsweredTypes
  <2>3. calls[k] # None /\ calls[k].op = "pay"
    BY <1>5 DEF PayAnswered, At, Unused
  <2>4. calls' = [calls EXCEPT ![k] = c]
    BY <2>1 DEF Posted
  <2>5. calls'[k] = c /\ \A j \in Slots : j # k => calls'[j] = calls[j]
    BY <2>4 DEF TypeInv, TypeOK, GatewayTypeOK
  <2>6. \A j \in Slots : Paying(calls', j) => Paying(calls, j)
    BY <2>1, <2>3, <2>5 DEF Paying, InFlight
  <2>7. CASE calls[k].mounted
    <3>1. Paying(calls, k)
      BY <2>3, <2>7 DEF Paying, InFlight
    <3>2. \A j \in Slots : Paying(calls', j) => j = k /\ c # None
      BY <2>5, <2>6, <3>1 DEF PayInv, PayOK, Paying, InFlight
    <3> QED
      BY <2>1, <2>2, <3>1, <3>2 DEF PayInv, PayOK
  <2> QED
    BY <2>2, <2>6, <2>7, PayKept
<1>6. ASSUME NEW k \in Slots, ConfirmStep(k)
      PROVE  PayInv'
  <2>1. page.name = "confirm" /\ page'.name = "confirm" /\ \E c : Posted(k, c, ConfirmOps)
    BY <1>6, ConfirmTypes DEF Confirmation
  <2> QED
    BY <2>1, PostedPay DEF ConfirmOps
<1>7. ASSUME NEW k \in Slots, HistoryStep(k)
      PROVE  PayInv'
  <2>1. page.name = "history" /\ page'.name = "history" /\ \E c : Posted(k, c, HistoryOps)
    BY <1>7, HistoryTypes DEF History
  <2> QED
    BY <2>1, PostedPay DEF HistoryOps
<1>8. ASSUME NEW k \in Slots, Ignored(k)
      PROVE  PayInv'
  <2>1. Done(k) /\ page' = page
    BY <1>8 DEF Ignored
  <2>2. \A j \in Slots : Paying(calls', j) => Paying(calls, j)
    BY <2>1, Frees DEF Paying, InFlight
  <2> QED
    BY <2>1, <2>2, PayKept
<1>9. ASSUME calls' = calls,
             page' = page \/ (page'.name = page.name /\ page.name # "checkout")
      PROVE  PayInv'
  BY <1>9, PayKept
<1>10. ASSUME NEW s \in Seats, Toggle(s)
       PROVE  PayInv'
  BY <1>9, <1>10, ToggleTypes DEF SeatPicker
<1>11. CASE PollStops
  BY <1>9, <1>11, PollStopsTypes DEF Confirmation
<1>12. CASE DialogStep
  BY <1>9, <1>12, DialogTypes DEF History
<1>13. ASSUME NEW b \in Bookings, HoldLapses(b)
       PROVE  PayInv'
  BY <1>9, <1>13, LapseTypes DEF History
<1>14. CASE UNCHANGED <<calls, page>>
  BY <1>9, <1>14
<1> QED
  BY <1>1, <1>2, <1>3, <1>4, <1>5, <1>6, <1>7, <1>8, <1>10, <1>11, <1>12, <1>13, <1>14,
     Steps, LeavesMoves, ServerServes DEF vars

-----------------------------------------------------------------------------
(* Types.                                                                    *)

LEMMA TypeStep ==
  ASSUME TypeInv, PayInv, [Next]_vars
  PROVE  TypeInv'
<1>1. page \in Page /\ overlapped \in BOOLEAN /\ lapsed \subseteq Bookings
  BY PageTypes DEF TypeInv, TypeOK, GatewayTypeOK
<1>2. ASSUME NEW k \in Slots, Server(k)
      PROVE  TypeInv'
  BY <1>2, ServerServes, ServedTypes
<1>3. ASSUME NEW k \in Slots, SeatsStep(k)
      PROVE  TypeInv'
  BY <1>1, <1>3, SeatsTypes, PostedTypes DEF Page
<1>4. ASSUME NEW k \in Slots, CheckoutStep(k)
      PROVE  TypeInv'
  BY <1>1, <1>4, CheckoutTypes, PostedTypes DEF Page
<1>5. ASSUME NEW k \in Slots, PayAnswered(k)
      PROVE  TypeInv'
  BY <1>1, <1>5, PayAnsweredTypes, PostedTypes
<1>6. ASSUME NEW k \in Slots, ConfirmStep(k)
      PROVE  TypeInv'
  BY <1>1, <1>6, ConfirmTypes, PostedTypes DEF Page
<1>7. ASSUME NEW k \in Slots, HistoryStep(k)
      PROVE  TypeInv'
  BY <1>1, <1>7, HistoryTypes, PostedTypes DEF Page
<1>8. ASSUME NEW k \in Slots, Ignored(k)
      PROVE  TypeInv'
  BY <1>1, <1>8, IgnoredFrees, PostedTypes
<1>9. ASSUME NEW s \in Seats, Toggle(s)
      PROVE  TypeInv'
  BY <1>1, <1>9, ToggleTypes, StillTypes DEF Page, serverVars
<1>10. CASE PollStops
  BY <1>1, <1>10, PollStopsTypes, StillTypes DEF Page, serverVars
<1>11. CASE DialogStep
  BY <1>1, <1>11, DialogTypes, StillTypes DEF Page, serverVars
<1>12. ASSUME NEW b \in Bookings, HoldLapses(b)
       PROVE  TypeInv'
  BY <1>1, <1>12, LapseTypes, StillTypes DEF Page
<1>13. ASSUME NEW b \in Bookings, BookingMoves(b), UNCHANGED <<calls, page, overlapped>>
       PROVE  TypeInv'
  <2>1. Onward /\ lapsed' = lapsed
    BY <1>13, MovesOnward
  <2>2. stage' \in [Bookings -> Lifecycle!Stage]
    BY <2>1, OnwardOK
  <2>3. TypeOK'
    BY <1>13, <2>1, <2>2 DEF TypeInv, TypeOK, GatewayTypeOK
  <2>4. CarriedOK(calls', stage')
    <3> SUFFICES ASSUME NEW k \in Slots, calls[k] # None, calls[k].at \in {"prepared", "applied"}
                 PROVE  stage'[calls[k].booking] # "NONE"
      BY <1>13 DEF CarriedOK
    <3>1. CallOK(calls[k]) /\ stage[calls[k].booking] # "NONE"
      BY DEF TypeInv, CallsOK, CarriedOK
    <3>2. calls[k].booking \in Bookings
      BY <3>1 DEF CallOK
    <3> QED
      BY <2>1, <3>1, <3>2 DEF Onward, Known
  <2> QED
    BY <1>13, <2>3, <2>4 DEF TypeInv
<1>14. CASE UNCHANGED vars
  BY <1>1, <1>14, StillTypes DEF vars, serverVars
<1> QED
  BY <1>2, <1>3, <1>4, <1>5, <1>6, <1>7, <1>8, <1>9, <1>10, <1>11, <1>12, <1>13, <1>14,
     Steps, LeavesMoves, MovedTypes

LEMMA InitTypes ==
  ASSUME Init
  PROVE  TypeInv /\ PayInv
<1>1. GatewayTypeOK
  BY PastAssumption DEF Init, GatewayInit, GatewayTypeOK, Lifecycle!Stage
<1>2. TypeOK
  BY <1>1 DEF Init, TypeOK
<1>3. \A k \in Slots : calls[k] = None
  BY DEF Init, GatewayInit
<1> QED
  BY <1>2, <1>3 DEF TypeInv, CallsOK, CarriedOK, PayInv, PayOK, Paying, InFlight

LEMMA InvAlways == Spec => [](TypeInv /\ PayInv)
<1>1. Init => TypeInv /\ PayInv
  BY InitTypes
<1>2. TypeInv /\ PayInv /\ [Next]_vars => TypeInv' /\ PayInv'
  BY TypeStep, PayStep
<1> QED
  BY <1>1, <1>2, PTL DEF Spec

\* The variables of the booking pages have their types, whatever requests,
\* answers and timers overtake each other: an answer a handler takes for a
\* booking, a map or a list is one, on the page that asked for it.
THEOREM TypeCorrect == Spec => []TypeOK
<1>1. TypeInv => TypeOK
  BY DEF TypeInv
<1> QED
  BY <1>1, InvAlways, PTL

\* A page never has two payments under way: the checkout that asked for one stays
\* busy with it until it is answered, also when another booking is loaded into it
\* (pay, load).
THEOREM OnePaymentEver == Spec => []OnePayment
<1>1. PayInv => OnePayment
  <2> SUFFICES ASSUME PayInv PROVE OnePayment
    OBVIOUS
  <2> DEFINE open == {k \in Slots : ~Unused(k) /\ calls[k].op = "pay" /\ calls[k].mounted}
  <2>1. \A j, k \in open : j = k
    BY DEF PayInv, PayOK, Paying, InFlight, Unused
  <2>2. CASE open = {}
    BY <2>2, FS_EmptySet DEF OnePayment
  <2>3. ASSUME NEW k \in open PROVE OnePayment
    <3>1. open = {k}
      BY <2>1
    <3>2. Cardinality(open) = 1
      BY <3>1, FS_Singleton
    <3> QED
      BY <3>2 DEF OnePayment
  <2> QED
    BY <2>2, <2>3
<1> QED
  BY <1>1, InvAlways, PTL

-----------------------------------------------------------------------------
(* The confirmation.                                                         *)

LEMMA WaitingStep ==
  ASSUME TypeInv, PayInv, WaitingIsHonest, [Next]_vars
  PROVE  WaitingIsHonest'
<1> DEFINE Honest(p) ==
      /\ p.name = "confirm" /\ ~p.loading /\ ~p.failed
      /\ p.shown # None /\ p.shown.status = "PENDING"
      => p.polling \/ p.stopped
<1>1. Honest(page) /\ (Honest(page') => WaitingIsHonest')
  BY DEF WaitingIsHonest, Processing, Ready, Shows, On
<1>2. ASSUME page' = page \/ page'.name # "confirm"
      PROVE  Honest(page')
  BY <1>1, <1>2
<1>3. ASSUME NEW f, Moved(f)
      PROVE  Honest(page')
  BY <1>3 DEF Moved, Fresher, Elsewhere, Provider, FreshSeats, FreshHistory, FreshCheckout,
              FreshConfirmation
<1>4. ASSUME NEW p \in Confirmation, NEW view \in View
      PROVE  Honest(Watched(p, view))
  BY DEF Watched, Confirmation
<1>5. ASSUME NEW k \in Slots, ConfirmStep(k)
      PROVE  Honest(page')
  <2>1. page \in Confirmation
    BY <1>5, ConfirmTypes
  <2>2. ASSUME NEW b \in Bookings, LoadConfirmation(k, b)
        PROVE  Honest(page')
    BY <2>1, <2>2 DEF LoadConfirmation, Confirmation
  <2>3. CASE ConfirmationLoaded(k)
    <3> DEFINE loaded == [page EXCEPT !.loading = FALSE]
    <3>1. page' = IF Got(k, "view") THEN Watched(loaded, calls[k].answer.view)
                  ELSE [loaded EXCEPT !.failed = TRUE, !.shown = None, !.polling = FALSE]
      BY <2>3 DEF ConfirmationLoaded
    <3>2. loaded \in Confirmation
      BY <2>1 DEF Confirmation
    <3>3. Got(k, "view") => calls[k].answer.view \in View
      BY <2>3, AnsweredOK DEF ConfirmationLoaded, Answered
    <3> HIDE DEF loaded
    <3>4. CASE Got(k, "view")
      <4> HIDE DEF Honest
      <4> QED
        BY <1>4, <3>1, <3>2, <3>3, <3>4
    <3>5. CASE ~Got(k, "view")
      BY <3>1, <3>2, <3>5 DEF Confirmation
    <3> QED
      BY <3>4, <3>5
  <2>4. CASE PollTick(k)
    BY <1>1, <2>1, <2>4 DEF PollTick, Confirmation
  <2>5. CASE PollAnswered(k)
    <3>1. Got(k, "view") => calls[k].answer.view \in View
      BY <2>5, AnsweredOK DEF PollAnswered, Answered
    <3>2. page' = IF Got(k, "view") THEN Watched(page, calls[k].answer.view) ELSE page
      BY <2>5 DEF PollAnswered
    <3> HIDE DEF Honest
    <3> QED
      BY <1>1, <1>4, <2>1, <3>1, <3>2
  <2> QED
    BY <1>5, <2>2, <2>3, <2>4, <2>5 DEF ConfirmStep
<1>6. ASSUME PollStops
      PROVE  Honest(page')
  BY <1>6, PollStopsTypes DEF PollStops, Confirmation
<1>7. ASSUME NEW k \in Slots, Server(k) \/ SeatsStep(k) \/ CheckoutStep(k) \/ HistoryStep(k)
                               \/ PayAnswered(k) \/ Ignored(k)
      PROVE  page' = page \/ page'.name # "confirm"
  BY <1>7, SeatsTypes, CheckoutTypes, HistoryTypes, PayAnsweredTypes
     DEF Server, Ignored, SeatPicker, Checkout, History
<1>8. ASSUME NEW s \in Seats, Toggle(s)
      PROVE  page'.name # "confirm"
  BY <1>8, ToggleTypes DEF SeatPicker
<1>9. ASSUME DialogStep
      PROVE  page'.name # "confirm"
  BY <1>9, DialogTypes DEF History
<1>10. ASSUME NEW b \in Bookings, HoldLapses(b)
       PROVE  page' = page \/ page'.name # "confirm"
  BY <1>10, LapseTypes DEF History
<1> HIDE DEF Honest
<1> QED
  BY <1>1, <1>2, <1>3, <1>5, <1>6, <1>7, <1>8, <1>9, <1>10, Steps, LeavesMoves DEF vars

\* A confirmation that says a payment is being processed polls for its outcome,
\* or says that it gave up: no order of answers, ticks, the deadline, retries
\* and visits to other bookings leaves it waiting for nothing.
THEOREM WaitingAlwaysHonest == Spec => []WaitingIsHonest
<1>1. Init => WaitingIsHonest
  BY DEF Init, Elsewhere, WaitingIsHonest, Processing, On
<1>2. TypeInv /\ PayInv /\ WaitingIsHonest /\ [Next]_vars => WaitingIsHonest'
  BY WaitingStep
<1> QED
  BY <1>1, <1>2, InvAlways, PTL DEF Spec

-----------------------------------------------------------------------------
(* The seat picker.                                                          *)

\* Requests for maps are the ones there were.
LEMMA SeatsKept ==
  ASSUME SeatsInv, page' = page,
         \A j \in Slots : \A op \in {"map", "refresh"} :
           InFlight(calls', j, op) => InFlight(calls, j, op)
  PROVE  SeatsInv'
  BY DEF SeatsInv, SeatsOK

LEMMA SeatsMoved ==
  ASSUME TypeInv, NEW f, Moved(f)
  PROVE  SeatsInv'
<1> SUFFICES ASSUME page'.name = "seats" PROVE SeatsInv'
  BY DEF SeatsInv, SeatsOK
<1>1. page' = FreshSeats
  BY FreshFirst DEF Moved, Elsewhere, Provider
<1>2. \A j \in Slots : /\ InFlight(calls', j, "map") => j = f
                       /\ ~InFlight(calls', j, "refresh")
  BY MovedOps, FreshFirst DEF InFlight, Lasting
<1> QED
  BY <1>1, <1>2 DEF SeatsInv, SeatsOK, FreshSeats

LEMMA SeatsPage ==
  ASSUME TypeInv, SeatsInv, NEW k \in Slots, SeatsStep(k)
  PROVE  SeatsInv'
<1>1. page \in SeatPicker /\ page' \in SeatPicker
  BY SeatsTypes
<1>2. page.name = "seats" /\ page'.name = "seats"
  BY <1>1 DEF SeatPicker
\* What a request that is posted adds.
<1>3. ASSUME NEW op, calls' = [calls EXCEPT ![k] = Request(op, None)]
      PROVE  \A j \in Slots : \A x : InFlight(calls', j, x) =>
               IF j = k THEN x = op ELSE InFlight(calls, j, x)
  BY <1>3 DEF InFlight, Request, TypeInv, TypeOK, GatewayTypeOK
<1>4. ASSUME Done(k)
      PROVE  \A j \in Slots : \A x : InFlight(calls', j, x) => j # k /\ InFlight(calls, j, x)
  BY <1>4, Frees DEF InFlight
<1>5. CASE RetryMap(k)
  <2>1. /\ calls' = [calls EXCEPT ![k] = Request("map", None)]
        /\ ~page.loading /\ page'.loading /\ page'.selected = {}
    BY <1>5 DEF RetryMap, Sent, FreshSeats
  <2>2. \A j \in Slots : ~InFlight(calls, j, "map")
    BY <1>2, <2>1 DEF SeatsInv, SeatsOK
  <2> QED
    BY <1>3, <2>1, <2>2 DEF SeatsInv, SeatsOK
<1>6. CASE MapAnswered(k)
  <2>1. /\ page'.selected = page.selected /\ page'.blind = page.blind /\ ~page'.loading
        /\ page'.failed = ~Got(k, "map")
        /\ Got(k, "map") => page'.map = calls[k].answer.taken
    BY <1>1, <1>6 DEF MapAnswered, SeatPicker
  <2>2. InFlight(calls, k, "map") /\ Done(k)
    BY <1>6 DEF MapAnswered, Answered, At, Unused, InFlight
  <2>3. page.selected = {} /\ \A j \in Slots : InFlight(calls, j, "map") => j = k
    BY <1>2, <2>2 DEF SeatsInv, SeatsOK
  <2>4. Got(k, "map") => calls[k].answer.taken \in SUBSET Seats
    BY <1>6, AnsweredOK DEF MapAnswered, Answered
  <2> QED
    BY <1>4, <2>1, <2>2, <2>3, <2>4 DEF SeatsInv, SeatsOK
<1>7. CASE Hold(k)
  <2>1. /\ page'.selected = page.selected /\ page'.blind = page.blind /\ page'.map = page.map
        /\ page'.loading = page.loading /\ page'.failed = page.failed
    BY <1>1, <1>7 DEF Hold, SeatPicker
  <2>2. calls' = [calls EXCEPT ![k] = Request("hold", None)]
    BY <1>7 DEF Hold, Sent
  <2>3. \A j \in Slots : \A x \in {"map", "refresh"} :
          InFlight(calls', j, x) => InFlight(calls, j, x)
    BY <2>2 DEF InFlight, Request, TypeInv, TypeOK, GatewayTypeOK
  <2> QED
    BY <1>2, <2>1, <2>3 DEF SeatsInv, SeatsOK
<1>8. CASE HoldRefused(k)
  <2>1. CASE /\ page' = [page EXCEPT !.selected = {}, !.blind = {}]
             /\ calls' = [calls EXCEPT ![k] = Request("refresh", None)]
    <3>1. /\ page'.selected = {} /\ page'.map = page.map
          /\ page'.loading = page.loading /\ page'.failed = page.failed
      BY <1>1, <2>1 DEF SeatPicker
    <3>2. \A j \in Slots : InFlight(calls', j, "map") => InFlight(calls, j, "map")
      BY <2>1 DEF InFlight, Request, TypeInv, TypeOK, GatewayTypeOK
    <3> QED
      BY <1>2, <3>1, <3>2 DEF SeatsInv, SeatsOK
  <2>2. CASE page' = [page EXCEPT !.holding = FALSE] /\ Done(k)
    <3>1. /\ page'.selected = page.selected /\ page'.blind = page.blind /\ page'.map = page.map
          /\ page'.loading = page.loading /\ page'.failed = page.failed
      BY <1>1, <2>2 DEF SeatPicker
    <3> QED
      BY <1>2, <1>4, <2>2, <3>1 DEF SeatsInv, SeatsOK
  <2> QED
    BY <1>8, <2>1, <2>2 DEF HoldRefused
<1>9. CASE RefreshAnswered(k)
  <2>1. /\ page'.selected = page.selected /\ page'.blind = page.blind
        /\ page'.loading = page.loading /\ page'.failed = page.failed
        /\ page'.map = IF Got(k, "map") THEN calls[k].answer.taken ELSE page.map
    BY <1>1, <1>9 DEF RefreshAnswered, SeatPicker
  <2>2. InFlight(calls, k, "refresh") /\ Done(k)
    BY <1>9 DEF RefreshAnswered, Answered, At, Unused, InFlight
  <2>3. page.selected \subseteq page.blind
    BY <1>2, <2>2 DEF SeatsInv, SeatsOK
  <2>4. Got(k, "map") => calls[k].answer.taken \in SUBSET Seats
    BY <1>9, AnsweredOK DEF RefreshAnswered, Answered
  <2> QED
    BY <1>2, <1>4, <2>1, <2>2, <2>3, <2>4 DEF SeatsInv, SeatsOK
<1> QED
  BY <1>5, <1>6, <1>7, <1>8, <1>9 DEF SeatsStep

LEMMA SeatsToggled ==
  ASSUME TypeInv, SeatsInv, NEW s \in Seats, Toggle(s)
  PROVE  SeatsInv'
<1>1. /\ page \in SeatPicker /\ calls' = calls /\ ~page.loading /\ ~page.failed
      /\ page.name = "seats" /\ s \notin page.map
  BY ToggleTypes DEF Toggle, Ready, On
<1>2. /\ page.map \in SUBSET Seats /\ page.selected \cap page.map \subseteq page.blind
      /\ \A j \in Slots : /\ ~InFlight(calls, j, "map")
                          /\ InFlight(calls, j, "refresh") => page.selected \subseteq page.blind
  BY <1>1 DEF SeatsInv, SeatsOK
<1>3. CASE page' = [page EXCEPT !.selected = @ \ {s}]
  <2>1. /\ page'.selected = page.selected \ {s} /\ page'.blind = page.blind
        /\ page'.map = page.map /\ page'.loading = page.loading /\ page'.failed = page.failed
    BY <1>1, <1>3 DEF SeatPicker
  <2> QED
    BY <1>1, <1>2, <2>1 DEF SeatsInv, SeatsOK
<1>4. CASE page' = [page EXCEPT !.selected = @ \cup {s},
                                !.blind = IF Refreshing THEN @ \cup {s} ELSE @]
  <2>1. /\ page'.selected = page.selected \cup {s}
        /\ page'.blind = IF Refreshing THEN page.blind \cup {s} ELSE page.blind
        /\ page'.map = page.map /\ page'.loading = page.loading /\ page'.failed = page.failed
    BY <1>1, <1>4 DEF SeatPicker
  <2>2. \A j \in Slots : InFlight(calls, j, "refresh") => Refreshing
    BY DEF InFlight, Refreshing, Unused
  <2> QED
    BY <1>1, <1>2, <2>1, <2>2 DEF SeatsInv, SeatsOK
<1> QED
  BY <1>3, <1>4 DEF Toggle

LEMMA SeatsPreserved ==
  ASSUME TypeInv, PayInv, SeatsInv, [Next]_vars
  PROVE  SeatsInv'
<1>1. ASSUME page'.name # "seats"
      PROVE  SeatsInv'
  BY <1>1 DEF SeatsInv, SeatsOK
<1>2. ASSUME calls' = calls, page' = page
      PROVE  SeatsInv'
  BY <1>2, SeatsKept
<1>3. ASSUME NEW k \in Slots, Server(k)
      PROVE  SeatsInv'
  <2>1. PICK c : Served(k, c)
    BY <1>3, ServerServes
  <2>2. \A j \in Slots : \A op \in {"map", "refresh"} :
          InFlight(calls', j, op) => InFlight(calls, j, op)
    BY <2>1, ServedTypes DEF Served, InFlight
  <2> QED
    BY <2>1, <2>2, SeatsKept DEF Served
<1>4. ASSUME NEW k \in Slots, CheckoutStep(k) \/ ConfirmStep(k) \/ HistoryStep(k)
      PROVE  SeatsInv'
  BY <1>1, <1>4, CheckoutTypes, ConfirmTypes, HistoryTypes DEF Checkout, Confirmation, History
<1>5. ASSUME NEW k \in Slots, PayAnswered(k) \/ Ignored(k)
      PROVE  SeatsInv'
  <2>1. PICK c : Posted(k, c, {"pay"}) \/ Posted(k, c, {})
    BY <1>5, PayAnsweredTypes, IgnoredFrees
  <2>2. \A j \in Slots : \A op \in {"map", "refresh"} :
          InFlight(calls', j, op) => InFlight(calls, j, op)
    BY <2>1, PostedOps
  <2>3. page' = page \/ page'.name = "checkout"
    BY <1>5, PayAnsweredTypes, IgnoredFrees DEF Checkout
  <2> QED
    BY <1>1, <2>2, <2>3, SeatsKept
<1>6. ASSUME PollStops \/ DialogStep
      PROVE  SeatsInv'
  BY <1>1, <1>6, PollStopsTypes, DialogTypes DEF Confirmation, History
<1>7. ASSUME NEW b \in Bookings, HoldLapses(b)
      PROVE  SeatsInv'
  BY <1>1, <1>2, <1>7, LapseTypes DEF History
<1> QED
  BY <1>2, <1>3, <1>4, <1>5, <1>6, <1>7, Steps, LeavesMoves, SeatsMoved, SeatsPage, SeatsToggled
     DEF vars

\* A seat that is selected is to be had on the map in view, unless it was picked
\* while that map was fetched: the map is fetched once at a time, nothing is
\* selected meanwhile, and a seat lost to another customer clears the selection
\* before the map is fetched again (toggle, refreshAfterConflict, load).
THEOREM SelectionAlwaysHonest == Spec => []SelectionHonest
<1>1. Init => SeatsInv
  BY DEF Init, Elsewhere, SeatsInv, SeatsOK
<1>2. TypeInv /\ PayInv /\ SeatsInv /\ [Next]_vars => SeatsInv'
  BY SeatsPreserved
<1>3. SeatsInv => SelectionHonest
  BY DEF SeatsInv, SeatsOK, SelectionHonest, On, Ready
<1> QED
  BY <1>1, <1>2, <1>3, InvAlways, PTL DEF Spec

-----------------------------------------------------------------------------
(* The history.                                                              *)

LEMMA ViewsStep ==
  ASSUME TypeInv, PayInv, ViewsOK(calls, stage), [Next]_vars
  PROVE  ViewsOK(calls', stage')
<1>1. ASSUME Onward, NEW c, CallOK(c), ViewOK(stage, c)
      PROVE  ViewOK(stage', c)
  <2>1. c.at = "answered" /\ c.answer.is = "view" => c.answer.view.booking \in Bookings
    BY <1>1, AnswerKinds DEF CallOK, View
  <2> QED
    BY <1>1, <2>1, OnwardOK DEF ViewOK
<1>2. ASSUME NEW f, Moved(f)
      PROVE  ViewsOK(calls', stage')
  <2>1. stage' = stage
    BY <1>2 DEF Moved
  <2> SUFFICES ASSUME NEW j \in Slots, calls'[j] # None PROVE ViewOK(stage, calls'[j])
    BY <2>1 DEF ViewsOK
  <2> QED
    BY <1>2, MovedOps, FreshFirst DEF ViewsOK, ViewOK
<1>3. ASSUME NEW k \in Slots, NEW c, Served(k, c)
      PROVE  ViewsOK(calls', stage')
  <2>1. calls'[k] = c /\ \A j \in Slots : j # k => calls'[j] = calls[j]
    BY <1>3, ServedTypes
  <2>2. ViewOK(stage', c)
    BY <1>3 DEF Served, Told, ViewOK, Gone
  <2>3. \A j \in Slots : calls[j] # None => ViewOK(stage', calls[j])
    BY <1>1, <1>3 DEF Served, ViewsOK, TypeInv, CallsOK
  <2> QED
    BY <2>1, <2>2, <2>3 DEF ViewsOK
<1>4. ASSUME NEW k \in Slots, NEW c, NEW ops, Posted(k, c, ops)
      PROVE  ViewsOK(calls', stage')
  <2>1. calls'[k] = c /\ \A j \in Slots : j # k => calls'[j] = calls[j]
    BY <1>4 DEF Posted, TypeInv, TypeOK, GatewayTypeOK
  <2> QED
    BY <1>4, <2>1 DEF Posted, ViewsOK, ViewOK
<1>5. ASSUME NEW k \in Slots, \/ SeatsStep(k) \/ CheckoutStep(k) \/ PayAnswered(k)
                              \/ ConfirmStep(k) \/ HistoryStep(k) \/ Ignored(k)
      PROVE  ViewsOK(calls', stage')
  <2>1. \E c, ops : Posted(k, c, ops)
    BY <1>5, SeatsTypes, CheckoutTypes, PayAnsweredTypes, ConfirmTypes, HistoryTypes, IgnoredFrees
  <2> QED
    BY <1>4, <2>1
<1>6. ASSUME calls' = calls, stage' = stage
      PROVE  ViewsOK(calls', stage')
  BY <1>6
<1>7. CASE PollStops \/ DialogStep
  BY <1>6, <1>7, PollStopsTypes, DialogTypes DEF serverVars
<1>8. ASSUME NEW s \in Seats, Toggle(s)
      PROVE  ViewsOK(calls', stage')
  BY <1>6, <1>8, ToggleTypes DEF serverVars
<1>9. ASSUME NEW b \in Bookings, HoldLapses(b)
      PROVE  ViewsOK(calls', stage')
  BY <1>6, <1>9, LapseTypes
<1>10. ASSUME NEW b \in Bookings, BookingMoves(b), UNCHANGED <<calls, page, overlapped>>
       PROVE  ViewsOK(calls', stage')
  <2>1. \A j \in Slots : calls[j] # None => ViewOK(stage', calls[j])
    BY <1>1, <1>10, MovesOnward DEF ViewsOK, TypeInv, CallsOK
  <2> QED
    BY <1>10, <2>1 DEF ViewsOK
<1> QED
  BY <1>2, <1>3, <1>5, <1>6, <1>7, <1>8, <1>9, <1>10, Steps, LeavesMoves, ServerServes
     DEF vars, serverVars

\* The notice stands, and with it the list it is about.
LEMMA HistoryKept ==
  ASSUME TypeInv, NoticeInv, overlapped' = overlapped,
         \/ page' = page
         \/ /\ page \in History
            /\ \A f \in {"name", "loading", "failed", "list", "notice"} : page'[f] = page[f],
         \A b \in Bookings : stage[b] \in Gone => stage'[b] \in Gone,
         \A j \in Slots, b \in Bookings : stage[b] \in Gone /\ ListOK(calls, j, b)
                                          => ListOK(calls', j, b)
  PROVE  NoticeInv'
<1> SUFFICES ASSUME page'.name = "history", page'.notice # None
             PROVE  NoticeInv'
  BY DEF NoticeInv, HistoryOK
<1>1. /\ page'.name = page.name /\ page'.loading = page.loading /\ page'.failed = page.failed
      /\ page'.list = page.list /\ page'.notice = page.notice
  BY DEF History
<1>2. page.notice \in Bookings
  BY <1>1, PageTypes DEF On, History
<1> QED
  BY <1>1, <1>2 DEF NoticeInv, HistoryOK, ListOK

LEMMA HistoryPage ==
  ASSUME TypeInv, ViewsOK(calls, stage), NoticeInv, NEW k \in Slots, HistoryStep(k)
  PROVE  NoticeInv'
<1>1. page \in History /\ page' \in History /\ stage' = stage /\ overlapped \in BOOLEAN
  BY HistoryTypes, PageTypes DEF Posted
<1>2. page.name = "history" /\ page'.name = "history"
  BY <1>1 DEF History
<1>3. ASSUME calls' = [calls EXCEPT ![k] = Request("list", None)], ~ListAsked
      PROVE  \A j \in Slots : \A b : ListOK(calls', j, b)
  <2>1. calls'[k].at = "sent" /\ \A j \in Slots : j # k => calls'[j] = calls[j]
    BY <1>3 DEF Request, TypeInv, TypeOK, GatewayTypeOK
  <2> QED
    BY <1>3, <2>1 DEF ListOK, InFlight, ListAsked, Unused
<1>4. ASSUME Refresh(k) \/ RefreshDue(k)
      PROVE  NoticeInv'
  <2>1. /\ page'.notice = page.notice /\ page'.loading
        /\ calls' = [calls EXCEPT ![k] = Request("list", None)]
        /\ ~overlapped' => ~ListAsked
    BY <1>1, <1>4 DEF Refresh, RefreshDue, Sent, History
  <2> QED
    BY <1>1, <1>2, <1>3, <2>1 DEF NoticeInv, HistoryOK, ListOK
<1>5. CASE ListAnswered(k)
  <2>1. /\ page'.notice = page.notice /\ overlapped' = overlapped
        /\ page'.failed = IF Got(k, "list") THEN page.failed ELSE TRUE
        /\ page'.list = IF Got(k, "list") THEN calls[k].answer.list ELSE page.list
    BY <1>1, <1>5 DEF ListAnswered, History
  <2>2. Done(k) /\ calls[k] # None /\ calls[k].op = "list" /\ calls[k].at = "answered"
    BY <1>5 DEF ListAnswered, Answered, At, Unused
  <2>3. \A j \in Slots : \A b : ListOK(calls, j, b) => ListOK(calls', j, b)
    BY <2>2, Frees DEF ListOK, InFlight
  <2>4. \A b : Got(k, "list") /\ ListOK(calls, k, b) => calls[k].answer.list[b] \in Gone
    BY <2>2 DEF Got, ListOK, InFlight
  <2> QED
    BY <1>1, <1>2, <2>1, <2>3, <2>4 DEF NoticeInv, HistoryOK, ListOK
<1>6. CASE Cancel(k)
  <2>1. /\ \A f \in {"name", "loading", "failed", "list", "notice"} : page'[f] = page[f]
        /\ overlapped' = overlapped
    BY <1>1, <1>6 DEF Cancel, History
  <2>2. calls' = [calls EXCEPT ![k] = Request("cancel", page.asked)]
    BY <1>6 DEF Cancel, Sent
  <2>3. calls'[k].op = "cancel" /\ \A j \in Slots : j # k => calls'[j] = calls[j]
    BY <2>2 DEF Request, TypeInv, TypeOK, GatewayTypeOK
  <2>4. \A j \in Slots : \A b : ListOK(calls, j, b) => ListOK(calls', j, b)
    BY <2>3 DEF ListOK, InFlight
  <2> QED
    BY <1>1, <2>1, <2>4, HistoryKept
<1>7. CASE CancelAnswered(k)
  <2>1. CASE /\ Got(k, "view")
             /\ page' = [page EXCEPT !.notice = Cancelled(calls[k].answer.view),
                                     !.loading = TRUE, !.failed = FALSE]
             /\ calls' = [calls EXCEPT ![k] = Request("list", None)]
             /\ overlapped' = (overlapped \/ ListAsked)
    <3>1. page'.notice = Cancelled(calls[k].answer.view) /\ page'.loading
      BY <1>1, <2>1 DEF History
    <3>2. calls[k] # None /\ calls[k].at = "answered" /\ calls[k].answer.is = "view"
      BY <1>7, <2>1 DEF CancelAnswered, Answered, At, Unused, Got
    <3>3. page'.notice # None => stage[page'.notice] \in Gone
      BY <3>1, <3>2 DEF ViewsOK, ViewOK, Cancelled
    <3>4. ~overlapped' => ~ListAsked
      BY <2>1
    <3> QED
      BY <1>1, <1>3, <2>1, <3>1, <3>3, <3>4 DEF NoticeInv, HistoryOK, ListOK
  <2>2. CASE /\ page' = [page EXCEPT !.failed = TRUE]
             /\ Done(k)
             /\ UNCHANGED overlapped
    <3>1. page'.notice = page.notice /\ page'.failed
      BY <1>1, <2>2 DEF History
    <3>2. \A j \in Slots : \A b : ListOK(calls, j, b) => ListOK(calls', j, b)
      BY <2>2, Frees DEF ListOK, InFlight
    <3> QED
      BY <1>1, <1>2, <2>2, <3>1, <3>2 DEF NoticeInv, HistoryOK, ListOK
  <2> QED
    BY <1>7, <2>1, <2>2 DEF CancelAnswered
<1> QED
  BY <1>4, <1>5, <1>6, <1>7 DEF HistoryStep

LEMMA HistoryPreserved ==
  ASSUME TypeInv, PayInv, ViewsOK(calls, stage), NoticeInv, [Next]_vars
  PROVE  NoticeInv'
<1>1. ASSUME page'.name # "history"
      PROVE  NoticeInv'
  BY <1>1 DEF NoticeInv, HistoryOK
<1>2. ASSUME NEW f, Moved(f)
      PROVE  NoticeInv'
  <2>1. page'.name = "history" => page'.notice = None
    BY <1>2, FreshFirst DEF Moved, Elsewhere, Provider, FreshHistory
  <2> QED
    BY <2>1 DEF NoticeInv, HistoryOK
<1>3. ASSUME NEW k \in Slots, Server(k)
      PROVE  NoticeInv'
  <2>1. PICK c : Served(k, c)
    BY <1>3, ServerServes
  <2>2. calls'[k] = c /\ \A j \in Slots : j # k => calls'[j] = calls[j]
    BY <2>1, ServedTypes
  <2>3. \A b \in Bookings : stage[b] \in Gone => stage'[b] \in Gone
    BY <2>1, OnwardOK DEF Served
  <2>4. \A b \in Bookings : stage[b] \in Gone => ListOK(calls', k, b)
    BY <2>1, <2>2 DEF Served, Told, ListOK
  <2>5. \A j \in Slots, b \in Bookings :
          stage[b] \in Gone /\ ListOK(calls, j, b) => ListOK(calls', j, b)
    BY <2>2, <2>4 DEF ListOK, InFlight
  <2> QED
    BY <2>1, <2>3, <2>5, HistoryKept DEF Served
<1>4. ASSUME NEW k \in Slots, SeatsStep(k) \/ CheckoutStep(k) \/ ConfirmStep(k)
      PROVE  NoticeInv'
  BY <1>1, <1>4, SeatsTypes, CheckoutTypes, ConfirmTypes DEF SeatPicker, Checkout, Confirmation
<1>5. ASSUME NEW k \in Slots, PayAnswered(k) \/ Ignored(k)
      PROVE  NoticeInv'
  <2>1. PICK c : Posted(k, c, {"pay"}) \/ Posted(k, c, {})
    BY <1>5, PayAnsweredTypes, IgnoredFrees
  <2>2. stage' = stage
    BY <2>1 DEF Posted
  <2>3. \A j \in Slots : InFlight(calls', j, "list") => calls'[j] = calls[j]
    BY <2>1, PostedOps
  <2>4. \A j \in Slots, b \in Bookings : ListOK(calls, j, b) => ListOK(calls', j, b)
    BY <2>3 DEF ListOK, InFlight
  <2>5. (page' = page /\ overlapped' = overlapped) \/ page'.name = "checkout"
    BY <1>5, PayAnsweredTypes, IgnoredFrees DEF Checkout
  <2> QED
    BY <1>1, <2>2, <2>4, <2>5, HistoryKept
<1>6. ASSUME NEW s \in Seats, Toggle(s)
      PROVE  NoticeInv'
  BY <1>1, <1>6, ToggleTypes DEF SeatPicker
<1>7. CASE PollStops
  BY <1>1, <1>7, PollStopsTypes DEF Confirmation
<1>8. CASE DialogStep
  BY <1>8, DialogTypes, HistoryKept DEF serverVars
<1>9. ASSUME NEW b \in Bookings, HoldLapses(b)
      PROVE  NoticeInv'
  BY <1>9, LapseTypes, HistoryKept
<1>10. ASSUME NEW b \in Bookings, BookingMoves(b), UNCHANGED <<calls, page, overlapped>>
       PROVE  NoticeInv'
  BY <1>10, MovesOnward, OnwardOK, HistoryKept
<1>11. CASE UNCHANGED vars
  BY <1>11, HistoryKept DEF vars, serverVars
<1> QED
  BY <1>2, <1>3, <1>4, <1>5, <1>6, <1>7, <1>8, <1>9, <1>10, <1>11, Steps, LeavesMoves,
     HistoryPage

\* A customer who is told that a booking is cancelled does not find it in his list
\* as one to pay or to use, once the list has been read again without another
\* read in between: the server has cancelled it for good before it says so, and the list
\* in view when the notice comes is replaced (cancel, reload).
THEOREM CancelAlwaysSeen == Spec => []CancelSeen
<1>1. Init => HistoryInv
  BY DEF Init, GatewayInit, Elsewhere, HistoryInv, NoticeInv, HistoryOK, ViewsOK
<1>2. TypeInv /\ PayInv /\ HistoryInv /\ [Next]_vars => HistoryInv'
  BY ViewsStep, HistoryPreserved DEF HistoryInv
<1>3. HistoryInv => CancelSeen
  BY DEF HistoryInv, NoticeInv, HistoryOK, CancelSeen, On, Ready, Gone
<1> QED
  BY <1>1, <1>2, <1>3, InvAlways, PTL DEF Spec

-----------------------------------------------------------------------------
(* The server.                                                               *)

\* What the pages are checked against is what booking-service promises: a
\* booking goes through the stages as BookingLifecycle allows, which
\* booking-service is proved to follow when it handles one thing at a time
\* (LifecycleFollowed).  The two differ in how they begin: a customer may have
\* bookings that are over.
THEOREM StagesFollow == Spec => [][Lifecycle!Next]_stage
<1>1. TypeInv /\ [Next]_vars => [Lifecycle!Next]_stage
  <2> SUFFICES ASSUME TypeInv, [Next]_vars, stage' # stage
               PROVE  [Lifecycle!Next]_stage
    OBVIOUS
  <2>1. ASSUME NEW k \in Slots, Server(k)
        PROVE  [Lifecycle!Next]_stage
    BY <2>1, ServerServes DEF Served, Onward
  <2>2. ASSUME NEW b \in Bookings, BookingMoves(b)
        PROVE  [Lifecycle!Next]_stage
    BY <2>2, MovesOnward DEF Onward
  <2>3. ASSUME CustomerActs PROVE stage' = stage
    BY <2>3 DEF CustomerActs, Visit, OpenInBrowser, RetryMap, Hold, Pay, Refresh, Cancel,
       LoadCheckout, LoadConfirmation, Toggle, AskCancel, GoElsewhere, CloseDialog, serverVars
  <2>4. ASSUME NEW k \in Slots, Continues(k) \/ PollTick(k) \/ RefreshDue(k)
        PROVE  stage' = stage
    BY <2>4 DEF Continues, MapAnswered, HoldAnswered, HoldRefused, RefreshAnswered,
       CheckoutLoaded, PayAnswered, PaySignedOut, GoToProvider, ConfirmationLoaded,
       PollAnswered, ListAnswered, CancelAnswered, Ignored, PollTick, RefreshDue, serverVars
  <2>5. ASSUME PollStops \/ (\E b \in Bookings : HoldLapses(b)) \/ UNCHANGED vars
        PROVE  stage' = stage
    BY <2>5 DEF PollStops, HoldLapses, Lapses, vars, serverVars
  <2> QED
    BY <2>1, <2>2, <2>3, <2>4, <2>5 DEF Next
<1> QED
  BY <1>1, InvAlways, PTL DEF Spec
=============================================================================
