---------------------------- MODULE SessionProofs ----------------------------
(***************************************************************************)
(* What the web client takes its user for, for any users and any number of *)
(* requests in flight.                                                     *)
(***************************************************************************)
EXTENDS Session, TLAPS

-----------------------------------------------------------------------------
(* The invariant.                                                           *)

\* Call c is a navigation that waits, and may still move the page.
Awaits(c) == c # None /\ c.op = "me" /\ c.awaited

\* A call of the client when the users acc have accounts: it is not answered
\* with yes before it is answered, and nobody is known who has no account.
Sane(c, acc) ==
  c # None => /\ c.ok => c.at = "answered"
              /\ c.op \in {"me", "login"} /\ c.ok => c.as \in acc

\* One navigation waits at most, and there is a page it goes to.
OneAwaits(cs, to) ==
  \A k \in Slots : Awaits(cs[k]) =>
    to \in Guarded /\ \A j \in Slots : Awaits(cs[j]) => j = k

CallsSound == (\A k \in Slots : Sane(calls[k], accounts)) /\ OneAwaits(calls, going)

Inv == TypeOK /\ CallsSound /\ SessionSound

-----------------------------------------------------------------------------
(* Calls.                                                                   *)

\* A new request is a call like any other (Request).
LEMMA RequestSane ==
  ASSUME NEW op \in {"me", "login", "register"}, NEW u \in Users, NEW acc
  PROVE  /\ Request(op, u) \in Call
         /\ Sane(Request(op, u), acc)
         /\ op # "me" => ~Awaits(Request(op, u))
BY DEF Request, Call, Sane, Awaits

\* So is one that is answered, whatever with (Reply).
LEMMA ReplySane ==
  ASSUME NEW c \in Call, NEW ok \in BOOLEAN, NEW acc,
         c # None, c.op \in {"me", "login"} /\ ok => c.as \in acc
  PROVE  LET d == [c EXCEPT !.at = "answered", !.ok = ok] IN
         /\ d \in Call
         /\ Sane(d, acc)
         /\ Awaits(d) => Awaits(c)
BY DEF Call, Sane, Awaits

\* And one whose page is gone (Superseded, Reload).
LEMMA OrphanSane ==
  ASSUME NEW c \in Call, NEW acc, c # None, Sane(c, acc)
  PROVE  LET d == [c EXCEPT !.awaited = FALSE] IN
         d \in Call /\ Sane(d, acc) /\ ~Awaits(d)
BY DEF Call, Sane, Awaits

\* After another navigation nobody waits (Superseded).
LEMMA SupersededSound ==
  ASSUME TypeOK, CallsSound
  PROVE  /\ Superseded \in [Slots -> Call \cup {None}]
         /\ \A k \in Slots : Sane(Superseded[k], accounts) /\ ~Awaits(Superseded[k])
<1>1. ASSUME NEW k \in Slots
      PROVE  /\ Superseded[k] \in Call \cup {None}
             /\ Sane(Superseded[k], accounts) /\ ~Awaits(Superseded[k])
  <2>1. CASE calls[k] # None /\ calls[k].op = "me"
    <3>1. calls[k] \in Call /\ Sane(calls[k], accounts)
      BY <2>1 DEF TypeOK, CallsSound
    <3>2. Superseded[k] = [calls[k] EXCEPT !.awaited = FALSE]
      BY <2>1 DEF Superseded
    <3> QED BY <2>1, <3>1, <3>2, OrphanSane
  <2>2. CASE ~(calls[k] # None /\ calls[k].op = "me")
    <3>1. Superseded[k] = calls[k]
      BY <2>2 DEF Superseded
    <3> QED BY <2>2, <3>1 DEF TypeOK, CallsSound, Awaits
  <2> QED BY <2>1, <2>2
<1> QED BY <1>1 DEF Superseded

-----------------------------------------------------------------------------
(* Pages.                                                                   *)

\* What the router is asked for is a page (Visits), and so is what it goes to.
LEMMA Pages ==
  /\ Visits \subseteq Route
  /\ \A name \in Landings : \A u : Admitted(name, u) \in Landings /\ Page(Admitted(name, u)) \in Route
  /\ \A r \in Landings : SignIn(r) \in Route /\ SignIn(r).name = "login"
  /\ Page("start") \in Route
  /\ \A p : Page(p).name = p
BY DEF Visits, Route, Landings, Names, Guarded, Admitted, Page, SignIn

\* Only an admin is let into the console, only users into guarded pages.
LEMMA AdmittedSound ==
  ASSUME NEW name, NEW u
  PROVE  Page(Admitted(name, u)).name = "admin" => u \in Admins
BY DEF Admitted, Page

\* The guard lets in who may come in (beforeEach).
LEMMA GuardSound ==
  ASSUME NEW p \in Visits, Guard(p), user \in Users \cup {None}
  PROVE  /\ route' \in Route
         /\ route'.name \in Guarded => user # None
         /\ route'.name = "admin" => user \in Admins
<1>1. CASE p.name \notin Guarded
  BY <1>1, Pages DEF Guard, Guarded
<1>2. CASE p.name \in Guarded /\ token = None
  <2>1. route' = SignIn(p.name) /\ p.name \in Landings
    BY <1>2 DEF Guard, Landings
  <2> QED BY <2>1, Pages DEF Guarded
<1>3. CASE p.name \in Guarded /\ token # None
  <2>1. user # None /\ route' = Page(Admitted(p.name, user)) /\ p.name \in Landings
    BY <1>3 DEF Guard, Landings
  <2> QED BY <2>1, Pages, AdmittedSound
<1> QED BY <1>1, <1>2, <1>3

-----------------------------------------------------------------------------
(* Every step keeps the invariant.                                          *)

\* One that changes a call, and may add an account.
LEMMA ServerInv ==
  ASSUME SessionAssumption, Inv, NEW k \in Slots,
         calls'[k] \in Call, Sane(calls'[k], accounts'), Awaits(calls'[k]) => Awaits(calls[k]),
         calls' = [calls EXCEPT ![k] = calls'[k]],
         accounts' \subseteq Users, accounts \subseteq accounts',
         UNCHANGED <<stored, token, user, route, going, overtaken>>
  PROVE  Inv'
<1>1. TypeOK'
  BY DEF Inv, TypeOK
<1>2. CallsSound'
  <2>1. /\ calls \in [Slots -> Call \cup {None}] /\ calls' \in [Slots -> Call \cup {None}]
        /\ \A j \in Slots \ {k} : calls'[j] = calls[j]
    BY <1>1 DEF Inv, TypeOK
  <2>2. (\A j \in Slots : Sane(calls[j], accounts)) /\ OneAwaits(calls, going) /\ going' = going
    BY DEF Inv, CallsSound
  <2>3. (\A j \in Slots : Sane(calls'[j], accounts')) /\ OneAwaits(calls', going')
    BY <2>1, <2>2 DEF Sane, OneAwaits, Awaits
  <2> QED BY <2>3 DEF CallsSound
<1>3. SessionSound'
  BY DEF Inv, SessionSound
<1> QED BY <1>1, <1>2, <1>3 DEF Inv

\* An answer of the server.
LEMMA ReplyInv ==
  ASSUME SessionAssumption, Inv, NEW k \in Slots, calls[k] # None,
         NEW ok \in BOOLEAN, Reply(k, ok), calls[k].op \in {"me", "login"} /\ ok => calls[k].as \in accounts',
         accounts' \subseteq Users, accounts \subseteq accounts',
         UNCHANGED <<stored, token, user, route, going, overtaken>>
  PROVE  Inv'
<1> DEFINE d == [calls[k] EXCEPT !.at = "answered", !.ok = ok]
<1>1. calls[k] \in Call
  BY DEF Inv, TypeOK
<1>2. d \in Call /\ Sane(d, accounts') /\ (Awaits(d) => Awaits(calls[k]))
  BY <1>1, ReplySane
<1>3. calls' = [calls EXCEPT ![k] = d]
  BY DEF Reply
<1>4. calls'[k] = d
  BY <1>3 DEF Inv, TypeOK
<1> HIDE DEF d
<1> QED BY <1>2, <1>3, <1>4, ServerInv

\* A request of a page, in a slot that was free or for the call that was there.
LEMMA AskInv ==
  ASSUME SessionAssumption, Inv, NEW k \in Slots, NEW op \in {"login", "register"}, NEW u \in Users,
         calls' = [calls EXCEPT ![k] = Request(op, u)],
         UNCHANGED <<accounts, stored, token, user, route, going, overtaken>>
  PROVE  Inv'
<1> DEFINE r == Request(op, u)
<1>1. r \in Call /\ Sane(r, accounts') /\ ~Awaits(r)
  BY RequestSane
<1>2. calls' = [calls EXCEPT ![k] = r]
  OBVIOUS
<1> HIDE DEF r
<1>3. calls'[k] = r
  BY <1>2 DEF Inv, TypeOK
<1>4. accounts' \subseteq Users /\ accounts \subseteq accounts'
  BY DEF Inv, TypeOK
<1> QED BY <1>1, <1>2, <1>3, <1>4, ServerInv

\* A call that ends with its answer.
LEMMA CallEnds ==
  ASSUME Inv, NEW k \in Slots, calls' = [calls EXCEPT ![k] = None], accounts' = accounts
  PROVE  /\ calls' \in [Slots -> Call \cup {None}]
         /\ \A j \in Slots : Sane(calls'[j], accounts')
         /\ going' = going => OneAwaits(calls', going')
         /\ Awaits(calls[k]) => OneAwaits(calls', going')
<1>1. /\ calls' \in [Slots -> Call \cup {None}]
      /\ \A j \in Slots \ {k} : calls'[j] = calls[j]
      /\ calls'[k] = None
  BY DEF Inv, TypeOK
<1> QED BY <1>1 DEF Inv, CallsSound, OneAwaits, Sane, Awaits

\* Where nobody waits any more and no call was answered since.
LEMMA NobodyWaits ==
  ASSUME Inv, calls' = Superseded, accounts' = accounts
  PROVE  calls' \in [Slots -> Call \cup {None}] /\ CallsSound'
<1>1. \A k \in Slots : Sane(calls'[k], accounts) /\ ~Awaits(calls'[k])
  BY SupersededSound DEF Inv
<1> QED BY <1>1, SupersededSound DEF Inv, CallsSound, OneAwaits

\* The requests and the answers of user-service.
LEMMA ServeInv ==
  ASSUME SessionAssumption, Inv, NEW k \in Slots,
         ServeMe(k) \/ ServeLogin(k) \/ RegisterCheck(k) \/ RegisterInsert(k)
  PROVE  Inv'
<1>1. CASE ServeMe(k) \/ ServeLogin(k)
  <2>1. PICK ok \in BOOLEAN : (ok => calls[k].as \in accounts) /\ Reply(k, ok)
    BY <1>1 DEF ServeMe, ServeLogin
  <2>2. calls[k] # None /\ accounts' = accounts /\ accounts \subseteq Users
        /\ UNCHANGED <<stored, token, user, route, going, overtaken>>
    BY <1>1 DEF ServeMe, ServeLogin, At, Inv, TypeOK
  <2> QED BY <2>1, <2>2, ReplyInv
<1>2. CASE RegisterCheck(k)
  <2>1. calls[k] # None /\ calls[k].op = "register" /\ accounts' = accounts /\ accounts \subseteq Users
        /\ UNCHANGED <<stored, token, user, route, going, overtaken>>
    BY <1>2 DEF RegisterCheck, At, Inv, TypeOK
  <2>2. CASE Reply(k, FALSE)
    BY <2>1, <2>2, ReplyInv
  <2>3. CASE calls' = [calls EXCEPT ![k].at = "checked"]
    <3>1. calls[k] \in Call /\ Sane(calls[k], accounts) /\ calls[k].at = "sent"
      BY <1>2, <2>1 DEF RegisterCheck, At, Inv, TypeOK, CallsSound
    <3>2. calls'[k] = [calls[k] EXCEPT !.at = "checked"]
      BY <2>3 DEF Inv, TypeOK
    <3>3. calls'[k] \in Call /\ calls'[k].op = "register" /\ ~calls'[k].ok
      BY <2>1, <3>1, <3>2 DEF Call, Sane
    <3>4. calls' = [calls EXCEPT ![k] = calls'[k]]
      BY <2>3, <3>2
    <3>5. Sane(calls'[k], accounts') /\ ~Awaits(calls'[k])
      BY <3>3 DEF Sane, Awaits
    <3> QED BY <2>1, <3>3, <3>4, <3>5, ServerInv
  <2> QED BY <1>2, <2>2, <2>3 DEF RegisterCheck
<1>3. CASE RegisterInsert(k)
  <2>1. PICK ok \in BOOLEAN : Reply(k, ok)
    BY <1>3 DEF RegisterInsert
  <2>2. calls[k] \in Call /\ calls[k] # None /\ calls[k].op = "register" /\ accounts \subseteq Users
        /\ UNCHANGED <<stored, token, user, route, going, overtaken>>
    BY <1>3 DEF RegisterInsert, At, Inv, TypeOK
  <2>3. accounts \subseteq accounts' /\ accounts' \subseteq Users
    BY <1>3, <2>2 DEF RegisterInsert, Call
  <2> QED BY <2>1, <2>2, <2>3, ReplyInv
<1> QED BY <1>1, <1>2, <1>3

\* Links and the back button.
LEMMA NavigateInv ==
  ASSUME SessionAssumption, Inv, NEW p \in Visits, Navigate(p)
  PROVE  Inv'
<1>1. /\ calls' = Superseded /\ going' = None
      /\ UNCHANGED <<accounts, stored, token, user, overtaken>>
  BY DEF Navigate
<1>2. calls' \in [Slots -> Call \cup {None}] /\ CallsSound'
  BY <1>1, NobodyWaits
<1>3. user \in Users \cup {None}
  BY DEF Inv, TypeOK
<1>4. /\ route' \in Route
      /\ route'.name \in Guarded => user # None
      /\ route'.name = "admin" => user \in Admins
  BY <1>3, GuardSound DEF Navigate
<1>5. TypeOK'
  BY <1>1, <1>2, <1>4 DEF Inv, TypeOK
<1>6. SessionSound'
  BY <1>1, <1>4 DEF Inv, SessionSound
<1> QED BY <1>2, <1>5, <1>6 DEF Inv

\* A navigation that asks who the user is.
LEMMA UnverifiedInv ==
  ASSUME SessionAssumption, Inv, NEW k \in Slots, NEW name \in Guarded, NavigateUnverified(k, name)
  PROVE  Inv'
<1> DEFINE r == Request("me", token)
<1>1. /\ calls' = [Superseded EXCEPT ![k] = r] /\ going' = name
      /\ token \in Users
      /\ UNCHANGED <<accounts, stored, token, user, route, overtaken>>
  BY DEF NavigateUnverified, Inv, TypeOK
<1>2. r \in Call /\ Sane(r, accounts)
  BY <1>1, RequestSane
<1>3. /\ Superseded \in [Slots -> Call \cup {None}]
      /\ \A j \in Slots : Sane(Superseded[j], accounts) /\ ~Awaits(Superseded[j])
  BY SupersededSound DEF Inv
<1> HIDE DEF r
<1>4. /\ calls' \in [Slots -> Call \cup {None}] /\ calls'[k] = r
      /\ \A j \in Slots \ {k} : calls'[j] = Superseded[j]
  BY <1>1, <1>2, <1>3
<1>5. CallsSound'
  BY <1>1, <1>2, <1>3, <1>4 DEF CallsSound, OneAwaits
<1>6. TypeOK'
  BY <1>1, <1>4 DEF Inv, TypeOK
<1>7. SessionSound'
  BY <1>1 DEF Inv, SessionSound
<1> QED BY <1>5, <1>6, <1>7 DEF Inv

\* The answer that tells who the user is (refreshMe, beforeEach).
LEMMA MeInv ==
  ASSUME SessionAssumption, Inv, NEW k \in Slots, MeAnswered(k)
  PROVE  Inv'
<1> DEFINE c == calls[k]
<1>1. /\ c \in Call /\ c # None /\ c.op = "me" /\ Sane(c, accounts)
      /\ Awaits(c) => going \in Guarded
  BY DEF MeAnswered, At, Inv, TypeOK, CallsSound, OneAwaits
<1>2. /\ user' = (IF c.ok THEN c.as ELSE None)
      /\ token' = (IF c.ok THEN token ELSE None)
      /\ stored' = (IF c.ok THEN stored ELSE None)
      /\ overtaken' = (overtaken \/ c.as # token \/ ~(c.ok \/ c.awaited))
      /\ calls' = [calls EXCEPT ![k] = None]
      /\ accounts' = accounts
  BY DEF MeAnswered
<1>3. IF c.awaited
      THEN going' = None /\ route' = IF c.ok THEN Page(Admitted(going, c.as)) ELSE SignIn(going)
      ELSE UNCHANGED <<going, route>>
  BY DEF MeAnswered
<1>4. c.awaited => going \in Landings
  BY <1>1 DEF Awaits, Landings
<1>5. /\ route' \in Route
      /\ going' \in Guarded \cup {None}
      /\ c.awaited /\ c.ok => (route'.name = "admin" => c.as \in Admins)
      /\ c.awaited /\ ~c.ok => route'.name = "login"
  <2>1. CASE c.awaited
    BY <1>3, <1>4, <2>1, Pages, AdmittedSound
  <2>2. CASE ~c.awaited
    BY <1>3, <2>2 DEF Inv, TypeOK
  <2> QED BY <2>1, <2>2
<1>6. c.as \in Users /\ (c.ok => c.as \in accounts)
  BY <1>1 DEF Call, Sane
<1>7. CallsSound'
  <2>1. c.awaited => Awaits(calls[k])
    BY <1>1 DEF Awaits
  <2>2. OneAwaits(calls', going')
    BY <1>2, <1>3, <2>1, CallEnds
  <2> QED BY <1>2, <2>2, CallEnds DEF CallsSound
<1>8. TypeOK'
  <2>1. calls' \in [Slots -> Call \cup {None}]
    BY <1>2, CallEnds
  <2>2. overtaken' \in BOOLEAN
    BY <1>2 DEF Inv, TypeOK
  <2> QED BY <1>2, <1>5, <1>6, <2>1, <2>2 DEF Inv, TypeOK
<1>9. SessionSound'
  <2> SUFFICES ASSUME ~overtaken' PROVE SessionSound'
    BY DEF SessionSound
  <2>1. ~overtaken /\ c.as = token /\ (c.ok \/ c.awaited)
    BY <1>2
  <2> HIDE DEF c
  <2>2. CASE c.ok /\ c.awaited
    BY <1>2, <1>5, <1>6, <2>1, <2>2, SessionAssumption DEF SessionSound
  <2>3. CASE c.ok /\ ~c.awaited
    BY <1>2, <1>3, <1>6, <2>1, <2>3, SessionAssumption DEF SessionSound, Inv
  <2>4. CASE ~c.ok
    BY <1>2, <1>5, <2>1, <2>4 DEF SessionSound, Guarded
  <2> QED BY <2>1, <2>2, <2>3, <2>4
<1> QED BY <1>7, <1>8, <1>9 DEF Inv

\* The client is loaded anew: nobody is known, no guarded page in view.
LEMMA ReloadInv ==
  ASSUME SessionAssumption, Inv, NEW p \in Visits, Reload(p)
  PROVE  Inv'
<1> DEFINE left == [k \in Slots |-> IF calls[k] = None \/ calls[k].op # "register" THEN None
                                    ELSE [calls[k] EXCEPT !.awaited = FALSE]]
           Loaded(q) == /\ q \notin Guarded \/ stored = None
                        /\ route' = IF q \in Guarded THEN SignIn(q) ELSE p
                        /\ going' = None
                        /\ calls' = left
           Loading(q) == /\ q \in Guarded /\ stored # None
                         /\ \E k \in Slots : /\ FirstFree(k, left)
                                             /\ calls' = [left EXCEPT ![k] = Request("me", stored)]
                         /\ going' = q
                         /\ route' = Page("start")
<1>1. /\ token' = stored /\ user' = None /\ overtaken' = FALSE
      /\ UNCHANGED <<accounts, stored>>
      /\ Loaded(p.name) \/ Loading(p.name)
  BY DEF Reload
<1>2. /\ left \in [Slots -> Call \cup {None}]
      /\ \A k \in Slots : Sane(left[k], accounts) /\ ~Awaits(left[k])
  <2>1. ASSUME NEW k \in Slots
        PROVE  left[k] \in Call \cup {None} /\ Sane(left[k], accounts) /\ ~Awaits(left[k])
    <3>1. CASE calls[k] = None \/ calls[k].op # "register"
      BY <3>1 DEF Sane, Awaits
    <3>2. CASE calls[k] # None /\ calls[k].op = "register"
      <4>1. calls[k] \in Call /\ Sane(calls[k], accounts)
        BY <3>2 DEF Inv, TypeOK, CallsSound
      <4>2. left[k] = [calls[k] EXCEPT !.awaited = FALSE]
        BY <3>2
      <4> QED BY <3>2, <4>1, <4>2, OrphanSane
    <3> QED BY <3>1, <3>2
  <2> QED BY <2>1
<1> HIDE DEF left
<1>3. CASE Loaded(p.name)
  <2>1. route' \in Route /\ route'.name \notin Guarded /\ going' = None
    <3>1. p.name \in Guarded => p.name \in Landings
      BY DEF Landings
    <3> QED BY <1>3, <3>1, Pages DEF Guarded
  <2>2. CallsSound' /\ calls' \in [Slots -> Call \cup {None}]
    BY <1>1, <1>2, <1>3 DEF CallsSound, OneAwaits
  <2>3. TypeOK'
    BY <1>1, <2>1, <2>2 DEF Inv, TypeOK
  <2>4. SessionSound'
    BY <1>1, <2>1 DEF SessionSound, Guarded
  <2> QED BY <2>2, <2>3, <2>4 DEF Inv
<1>4. CASE Loading(p.name)
  <2>1. PICK k \in Slots : calls' = [left EXCEPT ![k] = Request("me", stored)]
    BY <1>4
  <2> DEFINE r == Request("me", stored)
  <2>2. stored \in Users
    BY <1>4 DEF Inv, TypeOK
  <2>3. r \in Call /\ Sane(r, accounts)
    BY <2>2, RequestSane
  <2> HIDE DEF r
  <2>4. /\ calls' \in [Slots -> Call \cup {None}] /\ calls'[k] = r
        /\ \A j \in Slots \ {k} : calls'[j] = left[j]
    BY <1>2, <2>1, <2>3 DEF r
  <2>5. CallsSound'
    BY <1>1, <1>2, <1>4, <2>3, <2>4 DEF CallsSound, OneAwaits
  <2>6. route' \in Route /\ route'.name = "start" /\ going' \in Guarded
    BY <1>4, Pages
  <2>7. TypeOK'
    BY <1>1, <2>4, <2>6 DEF Inv, TypeOK
  <2>8. SessionSound'
    BY <1>1, <2>6 DEF SessionSound, Guarded
  <2> QED BY <2>5, <2>7, <2>8 DEF Inv
<1> QED BY <1>1, <1>3, <1>4

\* The answer to credentials (login, onSubmit).
LEMMA LoginInv ==
  ASSUME SessionAssumption, Inv, NEW k \in Slots, LoginAnswered(k)
  PROVE  Inv'
<1>1. /\ calls[k] \in Call /\ calls[k] # None /\ calls[k].op = "login" /\ Sane(calls[k], accounts)
      /\ UNCHANGED <<accounts, overtaken>>
  BY DEF LoginAnswered, At, Inv, TypeOK, CallsSound
<1> DEFINE u == calls[k].as
<1>2. CASE calls[k].ok
  <2>1. /\ user' = u /\ token' = u /\ stored' = u
        /\ route' = Page(Admitted(route.redirect, u)) /\ going' = None
        /\ calls' = [Superseded EXCEPT ![k] = None]
    BY <1>2 DEF LoginAnswered
  <2>2. u \in Users /\ u \in accounts
    BY <1>1, <1>2 DEF Call, Sane
  <2>3. route' \in Route /\ (route'.name = "admin" => u \in Admins)
    <3>1. route.redirect \in Landings
      BY DEF Inv, TypeOK, Route
    <3> QED BY <2>1, <3>1, Pages, AdmittedSound
  <2>4. calls' \in [Slots -> Call \cup {None}] /\ CallsSound'
    <3>1. /\ Superseded \in [Slots -> Call \cup {None}]
          /\ \A j \in Slots : Sane(Superseded[j], accounts) /\ ~Awaits(Superseded[j])
      BY SupersededSound DEF Inv
    <3>2. /\ calls' \in [Slots -> Call \cup {None}] /\ calls'[k] = None
          /\ \A j \in Slots \ {k} : calls'[j] = Superseded[j]
      BY <2>1, <3>1
    <3>3. \A j \in Slots : Sane(calls'[j], accounts) /\ ~Awaits(calls'[j])
      BY <3>1, <3>2 DEF Sane, Awaits
    <3> QED BY <1>1, <3>2, <3>3 DEF CallsSound, OneAwaits
  <2> HIDE DEF u
  <2>5. TypeOK'
    BY <1>1, <2>1, <2>2, <2>3, <2>4 DEF Inv, TypeOK
  <2>6. SessionSound'
    BY <1>1, <2>1, <2>2, <2>3, SessionAssumption DEF SessionSound
  <2> QED BY <2>4, <2>5, <2>6 DEF Inv
<1>3. CASE ~calls[k].ok
  <2>1. calls' = [calls EXCEPT ![k] = None] /\ UNCHANGED <<stored, token, user, route, going>>
    BY <1>3 DEF LoginAnswered
  <2>2. calls' \in [Slots -> Call \cup {None}] /\ CallsSound'
    BY <1>1, <2>1, CallEnds DEF CallsSound
  <2>3. TypeOK' /\ SessionSound'
    BY <1>1, <2>1, <2>2 DEF Inv, TypeOK, SessionSound
  <2> QED BY <2>2, <2>3 DEF Inv
<1> QED BY <1>2, <1>3

\* The forms, and the login that follows a registration by itself.
LEMMA FormsInv ==
  ASSUME SessionAssumption, Inv, NEW k \in Slots,
         RegisterAnswered(k) \/ \E u \in Users : Login(k, u) \/ Register(k, u)
  PROVE  Inv'
<1>1. CASE \E u \in Users : Login(k, u) \/ Register(k, u)
  BY <1>1, AskInv DEF Login, Register
<1>2. CASE RegisterAnswered(k)
  <2>1. /\ calls[k] \in Call
        /\ UNCHANGED <<accounts, stored, token, user, route, going, overtaken>>
    BY <1>2 DEF RegisterAnswered, At, Inv, TypeOK
  <2>2. CASE calls' = [calls EXCEPT ![k] = Request("login", calls[k].as)]
    BY <2>1, <2>2, AskInv DEF Call
  <2>3. CASE calls' = [calls EXCEPT ![k] = None]
    <3>1. calls' \in [Slots -> Call \cup {None}] /\ CallsSound'
      BY <2>1, <2>3, CallEnds DEF CallsSound
    <3>2. TypeOK' /\ SessionSound'
      BY <2>1, <3>1 DEF Inv, TypeOK, SessionSound
    <3> QED BY <3>1, <3>2 DEF Inv
  <2> QED BY <1>2, <2>2, <2>3 DEF RegisterAnswered
<1> QED BY <1>1, <1>2

\* Signing out, and what another tab does to the storage.
LEMMA LeaveInv ==
  ASSUME SessionAssumption, Inv, SignOut \/ \E u \in accounts \cup {None} : OtherTab(u)
  PROVE  Inv'
<1>1. CASE SignOut
  <2>1. /\ user' = None /\ token' = None /\ stored' = None
        /\ route' = SignIn("open") /\ going' = None /\ calls' = Superseded
        /\ UNCHANGED <<accounts, overtaken>>
    BY <1>1 DEF SignOut
  <2>2. calls' \in [Slots -> Call \cup {None}] /\ CallsSound'
    BY <2>1, NobodyWaits
  <2>3. route' \in Route /\ route'.name = "login"
    BY <2>1, Pages DEF Landings
  <2>4. TypeOK' /\ SessionSound'
    BY <2>1, <2>2, <2>3 DEF Inv, TypeOK, SessionSound, Guarded
  <2> QED BY <2>2, <2>4 DEF Inv
<1>2. CASE \E u \in accounts \cup {None} : OtherTab(u)
  <2>1. /\ stored' \in accounts \cup {None}
        /\ UNCHANGED <<accounts, token, user, route, going, calls, overtaken>>
    BY <1>2 DEF OtherTab
  <2> QED BY <2>1 DEF Inv, TypeOK, CallsSound, SessionSound, OneAwaits
<1> QED BY <1>1, <1>2

\* Inv is inductive.
LEMMA StepInv == ASSUME Inv, [Next]_vars PROVE Inv'
<1> USE SessionAssumption
<1>1. CASE CustomerActs
  <2>1. ASSUME NEW p \in Visits, Navigate(p) \/ Reload(p) PROVE Inv'
    BY <2>1, NavigateInv, ReloadInv
  <2>2. ASSUME NEW k \in Slots, NEW name \in Guarded, NavigateUnverified(k, name) PROVE Inv'
    BY <2>2, UnverifiedInv
  <2> QED BY <1>1, <2>1, <2>2, FormsInv, LeaveInv DEF CustomerActs
<1>2. ASSUME NEW k \in Slots, Proceeds(k) PROVE Inv'
  BY <1>2, MeInv, LoginInv, FormsInv, ServeInv DEF Proceeds
<1>3. CASE \E u \in accounts \cup {None} : OtherTab(u)
  BY <1>3, LeaveInv
<1>4. CASE UNCHANGED vars
  BY <1>4 DEF vars, Inv, TypeOK, CallsSound, SessionSound, OneAwaits
<1> QED BY <1>1, <1>2, <1>3, <1>4 DEF Next

\* Init makes it true.
LEMMA InitInv == Init => Inv
<1> SUFFICES ASSUME Init PROVE Inv
  OBVIOUS
<1>1. TypeOK
  BY SessionAssumption DEF Init, TypeOK, Route, Names, Landings, Guarded, Page
<1>2. CallsSound
  BY DEF Init, CallsSound, OneAwaits, Sane, Awaits
<1>3. SessionSound
  BY DEF Init, SessionSound, Guarded, Page
<1> QED BY <1>1, <1>2, <1>3 DEF Inv

\* The invariant holds in every state.
LEMMA AlwaysInv == Spec => []Inv
BY InitInv, StepInv, PTL DEF Spec

-----------------------------------------------------------------------------
(* Results.                                                                 *)

\* Every variable keeps its type; in particular there is always a page to go to
\* where the guard or a form wants to go on (beforeEach, redirectTo).
THEOREM TypeCorrect == Spec => []TypeOK
BY AlwaysInv, PTL DEF Inv

\* Signed-in means signed in, and the console is for admins, unless an answer of
\* me() was overtaken (refreshMe, beforeEach, login, logout).
THEOREM SessionAlwaysSound == Spec => []SessionSound
BY AlwaysInv, PTL DEF Inv

\* One step tells at most the maker of an account that it is his.
LEMMA OwnerStep ==
  ASSUME Inv, [Next]_vars, NEW k \in Slots, At(k, "register", "checked"),
         calls'[k] # None, calls'[k].ok
  PROVE  calls[k].as \notin accounts
<1>1. calls[k] # None /\ calls[k] \in Call /\ ~calls[k].ok /\ calls[k].op = "register"
      /\ calls[k].at = "checked"
  BY DEF At, Inv, TypeOK, CallsSound, Sane
<1>2. calls \in [Slots -> Call \cup {None}]
  BY DEF Inv, TypeOK
<1>3. calls'[k] # calls[k]
  BY <1>1
<1>4. Superseded[k] = calls[k] /\ Superseded \in [Slots -> Call \cup {None}]
  BY <1>1, SupersededSound DEF Superseded, Inv
<1>5. CASE CustomerActs
  <2>1. ASSUME NEW p \in Visits, Navigate(p) PROVE FALSE
    BY <1>3, <1>4, <2>1 DEF Navigate
  <2>2. ASSUME NEW p \in Visits, Reload(p) PROVE FALSE
    <3> DEFINE left == [j \in Slots |-> IF calls[j] = None \/ calls[j].op # "register" THEN None
                                        ELSE [calls[j] EXCEPT !.awaited = FALSE]]
    <3>1. calls' = left \/ \E j \in Slots : calls' = [left EXCEPT ![j] = Request("me", stored)]
      BY <2>2 DEF Reload
    <3>2. left[k] = [calls[k] EXCEPT !.awaited = FALSE]
      BY <1>1
    <3>3. ~left[k].ok /\ left = [j \in Slots |-> left[j]] /\ ~Request("me", stored).ok
      BY <1>1, <3>2 DEF Call, Request
    <3> HIDE DEF left
    <3> QED BY <3>1, <3>3
  <2>3. CASE SignOut
    BY <1>3, <1>4, <2>3 DEF SignOut
  <2>4. ASSUME NEW j \in Slots, NEW name \in Guarded, NavigateUnverified(j, name) PROVE FALSE
    BY <1>1, <1>3, <1>4, <2>4 DEF NavigateUnverified, FirstFree
  <2>5. ASSUME NEW j \in Slots, NEW u \in Users, Login(j, u) \/ Register(j, u) PROVE FALSE
    BY <1>1, <1>2, <1>3, <2>5 DEF Login, Register, FirstFree
  <2> QED BY <1>5, <2>1, <2>2, <2>3, <2>4, <2>5 DEF CustomerActs
<1>6. ASSUME NEW j \in Slots, Proceeds(j) PROVE calls[k].as \notin accounts
  <2>1. CASE RegisterInsert(j) /\ j = k
    <3>1. CASE Reply(k, FALSE)
      BY <1>2, <3>1 DEF Reply
    <3> QED BY <2>1, <3>1 DEF RegisterInsert
  <2>2. CASE RegisterInsert(j) /\ j # k
    BY <1>2, <1>3, <2>2 DEF RegisterInsert, Reply
  <2>3. CASE MeAnswered(j) \/ RegisterAnswered(j)
    BY <1>1, <1>2, <1>3, <2>3 DEF MeAnswered, RegisterAnswered, At
  <2>4. CASE LoginAnswered(j)
    BY <1>1, <1>2, <1>3, <1>4, <2>4 DEF LoginAnswered, At
  <2>5. CASE ServeMe(j) \/ ServeLogin(j)
    BY <1>1, <1>2, <1>3, <2>5 DEF ServeMe, ServeLogin, Reply, At
  <2>6. CASE RegisterCheck(j)
    BY <1>1, <1>2, <1>3, <2>6 DEF RegisterCheck, Reply, At
  <2> QED BY <1>6, <2>1, <2>2, <2>3, <2>4, <2>5, <2>6 DEF Proceeds
<1>7. CASE (\E u \in accounts \cup {None} : OtherTab(u)) \/ UNCHANGED vars
  BY <1>3, <1>7 DEF OtherTab, vars
<1> QED BY <1>5, <1>6, <1>7 DEF Next

\* Who is told that an address is his made the account (register).
THEOREM OneOwnerEver == Spec => OneOwner
<1>1. Inv /\ [Next]_vars =>
        [\A k \in Slots : At(k, "register", "checked") /\ calls'[k] # None /\ calls'[k].ok
                          => calls[k].as \notin accounts]_vars
  BY OwnerStep
<1> QED BY <1>1, AlwaysInv, PTL DEF Spec, OneOwner

=============================================================================
