------------------------------ MODULE Session ------------------------------
(***************************************************************************)
(* Who the web client takes its user for: the auth store, the guard of the *)
(* router, the login and register pages, and user-service behind them.     *)
(*                                                                         *)
(* A navigation to a guarded page may have to wait for me(); the customer  *)
(* goes on meanwhile, and the answer is put in the store all the same.     *)
(***************************************************************************)
EXTENDS Naturals

CONSTANTS Users, Admins,     \* an admin has an account from the start
          Slots,             \* bound: requests in flight, numbered
          None

ASSUME SessionAssumption ==
  /\ Admins \subseteq Users /\ None \notin Users
  /\ Slots \subseteq Nat

VARIABLES accounts,   \* the users user-service has a row of
          stored,     \* whose token the browser's storage holds
          token,      \* auth.token, read from there once
          user,       \* auth.user
          route,      \* the page in view; redirect is its query, on login and register
          going,      \* the guarded page a navigation that waits for me() goes to
          calls,      \* requests in flight
          overtaken   \* an answer of me() met another session than it was asked for

vars == <<accounts, stored, token, user, route, going, calls, overtaken>>

\* "open" are the pages anyone may see, "mine" those of a customer; "start" is
\* the blank page of a client that is being loaded.
Guarded == {"mine", "admin"}
Names == Guarded \cup {"open", "login", "register"}
Landings == Guarded \cup {"open"}

Route == [name : Names \cup {"start"}, redirect : Landings]

Page(name) == [name |-> name, redirect |-> "open"]
SignIn(redirect) == [name |-> "login", redirect |-> redirect]

\* as: the token of me(), the credentials of login and register.  awaited: the
\* navigation or the page that asked still waits.
Call == [op : {"me", "login", "register"}, as : Users, awaited : BOOLEAN,
         at : {"sent", "checked", "answered"}, ok : BOOLEAN]

Request(op, u) == [op |-> op, as |-> u, awaited |-> TRUE, at |-> "sent", ok |-> FALSE]

FirstFree(k, cs) == cs[k] = None /\ \A j \in Slots : cs[j] = None => k <= j

At(k, op, at) == calls[k] # None /\ calls[k].op = op /\ calls[k].at = at

Reply(k, ok) == calls' = [calls EXCEPT ![k].at = "answered", ![k].ok = ok]

-----------------------------------------------------------------------------
(* user-service.                                                            *)

\* me() looks up who the token names.  An expired token is refused by the gateway;
\* a request or its answer may be lost.
ServeMe(k) ==
  /\ At(k, "me", "sent")
  /\ \E ok \in BOOLEAN : (ok => calls[k].as \in accounts) /\ Reply(k, ok)
  /\ UNCHANGED <<accounts, stored, token, user, route, going, overtaken>>

ServeLogin(k) ==
  /\ At(k, "login", "sent")
  /\ \E ok \in BOOLEAN : (ok => calls[k].as \in accounts) /\ Reply(k, ok)
  /\ UNCHANGED <<accounts, stored, token, user, route, going, overtaken>>

\* register() looks for the address first and hashes the password.
RegisterCheck(k) ==
  /\ At(k, "register", "sent")
  /\ \/ calls[k].as \notin accounts /\ calls' = [calls EXCEPT ![k].at = "checked"]
     \/ Reply(k, FALSE)
  /\ UNCHANGED <<accounts, stored, token, user, route, going, overtaken>>

\* Mutant of RegisterInsert: the address is not unique in the table.
RegisterInsertAnyway(k) ==
  /\ At(k, "register", "checked")
  /\ accounts' = accounts \cup {calls[k].as}
  /\ \E ok \in BOOLEAN : Reply(k, ok)
  /\ UNCHANGED <<stored, token, user, route, going, overtaken>>

\* Then it inserts a row; of two the unique index lets one pass.
RegisterInsert(k) ==
  /\ At(k, "register", "checked")
  /\ \/ /\ calls[k].as \notin accounts
        /\ accounts' = accounts \cup {calls[k].as}
        /\ \E ok \in BOOLEAN : Reply(k, ok)
     \/ Reply(k, FALSE) /\ UNCHANGED accounts
  /\ UNCHANGED <<stored, token, user, route, going, overtaken>>

-----------------------------------------------------------------------------
(* The router.                                                              *)

\* A navigation ends the one that waits; what that one asked for still comes.
Superseded == [k \in Slots |->
                 IF calls[k] # None /\ calls[k].op = "me"
                 THEN [calls[k] EXCEPT !.awaited = FALSE] ELSE calls[k]]

\* What the guard does for a user who is known.
Admitted(name, u) == IF name = "admin" /\ u \notin Admins THEN "open" ELSE name

\* Mutant of Guard: it remembers the page it came from.
GuardFromHere(p) ==
  IF p.name \notin Guarded THEN route' = p
  ELSE IF token = None THEN route' = SignIn(route.name)
  ELSE user # None /\ route' = Page(Admitted(p.name, user))

\* Mutant of Guard: a token is as good as a user.
GuardByToken(p) ==
  IF p.name \notin Guarded THEN route' = p
  ELSE IF token = None THEN route' = SignIn(p.name)
  ELSE route' = Page(IF user = None THEN p.name ELSE Admitted(p.name, user))

\* beforeEach(), where it need not wait.
Guard(p) ==
  IF p.name \notin Guarded THEN route' = p
  ELSE IF token = None THEN route' = SignIn(p.name)
  ELSE user # None /\ route' = Page(Admitted(p.name, user))

Visits == {Page(name) : name \in Landings}
          \cup {[name |-> name, redirect |-> r] : name \in {"login", "register"}, r \in Landings}

\* Links and the back button.
Navigate(p) ==
  /\ route.name # "start"
  /\ Guard(p)
  /\ going' = None
  /\ calls' = Superseded
  /\ UNCHANGED <<accounts, stored, token, user, overtaken>>

\* Where it waits: the stored token is to be verified.
NavigateUnverified(k, name) ==
  /\ route.name # "start"
  /\ name \in Guarded /\ token # None /\ user = None
  /\ FirstFree(k, calls)
  /\ going' = name
  /\ calls' = [Superseded EXCEPT ![k] = Request("me", token)]
  /\ UNCHANGED <<accounts, stored, token, user, route, overtaken>>

\* Mutant of MeAnswered: a failure is thrown at the guard.
MeAnsweredThrown(k) ==
  /\ At(k, "me", "answered")
  /\ LET c == calls[k] IN
     /\ user' = IF c.ok THEN c.as ELSE None
     /\ token' = IF c.ok THEN token ELSE None
     /\ stored' = IF c.ok THEN stored ELSE None
     /\ IF c.awaited /\ c.ok
        THEN going' = None /\ route' = Page(Admitted(going, c.as))
        ELSE UNCHANGED <<going, route>>
     /\ overtaken' = (overtaken \/ c.as # token \/ ~(c.ok \/ c.awaited))
  /\ calls' = [calls EXCEPT ![k] = None]
  /\ UNCHANGED accounts

\* refreshMe(), and what the guard does next if it still waits.  Any failure
\* signs the user out, in the storage too.
MeAnswered(k) ==
  /\ At(k, "me", "answered")
  /\ LET c == calls[k] IN
     /\ user' = IF c.ok THEN c.as ELSE None
     /\ token' = IF c.ok THEN token ELSE None
     /\ stored' = IF c.ok THEN stored ELSE None
     /\ IF c.awaited
        THEN /\ going' = None
             /\ route' = IF c.ok THEN Page(Admitted(going, c.as)) ELSE SignIn(going)
        ELSE UNCHANGED <<going, route>>
     /\ overtaken' = (overtaken \/ c.as # token \/ ~(c.ok \/ c.awaited))
  /\ calls' = [calls EXCEPT ![k] = None]
  /\ UNCHANGED accounts

\* The browser loads the client anew, at page p.  Only the token is left, and the
\* requests the server has.
Reload(p) ==
  LET left == [k \in Slots |-> IF calls[k] = None \/ calls[k].op # "register" THEN None
                               ELSE [calls[k] EXCEPT !.awaited = FALSE]]
  IN /\ token' = stored /\ user' = None
     /\ overtaken' = FALSE
     /\ \/ /\ p.name \notin Guarded \/ stored = None
           /\ route' = IF p.name \in Guarded THEN SignIn(p.name) ELSE p
           /\ going' = None
           /\ calls' = left
        \/ /\ p.name \in Guarded /\ stored # None
           /\ \E k \in Slots : /\ FirstFree(k, left)
                                /\ calls' = [left EXCEPT ![k] = Request("me", stored)]
           /\ going' = p.name
           /\ route' = Page("start")
     /\ UNCHANGED <<accounts, stored>>

\* The client in another tab signs in or out.
OtherTab(u) ==
  /\ stored' = u
  /\ UNCHANGED <<accounts, token, user, route, going, calls, overtaken>>

-----------------------------------------------------------------------------
(* LoginPage, RegisterPage and the shell.                                   *)

\* A submit button that shows it is loading still submits.
Login(k, u) ==
  /\ route.name = "login" /\ FirstFree(k, calls)
  /\ calls' = [calls EXCEPT ![k] = Request("login", u)]
  /\ UNCHANGED <<accounts, stored, token, user, route, going, overtaken>>

Register(k, u) ==
  /\ route.name = "register" /\ FirstFree(k, calls)
  /\ calls' = [calls EXCEPT ![k] = Request("register", u)]
  /\ UNCHANGED <<accounts, stored, token, user, route, going, overtaken>>

\* Straight into the account: the login follows by itself.
RegisterAnswered(k) ==
  /\ At(k, "register", "answered")
  /\ calls' = [calls EXCEPT ![k] = IF @.awaited /\ @.ok THEN Request("login", @.as) ELSE None]
  /\ UNCHANGED <<accounts, stored, token, user, route, going, overtaken>>

\* The page asks the router where to only now: from another page it is /movies.
LoginAnswered(k) ==
  /\ At(k, "login", "answered")
  /\ LET u == calls[k].as IN
     \/ /\ calls[k].ok
        /\ user' = u /\ token' = u /\ stored' = u
        /\ route' = Page(Admitted(route.redirect, u))
        /\ going' = None
        /\ calls' = [Superseded EXCEPT ![k] = None]
     \/ /\ ~calls[k].ok
        /\ calls' = [calls EXCEPT ![k] = None]
        /\ UNCHANGED <<stored, token, user, route, going>>
  /\ UNCHANGED <<accounts, overtaken>>

SignOut ==
  /\ user # None /\ route.name \in Landings
  /\ user' = None /\ token' = None /\ stored' = None
  /\ route' = SignIn("open") /\ going' = None
  /\ calls' = Superseded
  /\ UNCHANGED <<accounts, overtaken>>

-----------------------------------------------------------------------------

Init ==
  /\ accounts = Admins
  /\ stored \in Admins \cup {None} /\ token = stored
  /\ user = None
  /\ route = Page("open")
  /\ going = None
  /\ calls = [k \in Slots |-> None]
  /\ overtaken = FALSE

CustomerActs ==
  \/ \E p \in Visits : Navigate(p) \/ Reload(p)
  \/ SignOut
  \/ \E k \in Slots :
       \/ \E name \in Guarded : NavigateUnverified(k, name)
       \/ \E u \in Users : Login(k, u) \/ Register(k, u)

Proceeds(k) ==
  \/ MeAnswered(k) \/ LoginAnswered(k) \/ RegisterAnswered(k)
  \/ ServeMe(k) \/ ServeLogin(k) \/ RegisterCheck(k) \/ RegisterInsert(k)

Next ==
  \/ CustomerActs
  \/ \E k \in Slots : Proceeds(k)
  \/ \E u \in accounts \cup {None} : OtherTab(u)

\* A request is answered or fails, and its handler goes on.
Fairness == \A k \in Slots : WF_vars(Proceeds(k))

Spec == Init /\ [][Next]_vars /\ Fairness

-----------------------------------------------------------------------------

TypeOK ==
  /\ accounts \subseteq Users
  /\ stored \in Users \cup {None} /\ token \in Users \cup {None}
  /\ user \in Users \cup {None}
  /\ route \in Route
  /\ going \in Guarded \cup {None}
  /\ calls \in [Slots -> Call \cup {None}]
  /\ overtaken \in BOOLEAN

\* Signed-in means signed in: the user in the store is the one whose token is
\* sent with every request, and a guarded page is in view only of a user, the
\* console only of an admin, unless an answer of me() was overtaken by a login,
\* a logout or another navigation (refreshMe, beforeEach, login, logout).
SessionSound ==
  overtaken \/ /\ user # None => token = user /\ user \in accounts
               /\ route.name \in Guarded => user # None
               /\ route.name = "admin" => user \in Admins

\* Of two who register an address at the same time one is told that it is his:
\* who is told so made the account (register, the unique index).
OneOwner ==
  [][\A k \in Slots :
       At(k, "register", "checked") /\ calls'[k] # None /\ calls'[k].ok
       => calls[k].as \notin accounts]_vars

\* A navigation that waits for me() comes to a page, or a client that is being
\* loaded to one, unless the customer keeps on going elsewhere (beforeEach).
NavigationEnds == []<>(going = None) \/ []<><<CustomerActs>>_vars

=============================================================================
