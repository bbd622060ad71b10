------------------------------- MODULE Session -------------------------------
(***************************************************************************)
(* Who a request acts as.                                                  *)
(*                                                                         *)
(* A login reads the user's row and signs its role into a token; from then *)
(* on the token speaks for the user until it expires, whatever becomes of  *)
(* the row.  All tabs of a browser share one stored session, but each      *)
(* shows the one it read when it was loaded or last signed in: requests    *)
(* and route guards go by the stored session, buttons by the one shown.    *)
(* An answer 401 signs nobody out.                                         *)
(*                                                                         *)
(* Users are changed by hand: no route does.  Between the SELECT of a      *)
(* login and the signature the password is hashed to be compared; nothing  *)
(* bounds the time that takes.                                             *)
(***************************************************************************)
EXTENDS Naturals, AccessControl

CONSTANTS
  Users,
  UserRoles,  \* what a users row may hold as role, known to the guards or not
  Tabs,       \* the tabs of one browser
  Calls,      \* requests to a guarded route
  TTL,        \* TokenTTL
  MaxTime,    \* bound of the clock
  None

ASSUME SessionAssumption ==
  /\ Roles \cap UserRoles # {}
  /\ TTL \in Nat \ {0} /\ MaxTime \in Nat
  /\ None \notin Users

VARIABLES
  now,
  users,      \* the users table
  stored,     \* the session in localStorage
  shown,      \* per tab, the session of useAuth
  place,      \* per tab, whether the router shows the login page
  login,      \* per tab, the login under way
  call,       \* the requests
  unheld,     \* history: how long ago each user last held each role and was active,
              \* Never where it has not been so
  discarded   \* history: tokens signed out of or replaced that can be of use

vars == <<now, users, stored, shown, place, login, call, unheld, discarded>>

browser == <<stored, shown, place>>

-----------------------------------------------------------------------------

UserRow == [role : UserRoles, active : BOOLEAN]

\* No login and no lifetime reaches back as far.
Never == TTL + MaxTime

\* "since" is the time of the SELECT.  It is history, as is "took" in a token,
\* the time the login needed from there to the signature.
NoLogin == [st |-> "none", user |-> None, row |-> None, since |-> 0, token |-> None]

NotSent == [st |-> "none", token |-> None]

Holds(row, role) == row = [role |-> role, active |-> TRUE]

\* The tokens that can be of use after a step: not expired by then, and stored
\* or shown in the browser.
Usable(tokens, time) ==
  {token \in tokens \ {None} :
     time < token.exp /\ (token = stored' \/ \E t \in Tabs : token = shown'[t])}

Init ==
  /\ now = 0
  /\ users \in [Users -> [role : UserRoles \cap Roles, active : {TRUE}]]
  /\ stored = None
  /\ shown = [t \in Tabs |-> None]
  /\ place = [t \in Tabs |-> "login"]
  /\ login = [t \in Tabs |-> NoLogin]
  /\ call = [c \in Calls |-> NotSent]
  /\ unheld = [u \in Users |-> [role \in UserRoles |-> IF Holds(users[u], role) THEN 0 ELSE Never]]
  /\ discarded = {}

Tick ==
  /\ now < MaxTime
  /\ now' = now + 1
  /\ unheld' = [u \in Users |-> [role \in UserRoles |->
                  IF Holds(users[u], role) \/ unheld[u][role] = Never THEN unheld[u][role]
                  ELSE unheld[u][role] + 1]]
  /\ UNCHANGED <<users, browser, login, call>>
  /\ discarded' = Usable(discarded, now')

\* Promoted, demoted, deactivated, reactivated.
ChangeUser(u) ==
  /\ \E row \in UserRow \ {users[u]} :
       /\ users' = [users EXCEPT ![u] = row]
       /\ unheld' = [unheld EXCEPT ![u] = [role \in UserRoles |->
                       IF Holds(row, role) THEN 0 ELSE @[role]]]
  /\ UNCHANGED <<now, browser, login, call, discarded>>

-----------------------------------------------------------------------------
(* Login: on the server *)

\* Unknown users and wrong passwords fail like everything else that fails.
ReadUser(t) ==
  /\ login[t].st = "sent"
  /\ users[login[t].user].active
  /\ login' = [login EXCEPT ![t].st = "read", ![t].row = users[login[t].user],
                            ![t].since = now]
  /\ UNCHANGED <<now, users, browser, call, unheld, discarded>>

SignToken(t) ==
  /\ login[t].st = "read"
  /\ login' = [login EXCEPT ![t].st = "answered", ![t].row = None, ![t].since = 0,
                            ![t].token = [user |-> login[t].user, role |-> login[t].row.role,
                                          exp |-> now + TTL, took |-> now - login[t].since]]
  /\ UNCHANGED <<now, users, browser, call, unheld, discarded>>

-----------------------------------------------------------------------------
(* Login, logout, navigation: in a tab *)

SubmitLogin(t) ==
  /\ place[t] = "login" /\ login[t].st = "none"
  /\ \E u \in Users : login' = [login EXCEPT ![t] = [NoLogin EXCEPT !.st = "sent", !.user = u]]
  /\ UNCHANGED <<now, users, browser, call, unheld, discarded>>

\* Where the guard of the router lets a tab go.  A session whose role it does not
\* know gets nowhere.
Guarded(from) ==
  IF stored' = None THEN "login" ELSE IF stored'.role \in Roles THEN "pages" ELSE from

LoginAnswered(t) ==
  /\ login[t].st = "answered"
  /\ stored' = login[t].token
  /\ shown' = [shown EXCEPT ![t] = login[t].token]
  /\ place' = [place EXCEPT ![t] = Guarded(@)]
  /\ discarded' = Usable(discarded \cup {stored}, now) \ {login[t].token}
  /\ login' = [login EXCEPT ![t] = NoLogin]
  /\ UNCHANGED <<now, users, call, unheld>>

\* Refused, inactive, failed on the way.
LoginFails(t) ==
  /\ login[t].st # "none"
  /\ login' = [login EXCEPT ![t] = NoLogin]
  /\ UNCHANGED <<now, users, browser, call, unheld, discarded>>

\* The session that is stored goes, whichever the tab shows.
Logout(t) ==
  /\ shown[t] # None
  /\ stored' = None
  /\ shown' = [shown EXCEPT ![t] = None]
  /\ place' = [place EXCEPT ![t] = "login"]
  /\ discarded' = Usable(discarded \cup {stored}, now)
  /\ UNCHANGED <<now, users, login, call, unheld>>

\* A link inside a tab.
Navigate(t) ==
  /\ UNCHANGED <<now, users, stored, shown, login, call, unheld, discarded>>
  /\ place' = [place EXCEPT ![t] = Guarded(@)]

\* The tab starts over with the stored session; a login's answer is lost.
Reload(t) ==
  /\ UNCHANGED <<now, users, stored, call, unheld>>
  /\ shown' = [shown EXCEPT ![t] = stored]
  /\ discarded' = Usable(discarded, now)
  /\ place' = [place EXCEPT ![t] = Guarded(@)]
  /\ login' = [login EXCEPT ![t] = NoLogin]

-----------------------------------------------------------------------------
(* Requests *)

\* Mutant: the token of the session the tab shows.
GetToken_Shown(t) == IF shown[t] = None THEN stored ELSE shown[t]

GetToken(t) == stored

Send(t, c) ==
  /\ place[t] = "pages" /\ call[c] = NotSent
  /\ call' = [call EXCEPT ![c] = [st |-> "sent", token |-> GetToken(t)]]
  /\ UNCHANGED <<now, users, browser, login, unheld, discarded>>

\* Mutant: the expiry is not looked at.
Valid_NoExpiry(token) == token # None /\ token.role \in Roles

Valid(token) == token # None /\ now < token.exp /\ token.role \in Roles

\* Authenticate: the users table is not asked.
Accept(c) ==
  /\ call[c].st = "sent" /\ Valid(call[c].token)
  /\ call' = [call EXCEPT ![c] = [st |-> "accepted", token |-> None]]
  /\ UNCHANGED <<now, users, browser, login, unheld, discarded>>

\* 401; the page shows an error and the session stays.
Reject(c) ==
  /\ call[c].st = "sent" /\ ~Valid(call[c].token)
  /\ call' = [call EXCEPT ![c] = [st |-> "rejected", token |-> None]]
  /\ UNCHANGED <<now, users, browser, login, unheld, discarded>>

-----------------------------------------------------------------------------

Next ==
  \/ Tick
  \/ \E u \in Users : ChangeUser(u)
  \/ \E t \in Tabs :
       \/ SubmitLogin(t) \/ ReadUser(t) \/ SignToken(t) \/ LoginAnswered(t) \/ LoginFails(t)
       \/ Logout(t) \/ Navigate(t) \/ Reload(t)
       \/ \E c \in Calls : Send(t, c)
  \/ \E c \in Calls : Accept(c) \/ Reject(c)

Spec == Init /\ [][Next]_vars

-----------------------------------------------------------------------------
(* Properties *)

\* A role outlives its withdrawal, by no more than a lifetime and a login: a
\* request is accepted in a role only if its user held it, while active, less
\* than TTL and the duration of the login ago, however the row changed during
\* the login and since, and whatever other sessions there are (Authenticate,
\* Login).
RoleRecentlyHeld ==
  [][\A c \in Calls :
       call[c].st = "sent" /\ call'[c].st = "accepted" =>
         LET token == call[c].token
         IN  unheld[token.user][token.role] < TTL + token.took]_vars

\* Signing out or in again in one tab is enough for all: no tab sends the token
\* given up there any more, though it may still show that session.
DiscardedUnused ==
  [][\A c \in Calls :
       call[c].st = "none" /\ call'[c].st = "sent" => call'[c].token \notin discarded]_vars

=============================================================================
