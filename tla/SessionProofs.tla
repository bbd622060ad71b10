----------------------------- MODULE SessionProofs -----------------------------
(***************************************************************************)
(* Theorems about Session, for any users, roles, tabs and requests, any    *)
(* lifetime of the tokens and any length of the clock.                     *)
(***************************************************************************)
EXTENDS Session, TLAPS

-----------------------------------------------------------------------------
(* The inductive invariant *)

\* What Login signs.
Token == [user : Users, role : UserRoles, exp : Nat, took : Nat]

\* A request to a guarded route.
Request == [st : {"none", "sent", "accepted", "rejected"}, token : Token \cup {None}]

\* A login on its way holds what its place needs.
LoginOK(l) ==
  /\ l \in [st : {"none", "sent", "read", "answered"}, user : Users \cup {None},
            row : UserRow \cup {None}, since : Nat, token : Token \cup {None}]
  /\ l.st \in {"sent", "read"} => l.user \in Users
  /\ l.st = "read" => l.row \in UserRow
  /\ l.st = "answered" => l.token \in Token

\* The types of the variables that tokens come from and go to.
Typed ==
  /\ now \in Nat
  /\ users \in [Users -> UserRow]
  /\ unheld \in [Users -> [UserRoles -> 0 .. Never]]
  /\ DOMAIN login = Tabs /\ \A t \in Tabs : LoginOK(login[t])
  /\ call \in [Calls -> Request]

\* The role of the token was held when its login read the row, TTL and the time
\* the login took before it expires.
Vouched(token, time, lapse) ==
  token # None =>
    /\ token \in Token
    /\ lapse[token.user][token.role] + token.exp <= time + TTL + token.took

\* Every token that may still be sent is vouched for, and the role a login has
\* read was held then.
Tokens ==
  /\ \A u \in Users, role \in UserRoles : Holds(users[u], role) => unheld[u][role] = 0
  /\ \A t \in Tabs :
       /\ login[t].st = "read" =>
            unheld[login[t].user][login[t].row.role] + login[t].since <= now
       /\ login[t].st = "answered" => Vouched(login[t].token, now, unheld)
  /\ Vouched(stored, now, unheld)
  /\ \A c \in Calls : call[c].st = "sent" => Vouched(call[c].token, now, unheld)

\* RoleRecentlyHeld follows from this.
Inv == Typed /\ Tokens

-----------------------------------------------------------------------------
(* Its preservation *)

LEMMA NeverIsNumber == Never \in Nat
  BY SessionAssumption DEF Never

\* Only two actions touch what roles were held.
LEMMA HeldStep ==
  ASSUME [Next]_vars
  PROVE  Tick \/ (\E u \in Users : ChangeUser(u)) \/ UNCHANGED <<now, users, unheld>>
BY ZenonT(60)
DEF Next, vars, SubmitLogin, ReadUser, SignToken, LoginAnswered, LoginFails, Logout,
    Navigate, Reload, Send, Accept, Reject

\* No role lapses faster than the clock goes, and none that is held.
LEMMA Lapses ==
  ASSUME Inv, [Next]_vars
  PROVE  /\ now' \in Nat /\ now <= now'
         /\ users' \in [Users -> UserRow]
         /\ unheld' \in [Users -> [UserRoles -> 0 .. Never]]
         /\ \A u \in Users, role \in UserRoles :
              /\ unheld'[u][role] <= unheld[u][role] + (now' - now)
              /\ Holds(users'[u], role) => unheld'[u][role] = 0
<1>1. /\ Never \in Nat /\ now \in Nat /\ users \in [Users -> UserRow]
      /\ unheld \in [Users -> [UserRoles -> 0 .. Never]]
      /\ \A u \in Users, role \in UserRoles :
           /\ unheld[u][role] \in 0 .. Never
           /\ Holds(users[u], role) => unheld[u][role] = 0
  BY NeverIsNumber DEF Inv, Typed, Tokens
<1>2. CASE Tick
  <2> DEFINE lapse(u, role) == IF Holds(users[u], role) \/ unheld[u][role] = Never
                               THEN unheld[u][role] ELSE unheld[u][role] + 1
  <2>1. /\ now' = now + 1 /\ users' = users
        /\ unheld' = [u \in Users |-> [role \in UserRoles |-> lapse(u, role)]]
    BY <1>2 DEF Tick
  <2>2. ASSUME NEW u \in Users, NEW role \in UserRoles
        PROVE  /\ lapse(u, role) \in 0 .. Never /\ lapse(u, role) <= unheld[u][role] + 1
               /\ Holds(users[u], role) => lapse(u, role) = 0
    <3>1. /\ Never \in Nat /\ unheld[u][role] \in 0 .. Never
          /\ Holds(users[u], role) => unheld[u][role] = 0
      BY <1>1
    <3> QED BY <3>1
  <2> HIDE DEF lapse
  <2> QED BY <1>1, <1>2, <2>1, <2>2
<1>3. ASSUME NEW w \in Users, ChangeUser(w), ~Tick
      PROVE  /\ now' = now /\ users' \in [Users -> UserRow]
             /\ unheld' \in [Users -> [UserRoles -> 0 .. Never]]
             /\ \A u \in Users, role \in UserRoles :
                  /\ unheld'[u][role] \in {0, unheld[u][role]}
                  /\ Holds(users'[u], role) => unheld'[u][role] = 0
  <2>1. PICK row \in UserRow :
          /\ users' = [users EXCEPT ![w] = row]
          /\ unheld' = [unheld EXCEPT ![w] = [role \in UserRoles |->
                          IF Holds(row, role) THEN 0 ELSE @[role]]]
    BY <1>3 DEF ChangeUser
  <2> QED BY <1>1, <1>3, <2>1 DEF ChangeUser
<1>4. CASE ~Tick /\ UNCHANGED <<now, users, unheld>>
  BY <1>1, <1>4
<1> QED BY <1>1, <1>2, <1>3, <1>4, HeldStep

\* What vouches for a token goes on to.
LEMMA VouchedKept ==
  ASSUME Inv, [Next]_vars, NEW token, Vouched(token, now, unheld)
  PROVE  Vouched(token, now', unheld')
<1> SUFFICES ASSUME token # None
             PROVE  unheld'[token.user][token.role] + token.exp <= now' + TTL + token.took
  BY DEF Vouched
<1>1. /\ token.user \in Users /\ token.role \in UserRoles
      /\ token.exp \in Nat /\ token.took \in Nat
      /\ unheld[token.user][token.role] + token.exp <= now + TTL + token.took
  BY DEF Vouched, Token
<1>2. unheld[token.user][token.role] \in Nat /\ now \in Nat /\ TTL \in Nat
  BY <1>1, SessionAssumption, NeverIsNumber DEF Inv, Typed
<1>3. /\ unheld'[token.user][token.role] \in Nat /\ now' \in Nat
      /\ unheld'[token.user][token.role] <= unheld[token.user][token.role] + (now' - now)
  BY <1>1, Lapses, NeverIsNumber
<1> QED BY <1>1, <1>2, <1>3

\* A login of a tab, with what it may rely on.
Backed(l, time, lapse) ==
  /\ LoginOK(l)
  /\ l.st = "read" => lapse[l.user][l.row.role] + l.since <= time
  /\ l.st = "answered" => Vouched(l.token, time, lapse)

\* A login that stays as it is stays backed.
LEMMA BackedKept ==
  ASSUME Inv, [Next]_vars, NEW t \in Tabs, login'[t] = login[t]
  PROVE  Backed(login'[t], now', unheld')
<1>1. Backed(login[t], now, unheld)
  BY DEF Inv, Typed, Tokens, Backed
<1>2. ASSUME login[t].st = "read"
      PROVE  unheld'[login[t].user][login[t].row.role] + login[t].since <= now'
  <2> DEFINE u == login[t].user
             role == login[t].row.role
  <2>1. /\ u \in Users /\ role \in UserRoles /\ login[t].since \in Nat
        /\ unheld[u][role] + login[t].since <= now
    BY <1>1, <1>2 DEF Backed, LoginOK, UserRow
  <2>2. unheld[u][role] \in Nat /\ now \in Nat
    BY <2>1, NeverIsNumber DEF Inv, Typed
  <2>3. /\ unheld'[u][role] \in Nat /\ now' \in Nat
        /\ unheld'[u][role] <= unheld[u][role] + (now' - now)
    BY <2>1, Lapses, NeverIsNumber
  <2> HIDE DEF u, role
  <2> QED BY <2>1, <2>2, <2>3 DEF u, role
<1> QED BY <1>1, <1>2, VouchedKept DEF Backed

\* Every step of a login leaves it backed: what it read was held then, and the
\* token says how long ago that was when it was signed.
LEMMA LoginsStep ==
  ASSUME Inv, [Next]_vars
  PROVE  DOMAIN login' = Tabs /\ \A t \in Tabs : Backed(login'[t], now', unheld')
<1>1. DOMAIN login = Tabs /\ \A t \in Tabs : Backed(login[t], now, unheld)
  BY DEF Inv, Typed, Tokens, Backed
<1>2. CASE login' = login
  BY <1>1, <1>2, BackedKept
<1>3. CASE login' # login
  <2>1. PICK t \in Tabs : \/ SubmitLogin(t) \/ ReadUser(t) \/ SignToken(t)
                          \/ LoginAnswered(t) \/ LoginFails(t) \/ Reload(t)
    BY <1>3 DEF Next, vars, Tick, ChangeUser, Logout, Navigate, Send, Accept, Reject
  <2>2. DOMAIN login' = Tabs /\ \A q \in Tabs \ {t} : login'[q] = login[q]
    BY <1>1, <2>1 DEF SubmitLogin, ReadUser, SignToken, LoginAnswered, LoginFails, Reload
  <2>3. Backed(NoLogin, now', unheld')
    BY DEF Backed, LoginOK, NoLogin
  <2>4. ASSUME SubmitLogin(t) PROVE Backed(login'[t], now', unheld')
    <3>1. PICK u \in Users : login'[t] = [NoLogin EXCEPT !.st = "sent", !.user = u]
      BY <1>1, <2>4 DEF SubmitLogin
    <3>2. login'[t] = [st |-> "sent", user |-> u, row |-> None, since |-> 0,
                       token |-> None]
      BY <3>1 DEF NoLogin
    <3> QED BY <3>2 DEF Backed, LoginOK
  <2>5. ASSUME ReadUser(t) PROVE Backed(login'[t], now', unheld')
    <3> DEFINE u == login[t].user
    <3>1. /\ u \in Users /\ users[u].active /\ UNCHANGED <<now, unheld>>
          /\ login'[t] = [login[t] EXCEPT !.st = "read", !.row = users[u], !.since = now]
          /\ LoginOK(login[t])
      BY <1>1, <2>5 DEF ReadUser, Backed, LoginOK
    <3>2. users[u] \in UserRow /\ Holds(users[u], users[u].role)
      BY <3>1 DEF Inv, Typed, UserRow, Holds
    <3>3. unheld[u][users[u].role] = 0 /\ now \in Nat
      BY <3>1, <3>2 DEF Inv, Typed, Tokens, UserRow
    <3>4. /\ LoginOK(login'[t])
          /\ login'[t].st = "read" /\ login'[t].user = u /\ login'[t].row = users[u]
          /\ login'[t].since = now
      BY ZenonT(60), <3>1, <3>2, <3>3 DEF LoginOK
    <3> QED BY <3>1, <3>2, <3>3, <3>4 DEF Backed
  <2>6. ASSUME SignToken(t) PROVE Backed(login'[t], now', unheld')
    <3> DEFINE token == [user |-> login[t].user, role |-> login[t].row.role,
                         exp |-> now + TTL, took |-> now - login[t].since]
    <3>1. /\ login[t].user \in Users /\ login[t].row.role \in UserRoles
          /\ login[t].since \in Nat
          /\ unheld[login[t].user][login[t].row.role] + login[t].since <= now
          /\ login'[t] = [st |-> "answered", user |-> login[t].user, row |-> None,
                          since |-> 0, token |-> token]
          /\ UNCHANGED <<now, unheld>>
      BY ZenonT(60), <1>1, <2>6 DEF SignToken, Backed, LoginOK, UserRow
    <3>2. /\ now \in Nat /\ TTL \in Nat
          /\ unheld[login[t].user][login[t].row.role] \in Nat
      BY <3>1, SessionAssumption, NeverIsNumber DEF Inv, Typed
    <3>3. /\ token \in Token
          /\ unheld[token.user][token.role] + token.exp <= now + TTL + token.took
      BY <3>1, <3>2 DEF Token
    <3>4. token \in Token /\ Vouched(token, now, unheld)
      BY <3>2, <3>3 DEF Vouched, Token
    <3> HIDE DEF token
    <3> QED BY <3>1, <3>4 DEF Backed, LoginOK
  <2>7. ASSUME LoginAnswered(t) \/ LoginFails(t) \/ Reload(t) PROVE login'[t] = NoLogin
    BY <1>1, <2>7 DEF LoginAnswered, LoginFails, Reload
  <2> QED BY <1>1, <2>1, <2>2, <2>3, <2>4, <2>5, <2>6, <2>7, BackedKept
<1> QED BY <1>2, <1>3

\* The session that is stored comes from the answer to a login.
LEMMA StoredStep ==
  ASSUME Inv, [Next]_vars
  PROVE  Vouched(stored', now', unheld')
<1>1. CASE stored' = stored
  BY <1>1, VouchedKept DEF Inv, Tokens
<1>2. CASE stored' # stored
  <2>1. \/ stored' = None
        \/ \E t \in Tabs : login[t].st = "answered" /\ stored' = login[t].token
    BY <1>2 DEF Next, vars, Tick, ChangeUser, SubmitLogin, ReadUser, SignToken, LoginAnswered,
                LoginFails, Logout, Navigate, Reload, Send, Accept, Reject, browser
  <2>2. ASSUME NEW t \in Tabs, login[t].st = "answered"
        PROVE  Vouched(login[t].token, now, unheld)
    BY <2>2 DEF Inv, Tokens
  <2> QED BY <2>1, <2>2, VouchedKept DEF Vouched
<1> QED BY <1>1, <1>2

\* A request carries the session that was stored when it was sent.
LEMMA CallsStep ==
  ASSUME Inv, [Next]_vars
  PROVE  /\ call' \in [Calls -> Request]
         /\ \A c \in Calls : call'[c].st = "sent" => Vouched(call'[c].token, now', unheld')
<1>1. /\ call \in [Calls -> Request] /\ Vouched(stored, now, unheld)
      /\ \A c \in Calls : call[c].st = "sent" => Vouched(call[c].token, now, unheld)
  BY DEF Inv, Typed, Tokens
<1>2. CASE call' = call
  BY <1>1, <1>2, VouchedKept
<1>3. CASE call' # call
  <2>1. PICK c \in Calls : (\E t \in Tabs : Send(t, c)) \/ Accept(c) \/ Reject(c)
    BY <1>3 DEF Next, vars, Tick, ChangeUser, SubmitLogin, ReadUser, SignToken, LoginAnswered,
                LoginFails, Logout, Navigate, Reload
  <2>2. CASE \E t \in Tabs : Send(t, c)
    <3> DEFINE sent == [st |-> "sent", token |-> stored]
    <3>1. call' = [call EXCEPT ![c] = sent]
      BY <2>2 DEF Send, GetToken
    <3>2. sent \in Request
      BY <1>1 DEF Request, Vouched
    <3>3. sent.token = stored
      OBVIOUS
    <3> HIDE DEF sent
    <3> QED BY <1>1, <3>1, <3>2, <3>3, VouchedKept
  <2>3. CASE Accept(c) \/ Reject(c)
    <3>1. PICK st \in {"accepted", "rejected"} :
            call' = [call EXCEPT ![c] = [st |-> st, token |-> None]]
      BY <2>3 DEF Accept, Reject
    <3> DEFINE over == [st |-> st, token |-> None]
    <3>2. over \in Request /\ over.st # "sent"
      BY <1>1 DEF Request
    <3>3. call' = [call EXCEPT ![c] = over]
      BY <3>1
    <3> HIDE DEF over
    <3> QED BY <1>1, <3>2, <3>3, VouchedKept
  <2> QED BY <2>1, <2>2, <2>3
<1> QED BY <1>2, <1>3

\* The invariant holds initially: no session is stored, and roles not held when
\* the clock starts count as long withdrawn.
LEMMA InitInv == Init => Inv
<1> SUFFICES ASSUME Init PROVE Inv
  OBVIOUS
<1>1. Never \in Nat /\ users \in [Users -> UserRow]
  BY NeverIsNumber DEF Init, UserRow
<1>2. /\ unheld \in [Users -> [UserRoles -> 0 .. Never]]
      /\ \A u \in Users, role \in UserRoles : Holds(users[u], role) => unheld[u][role] = 0
  BY <1>1 DEF Init
<1>3. /\ NoLogin.st = "none" /\ NotSent.st = "none"
      /\ NotSent \in Request /\ LoginOK(NoLogin)
  BY DEF NoLogin, NotSent, Request, LoginOK
<1>4. Typed
  BY <1>1, <1>2, <1>3 DEF Init, Typed
<1>5. Tokens
  BY <1>2, <1>3 DEF Init, Tokens, Vouched
<1> QED BY <1>4, <1>5 DEF Inv

\* It is inductive.
LEMMA NextInv == Inv /\ [Next]_vars => Inv'
<1> SUFFICES ASSUME Inv, [Next]_vars PROVE Inv'
  OBVIOUS
<1>1. Typed'
  BY Lapses, LoginsStep, CallsStep DEF Typed, Backed
<1>2. Tokens'
  BY Lapses, LoginsStep, StoredStep, CallsStep DEF Tokens, Backed
<1> QED BY <1>1, <1>2 DEF Inv

\* It always holds.
LEMMA Always == Spec => []Inv
  BY InitInv, NextInv, PTL DEF Spec

-----------------------------------------------------------------------------
(* Who a request acts as *)

\* A request is accepted only in a role that its user held, while active, less
\* than TTL and the duration of the login ago: whatever the row became between
\* the read and the signature, however long that took, and however many sessions
\* of however many tabs replace one another.
THEOREM RoleHeld == Spec => RoleRecentlyHeld
<1>1. ASSUME Inv, [Next]_vars, NEW c \in Calls, call[c].st = "sent", call'[c].st = "accepted"
      PROVE  unheld[call[c].token.user][call[c].token.role] < TTL + call[c].token.took
  <2> DEFINE token == call[c].token
  <2>1. call \in [Calls -> Request]
    BY <1>1 DEF Inv, Typed
  <2>2. PICK b \in Calls : (\E t \in Tabs : Send(t, b)) \/ Accept(b) \/ Reject(b)
    BY <1>1 DEF Next, vars, Tick, ChangeUser, SubmitLogin, ReadUser, SignToken, LoginAnswered,
                LoginFails, Logout, Navigate, Reload
  <2>3. Valid(token)
    <3>1. b = c
      BY <1>1, <2>1, <2>2 DEF Send, Accept, Reject
    <3>2. Accept(c) \/ Reject(c)
      BY <1>1, <2>2, <3>1 DEF Send, NotSent
    <3>3. ~Reject(c)
      BY <1>1, <2>1 DEF Reject, Request
    <3> QED BY <3>2, <3>3 DEF Accept
  <2>4. Vouched(token, now, unheld) /\ now \in Nat /\ TTL \in Nat
    BY <1>1, SessionAssumption DEF Inv, Typed, Tokens
  <2>5. /\ token \in Token /\ now < token.exp
        /\ unheld[token.user][token.role] + token.exp <= now + TTL + token.took
    BY <2>3, <2>4 DEF Valid, Vouched
  <2>6. token.exp \in Nat /\ token.took \in Nat /\ unheld[token.user][token.role] \in Nat
    BY <1>1, <2>4, <2>5, NeverIsNumber DEF Inv, Typed, Token
  <2> QED BY <2>4, <2>5, <2>6
<1>2. Inv /\ [Next]_vars =>
        [\A c \in Calls : call[c].st = "sent" /\ call'[c].st = "accepted" =>
           LET token == call[c].token
           IN  unheld[token.user][token.role] < TTL + token.took]_vars
  BY <1>1
<1> QED BY <1>2, Always, PTL DEF Spec, RoleRecentlyHeld

\* The stored session is none of those given up.
Fresh == None \notin discarded /\ stored \notin discarded

\* Every step keeps it so: what is given up is no longer stored.
LEMMA FreshStep ==
  ASSUME Fresh, [Next]_vars
  PROVE  Fresh'
<1>1. CASE UNCHANGED <<stored, discarded>>
  BY <1>1 DEF Fresh
<1>2. CASE Tick
  BY <1>2 DEF Tick, Fresh, Usable, browser
<1>3. ASSUME NEW t \in Tabs, LoginAnswered(t) PROVE Fresh'
  BY <1>3 DEF LoginAnswered, Fresh, Usable
<1>4. ASSUME NEW t \in Tabs, Logout(t) PROVE Fresh'
  BY <1>4 DEF Logout, Fresh, Usable
<1>5. ASSUME NEW t \in Tabs, Reload(t) PROVE Fresh'
  BY <1>5 DEF Reload, Fresh, Usable
<1> QED BY <1>1, <1>2, <1>3, <1>4, <1>5
     DEF Next, vars, ChangeUser, SubmitLogin, ReadUser, SignToken, LoginFails, Navigate,
         Send, Accept, Reject, browser

\* After a logout or another login in one tab, no tab of the browser sends the
\* token given up, whatever session it still shows.
THEOREM GivenUpUnused == Spec => DiscardedUnused
<1>1. Init => Fresh
  BY DEF Init, Fresh
<1>2. Fresh /\ [Next]_vars => Fresh'
  BY FreshStep
<1>3. ASSUME Inv, Fresh, [Next]_vars, NEW c \in Calls, call[c].st = "none", call'[c].st = "sent"
      PROVE  call'[c].token \notin discarded
  <2>1. PICK b \in Calls : (\E t \in Tabs : Send(t, b)) \/ Accept(b) \/ Reject(b)
    BY <1>3 DEF Next, vars, Tick, ChangeUser, SubmitLogin, ReadUser, SignToken, LoginAnswered,
                LoginFails, Logout, Navigate, Reload
  <2>2. call \in [Calls -> Request]
    BY <1>3 DEF Inv, Typed
  <2>3. b = c
    BY <1>3, <2>1, <2>2 DEF Send, Accept, Reject
  <2>4. ~Accept(c) /\ ~Reject(c)
    BY <1>3 DEF Accept, Reject
  <2> QED BY <1>3, <2>1, <2>2, <2>3, <2>4 DEF Send, GetToken, Fresh
<1>4. Inv /\ Fresh /\ [Next]_vars =>
        [\A c \in Calls : call[c].st = "none" /\ call'[c].st = "sent" =>
           call'[c].token \notin discarded]_vars
  BY <1>3
<1> QED BY <1>1, <1>2, <1>4, Always, PTL DEF Spec, DiscardedUnused

=============================================================================
