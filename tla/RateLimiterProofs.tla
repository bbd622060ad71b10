--------------------------- MODULE RateLimiterProofs ---------------------------
(***************************************************************************)
(* Theorems about RateLimiter, for any requests, servers, clients, limits  *)
(* and minutes.                                                            *)
(***************************************************************************)
EXTENDS RateLimiter, FiniteSetTheorems, TLAPS

-----------------------------------------------------------------------------
(* Type correctness *)

\* What the constants are.
LEMMA Numbers ==
  /\ Limit \in Nat /\ Limit >= 1 /\ CleanupAt \in Nat /\ CleanupAt >= 1
  /\ MaxRetries \in Nat /\ MaxMinute \in Nat /\ 0 \in Minutes
  /\ RedisEnabled \in BOOLEAN /\ None \notin Servers /\ None \notin Keys
  /\ Minutes \subseteq Nat
  BY LimiterAssumption DEF Minutes

\* A verdict d on call fills the fields it is about and leaves the others.
Verdict(d, call, by, window, number) ==
  /\ d \in Request /\ Answered(d)
  /\ d.by = by /\ d.window = window /\ d.number = number
  /\ d.key = call.key /\ d.server = call.server /\ d.tries = call.tries
  /\ d.pc = "admitted" <=> number <= Limit

\* So do those of the middleware.
LEMMA DecidedIs ==
  \A call \in Request, by \in {"redis", "local"}, window \in Minutes, number \in Nat :
    Verdict(Decided(call, by, window, number), call, by, window, number)
<1> TAKE call \in Request, by \in {"redis", "local"}, window \in Minutes, number \in Nat
<1> DEFINE d == Decided(call, by, window, number)
<1>1. PICK pc \in {"admitted", "rejected"} :
        /\ d = [call EXCEPT !.pc = pc, !.by = by, !.window = window, !.number = number]
        /\ pc = "admitted" <=> ~(number > Limit)
  BY DEF Decided
<1> HIDE DEF d
<1>2. d \in Request
  BY <1>1 DEF Request
<1>3. /\ d.pc = pc /\ d.by = by /\ d.window = window /\ d.number = number
      /\ d.key = call.key /\ d.server = call.server /\ d.tries = call.tries
  BY <1>1 DEF Request
<1>4. Verdict(d, call, by, window, number)
  BY <1>1, <1>2, <1>3, Numbers DEF Answered, Verdict
<1> QED BY <1>4 DEF d

\* A blank request.
LEMMA IdleIs ==
  Idle \in Request /\ Idle.tries = 0 /\ Idle.by = "none" /\ Idle.number = 0
  BY Numbers DEF Idle, Request

\* A request that arrives has a running server and its clock.
LEMMA ArriveIs ==
  ASSUME TypeOK, NEW r \in Requests, Arrive(r)
  PROVE  \E c \in Request :
           /\ req' = [req EXCEPT ![r] = c]
           /\ c.pc = IF RedisEnabled THEN "redis" ELSE "local"
           /\ c.server \in up /\ c.key \in Keys /\ c.window = now
           /\ c.tries = 0 /\ c.by = "none" /\ c.number = 0
<1> DEFINE pc == IF RedisEnabled THEN "redis" ELSE "local"
<1>1. PICK s \in up, k \in Keys :
        req' = [req EXCEPT ![r] =
                  [Idle EXCEPT !.pc = pc, !.server = s, !.key = k, !.window = now]]
  BY DEF Arrive
<1>2. PICK c : c = [Idle EXCEPT !.pc = pc, !.server = s, !.key = k, !.window = now]
  OBVIOUS
<1>3. pc \in {"redis", "local"} /\ s \in Servers /\ now \in Minutes
  BY DEF TypeOK
<1> HIDE DEF pc
<1>4. /\ c \in Request
      /\ c.pc = pc /\ c.server = s /\ c.key = k /\ c.window = now
      /\ c.tries = 0 /\ c.by = "none" /\ c.number = 0
  BY <1>2, <1>3, IdleIs DEF Request
<1> QED BY <1>1, <1>2, <1>4 DEF pc

\* A request that is resent, gives up on Redis or loses its server keeps all
\* but that.
LEMMA RetryIs ==
  ASSUME NEW call \in Request, NEW d,
         \/ call.tries < MaxRetries /\ d = [call EXCEPT !.tries = @ + 1]
         \/ d = [call EXCEPT !.pc = "local"]
         \/ d = [call EXCEPT !.pc = "gone"]
  PROVE  /\ d \in Request
         /\ d.server = call.server /\ d.key = call.key /\ d.window = call.window
         /\ d.by = call.by /\ d.number = call.number /\ d.tries >= call.tries
<1>1. CASE call.tries < MaxRetries /\ d = [call EXCEPT !.tries = @ + 1]
  <2>1. call.tries + 1 \in 0 .. MaxRetries /\ call.tries + 1 >= call.tries
    BY <1>1, Numbers DEF Request
  <2> QED BY <1>1, <2>1 DEF Request
<1>2. CASE d = [call EXCEPT !.pc = "local"] \/ d = [call EXCEPT !.pc = "gone"]
  <2>1. call.tries \in Nat
    BY Numbers DEF Request
  <2> QED BY <1>2, <2>1 DEF Request
<1> QED BY <1>1, <1>2

\* The counter of a request after it has been incremented.
LEMMA CountIs ==
  ASSUME TypeOK, NEW call \in Request, call.key \in Keys, Count(call)
  PROVE  /\ redis' \in [Minutes -> [Keys -> [count : Nat, expires : Nat]]]
         /\ \A m \in Minutes, k \in Keys :
              redis'[m][k] = IF m = call.window /\ k = call.key
                             THEN [count |-> redis[m][k].count + 1, expires |-> now + 2]
                             ELSE redis[m][k]
<1>1. call.window \in Minutes /\ now \in Nat
  BY Numbers DEF Request, TypeOK
<1>2. redis[call.window][call.key] \in [count : Nat, expires : Nat]
  BY <1>1 DEF TypeOK
<1>3. PICK z \in [count : Nat, expires : Nat] :
        /\ redis' = [redis EXCEPT ![call.window][call.key] = z]
        /\ z = [count |-> redis[call.window][call.key].count + 1, expires |-> now + 2]
  <2> DEFINE z == [count |-> redis[call.window][call.key].count + 1, expires |-> now + 2]
  <2>1. z \in [count : Nat, expires : Nat]
    BY <1>1, <1>2
  <2>2. redis' = [redis EXCEPT ![call.window][call.key] = z]
    BY DEF Count, TimeToLive
  <2> QED BY <2>1, <2>2
<1> QED BY <1>1, <1>3 DEF TypeOK

\* Dropping buckets leaves typed buckets, those of the current minute all.
LEMMA CleanedIs ==
  ASSUME TypeOK, NEW s \in Servers
  PROVE  /\ Cleaned(s) \in [Keys -> [window : 0 .. now, count : Nat]]
         /\ \A k \in Keys :
              \/ Cleaned(s)[k] = local[s][k]
              \/ local[s][k].window < now /\ Cleaned(s)[k] = NoBucket
         /\ Cardinality(Tracked(s)) < CleanupAt => Cleaned(s) = local[s]
         /\ ~(Cardinality(Tracked(s)) < CleanupAt) =>
              \A k \in Keys : Cleaned(s)[k] = NoBucket \/ Cleaned(s)[k].window = now
<1>1. local[s] \in [Keys -> [window : 0 .. now, count : Nat]] /\ now \in Nat
  BY Numbers DEF TypeOK
<1>2. NoBucket \in [window : 0 .. now, count : Nat]
  BY <1>1 DEF NoBucket
<1>3. CASE Cardinality(Tracked(s)) < CleanupAt
  BY <1>1, <1>3 DEF Cleaned
<1>4. CASE ~(Cardinality(Tracked(s)) < CleanupAt)
  <2>1. Cleaned(s) =
          [k \in Keys |-> IF local[s][k].window < now THEN NoBucket ELSE local[s][k]]
    BY <1>4 DEF Cleaned
  <2>2. \A k \in Keys :
          /\ local[s][k].window \in 0 .. now
          /\ local[s][k].window < now => Cleaned(s)[k] = NoBucket
          /\ ~(local[s][k].window < now) => Cleaned(s)[k] = local[s][k]
    BY <1>1, <2>1
  <2>3. \A k \in Keys : local[s][k].window < now \/ local[s][k].window = now
    BY SMTT(60), <1>1, <2>2
  <2>4. Cleaned(s) \in [Keys -> [window : 0 .. now, count : Nat]]
    BY <1>1, <1>2, <2>1
  <2> QED BY <1>4, <2>2, <2>3, <2>4
<1> QED BY <1>3, <1>4

\* A local count: the bucket of the client is of this minute and has the next
\* number, the others are kept or were of past minutes.
LEMMA LocalIs ==
  ASSUME TypeOK, NEW r \in Requests, IncrementLocal(r)
  PROVE  LET s == req[r].server
             k == req[r].key
             number == local'[s][k].count
         IN  /\ s \in up /\ k \in Keys
             /\ local' \in [Servers -> [Keys -> [window : 0 .. now, count : Nat]]]
             /\ local'[s][k].window = now
             /\ number = IF local[s][k].window = now THEN local[s][k].count + 1 ELSE 1
             /\ \A q \in Servers, j \in Keys : q # s => local'[q][j] = local[q][j]
             /\ \A j \in Keys \ {k} : local'[s][j] = Cleaned(s)[j]
             /\ req' = [req EXCEPT ![r] = Decided(req[r], "local", now, number)]
<1> DEFINE s == req[r].server
           k == req[r].key
           kept == Cleaned(s)
           bucket == Incremented(kept[k])
<1>1. s \in up /\ s \in Servers /\ k \in Keys /\ now \in Nat
  BY Numbers DEF TypeOK, IncrementLocal
<1>2. kept \in [Keys -> [window : 0 .. now, count : Nat]]
  BY <1>1, CleanedIs
<1>3. kept[k] = local[s][k] \/ (local[s][k].window < now /\ kept[k] = NoBucket)
  BY <1>1, CleanedIs
<1>4. kept[k] \in [window : 0 .. now, count : Nat]
  BY <1>1, <1>2
<1>5. /\ bucket \in [window : 0 .. now, count : Nat]
      /\ bucket.window = now
      /\ bucket.count = IF kept[k].window = now THEN kept[k].count + 1 ELSE 1
  BY <1>1, <1>4 DEF Incremented
<1>6. bucket.count = IF local[s][k].window = now THEN local[s][k].count + 1 ELSE 1
  <2>1. local[s][k] \in [window : 0 .. now, count : Nat]
    BY <1>1 DEF TypeOK
  <2> QED BY <1>1, <1>3, <1>5, <2>1 DEF NoBucket
<1>7. /\ local' = [local EXCEPT ![s] = [kept EXCEPT ![k] = bucket]]
      /\ req' = [req EXCEPT ![r] = Decided(req[r], "local", bucket.window, bucket.count)]
  BY DEF IncrementLocal
<1> HIDE DEF kept, bucket
<1>8. local'[s][k] = bucket /\ \A j \in Keys \ {k} : local'[s][j] = kept[j]
  BY <1>1, <1>2, <1>7 DEF TypeOK
<1>9. local' \in [Servers -> [Keys -> [window : 0 .. now, count : Nat]]]
  BY <1>1, <1>2, <1>5, <1>7 DEF TypeOK
<1>10. \A q \in Servers, j \in Keys : q # s => local'[q][j] = local[q][j]
  BY <1>1, <1>7 DEF TypeOK
<1>11. req' = [req EXCEPT ![r] = Decided(req[r], "local", now, local'[s][k].count)]
  BY <1>5, <1>7, <1>8
<1> QED BY <1>1, <1>5, <1>6, <1>8, <1>9, <1>10, <1>11 DEF kept

\* Every variable keeps its type.
LEMMA TypeStep == TypeOK /\ [Next]_vars => TypeOK'
<1> SUFFICES ASSUME TypeOK, [Next]_vars PROVE TypeOK'
  OBVIOUS
<1> DEFINE CallOK(c) == /\ c \in Request
                        /\ c.window <= now
                        /\ c.pc \in {"redis", "local"} => c.server \in up /\ c.key \in Keys
<1>1. /\ now \in Minutes /\ now \in Nat /\ up \subseteq Servers
      /\ redis \in [Minutes -> [Keys -> [count : Nat, expires : Nat]]]
      /\ local \in [Servers -> [Keys -> [window : 0 .. now, count : Nat]]]
      /\ req \in [Requests -> Request]
      /\ \A r \in Requests : CallOK(req[r])
  BY Numbers DEF TypeOK
<1>2. ASSUME NEW r \in Requests, NEW c, CallOK(c), req' = [req EXCEPT ![r] = c],
             now' = now, up' = up,
             redis' \in [Minutes -> [Keys -> [count : Nat, expires : Nat]]],
             local' \in [Servers -> [Keys -> [window : 0 .. now, count : Nat]]]
      PROVE  TypeOK'
  <2>1. req' \in [Requests -> Request]
    BY <1>1, <1>2
  <2>2. \A q \in Requests : req'[q] = c \/ req'[q] = req[q]
    BY <1>1, <1>2
  <2>3. \A q \in Requests : CallOK(req'[q])
    BY <1>1, <1>2, <2>2
  <2> QED BY <1>1, <1>2, <2>1, <2>3 DEF TypeOK
<1>3. ASSUME NEW r \in Requests, Arrive(r)
      PROVE  TypeOK'
  <2>1. PICK c \in Request : /\ req' = [req EXCEPT ![r] = c]
                             /\ c.server \in up /\ c.key \in Keys /\ c.window = now
    BY <1>3, ArriveIs
  <2>2. CallOK(c)
    BY <1>1, <2>1
  <2> HIDE DEF CallOK
  <2> QED BY <1>1, <1>2, <1>3, <2>1, <2>2 DEF Arrive
<1>4. ASSUME NEW r \in Requests, Increment(r)
      PROVE  TypeOK'
  <2>1. req[r].key \in Keys /\ req[r].window \in Minutes /\ req[r].pc = "redis"
    BY <1>1, <1>4 DEF Increment, Request
  <2>2. PICK number \in Nat : number = redis[req[r].window][req[r].key].count + 1
    <3>1. redis[req[r].window] \in [Keys -> [count : Nat, expires : Nat]]
      BY <1>1, <2>1
    <3>2. redis[req[r].window][req[r].key] \in [count : Nat, expires : Nat]
      BY <2>1, <3>1
    <3> QED BY <3>2
  <2>3. PICK c : c = Decided(req[r], "redis", req[r].window, number)
    OBVIOUS
  <2>4. /\ c \in Request /\ c.window = req[r].window /\ c.server = req[r].server
        /\ c.key = req[r].key
    <3>1. Verdict(c, req[r], "redis", req[r].window, number)
      BY <1>1, <2>1, <2>2, <2>3, DecidedIs
    <3> QED BY <3>1 DEF Verdict
  <2>5. CallOK(c)
    BY <1>1, <2>1, <2>4
  <2>6. req' = [req EXCEPT ![r] = c] /\ Count(req[r])
    BY <1>4, <2>2, <2>3 DEF Increment
  <2>7. redis' \in [Minutes -> [Keys -> [count : Nat, expires : Nat]]]
    BY <1>1, <2>1, <2>6, CountIs
  <2> HIDE DEF CallOK
  <2> QED BY <1>1, <1>2, <1>4, <2>5, <2>6, <2>7 DEF Increment
<1>5. ASSUME NEW r \in Requests, Resend(r) \/ IncrementFails(r)
      PROVE  TypeOK'
  <2>1. PICK c : /\ req' = [req EXCEPT ![r] = c]
                 /\ \/ req[r].tries < MaxRetries /\ c = [req[r] EXCEPT !.tries = @ + 1]
                    \/ c = [req[r] EXCEPT !.pc = "local"]
    BY <1>5 DEF Resend, IncrementFails
  <2>2. req[r].pc = "redis"
    BY <1>5 DEF Resend, IncrementFails
  <2>3. /\ c \in Request /\ c.window = req[r].window /\ c.server = req[r].server
        /\ c.key = req[r].key
    BY <1>1, <2>1, RetryIs
  <2>4. CallOK(c)
    BY <1>1, <2>2, <2>3
  <2>5. redis' \in [Minutes -> [Keys -> [count : Nat, expires : Nat]]]
    BY SMTT(60), <1>1, <1>5, <2>2, CountIs DEF Resend, IncrementFails
  <2> HIDE DEF CallOK
  <2> QED BY <1>1, <1>2, <1>5, <2>1, <2>4, <2>5 DEF Resend, IncrementFails
<1>6. ASSUME NEW r \in Requests, IncrementLocal(r)
      PROVE  TypeOK'
  <2>1. PICK number : number = local'[req[r].server][req[r].key].count
    OBVIOUS
  <2>2. /\ req[r].server \in up /\ req[r].key \in Keys
        /\ local' \in [Servers -> [Keys -> [window : 0 .. now, count : Nat]]]
        /\ req' = [req EXCEPT ![r] = Decided(req[r], "local", now, number)]
    BY <1>6, <2>1, LocalIs
  <2>3. number \in Nat
    BY <1>1, <2>1, <2>2
  <2>4. PICK c : c = Decided(req[r], "local", now, number)
    OBVIOUS
  <2>5. /\ c \in Request /\ c.window = now /\ c.server = req[r].server
        /\ c.key = req[r].key
    <3>1. Verdict(c, req[r], "local", now, number)
      BY <1>1, <2>3, <2>4, DecidedIs
    <3> QED BY <3>1 DEF Verdict
  <2>6. CallOK(c)
    BY <1>1, <2>2, <2>5
  <2> HIDE DEF CallOK
  <2> QED BY <1>1, <1>2, <1>6, <2>2, <2>4, <2>6 DEF IncrementLocal
<1>7. CASE Tick
  <2>1. now' \in Minutes /\ now' = now + 1
    BY <1>1, <1>7, Numbers DEF Tick, Minutes
  <2>2. local' \in [Servers -> [Keys -> [window : 0 .. now', count : Nat]]]
    BY <1>1, <1>7, <2>1 DEF Tick
  <2>3. \A q \in Requests : req[q].window <= now'
    <3>1. \A q \in Requests : req[q].window \in Nat /\ req[q].window <= now
      BY <1>1, Numbers DEF Request
    <3> QED BY <1>1, <2>1, <3>1
  <2> QED BY <1>1, <1>7, <2>1, <2>2, <2>3 DEF Tick, TypeOK
<1>8. ASSUME NEW m \in Minutes, NEW k \in Keys, Expire(m, k)
      PROVE  TypeOK'
  <2>1. NoCounter \in [count : Nat, expires : Nat]
    BY DEF NoCounter
  <2>2. redis' \in [Minutes -> [Keys -> [count : Nat, expires : Nat]]]
    BY <1>1, <1>8, <2>1 DEF Expire
  <2> QED BY <1>1, <1>8, <2>2 DEF Expire, TypeOK
<1>9. ASSUME NEW s \in Servers, Stop(s)
      PROVE  TypeOK'
  <2>1. NoBucket \in [window : 0 .. now, count : Nat]
    BY <1>1 DEF NoBucket
  <2>2. local' \in [Servers -> [Keys -> [window : 0 .. now, count : Nat]]]
    BY <1>1, <1>9, <2>1 DEF Stop
  <2>3. ASSUME NEW q \in Requests
        PROVE  /\ req'[q] \in Request /\ req'[q].window <= now
               /\ req'[q].pc \in {"redis", "local"} =>
                    req'[q].server \in up' /\ req'[q].key \in Keys
    <3>1. CASE req[q].server = s /\ req[q].pc \in {"redis", "local"}
      <4>1. req'[q] = [req[q] EXCEPT !.pc = "gone"]
        BY <1>9, <3>1 DEF Stop
      <4>2. req'[q].pc = "gone"
        BY <1>1, <4>1 DEF Request
      <4>3. PICK d : d = [req[q] EXCEPT !.pc = "gone"]
        OBVIOUS
      <4>4. d \in Request /\ d.window = req[q].window
        BY <1>1, <4>3, RetryIs
      <4> QED BY <1>1, <4>1, <4>2, <4>3, <4>4
    <3>2. CASE ~(req[q].server = s /\ req[q].pc \in {"redis", "local"})
      BY <1>1, <1>9, <3>2 DEF Stop
    <3> QED BY <3>1, <3>2
  <2>4. req' \in [Requests -> Request]
    <3>1. req' = [q \in Requests |-> req'[q]]
      BY <1>9 DEF Stop
    <3> QED BY <2>3, <3>1
  <2> QED BY <1>1, <1>9, <2>2, <2>3, <2>4 DEF Stop, TypeOK
<1>10. CASE UNCHANGED vars
  BY <1>10 DEF TypeOK, vars
<1> QED BY <1>3, <1>4, <1>5, <1>6, <1>7, <1>8, <1>9, <1>10 DEF Next, Handle

\* The types hold initially.
LEMMA TypeInit == Init => TypeOK
<1> SUFFICES ASSUME Init PROVE TypeOK
  OBVIOUS
<1>1. Idle \in Request /\ Idle.window = 0 /\ Idle.pc = "idle"
  BY Numbers DEF Idle, Request
<1>2. req \in [Requests -> Request] /\ \A r \in Requests : req[r] = Idle
  BY <1>1 DEF Init
<1>3. redis \in [Minutes -> [Keys -> [count : Nat, expires : Nat]]]
  BY DEF Init, NoCounter
<1>4. local \in [Servers -> [Keys -> [window : 0 .. now, count : Nat]]]
  BY DEF Init, NoBucket
<1>5. now = 0 /\ now \in Minutes /\ up \subseteq Servers
  BY Numbers DEF Init
<1> QED BY <1>1, <1>2, <1>3, <1>4, <1>5 DEF TypeOK

\* No window lies in the future, every request under way has a running server,
\* and the counters, buckets and verdicts have their types.
THEOREM TypeCorrect == Spec => []TypeOK
  BY TypeInit, TypeStep, PTL DEF Spec

-----------------------------------------------------------------------------
(* The inductive invariant *)

\* Request q holds number n of counter m, k of Redis.
OfRedis(q, m, k, n) ==
  /\ Answered(req[q]) /\ req[q].by = "redis"
  /\ req[q].window = m /\ req[q].key = k /\ req[q].number = n

\* Request q holds number n of the bucket of k that server s fills now.
OfLocal(q, s, k, n) ==
  /\ Answered(req[q]) /\ req[q].by = "local" /\ req[q].server = s
  /\ req[q].window = now /\ req[q].key = k /\ req[q].number = n

\* Some request of client k may have been counted in vain.
InVain(k) == \E q \in Requests : req[q].key = k /\ CountedInVain(req[q])

\* A verdict follows from a number, numbers come from counters, and no request
\* waits for Redis longer than into the next minute.
CallInv ==
  \A q \in Requests :
    /\ Answered(req[q]) <=> req[q].by # "none"
    /\ Answered(req[q]) =>
         /\ req[q].number >= 1 /\ req[q].key \in Keys /\ req[q].server \in Servers
         /\ req[q].pc = "admitted" <=> req[q].number <= Limit
    /\ req[q].pc = "redis" => RedisEnabled /\ now <= req[q].window + 1
    /\ req[q].by = "redis" => RedisEnabled
    /\ req[q].pc = "idle" => req[q].tries = 0

\* A counter outlives the requests that may still increment it, has given no
\* number above its own, and those up to it unless one was counted in vain.
RedisInv ==
  \A m \in Minutes, k \in Keys :
    /\ redis[m][k].count > 0 => RedisEnabled /\ redis[m][k].expires >= m + 2
    /\ now <= m + 1 =>
         \A q \in Requests, n \in Nat : OfRedis(q, m, k, n) => n <= redis[m][k].count
    /\ \/ \A n \in 1 .. redis[m][k].count : \E q \in Requests : OfRedis(q, m, k, n)
       \/ InVain(k)

\* The bucket of the current minute of a running server has given exactly the
\* numbers up to its own, and while it has given one it is there.
LocalInv ==
  \A s \in up, k \in Keys :
    /\ \A q \in Requests, n \in Nat :
         OfLocal(q, s, k, n) => local[s][k].window = now /\ n <= local[s][k].count
    /\ local[s][k].window = now =>
         \A n \in 1 .. local[s][k].count : \E q \in Requests : OfLocal(q, s, k, n)

\* What the parts of a request are.
LEMMA CallIs ==
  ASSUME TypeOK, NEW q \in Requests
  PROVE  /\ req[q] \in Request /\ now \in Nat /\ now \in Minutes
         /\ req[q].window \in Nat /\ req[q].window \in Minutes /\ req[q].window <= now
         /\ req[q].number \in Nat /\ req[q].tries \in Nat
         /\ req[q].pc \in {"redis", "local"} =>
              req[q].server \in up /\ req[q].server \in Servers /\ req[q].key \in Keys
<1>1. req[q] \in Request /\ now \in Minutes
  BY DEF TypeOK
<1>2. /\ req[q].window \in Minutes /\ req[q].number \in Nat
      /\ req[q].tries \in 0 .. MaxRetries
  BY <1>1 DEF Request
<1>3. req[q].window \in Nat /\ now \in Nat
  BY <1>1, <1>2, Numbers
<1>4. req[q].tries \in Nat
  BY <1>2, Numbers
<1>5. /\ req[q].window <= now /\ up \subseteq Servers
      /\ req[q].pc \in {"redis", "local"} => req[q].server \in up /\ req[q].key \in Keys
  BY DEF TypeOK
<1> QED BY <1>1, <1>2, <1>3, <1>4, <1>5

\* An answer of Redis: the request has the counter's next number.
LEMMA IncrementIs ==
  ASSUME TypeOK, NEW r \in Requests, Increment(r)
  PROVE  LET m == req[r].window
             k == req[r].key
         IN  \E c \in Request :
               /\ req[r].pc = "redis" /\ k \in Keys /\ m \in Minutes
               /\ req' = [req EXCEPT ![r] = c]
               /\ Answered(c) /\ c.by = "redis" /\ c.window = m
               /\ c.key = k /\ c.server = req[r].server /\ c.tries = req[r].tries
               /\ c.number = redis[m][k].count + 1
               /\ redis[m][k].count \in Nat
               /\ c.pc = "admitted" <=> c.number <= Limit
<1>1. req[r].key \in Keys /\ req[r].window \in Minutes /\ req[r].pc = "redis"
  BY CallIs DEF Increment
<1>2. redis[req[r].window][req[r].key].count \in Nat
  <2>1. redis[req[r].window] \in [Keys -> [count : Nat, expires : Nat]]
    BY <1>1 DEF TypeOK
  <2>2. redis[req[r].window][req[r].key] \in [count : Nat, expires : Nat]
    BY <1>1, <2>1
  <2> QED BY <2>2
<1>3. PICK number \in Nat : number = redis[req[r].window][req[r].key].count + 1
  BY <1>2
<1>4. PICK c : c = Decided(req[r], "redis", req[r].window, number)
  OBVIOUS
<1>5. Verdict(c, req[r], "redis", req[r].window, number)
  BY <1>1, <1>3, <1>4, CallIs, DecidedIs
<1>6. req' = [req EXCEPT ![r] = c]
  BY <1>3, <1>4 DEF Increment
<1> QED BY <1>1, <1>2, <1>3, <1>5, <1>6 DEF Verdict

\* An answer of the local map.
LEMMA LocalCallIs ==
  ASSUME TypeOK, NEW r \in Requests, IncrementLocal(r)
  PROVE  LET s == req[r].server
             k == req[r].key
         IN  \E c \in Request :
               /\ req[r].pc = "local" /\ k \in Keys /\ s \in up /\ s \in Servers
               /\ req' = [req EXCEPT ![r] = c]
               /\ Answered(c) /\ c.by = "local" /\ c.window = now
               /\ c.key = k /\ c.server = s /\ c.tries = req[r].tries
               /\ c.number = local'[s][k].count
               /\ local'[s][k].window = now
               /\ c.number = IF local[s][k].window = now THEN local[s][k].count + 1 ELSE 1
               /\ c.number >= 1
               /\ c.pc = "admitted" <=> c.number <= Limit
<1>1. req[r].pc = "local" /\ req[r].key \in Keys /\ req[r].server \in up
  BY CallIs DEF IncrementLocal
<1>2. req[r].server \in Servers /\ now \in Minutes /\ now \in Nat
  BY <1>1, CallIs
<1>3. PICK number : number = local'[req[r].server][req[r].key].count
  OBVIOUS
<1>4. /\ local' \in [Servers -> [Keys -> [window : 0 .. now, count : Nat]]]
      /\ local'[req[r].server][req[r].key].window = now
      /\ number = IF local[req[r].server][req[r].key].window = now
                  THEN local[req[r].server][req[r].key].count + 1 ELSE 1
      /\ req' = [req EXCEPT ![r] = Decided(req[r], "local", now, number)]
  BY <1>3, LocalIs
<1>5. number \in Nat
  <2>1. local'[req[r].server] \in [Keys -> [window : 0 .. now, count : Nat]]
    BY <1>2, <1>4
  <2>2. local'[req[r].server][req[r].key] \in [window : 0 .. now, count : Nat]
    BY <1>1, <2>1
  <2> QED BY <1>3, <2>2
<1>6. number >= 1
  <2>1. local[req[r].server] \in [Keys -> [window : 0 .. now, count : Nat]]
    BY <1>2 DEF TypeOK
  <2>2. local[req[r].server][req[r].key] \in [window : 0 .. now, count : Nat]
    BY <1>1, <2>1
  <2> QED BY <1>4, <2>2
<1>7. PICK c : c = Decided(req[r], "local", now, number)
  OBVIOUS
<1>8. Verdict(c, req[r], "local", now, number)
  BY SMTT(60), <1>2, <1>5, <1>7, CallIs, DecidedIs
<1>9. req' = [req EXCEPT ![r] = c]
  BY <1>4, <1>7
<1> QED BY <1>1, <1>2, <1>3, <1>4, <1>6, <1>8, <1>9 DEF Verdict

\* A request sent again or given up.
LEMMA RetryCallIs ==
  ASSUME TypeOK, NEW r \in Requests, Resend(r) \/ IncrementFails(r)
  PROVE  \E c \in Request :
           /\ req[r].pc = "redis" /\ req[r].key \in Keys
           /\ req' = [req EXCEPT ![r] = c]
           /\ c.pc \in {"redis", "local"} /\ c.by = req[r].by /\ c.number = req[r].number
           /\ c.server = req[r].server /\ c.key = req[r].key /\ c.window = req[r].window
           /\ c.tries >= req[r].tries
           /\ c.pc = "local" \/ c.tries > 0
<1>1. req[r].pc = "redis" /\ req[r].key \in Keys /\ req[r] \in Request /\ req[r].tries \in Nat
  BY CallIs DEF Resend, IncrementFails
<1>2. CASE Resend(r)
  <2>1. PICK c : c = [req[r] EXCEPT !.tries = @ + 1]
    OBVIOUS
  <2>2. req' = [req EXCEPT ![r] = c] /\ req[r].tries < MaxRetries
    BY <1>2, <2>1 DEF Resend
  <2>3. /\ c \in Request
        /\ c.server = req[r].server /\ c.key = req[r].key /\ c.window = req[r].window
        /\ c.by = req[r].by /\ c.number = req[r].number /\ c.tries >= req[r].tries
    BY <1>1, <2>1, <2>2, RetryIs
  <2>4. c.pc = "redis" /\ c.tries = req[r].tries + 1
    BY <1>1, <2>1 DEF Request
  <2>5. c.tries > 0
    BY <1>1, <2>4
  <2> QED BY <1>1, <2>2, <2>3, <2>4, <2>5
<1>3. CASE IncrementFails(r)
  <2>1. PICK c : c = [req[r] EXCEPT !.pc = "local"]
    OBVIOUS
  <2>2. req' = [req EXCEPT ![r] = c]
    BY <1>3, <2>1 DEF IncrementFails
  <2>3. /\ c \in Request
        /\ c.server = req[r].server /\ c.key = req[r].key /\ c.window = req[r].window
        /\ c.by = req[r].by /\ c.number = req[r].number /\ c.tries >= req[r].tries
    BY <1>1, <2>1, RetryIs
  <2>4. c.pc = "local"
    BY <1>1, <2>1 DEF Request
  <2> QED BY <1>1, <2>2, <2>3, <2>4
<1> QED BY <1>2, <1>3

\* A request whose server ends; the others stay as they are.
LEMMA StopIs ==
  ASSUME TypeOK, NEW s \in Servers, Stop(s), NEW q \in Requests
  PROVE  \/ req'[q] = req[q] /\ ~(req[q].server = s /\ req[q].pc \in {"redis", "local"})
         \/ /\ req[q].pc \in {"redis", "local"} /\ req'[q].pc = "gone"
            /\ req'[q].by = req[q].by /\ req'[q].key = req[q].key
            /\ req'[q].tries = req[q].tries /\ req'[q].window = req[q].window
<1>1. CASE req[q].server = s /\ req[q].pc \in {"redis", "local"}
  <2>1. req'[q] = [req[q] EXCEPT !.pc = "gone"]
    BY <1>1 DEF Stop
  <2> QED BY <1>1, <2>1, CallIs DEF Request
<1>2. CASE ~(req[q].server = s /\ req[q].pc \in {"redis", "local"})
  BY <1>2 DEF Stop
<1> QED BY <1>1, <1>2

\* A step leaves an answered request as it is, answers one only by a counter's
\* number, and what was counted in vain stays so.
LEMMA Stays ==
  ASSUME TypeOK, CallInv, [Next]_vars, NEW q \in Requests
  PROVE  /\ Answered(req[q]) => req'[q] = req[q]
         /\ Answered(req'[q]) /\ ~Answered(req[q]) => Increment(q) \/ IncrementLocal(q)
         /\ RedisEnabled /\ CountedInVain(req[q]) =>
              CountedInVain(req'[q]) /\ req'[q].key = req[q].key
<1>0. \A r \in Requests : \A c : req' = [req EXCEPT ![r] = c] =>
        req'[q] = IF q = r THEN c ELSE req[q]
  BY DEF TypeOK
<1>1. ASSUME NEW r \in Requests, Arrive(r)
      PROVE  /\ Answered(req[q]) => req'[q] = req[q]
             /\ Answered(req'[q]) => Answered(req[q])
             /\ CountedInVain(req[q]) =>
                  CountedInVain(req'[q]) /\ req'[q].key = req[q].key
  <2>1. PICK c \in Request : req' = [req EXCEPT ![r] = c] /\ c.pc \in {"redis", "local"}
    BY <1>1, ArriveIs
  <2>2. req[r].pc = "idle" /\ ~Answered(req[r]) /\ req[r].tries = 0 /\ req[r].by = "none"
    BY <1>1 DEF Arrive, Answered, CallInv
  <2> QED BY <1>0, <2>1, <2>2 DEF Answered, CountedInVain
<1>2. ASSUME NEW r \in Requests, Increment(r)
      PROVE  /\ Answered(req[q]) => req'[q] = req[q]
             /\ Answered(req'[q]) /\ ~Answered(req[q]) => Increment(q)
             /\ CountedInVain(req[q]) =>
                  CountedInVain(req'[q]) /\ req'[q].key = req[q].key
  <2>1. PICK c \in Request : req' = [req EXCEPT ![r] = c] /\ c.by = "redis"
                             /\ c.key = req[r].key /\ c.tries = req[r].tries
    BY <1>2, IncrementIs
  <2>2. req[r].pc = "redis" /\ ~Answered(req[r]) /\ req[r].by = "none"
    BY <1>2 DEF Increment, Answered, CallInv
  <2> QED BY <1>0, <1>2, <2>1, <2>2 DEF CountedInVain
<1>3. ASSUME NEW r \in Requests, IncrementLocal(r)
      PROVE  /\ Answered(req[q]) => req'[q] = req[q]
             /\ Answered(req'[q]) /\ ~Answered(req[q]) => IncrementLocal(q)
             /\ RedisEnabled /\ CountedInVain(req[q]) =>
                  CountedInVain(req'[q]) /\ req'[q].key = req[q].key
  <2>1. PICK c \in Request : req' = [req EXCEPT ![r] = c] /\ c.by = "local"
                             /\ c.key = req[r].key /\ c.tries = req[r].tries
    BY <1>3, LocalCallIs
  <2>2. req[r].pc = "local" /\ ~Answered(req[r]) /\ req[r].by = "none"
    BY <1>3 DEF IncrementLocal, Answered, CallInv
  <2> QED BY <1>0, <1>3, <2>1, <2>2 DEF CountedInVain
<1>4. ASSUME NEW r \in Requests, Resend(r) \/ IncrementFails(r)
      PROVE  /\ Answered(req[q]) => req'[q] = req[q]
             /\ Answered(req'[q]) => Answered(req[q])
             /\ CountedInVain(req[q]) =>
                  CountedInVain(req'[q]) /\ req'[q].key = req[q].key
  <2>1. PICK c \in Request : /\ req[r].pc = "redis" /\ req' = [req EXCEPT ![r] = c]
                             /\ c.pc \in {"redis", "local"} /\ c.key = req[r].key
                             /\ c.pc = "local" \/ c.tries > 0
    BY <1>4, RetryCallIs
  <2> QED BY <1>0, <2>1 DEF CountedInVain, Answered
<1>5. ASSUME NEW s \in Servers, Stop(s)
      PROVE  /\ Answered(req[q]) => req'[q] = req[q]
             /\ Answered(req'[q]) => Answered(req[q])
             /\ CountedInVain(req[q]) =>
                  CountedInVain(req'[q]) /\ req'[q].key = req[q].key
  BY <1>5, StopIs DEF Answered, CountedInVain
<1>6. CASE \/ Tick \/ UNCHANGED vars
           \/ \E m \in Minutes, k \in Keys : Expire(m, k)
  BY <1>6 DEF Tick, Expire, vars
<1> QED BY <1>1, <1>2, <1>3, <1>4, <1>5, <1>6 DEF Next, Handle

\* A client's request counted in vain stays one.
LEMMA StaysInVain ==
  ASSUME TypeOK, CallInv, [Next]_vars, RedisEnabled, NEW k, InVain(k)
  PROVE  InVain(k)'
  BY Stays DEF InVain

\* Every step keeps the calls in order.
LEMMA CallStep ==
  ASSUME TypeOK, CallInv, [Next]_vars
  PROVE  CallInv'
<1> DEFINE Fine(c, t) ==
      /\ Answered(c) <=> c.by # "none"
      /\ Answered(c) =>
           /\ c.number >= 1 /\ c.key \in Keys /\ c.server \in Servers
           /\ c.pc = "admitted" <=> c.number <= Limit
      /\ c.pc = "redis" => RedisEnabled /\ t <= c.window + 1
      /\ c.by = "redis" => RedisEnabled
      /\ c.pc = "idle" => c.tries = 0
<1>0. \A q \in Requests : Fine(req[q], now)
  BY DEF CallInv
<1>1. SUFFICES ASSUME NEW q \in Requests
               PROVE  Fine(req'[q], now')
  BY DEF CallInv
<1>2. ASSUME NEW r \in Requests, NEW c, req' = [req EXCEPT ![r] = c], now' = now,
             Fine(c, now)
      PROVE  Fine(req'[q], now')
  <2>1. req'[q] = c \/ req'[q] = req[q]
    BY <1>2 DEF TypeOK
  <2> HIDE DEF Fine
  <2> QED BY <1>0, <1>2, <2>1
<1>3. ASSUME NEW r \in Requests, Arrive(r)
      PROVE  Fine(req'[q], now')
  <2>1. PICK c \in Request :
           /\ req' = [req EXCEPT ![r] = c]
           /\ c.pc = IF RedisEnabled THEN "redis" ELSE "local"
           /\ c.window = now /\ c.by = "none"
    BY <1>3, ArriveIs
  <2>2. Fine(c, now)
    BY <2>1, CallIs DEF Answered
  <2> HIDE DEF Fine
  <2> QED BY <1>2, <1>3, <2>1, <2>2 DEF Arrive
<1>4. ASSUME NEW r \in Requests, Increment(r)
      PROVE  Fine(req'[q], now')
  <2>1. PICK c \in Request :
          /\ req[r].pc = "redis" /\ req[r].key \in Keys
          /\ req' = [req EXCEPT ![r] = c]
          /\ Answered(c) /\ c.by = "redis"
          /\ c.key = req[r].key /\ c.server = req[r].server
          /\ c.number = redis[req[r].window][req[r].key].count + 1
          /\ redis[req[r].window][req[r].key].count \in Nat
          /\ c.pc = "admitted" <=> c.number <= Limit
    BY <1>4, IncrementIs, ZenonT(30)
  <2>2. c.number >= 1 /\ RedisEnabled /\ c.server \in Servers
    BY <1>0, <2>1, CallIs
  <2>3. Fine(c, now)
    BY <2>1, <2>2 DEF Answered
  <2> HIDE DEF Fine
  <2> QED BY <1>2, <1>4, <2>1, <2>3 DEF Increment
<1>5. ASSUME NEW r \in Requests, IncrementLocal(r)
      PROVE  Fine(req'[q], now')
  <2>1. PICK c \in Request :
          /\ req[r].key \in Keys /\ req[r].server \in Servers
          /\ req' = [req EXCEPT ![r] = c]
          /\ Answered(c) /\ c.by = "local"
          /\ c.key = req[r].key /\ c.server = req[r].server
          /\ c.number >= 1
          /\ c.pc = "admitted" <=> c.number <= Limit
    BY <1>5, LocalCallIs, ZenonT(30)
  <2>2. Fine(c, now)
    BY <2>1 DEF Answered
  <2> HIDE DEF Fine
  <2> QED BY <1>2, <1>5, <2>1, <2>2 DEF IncrementLocal
<1>6. ASSUME NEW r \in Requests, Resend(r) \/ IncrementFails(r)
      PROVE  Fine(req'[q], now')
  <2>1. PICK c \in Request : /\ req[r].pc = "redis" /\ req' = [req EXCEPT ![r] = c]
                             /\ c.pc \in {"redis", "local"} /\ c.by = req[r].by
                             /\ c.window = req[r].window
    BY <1>6, RetryCallIs
  <2>2. Fine(c, now)
    BY <1>0, <2>1 DEF Answered
  <2> HIDE DEF Fine
  <2> QED BY <1>2, <1>6, <2>1, <2>2 DEF Resend, IncrementFails
<1>7. ASSUME NEW s \in Servers, Stop(s)
      PROVE  Fine(req'[q], now')
  <2>1. now' = now
    BY <1>7 DEF Stop
  <2> QED BY <1>0, <1>7, <2>1, StopIs DEF Answered
<1>8. CASE Tick
  <2>1. req' = req /\ now' = now + 1 /\ (req[q].pc = "redis" => req[q].window = now)
    BY <1>8 DEF Tick
  <2>2. req[q].pc = "redis" => now' <= req[q].window + 1
    BY <2>1, CallIs
  <2> QED BY <1>0, <2>1, <2>2
<1>9. CASE UNCHANGED vars \/ \E m \in Minutes, k \in Keys : Expire(m, k)
  <2>1. req' = req /\ now' = now
    BY <1>9 DEF Expire, vars
  <2> HIDE DEF Fine
  <2> QED BY <1>0, <2>1
<1> HIDE DEF Fine
<1> QED BY <1>3, <1>4, <1>5, <1>6, <1>7, <1>8, <1>9 DEF Next, Handle

-----------------------------------------------------------------------------
(* The counters of Redis *)

\* The counter of client k in minute m, typed.
LEMMA CounterIs ==
  ASSUME TypeOK, NEW m \in Minutes, NEW k \in Keys
  PROVE  redis[m][k] \in [count : Nat, expires : Nat] /\ m \in Nat
<1>1. redis[m] \in [Keys -> [count : Nat, expires : Nat]]
  BY DEF TypeOK
<1> QED BY <1>1, Numbers

\* Numbers are kept, and the only new one of a counter is its next.
LEMMA RedisNumbers ==
  ASSUME TypeOK, CallInv, [Next]_vars, NEW m \in Minutes, NEW k \in Keys,
         NEW q \in Requests, NEW n \in Nat
  PROVE  /\ OfRedis(q, m, k, n) => OfRedis(q, m, k, n)'
         /\ OfRedis(q, m, k, n)' =>
              \/ OfRedis(q, m, k, n)
              \/ /\ Increment(q) /\ req[q].window = m /\ req[q].key = k
                 /\ n = redis[m][k].count + 1
<1>1. OfRedis(q, m, k, n) => OfRedis(q, m, k, n)'
  BY Stays DEF OfRedis
<1>2. ASSUME OfRedis(q, m, k, n)', ~Answered(req[q])
      PROVE  /\ Increment(q) /\ req[q].window = m /\ req[q].key = k
             /\ n = redis[m][k].count + 1
  <2>1. Increment(q) \/ IncrementLocal(q)
    BY <1>2, Stays DEF OfRedis
  <2>2. ~IncrementLocal(q)
    <3>1. IncrementLocal(q) => req'[q].by = "local"
      <4>1. SUFFICES ASSUME IncrementLocal(q) PROVE req'[q].by = "local"
        OBVIOUS
      <4>2. PICK c \in Request : req' = [req EXCEPT ![q] = c] /\ c.by = "local"
        BY <4>1, LocalCallIs
      <4> QED BY <4>2 DEF TypeOK
    <3> QED BY <1>2, <3>1 DEF OfRedis
  <2>3. PICK c \in Request :
          /\ req' = [req EXCEPT ![q] = c]
          /\ c.window = req[q].window /\ c.key = req[q].key
          /\ c.number = redis[req[q].window][req[q].key].count + 1
    BY <2>1, <2>2, IncrementIs, ZenonT(30)
  <2>4. req'[q] = c
    BY <2>3 DEF TypeOK
  <2> QED BY <1>2, <2>1, <2>2, <2>3, <2>4 DEF OfRedis
<1>3. ASSUME OfRedis(q, m, k, n)', Answered(req[q])
      PROVE  OfRedis(q, m, k, n)
  BY <1>3, Stays DEF OfRedis
<1> QED BY <1>1, <1>2, <1>3

\* A counter changes only when it is incremented, in vain or not, or expires.
LEMMA CounterStep ==
  ASSUME TypeOK, CallInv, RedisInv, [Next]_vars, NEW m \in Minutes, NEW k \in Keys
  PROVE  \/ /\ redis'[m][k] = redis[m][k]
            /\ \A q \in Requests :
                 ~(Increment(q) /\ req[q].window = m /\ req[q].key = k)
         \/ /\ redis'[m][k] = [count |-> redis[m][k].count + 1, expires |-> now + 2]
            /\ RedisEnabled /\ m <= now /\ now <= m + 1
            /\ \/ \E r \in Requests :
                    Increment(r) /\ req[r].window = m /\ req[r].key = k
               \/ InVain(k)'
         \/ /\ redis'[m][k] = NoCounter /\ now >= m + 2
            /\ now' = now /\ req' = req
<1>1. ASSUME NEW r \in Requests, Increment(r) \/ Resend(r) \/ IncrementFails(r),
             Count(req[r])
      PROVE  /\ req[r].pc = "redis" /\ RedisEnabled
             /\ req[r].window <= now /\ now <= req[r].window + 1
             /\ redis'[m][k] = IF m = req[r].window /\ k = req[r].key
                               THEN [count |-> redis[m][k].count + 1, expires |-> now + 2]
                               ELSE redis[m][k]
  <2>1. req[r].pc = "redis"
    BY <1>1 DEF Increment, Resend, IncrementFails
  <2>2. RedisEnabled /\ req[r].window <= now /\ now <= req[r].window + 1
    BY <2>1, CallIs DEF CallInv
  <2>3. req[r] \in Request /\ req[r].key \in Keys
    BY <2>1, CallIs
  <2> QED BY <1>1, <2>1, <2>2, <2>3, CountIs
<1>2. ASSUME NEW r \in Requests, Increment(r)
      PROVE  \A q \in Requests : Increment(q) => q = r
  <2>1. SUFFICES ASSUME NEW q \in Requests, Increment(q), q # r PROVE FALSE
    OBVIOUS
  <2>2. PICK c \in Request : /\ req' = [req EXCEPT ![r] = c] /\ Answered(c)
    BY <1>2, IncrementIs
  <2>3. PICK d \in Request : /\ req' = [req EXCEPT ![q] = d]
    BY <2>1, IncrementIs
  <2>4. req'[r] = c /\ req'[r] = req[r]
    BY <2>1, <2>2, <2>3 DEF TypeOK
  <2> QED BY <1>2, <2>2, <2>4 DEF Increment, Answered
<1>3. ASSUME NEW r \in Requests, Increment(r)
      PROVE  \/ /\ redis'[m][k] = redis[m][k]
                /\ ~(req[r].window = m /\ req[r].key = k)
             \/ /\ redis'[m][k] = [count |-> redis[m][k].count + 1, expires |-> now + 2]
                /\ RedisEnabled /\ m <= now /\ now <= m + 1
                /\ req[r].window = m /\ req[r].key = k
  BY <1>1, <1>3 DEF Increment
<1>4. ASSUME NEW r \in Requests, Resend(r) \/ IncrementFails(r)
      PROVE  /\ \A q \in Requests : ~Increment(q)
             /\ \/ redis'[m][k] = redis[m][k]
                \/ /\ redis'[m][k] = [count |-> redis[m][k].count + 1, expires |-> now + 2]
                   /\ RedisEnabled /\ m <= now /\ now <= m + 1
                   /\ InVain(k)'
  <2>1. PICK c \in Request : /\ req[r].pc = "redis"
                             /\ req' = [req EXCEPT ![r] = c]
                             /\ c.pc \in {"redis", "local"} /\ c.key = req[r].key
                             /\ c.pc = "local" \/ c.tries > 0
    BY <1>4, RetryCallIs
  <2>2. CountedInVain(req'[r]) /\ req'[r].key = req[r].key
    BY <2>1 DEF TypeOK, CountedInVain
  <2>3. ASSUME NEW q \in Requests, Increment(q) PROVE FALSE
    <3>1. PICK d \in Request : /\ req[q].pc = "redis" /\ req' = [req EXCEPT ![q] = d]
                               /\ Answered(d)
      BY <2>3, IncrementIs
    <3>2. req'[q] = d /\ (req'[q] = c \/ req'[q] = req[q])
      BY <2>1, <3>1 DEF TypeOK
    <3> QED BY <2>1, <3>1, <3>2 DEF Answered
  <2>4. CASE Count(req[r])
    <3>1. k = req[r].key => InVain(k)'
      BY <2>2 DEF InVain
    <3> QED BY <1>1, <1>4, <2>3, <2>4, <3>1
  <2>5. CASE ~Count(req[r])
    BY <1>4, <2>3, <2>5 DEF Resend, IncrementFails
  <2> QED BY <2>4, <2>5
<1>5. ASSUME NEW i \in Minutes, NEW j \in Keys, Expire(i, j)
      PROVE  \/ redis'[m][k] = redis[m][k]
             \/ /\ redis'[m][k] = NoCounter /\ now >= m + 2
                /\ now' = now /\ req' = req
  <2>1. redis[i][j].count > 0 => redis[i][j].expires >= i + 2
    BY DEF RedisInv
  <2>2. redis[i][j] \in [count : Nat, expires : Nat] /\ i \in Nat /\ now \in Nat
    BY CounterIs, Numbers DEF TypeOK
  <2>3. now >= i + 2
    BY <1>5, <2>1, <2>2 DEF Expire
  <2>4. redis'[m][k] = IF m = i /\ k = j THEN NoCounter ELSE redis[m][k]
    BY <1>5 DEF Expire, TypeOK
  <2> QED BY <1>5, <2>3, <2>4 DEF Expire
<1>6. ASSUME NEW q \in Requests, Increment(q)
      PROVE  redis' # redis
  <2>1. Count(req[q]) /\ req[q] \in Request /\ req[q].key \in Keys /\ req[q].window \in Minutes
    BY <1>6, CallIs DEF Increment
  <2>2. PICK i \in Minutes, j \in Keys : i = req[q].window /\ j = req[q].key
    BY <2>1
  <2>3. redis'[i][j] = [count |-> redis[i][j].count + 1, expires |-> now + 2]
    BY <2>1, <2>2, CountIs
  <2>4. redis[i][j].count \in Nat
    BY CounterIs
  <2> QED BY <2>3, <2>4
<1>7. CASE \/ Tick \/ UNCHANGED vars \/ \E s \in Servers : Stop(s)
           \/ \E r \in Requests : Arrive(r) \/ IncrementLocal(r)
  <2>1. redis' = redis
    BY <1>7 DEF Tick, vars, Stop, Arrive, IncrementLocal
  <2> QED BY <1>6, <2>1
<1>8. ASSUME NEW i \in Minutes, NEW j \in Keys, Expire(i, j), NEW q \in Requests
      PROVE  ~Increment(q)
  <2>1. SUFFICES ASSUME Increment(q) PROVE FALSE
    OBVIOUS
  <2>2. PICK c \in Request : req' = [req EXCEPT ![q] = c] /\ Answered(c)
    BY <2>1, IncrementIs
  <2>3. req'[q] = c /\ req' = req
    BY <1>8, <2>2 DEF Expire, TypeOK
  <2> QED BY <2>1, <2>2, <2>3 DEF Increment, Answered
<1>9. CASE \E r \in Requests : Increment(r)
  BY <1>2, <1>3, <1>9
<1>10. CASE \E r \in Requests : Resend(r) \/ IncrementFails(r)
  BY <1>4, <1>10
<1>11. CASE \E i \in Minutes, j \in Keys : Expire(i, j)
  BY <1>5, <1>8, <1>11
<1> QED BY <1>7, <1>9, <1>10, <1>11 DEF Next, Handle

\* Every step keeps the counters in order.
LEMMA RedisStep ==
  ASSUME TypeOK, CallInv, RedisInv, [Next]_vars
  PROVE  RedisInv'
<1>1. SUFFICES ASSUME NEW m \in Minutes, NEW k \in Keys
      PROVE  /\ redis'[m][k].count > 0 => RedisEnabled /\ redis'[m][k].expires >= m + 2
             /\ now' <= m + 1 =>
                  \A q \in Requests, n \in Nat :
                    OfRedis(q, m, k, n)' => n <= redis'[m][k].count
             /\ \/ \A n \in 1 .. redis'[m][k].count :
                     \E q \in Requests : OfRedis(q, m, k, n)'
                \/ InVain(k)'
  BY DEF RedisInv
<1>2. /\ redis[m][k].count > 0 => RedisEnabled /\ redis[m][k].expires >= m + 2
      /\ now <= m + 1 =>
           \A q \in Requests, n \in Nat : OfRedis(q, m, k, n) => n <= redis[m][k].count
      /\ \/ \A n \in 1 .. redis[m][k].count : \E q \in Requests : OfRedis(q, m, k, n)
         \/ InVain(k)
  BY DEF RedisInv
<1>3. redis[m][k].count \in Nat /\ redis[m][k].expires \in Nat /\ m \in Nat /\ now \in Nat
  BY CounterIs, Numbers DEF TypeOK
<1>4. now' \in Nat /\ now' >= now
  <2>1. now' = now \/ now' = now + 1
    BY DEF Next, Handle, Arrive, Increment, Resend, IncrementFails, IncrementLocal,
       Tick, Expire, Stop, vars
  <2> QED BY <1>3, <2>1
<1>5. ASSUME NEW n \in Nat, \E q \in Requests : OfRedis(q, m, k, n)
      PROVE  \E q \in Requests : OfRedis(q, m, k, n)'
  BY <1>5, RedisNumbers
<1>6. RedisEnabled /\ InVain(k) => InVain(k)'
  BY StaysInVain
<1>7. CASE /\ redis'[m][k] = redis[m][k]
           /\ \A q \in Requests : ~(Increment(q) /\ req[q].window = m /\ req[q].key = k)
  <2>1. \A q \in Requests, n \in Nat : OfRedis(q, m, k, n)' => OfRedis(q, m, k, n)
    BY <1>7, RedisNumbers
  <2>2. \/ \A n \in 1 .. redis'[m][k].count : \E q \in Requests : OfRedis(q, m, k, n)'
        \/ InVain(k)'
    <3>1. CASE redis[m][k].count = 0
      BY <1>7, <3>1
    <3>2. CASE redis[m][k].count > 0
      <4>1. \A n \in 1 .. redis[m][k].count : n \in Nat
        BY <1>3
      <4> QED BY <1>2, <1>6, <1>7, <3>2, <4>1, RedisNumbers
    <3> QED BY <1>3, <3>1, <3>2
  <2>3. now' <= m + 1 => now <= m + 1
    BY <1>3, <1>4
  <2> QED BY <1>2, <1>7, <2>1, <2>2, <2>3
<1>8. CASE /\ redis'[m][k] = [count |-> redis[m][k].count + 1, expires |-> now + 2]
           /\ RedisEnabled /\ m <= now /\ now <= m + 1
           /\ \/ \E r \in Requests :
                   Increment(r) /\ req[r].window = m /\ req[r].key = k
              \/ InVain(k)'
  <2>1. redis'[m][k].count = redis[m][k].count + 1 /\ redis'[m][k].expires = now + 2
    BY <1>8
  <2>2. \A q \in Requests, n \in Nat :
          OfRedis(q, m, k, n)' => n <= redis[m][k].count \/ n = redis[m][k].count + 1
    BY <1>2, <1>8, RedisNumbers
  <2>3. \A q \in Requests, n \in Nat : OfRedis(q, m, k, n)' => n <= redis'[m][k].count
    BY <1>3, <2>1, <2>2
  <2>4. ASSUME NEW r \in Requests, Increment(r), req[r].window = m, req[r].key = k,
               NEW n \in Nat, n = redis[m][k].count + 1
        PROVE  OfRedis(r, m, k, n)'
    <3>1. PICK c \in Request :
            /\ req' = [req EXCEPT ![r] = c] /\ Answered(c)
            /\ c.by = "redis" /\ c.window = req[r].window /\ c.key = req[r].key
            /\ c.number = redis[req[r].window][req[r].key].count + 1
      BY <2>4, IncrementIs, ZenonT(30)
    <3>2. req'[r] = c
      BY <3>1 DEF TypeOK
    <3> QED BY <2>4, <3>1, <3>2 DEF OfRedis
  <2>5. ASSUME ~InVain(k)', NEW n \in 1 .. redis'[m][k].count
        PROVE  \E q \in Requests : OfRedis(q, m, k, n)'
    <3>1. n \in Nat /\ (n = redis[m][k].count + 1 \/ n \in 1 .. redis[m][k].count)
      BY <1>3, <2>1
    <3>2. CASE n = redis[m][k].count + 1
      BY <1>8, <2>4, <2>5, <3>1, <3>2
    <3>3. CASE n \in 1 .. redis[m][k].count
      <4>1. \E q \in Requests : OfRedis(q, m, k, n)
        BY <1>2, <1>6, <1>8, <2>5, <3>3
      <4> QED BY <1>5, <3>1, <4>1
    <3> QED BY <3>1, <3>2, <3>3
  <2>6. redis'[m][k].expires >= m + 2
    BY <1>3, <1>8, <2>1
  <2> QED BY <1>8, <2>3, <2>5, <2>6
<1>9. CASE redis'[m][k] = NoCounter /\ now >= m + 2 /\ now' = now /\ req' = req
  BY <1>3, <1>9 DEF NoCounter
<1> QED BY <1>7, <1>8, <1>9, CounterStep

-----------------------------------------------------------------------------
(* The buckets of a server *)

\* The bucket of client k on server s, typed.
LEMMA BucketIs ==
  ASSUME TypeOK, NEW s \in Servers, NEW k \in Keys
  PROVE  local[s][k] \in [window : 0 .. now, count : Nat]
<1>1. local[s] \in [Keys -> [window : 0 .. now, count : Nat]]
  BY DEF TypeOK
<1> QED BY <1>1

\* While the minute lasts numbers are kept, and the only new one of a bucket is
\* the one the bucket shows.
LEMMA LocalNumbers ==
  ASSUME TypeOK, CallInv, [Next]_vars, now' = now, NEW s \in Servers, NEW k \in Keys,
         NEW q \in Requests, NEW n \in Nat
  PROVE  /\ OfLocal(q, s, k, n) => OfLocal(q, s, k, n)'
         /\ OfLocal(q, s, k, n)' =>
              \/ OfLocal(q, s, k, n)
              \/ /\ IncrementLocal(q) /\ req[q].server = s /\ req[q].key = k
                 /\ n = local'[s][k].count
<1>1. OfLocal(q, s, k, n) => OfLocal(q, s, k, n)'
  BY Stays DEF OfLocal
<1>2. ASSUME OfLocal(q, s, k, n)', ~Answered(req[q])
      PROVE  /\ IncrementLocal(q) /\ req[q].server = s /\ req[q].key = k
             /\ n = local'[s][k].count
  <2>1. Increment(q) \/ IncrementLocal(q)
    BY <1>2, Stays DEF OfLocal
  <2>2. ~Increment(q)
    <3>1. Increment(q) => req'[q].by = "redis"
      <4>1. SUFFICES ASSUME Increment(q) PROVE req'[q].by = "redis"
        OBVIOUS
      <4>2. PICK c \in Request : req' = [req EXCEPT ![q] = c] /\ c.by = "redis"
        BY <4>1, IncrementIs
      <4> QED BY <4>2 DEF TypeOK
    <3> QED BY <1>2, <3>1 DEF OfLocal
  <2>3. PICK c \in Request :
          /\ req' = [req EXCEPT ![q] = c]
          /\ c.server = req[q].server /\ c.key = req[q].key
          /\ c.number = local'[req[q].server][req[q].key].count
    BY <2>1, <2>2, LocalCallIs, ZenonT(30)
  <2>4. req'[q] = c
    BY <2>3 DEF TypeOK
  <2> QED BY <1>2, <2>1, <2>2, <2>3, <2>4 DEF OfLocal
<1>3. ASSUME OfLocal(q, s, k, n)', Answered(req[q])
      PROVE  OfLocal(q, s, k, n)
  BY <1>3, Stays DEF OfLocal
<1> QED BY <1>1, <1>2, <1>3

\* A step leaves a running server's bucket, gives its next number, drops it
\* when it is of the past, or lets it become of the past.
LEMMA BucketStep ==
  ASSUME TypeOK, CallInv, [Next]_vars, NEW s \in up', NEW k \in Keys
  PROVE  /\ s \in up /\ s \in Servers
         /\ \/ now' = now + 1 /\ local' = local /\ req' = req
            \/ /\ now' = now /\ local'[s][k] = local[s][k]
               /\ \A q \in Requests :
                    ~(IncrementLocal(q) /\ req[q].server = s /\ req[q].key = k)
            \/ /\ now' = now /\ local[s][k].window < now /\ local'[s][k] = NoBucket
               /\ \A q \in Requests :
                    ~(IncrementLocal(q) /\ req[q].server = s /\ req[q].key = k)
            \/ \E r \in Requests :
                 /\ now' = now /\ local'[s][k].window = now
                 /\ local'[s][k].count =
                      IF local[s][k].window = now THEN local[s][k].count + 1 ELSE 1
                 /\ IncrementLocal(r) /\ req[r].server = s /\ req[r].key = k
                 /\ \A q \in Requests : IncrementLocal(q) => q = r
<1>1. s \in up /\ s \in Servers
  BY DEF Next, Handle, Arrive, Increment, Resend, IncrementFails, IncrementLocal,
     Tick, Expire, Stop, vars, TypeOK
<1>2. ASSUME NEW r \in Requests, NEW c, req' = [req EXCEPT ![r] = c],
             NEW q \in Requests, IncrementLocal(q)
      PROVE  q = r
  <2>1. PICK d \in Request : req' = [req EXCEPT ![q] = d] /\ Answered(d)
                             /\ req[q].pc = "local"
    BY <1>2, LocalCallIs
  <2>2. req'[q] # req[q]
    BY <2>1 DEF TypeOK, Answered
  <2> QED BY <1>2, <2>2 DEF TypeOK
<1>3. ASSUME NEW r \in Requests, IncrementLocal(r)
      PROVE  \/ /\ local'[s][k] = local[s][k]
                /\ ~(req[r].server = s /\ req[r].key = k)
             \/ /\ local[s][k].window < now /\ local'[s][k] = NoBucket
                /\ ~(req[r].server = s /\ req[r].key = k)
             \/ /\ local'[s][k].window = now
                /\ local'[s][k].count =
                     IF local[s][k].window = now THEN local[s][k].count + 1 ELSE 1
                /\ req[r].server = s /\ req[r].key = k
  <2>1. CASE req[r].server # s
    BY <1>1, <1>3, <2>1, LocalIs
  <2>2. CASE req[r].server = s /\ req[r].key # k
    <3>1. local'[s][k] = Cleaned(s)[k]
      BY <1>1, <1>3, <2>2, LocalIs
    <3> QED BY <1>1, <2>2, <3>1, CleanedIs
  <2>3. CASE req[r].server = s /\ req[r].key = k
    BY SMTT(60), <1>3, <2>3, LocalIs
  <2> QED BY <2>1, <2>2, <2>3
<1>4. ASSUME NEW r \in Requests, IncrementLocal(r)
      PROVE  now' = now /\ \A q \in Requests : IncrementLocal(q) => q = r
  <2>1. PICK c \in Request : req' = [req EXCEPT ![r] = c]
    BY <1>4, LocalCallIs
  <2> QED BY <1>2, <1>4, <2>1 DEF IncrementLocal
<1>5. CASE \E r \in Requests : IncrementLocal(r)
  BY <1>1, <1>3, <1>4, <1>5
<1>6. CASE ~\E r \in Requests : IncrementLocal(r)
  <2>1. \/ now' = now + 1 /\ local' = local /\ req' = req
        \/ now' = now /\ local'[s][k] = local[s][k]
    <3>1. ASSUME NEW z \in Servers, Stop(z)
          PROVE  now' = now /\ local'[s][k] = local[s][k]
      BY SMTT(60), <1>1, <3>1 DEF Stop, TypeOK
    <3>2. CASE \/ Tick \/ UNCHANGED vars
               \/ \E r \in Requests :
                    Arrive(r) \/ Increment(r) \/ Resend(r) \/ IncrementFails(r)
               \/ \E m \in Minutes, j \in Keys : Expire(m, j)
      BY <3>2 DEF Tick, vars, Arrive, Increment, Resend, IncrementFails, Expire
    <3> QED BY <1>6, <3>1, <3>2 DEF Next, Handle
  <2> QED BY <1>1, <1>6, <2>1
<1> QED BY <1>5, <1>6

\* Every step keeps the buckets in order.
LEMMA LocalStep ==
  ASSUME TypeOK, CallInv, LocalInv, [Next]_vars
  PROVE  LocalInv'
<1>1. SUFFICES ASSUME NEW s \in up', NEW k \in Keys
      PROVE  /\ \A q \in Requests, n \in Nat : OfLocal(q, s, k, n)' =>
                  local'[s][k].window = now' /\ n <= local'[s][k].count
             /\ local'[s][k].window = now' =>
                  \A n \in 1 .. local'[s][k].count :
                    \E q \in Requests : OfLocal(q, s, k, n)'
  BY DEF LocalInv
<1>2. s \in up /\ s \in Servers
  BY BucketStep
<1>3. /\ \A q \in Requests, n \in Nat :
           OfLocal(q, s, k, n) => local[s][k].window = now /\ n <= local[s][k].count
      /\ local[s][k].window = now =>
           \A n \in 1 .. local[s][k].count : \E q \in Requests : OfLocal(q, s, k, n)
  BY <1>2 DEF LocalInv
<1>4. local[s][k].window \in 0 .. now /\ local[s][k].count \in Nat /\ now \in Nat
  BY <1>2, BucketIs, Numbers DEF TypeOK
<1>5. CASE now' = now + 1 /\ local' = local /\ req' = req
  <2>1. \A q \in Requests : req[q].window <= now /\ req[q].window \in Nat
    BY CallIs
  <2>2. \A q \in Requests, n \in Nat : ~OfLocal(q, s, k, n)'
    BY <1>4, <1>5, <2>1 DEF OfLocal
  <2>3. local'[s][k].window # now'
    BY <1>4, <1>5
  <2> QED BY <2>2, <2>3
<1>6. CASE /\ now' = now /\ local'[s][k] = local[s][k]
           /\ \A q \in Requests :
                ~(IncrementLocal(q) /\ req[q].server = s /\ req[q].key = k)
  <2>1. \A q \in Requests, n \in Nat : OfLocal(q, s, k, n)' <=> OfLocal(q, s, k, n)
    BY <1>2, <1>6, LocalNumbers
  <2>2. \A n \in 1 .. local[s][k].count : n \in Nat
    BY <1>4
  <2> QED BY <1>3, <1>6, <2>1, <2>2
<1>7. CASE /\ now' = now /\ local[s][k].window < now /\ local'[s][k] = NoBucket
           /\ \A q \in Requests :
                ~(IncrementLocal(q) /\ req[q].server = s /\ req[q].key = k)
  <2>1. \A q \in Requests, n \in Nat : ~OfLocal(q, s, k, n)'
    BY <1>2, <1>3, <1>4, <1>7, LocalNumbers
  <2>2. local'[s][k].window # now'
    BY <1>4, <1>7 DEF NoBucket
  <2> QED BY <2>1, <2>2
<1>8. CASE \E r \in Requests :
             /\ now' = now /\ local'[s][k].window = now
             /\ local'[s][k].count =
                  IF local[s][k].window = now THEN local[s][k].count + 1 ELSE 1
             /\ IncrementLocal(r) /\ req[r].server = s /\ req[r].key = k
             /\ \A q \in Requests : IncrementLocal(q) => q = r
  <2>1. PICK r \in Requests :
             /\ now' = now /\ local'[s][k].window = now
             /\ local'[s][k].count =
                  IF local[s][k].window = now THEN local[s][k].count + 1 ELSE 1
             /\ IncrementLocal(r) /\ req[r].server = s /\ req[r].key = k
    BY <1>8
  <2>2. ASSUME NEW q \in Requests, NEW n \in Nat, OfLocal(q, s, k, n)'
        PROVE  n <= local'[s][k].count
    <3>1. OfLocal(q, s, k, n) \/ n = local'[s][k].count
      BY <1>2, <2>1, <2>2, LocalNumbers
    <3> QED BY <1>3, <1>4, <2>1, <3>1
  <2>3. ASSUME NEW n \in Nat, n = local'[s][k].count
        PROVE  OfLocal(r, s, k, n)'
    <3>1. PICK c \in Request :
            /\ req' = [req EXCEPT ![r] = c] /\ Answered(c)
            /\ c.by = "local" /\ c.window = now /\ c.key = req[r].key
            /\ c.server = req[r].server
            /\ c.number = local'[req[r].server][req[r].key].count
      BY <2>1, LocalCallIs, ZenonT(30)
    <3>2. req'[r] = c
      BY <3>1 DEF TypeOK
    <3> QED BY <2>1, <2>3, <3>1, <3>2 DEF OfLocal
  <2>4. ASSUME NEW n \in 1 .. local'[s][k].count
        PROVE  \E q \in Requests : OfLocal(q, s, k, n)'
    <3>1. \/ n = local'[s][k].count
          \/ local[s][k].window = now /\ n \in 1 .. local[s][k].count
      BY <1>4, <2>1
    <3>2. n \in Nat
      BY <1>4, <2>1
    <3> QED BY <1>2, <1>3, <2>1, <2>3, <3>1, <3>2, LocalNumbers
  <2> QED BY <2>1, <2>2, <2>4
<1> QED BY <1>5, <1>6, <1>7, <1>8, BucketStep

-----------------------------------------------------------------------------
(* What the counters promise *)

\* What the steps need of one another: the types, the calls, both counters.
Inv == TypeOK /\ CallInv /\ RedisInv /\ LocalInv

\* The invariant holds initially.
LEMMA InitInv == Init => Inv
<1> SUFFICES ASSUME Init PROVE Inv
  OBVIOUS
<1>1. \A q \in Requests : req[q] = Idle
  BY DEF Init
<1>2. /\ Idle.pc = "idle" /\ Idle.tries = 0 /\ Idle.by = "none"
  BY DEF Idle
<1>3. TypeOK
  BY TypeInit
<1>4. CallInv
  BY <1>1, <1>2 DEF CallInv, Answered
<1>5. RedisInv
  BY <1>1, <1>2 DEF Init, RedisInv, OfRedis, Answered, NoCounter
<1>6. LocalInv
  <2>1. \A s \in up, k \in Keys : local[s][k].count = 0
    BY DEF Init, NoBucket
  <2> QED BY <1>1, <1>2, <2>1 DEF LocalInv, OfLocal, Answered
<1> QED BY <1>3, <1>4, <1>5, <1>6 DEF Inv

\* Every step keeps it.
LEMMA NextInv == Inv /\ [Next]_vars => Inv'
  BY TypeStep, CallStep, RedisStep, LocalStep DEF Inv

\* It always holds.
LEMMA Always == Spec => []Inv
  BY InitInv, NextInv, PTL DEF Spec

\* A request given a number in this step has one that no request of the same
\* counter was given before.
LEMMA Fresh ==
  ASSUME Inv, [Next]_vars, NEW r \in Requests, NEW q \in Requests,
         ~Answered(req[r]), Answered(req'[r]), Answered(req[q]),
         SameCounter(req'[r], req[q])
  PROVE  req'[r].number # req[q].number
<1>0. TypeOK /\ CallInv /\ RedisInv /\ LocalInv
  BY DEF Inv
<1>1. CASE Increment(r)
  <2>1. PICK c \in Request :
          /\ req[r].pc = "redis" /\ req[r].key \in Keys /\ req[r].window \in Minutes
          /\ req' = [req EXCEPT ![r] = c]
          /\ c.by = "redis" /\ c.window = req[r].window /\ c.key = req[r].key
          /\ c.number = redis[req[r].window][req[r].key].count + 1
          /\ redis[req[r].window][req[r].key].count \in Nat
    BY <1>0, <1>1, IncrementIs, ZenonT(30)
  <2>2. req'[r] = c
    BY <1>0, <2>1 DEF TypeOK
  <2>3. PICK m \in Minutes, k \in Keys, n \in Nat :
          m = req[r].window /\ k = req[r].key /\ n = req[q].number
    BY <1>0, <2>1, CallIs
  <2>4. OfRedis(q, m, k, n)
    BY <2>1, <2>2, <2>3 DEF OfRedis, SameCounter
  <2>5. now <= m + 1
    BY <1>0, <2>1, <2>3 DEF CallInv
  <2>6. n <= redis[m][k].count
    BY <1>0, <2>4, <2>5 DEF RedisInv
  <2> QED BY <2>1, <2>2, <2>3, <2>6
<1>2. CASE IncrementLocal(r)
  <2>1. PICK c \in Request :
          /\ req[r].key \in Keys /\ req[r].server \in up /\ req[r].server \in Servers
          /\ req' = [req EXCEPT ![r] = c]
          /\ c.by = "local" /\ c.window = now /\ c.key = req[r].key
          /\ c.server = req[r].server
          /\ c.number = IF local[req[r].server][req[r].key].window = now
                        THEN local[req[r].server][req[r].key].count + 1 ELSE 1
    BY <1>0, <1>2, LocalCallIs, ZenonT(30)
  <2>2. req'[r] = c
    BY <1>0, <2>1 DEF TypeOK
  <2>3. PICK s \in up, k \in Keys, n \in Nat :
          s = req[r].server /\ k = req[r].key /\ n = req[q].number
    BY <1>0, <2>1, CallIs
  <2>4. OfLocal(q, s, k, n)
    BY <2>1, <2>2, <2>3 DEF OfLocal, SameCounter
  <2>5. local[s][k].window = now /\ n <= local[s][k].count
    BY <1>0, <2>4 DEF LocalInv
  <2>6. local[s][k].count \in Nat
    BY <1>0, <2>1, <2>3, BucketIs
  <2> QED BY <2>1, <2>2, <2>3, <2>5, <2>6
<1> QED BY <1>0, <1>1, <1>2, Stays

\* Two requests are not answered in one step.
LEMMA OneAnswer ==
  ASSUME Inv, [Next]_vars, NEW r \in Requests, NEW q \in Requests,
         ~Answered(req[r]), Answered(req'[r]), ~Answered(req[q]), Answered(req'[q])
  PROVE  r = q
<1>0. TypeOK /\ CallInv
  BY DEF Inv
<1>1. Increment(r) \/ IncrementLocal(r)
  BY <1>0, Stays
<1>2. PICK c \in Request : req' = [req EXCEPT ![r] = c]
  BY <1>0, <1>1, IncrementIs, LocalCallIs
<1> QED BY <1>0, <1>2 DEF TypeOK

\* No two requests are ever given the same number by one counter: whatever
\* expires, is dropped, fails or is resent, a counter admits at most Limit
\* requests of a client in a minute.
THEOREM NumbersUnique == Spec => []OwnNumber
<1>1. Init => OwnNumber
  BY DEF Init, OwnNumber, Answered, Idle
<1>2. ASSUME Inv, [Next]_vars, OwnNumber
      PROVE  OwnNumber'
  <2>0. TypeOK /\ CallInv
    BY <1>2 DEF Inv
  <2>1. SUFFICES ASSUME NEW r \in Requests, NEW q \in Requests, r # q,
                        Answered(req'[r]), Answered(req'[q]),
                        SameCounter(req'[r], req'[q])
                 PROVE  req'[r].number # req'[q].number
    BY DEF OwnNumber
  <2>2. CASE Answered(req[r]) /\ Answered(req[q])
    <3>1. req'[r] = req[r] /\ req'[q] = req[q]
      BY <1>2, <2>0, <2>2, Stays
    <3> QED BY <1>2, <2>1, <2>2, <3>1 DEF OwnNumber
  <2>3. CASE ~Answered(req[r]) /\ Answered(req[q])
    <3>1. req'[q] = req[q]
      BY <1>2, <2>0, <2>3, Stays
    <3> QED BY <1>2, <2>1, <2>3, <3>1, Fresh
  <2>4. CASE Answered(req[r]) /\ ~Answered(req[q])
    <3>1. req'[r] = req[r]
      BY <1>2, <2>0, <2>4, Stays
    <3>2. SameCounter(req'[q], req[r])
      BY <2>1, <3>1 DEF SameCounter
    <3> QED BY <1>2, <2>1, <2>4, <3>1, <3>2, Fresh
  <2>5. CASE ~Answered(req[r]) /\ ~Answered(req[q])
    BY <1>2, <2>1, <2>5, OneAnswer
  <2> QED BY <2>2, <2>3, <2>4, <2>5
<1> QED BY <1>1, <1>2, Always, PTL DEF Spec

\* A request is rejected only when its counter is full.
THEOREM RejectedForCause == Spec => []RejectedOnlyWhenFull
<1>1. Init => RejectedOnlyWhenFull
  BY DEF Init, RejectedOnlyWhenFull, Idle
<1>2. ASSUME Inv, [Next]_vars, RejectedOnlyWhenFull
      PROVE  RejectedOnlyWhenFull'
  <2>0. TypeOK /\ CallInv /\ RedisInv /\ LocalInv
    BY <1>2 DEF Inv
  <2>1. SUFFICES ASSUME NEW r \in Requests, req'[r].pc = "rejected"
                 PROVE  \/ \A n \in 1 .. Limit : \E q \in Requests :
                             /\ req'[q].pc = "admitted"
                             /\ SameCounter(req'[q], req'[r])
                             /\ req'[q].number = n
                        \/ /\ req'[r].by = "redis"
                           /\ \E q \in Requests :
                                req'[q].key = req'[r].key /\ CountedInVain(req'[q])
    BY DEF RejectedOnlyWhenFull
  <2>2. \A q \in Requests : req[q].pc = "admitted" => req'[q] = req[q]
    BY <1>2, <2>0, Stays DEF Answered
  <2>3. ASSUME NEW q \in Requests, CountedInVain(req[q]), RedisEnabled
        PROVE  CountedInVain(req'[q]) /\ req'[q].key = req[q].key
    BY <1>2, <2>0, <2>3, Stays
  <2>4. CASE Answered(req[r])
    <3>1. req'[r] = req[r]
      BY <1>2, <2>0, <2>4, Stays
    <3>2. \/ \A n \in 1 .. Limit : \E q \in Requests :
               req[q].pc = "admitted" /\ SameCounter(req[q], req[r]) /\ req[q].number = n
          \/ /\ req[r].by = "redis"
             /\ \E q \in Requests : req[q].key = req[r].key /\ CountedInVain(req[q])
      BY <1>2, <2>1, <3>1 DEF RejectedOnlyWhenFull
    <3>3. req[r].by = "redis" => RedisEnabled
      BY <2>0 DEF CallInv
    <3> QED BY <2>2, <2>3, <3>1, <3>2, <3>3
  <2>5. CASE ~Answered(req[r]) /\ Increment(r)
    <3>1. PICK c \in Request :
            /\ req[r].pc = "redis" /\ req[r].key \in Keys /\ req[r].window \in Minutes
            /\ req' = [req EXCEPT ![r] = c]
            /\ Answered(c) /\ c.by = "redis"
            /\ c.window = req[r].window /\ c.key = req[r].key
            /\ c.number = redis[req[r].window][req[r].key].count + 1
            /\ redis[req[r].window][req[r].key].count \in Nat
            /\ c.pc = "admitted" <=> c.number <= Limit
      BY <2>0, <2>5, IncrementIs, ZenonT(30)
    <3>2. req'[r] = c
      BY <2>0, <3>1 DEF TypeOK
    <3>3. PICK m \in Minutes, k \in Keys : m = req[r].window /\ k = req[r].key
      BY <3>1
    <3>4. redis[m][k].count >= Limit /\ redis[m][k].count \in Nat
      <4>1. ~(c.number <= Limit)
        BY <2>1, <3>1, <3>2
      <4> QED BY <3>1, <3>3, <4>1, Numbers
    <3>5. CASE \A n \in 1 .. redis[m][k].count : \E q \in Requests : OfRedis(q, m, k, n)
      <4>1. ASSUME NEW n \in 1 .. Limit
            PROVE  \E q \in Requests :
                     /\ req'[q].pc = "admitted"
                     /\ SameCounter(req'[q], req'[r])
                     /\ req'[q].number = n
        <5>1. n \in 1 .. redis[m][k].count
          BY <3>4, Numbers
        <5>2. PICK q \in Requests : OfRedis(q, m, k, n)
          BY <3>5, <5>1
        <5>3. req[q].pc = "admitted" /\ req[q].number = n
          BY <2>0, <5>2, Numbers DEF OfRedis, CallInv
        <5>4. req'[q] = req[q]
          BY <2>2, <5>3
        <5> QED BY <3>1, <3>2, <3>3, <5>2, <5>3, <5>4 DEF OfRedis, SameCounter
      <4> QED BY <4>1
    <3>6. CASE InVain(k)
      <4>1. RedisEnabled
        BY <2>0, <3>1 DEF CallInv
      <4> QED BY <2>3, <3>1, <3>2, <3>3, <3>6, <4>1 DEF InVain
    <3> QED BY <2>0, <3>5, <3>6 DEF RedisInv
  <2>6. CASE ~Answered(req[r]) /\ IncrementLocal(r)
    <3>1. PICK c \in Request :
            /\ req[r].key \in Keys /\ req[r].server \in up /\ req[r].server \in Servers
            /\ req' = [req EXCEPT ![r] = c]
            /\ Answered(c) /\ c.by = "local" /\ c.window = now /\ c.key = req[r].key
            /\ c.server = req[r].server
            /\ c.number = IF local[req[r].server][req[r].key].window = now
                          THEN local[req[r].server][req[r].key].count + 1 ELSE 1
            /\ c.pc = "admitted" <=> c.number <= Limit
      BY <2>0, <2>6, LocalCallIs, ZenonT(30)
    <3>2. req'[r] = c
      BY <2>0, <3>1 DEF TypeOK
    <3>3. PICK s \in up, k \in Keys : s = req[r].server /\ k = req[r].key
      BY <3>1
    <3>4. local[s][k].count \in Nat
      BY <2>0, <3>1, <3>3, BucketIs
    <3>5. local[s][k].window = now /\ local[s][k].count >= Limit
      <4>1. ~(c.number <= Limit)
        BY <2>1, <3>1, <3>2
      <4> QED BY <3>1, <3>3, <3>4, <4>1, Numbers
    <3>6. ASSUME NEW n \in 1 .. Limit
          PROVE  \E q \in Requests :
                   /\ req'[q].pc = "admitted"
                   /\ SameCounter(req'[q], req'[r])
                   /\ req'[q].number = n
      <4>1. n \in 1 .. local[s][k].count
        BY <3>4, <3>5, Numbers
      <4>2. PICK q \in Requests : OfLocal(q, s, k, n)
        BY <2>0, <3>5, <4>1 DEF LocalInv
      <4>3. req[q].pc = "admitted" /\ req[q].number = n
        BY <2>0, <4>2, Numbers DEF OfLocal, CallInv
      <4>4. req'[q] = req[q]
        BY <2>2, <4>3
      <4> QED BY <3>1, <3>2, <3>3, <4>2, <4>3, <4>4 DEF OfLocal, SameCounter
    <3> QED BY <3>6
  <2>7. Answered(req'[r])
    BY <2>1 DEF Answered
  <2> QED BY <1>2, <2>0, <2>4, <2>5, <2>6, <2>7, Stays
<1> QED BY <1>1, <1>2, Always, PTL DEF Spec

-----------------------------------------------------------------------------
(* The buckets count every request, and their number is bounded *)

\* The requests that server s has counted for client k in this minute.
Counted(s, k) ==
  {r \in Requests :
     /\ req[r].by = "local" /\ req[r].server = s
     /\ req[r].key = k /\ req[r].window = now}

\* They are the ones that hold a number of the bucket.
LEMMA CountedIs ==
  ASSUME TypeOK, CallInv, NEW s \in Servers, NEW k \in Keys, NEW q \in Requests
  PROVE  q \in Counted(s, k) <=> \E n \in Nat : OfLocal(q, s, k, n)
<1>1. req[q].number \in Nat /\ (req[q].by = "local" => Answered(req[q]))
  BY CallIs DEF CallInv
<1> QED BY <1>1 DEF Counted, OfLocal

\* The bucket of the current minute counts them, one by one.
CountInv ==
  \A s \in up, k \in Keys :
    /\ IsFiniteSet(Counted(s, k))
    /\ Cardinality(Counted(s, k)) =
         IF local[s][k].window = now THEN local[s][k].count ELSE 0

\* Every step keeps the count.
LEMMA CountStep ==
  ASSUME Inv, Inv', CountInv, [Next]_vars
  PROVE  CountInv'
<1>0. TypeOK /\ CallInv /\ TypeOK' /\ CallInv'
  BY DEF Inv
<1>1. SUFFICES ASSUME NEW s \in up', NEW k \in Keys
      PROVE  /\ IsFiniteSet(Counted(s, k)')
             /\ Cardinality(Counted(s, k)') =
                  IF local'[s][k].window = now' THEN local'[s][k].count ELSE 0
  BY DEF CountInv
<1>2. s \in up /\ s \in Servers
  BY <1>0, BucketStep
<1>3. /\ IsFiniteSet(Counted(s, k))
      /\ Cardinality(Counted(s, k)) =
           IF local[s][k].window = now THEN local[s][k].count ELSE 0
  BY <1>2 DEF CountInv
<1>4. local[s][k].window \in 0 .. now /\ local[s][k].count \in Nat /\ now \in Nat
  BY <1>0, <1>2, BucketIs, Numbers DEF TypeOK
<1>5. \A q \in Requests : /\ q \in Counted(s, k) <=> \E n \in Nat : OfLocal(q, s, k, n)
                          /\ q \in Counted(s, k)' <=> \E n \in Nat : OfLocal(q, s, k, n)'
  <2>1. \A q \in Requests : q \in Counted(s, k) <=> \E n \in Nat : OfLocal(q, s, k, n)
    BY <1>0, <1>2, CountedIs
  <2>2. ASSUME NEW q \in Requests
        PROVE  q \in Counted(s, k)' <=> \E n \in Nat : OfLocal(q, s, k, n)'
    <3>1. req'[q].number \in Nat /\ (req'[q].by = "local" => Answered(req'[q]))
      BY <1>0 DEF CallInv, TypeOK, Request
    <3> QED BY <3>1 DEF Counted, OfLocal
  <2> QED BY <2>1, <2>2
<1>6. Counted(s, k) \subseteq Requests /\ Counted(s, k)' \subseteq Requests
  BY DEF Counted
<1>7. CASE now' = now + 1 /\ local' = local /\ req' = req
  <2>1. \A q \in Requests : req[q].window <= now /\ req[q].window \in Nat
    BY <1>0, CallIs
  <2>2. Counted(s, k)' = {}
    BY <1>4, <1>7, <2>1 DEF Counted
  <2>3. local'[s][k].window # now'
    BY <1>4, <1>7
  <2> QED BY <2>2, <2>3, FS_EmptySet
<1>8. CASE /\ now' = now /\ local'[s][k] = local[s][k]
           /\ \A q \in Requests :
                ~(IncrementLocal(q) /\ req[q].server = s /\ req[q].key = k)
  <2>1. \A q \in Requests, n \in Nat : OfLocal(q, s, k, n)' <=> OfLocal(q, s, k, n)
    BY <1>0, <1>2, <1>8, LocalNumbers
  <2>2. Counted(s, k)' = Counted(s, k)
    BY <1>5, <1>6, <2>1
  <2> QED BY <1>3, <1>8, <2>2
<1>9. CASE /\ now' = now /\ local[s][k].window < now /\ local'[s][k] = NoBucket
           /\ \A q \in Requests :
                ~(IncrementLocal(q) /\ req[q].server = s /\ req[q].key = k)
  <2>1. \A q \in Requests, n \in Nat : OfLocal(q, s, k, n)' <=> OfLocal(q, s, k, n)
    BY <1>0, <1>2, <1>9, LocalNumbers
  <2>2. Counted(s, k)' = Counted(s, k)
    BY <1>5, <1>6, <2>1
  <2>3. local'[s][k].window # now' /\ local[s][k].window # now
    BY <1>4, <1>9 DEF NoBucket
  <2> QED BY <1>3, <2>2, <2>3
<1>10. CASE \E r \in Requests :
             /\ now' = now /\ local'[s][k].window = now
             /\ local'[s][k].count =
                  IF local[s][k].window = now THEN local[s][k].count + 1 ELSE 1
             /\ IncrementLocal(r) /\ req[r].server = s /\ req[r].key = k
             /\ \A q \in Requests : IncrementLocal(q) => q = r
  <2>1. PICK r \in Requests :
             /\ now' = now /\ local'[s][k].window = now
             /\ local'[s][k].count =
                  IF local[s][k].window = now THEN local[s][k].count + 1 ELSE 1
             /\ IncrementLocal(r) /\ req[r].server = s /\ req[r].key = k
             /\ \A q \in Requests : IncrementLocal(q) => q = r
    BY <1>10
  <2>2. \A q \in Requests \ {r}, n \in Nat : OfLocal(q, s, k, n)' <=> OfLocal(q, s, k, n)
    BY <1>0, <1>2, <2>1, LocalNumbers
  <2>3. r \notin Counted(s, k)
    <3>1. ~Answered(req[r])
      BY <2>1 DEF IncrementLocal, Answered
    <3> QED BY <1>5, <3>1 DEF OfLocal
  <2>4. r \in Counted(s, k)'
    <3>1. PICK c \in Request :
            /\ req' = [req EXCEPT ![r] = c]
            /\ c.by = "local" /\ c.window = now /\ c.key = req[r].key
            /\ c.server = req[r].server
      BY <1>0, <2>1, LocalCallIs, ZenonT(30)
    <3>2. req'[r] = c
      BY <1>0, <3>1 DEF TypeOK
    <3> QED BY <2>1, <3>1, <3>2 DEF Counted
  <2>5. Counted(s, k)' = Counted(s, k) \cup {r}
    BY <1>5, <1>6, <2>2, <2>4
  <2>6. /\ IsFiniteSet(Counted(s, k)')
        /\ Cardinality(Counted(s, k)') = Cardinality(Counted(s, k)) + 1
    BY <1>3, <2>3, <2>5, FS_AddElement
  <2> QED BY <1>3, <1>4, <2>1, <2>6
<1> QED BY <1>0, <1>7, <1>8, <1>9, <1>10, BucketStep

\* Dropping expired buckets never loses a count that still matters.
THEOREM CountsKept == Spec => []CurrentCountKept
<1>1. Init => CountInv
  <2>1. SUFFICES ASSUME Init, NEW s \in up, NEW k \in Keys
                 PROVE  /\ IsFiniteSet(Counted(s, k))
                        /\ Cardinality(Counted(s, k)) =
                             IF local[s][k].window = now THEN local[s][k].count ELSE 0
    BY DEF CountInv
  <2>2. Counted(s, k) = {}
    BY <2>1 DEF Init, Counted, Idle
  <2>3. local[s][k].count = 0
    BY <2>1 DEF Init, NoBucket
  <2> QED BY <2>2, <2>3, FS_EmptySet
<1>2. Inv /\ Inv' /\ CountInv /\ [Next]_vars => CountInv'
  BY CountStep
<1>3. CountInv => CurrentCountKept
  BY DEF CountInv, CurrentCountKept, Counted
<1> QED BY <1>1, <1>2, <1>3, Always, PTL DEF Spec

\* Few clients are tracked, or only those of one minute.
MapInv ==
  \A s \in Servers :
    /\ IsFiniteSet(Tracked(s))
    /\ \/ Cardinality(Tracked(s)) <= CleanupAt
       \/ \A j, k \in Tracked(s) : local[s][j].window = local[s][k].window

\* Every step keeps it so: a count below the threshold adds one client, one
\* above drops those of the past.
LEMMA MapStep ==
  ASSUME TypeOK, MapInv, [Next]_vars
  PROVE  MapInv'
<1>1. SUFFICES ASSUME NEW s \in Servers
      PROVE  /\ IsFiniteSet(Tracked(s)')
             /\ \/ Cardinality(Tracked(s)') <= CleanupAt
                \/ \A j, k \in Tracked(s)' : local'[s][j].window = local'[s][k].window
  BY DEF MapInv
<1>2. /\ IsFiniteSet(Tracked(s))
      /\ \/ Cardinality(Tracked(s)) <= CleanupAt
         \/ \A j, k \in Tracked(s) : local[s][j].window = local[s][k].window
  BY DEF MapInv
<1>3. CASE local'[s] = local[s]
  <2>1. Tracked(s)' = Tracked(s)
    BY <1>3 DEF Tracked
  <2> QED BY <1>2, <1>3, <2>1
<1>4. CASE local'[s] = [k \in Keys |-> NoBucket]
  <2>1. Tracked(s)' = {}
    BY <1>4 DEF Tracked, NoBucket
  <2> QED BY <2>1, FS_EmptySet
<1>5. ASSUME NEW r \in Requests, IncrementLocal(r), req[r].server = s
      PROVE  /\ IsFiniteSet(Tracked(s)')
             /\ \/ Cardinality(Tracked(s)') <= CleanupAt
                \/ \A j, k \in Tracked(s)' : local'[s][j].window = local'[s][k].window
  <2>1. PICK k \in Keys : k = req[r].key
    BY <1>5, LocalIs
  <2>2. /\ local'[s][k].window = now
        /\ \A j \in Keys \ {k} : local'[s][j] = Cleaned(s)[j]
    BY <1>5, <2>1, LocalIs
  <2>3. Tracked(s)' \subseteq Tracked(s) \cup {k}
    <3>1. SUFFICES ASSUME NEW j \in Keys \ {k}, local'[s][j].count > 0
                   PROVE  local[s][j].count > 0
      BY DEF Tracked
    <3>2. Cleaned(s)[j] = local[s][j] \/ Cleaned(s)[j] = NoBucket
      BY CleanedIs
    <3> QED BY <2>2, <3>1, <3>2 DEF NoBucket
  <2>4. /\ IsFiniteSet(Tracked(s) \cup {k})
        /\ Cardinality(Tracked(s) \cup {k}) <= Cardinality(Tracked(s)) + 1
    <3>1. Cardinality(Tracked(s)) \in Nat
      BY <1>2, FS_CardinalityType
    <3>2. /\ IsFiniteSet(Tracked(s) \cup {k})
          /\ Cardinality(Tracked(s) \cup {k}) =
               IF k \in Tracked(s) THEN Cardinality(Tracked(s))
               ELSE Cardinality(Tracked(s)) + 1
      BY <1>2, FS_AddElement
    <3> QED BY <3>1, <3>2
  <2>5. /\ IsFiniteSet(Tracked(s)')
        /\ Cardinality(Tracked(s)') <= Cardinality(Tracked(s) \cup {k})
    BY <2>3, <2>4, FS_Subset
  <2>6. CASE Cardinality(Tracked(s)) < CleanupAt
    <3>1. /\ Cardinality(Tracked(s)) \in Nat /\ Cardinality(Tracked(s)') \in Nat
          /\ Cardinality(Tracked(s) \cup {k}) \in Nat
      BY <1>2, <2>4, <2>5, FS_CardinalityType
    <3> QED BY <2>4, <2>5, <2>6, <3>1, Numbers
  <2>7. CASE ~(Cardinality(Tracked(s)) < CleanupAt)
    <3>1. \A j \in Keys \ {k} : Cleaned(s)[j] = NoBucket \/ Cleaned(s)[j].window = now
      BY <2>7, CleanedIs
    <3>2. \A j \in Tracked(s)' : local'[s][j].window = now
      BY <2>2, <3>1 DEF Tracked, NoBucket
    <3> QED BY <2>5, <3>2
  <2> QED BY <2>6, <2>7
<1>6. ASSUME NEW r \in Requests, IncrementLocal(r), req[r].server # s
      PROVE  local'[s] = local[s]
  BY <1>6 DEF IncrementLocal, TypeOK
<1>7. ASSUME NEW z \in Servers, Stop(z)
      PROVE  local'[s] = local[s] \/ local'[s] = [k \in Keys |-> NoBucket]
  BY <1>7 DEF Stop, TypeOK
<1>8. CASE \/ Tick \/ UNCHANGED vars
           \/ \E r \in Requests :
                Arrive(r) \/ Increment(r) \/ Resend(r) \/ IncrementFails(r)
           \/ \E m \in Minutes, j \in Keys : Expire(m, j)
  <2>1. local' = local
    BY <1>8 DEF Tick, vars, Arrive, Increment, Resend, IncrementFails, Expire
  <2> QED BY SMTT(60), <1>3, <2>1
<1> QED BY <1>3, <1>4, <1>5, <1>6, <1>7, <1>8 DEF Next, Handle

\* A server tracks more clients than the threshold only if all are clients of
\* one minute.
THEOREM MapStaysBounded == Spec => []MapBounded
<1>1. Init => MapInv
  <2>1. SUFFICES ASSUME Init, NEW s \in Servers
                 PROVE  Tracked(s) = {}
    BY FS_EmptySet DEF MapInv
  <2> QED BY <2>1 DEF Init, Tracked, NoBucket
<1>2. TypeOK /\ MapInv /\ [Next]_vars => MapInv'
  BY MapStep
<1>3. MapInv => MapBounded
  BY DEF MapInv, MapBounded
<1> QED BY <1>1, <1>2, <1>3, TypeCorrect, PTL DEF Spec

=============================================================================
