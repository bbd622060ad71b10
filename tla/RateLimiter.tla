----------------------------- MODULE RateLimiter -----------------------------
(***************************************************************************)
(* The request limiter: a counter per client and route and minute, kept in *)
(* Redis for all servers together, and in a map of its own by each server  *)
(* whenever Redis is disabled or does not answer.                          *)
(*                                                                         *)
(*   idle --> redis --(INCR answered)--> admitted or rejected              *)
(*              |                              ^                           *)
(*              +--(error)--> local --(mutex)--+                           *)
(*                                                                         *)
(* Time is counted in minutes, the windows of the limiter.  A process that *)
(* is started again is another server: it starts with an empty map.        *)
(***************************************************************************)
EXTENDS Naturals, FiniteSets

CONSTANTS
  Requests,
  Servers,
  Keys,          \* client address and route
  Limit,
  CleanupAt,     \* number of tracked keys from which expired ones are dropped
  RedisEnabled,
  MaxRetries,    \* how often the Redis client sends a command again
  MaxMinute,     \* bound on the clock
  None

ASSUME LimiterAssumption ==
  /\ Limit \in Nat \ {0} /\ CleanupAt \in Nat \ {0}
  /\ MaxRetries \in Nat /\ MaxMinute \in Nat
  /\ RedisEnabled \in BOOLEAN
  /\ None \notin Servers \cup Keys

VARIABLES
  now,    \* the current minute
  up,     \* the servers that are running
  redis,  \* per minute and key, the Redis counter and the minute it expires
  local,  \* per server, its map of buckets
  req     \* per request, the middleware's place and its local variables

vars == <<now, up, redis, local, req>>

Minutes == 0 .. MaxMinute

\* No key; reading one in the map gives the same zero value.
NoCounter == [count |-> 0, expires |-> 0]
NoBucket == [window |-> 0, count |-> 0]

Idle ==
  [pc |-> "idle", server |-> None, key |-> None, window |-> 0, tries |-> 0,
   by |-> "none", number |-> 0]

Init ==
  /\ now = 0
  /\ up = Servers
  /\ redis = [m \in Minutes |-> [k \in Keys |-> NoCounter]]
  /\ local = [s \in Servers |-> [k \in Keys |-> NoBucket]]
  /\ req = [r \in Requests |-> Idle]

-----------------------------------------------------------------------------

\* Mutant: the request that reaches the limit is rejected.
Decided_AtLimit(call, by, window, number) ==
  [call EXCEPT !.pc = IF number >= Limit THEN "rejected" ELSE "admitted",
               !.by = by, !.window = window, !.number = number]

\* The middleware's verdict on the number a counter gave it.
Decided(call, by, window, number) ==
  [call EXCEPT !.pc = IF number > Limit THEN "rejected" ELSE "admitted",
               !.by = by, !.window = window, !.number = number]

\* The Redis key is built from the clock before the command is sent.
Arrive(r) ==
  /\ req[r].pc = "idle"
  /\ \E s \in up, k \in Keys :
       req' = [req EXCEPT ![r] =
                 [Idle EXCEPT !.pc = IF RedisEnabled THEN "redis" ELSE "local",
                              !.server = s, !.key = k, !.window = now]]
  /\ UNCHANGED <<now, up, redis, local>>

\* Mutant: the key lives for the rest of its own minute.
TimeToLive_OneMinute(t) == t + 1

\* EXPIRE two minutes, of the minute it is sent.
TimeToLive(t) == t + 2

\* MULTI, INCR, EXPIRE, EXEC: one step for Redis.
Count(call) ==
  redis' = [redis EXCEPT ![call.window][call.key] =
              [count |-> @.count + 1, expires |-> TimeToLive(now)]]

Increment(r) ==
  LET call == req[r]
      number == redis[call.window][call.key].count + 1
  IN  /\ call.pc = "redis"
      /\ Count(call)
      /\ req' = [req EXCEPT ![r] = Decided(call, "redis", call.window, number)]
      /\ UNCHANGED <<now, up, local>>

\* The answer is lost on the way and the client library sends again.
Resend(r) ==
  /\ req[r].pc = "redis"
  /\ req[r].tries < MaxRetries
  /\ Count(req[r])
  /\ req' = [req EXCEPT ![r].tries = @ + 1]
  /\ UNCHANGED <<now, up, local>>

\* Any error sends the request to the local map, counted in Redis or not.
IncrementFails(r) ==
  /\ req[r].pc = "redis"
  /\ \/ UNCHANGED redis
     \/ Count(req[r])
  /\ req' = [req EXCEPT ![r].pc = "local"]
  /\ UNCHANGED <<now, up, local>>

Tracked(s) == {k \in Keys : local[s][k].count > 0}

\* Mutant: every bucket is dropped.
Cleaned_All(s) ==
  IF Cardinality(Tracked(s)) < CleanupAt THEN local[s]
  ELSE [k \in Keys |-> NoBucket]

\* Mutant: buckets of the current window are the ones dropped.
Cleaned_NoneExpired(s) ==
  IF Cardinality(Tracked(s)) < CleanupAt THEN local[s]
  ELSE [k \in Keys |-> IF local[s][k].window > now THEN NoBucket ELSE local[s][k]]

\* cleanupLocal
Cleaned(s) ==
  IF Cardinality(Tracked(s)) < CleanupAt THEN local[s]
  ELSE [k \in Keys |-> IF local[s][k].window < now THEN NoBucket ELSE local[s][k]]

\* Mutant: the bucket is labelled with the end of its window.
Incremented_ByEnd(bucket) ==
  [window |-> now + 1, count |-> IF bucket.window = now + 1 THEN bucket.count + 1 ELSE 1]

Incremented(bucket) ==
  [window |-> now, count |-> IF bucket.window = now THEN bucket.count + 1 ELSE 1]

\* incrementLocal, under the mutex; the clock is read inside it.
IncrementLocal(r) ==
  LET call == req[r]
      kept == Cleaned(call.server)
      bucket == Incremented(kept[call.key])
  IN  /\ call.pc = "local"
      /\ local' = [local EXCEPT ![call.server] = [kept EXCEPT ![call.key] = bucket]]
      /\ req' = [req EXCEPT ![r] = Decided(call, "local", bucket.window, bucket.count)]
      /\ UNCHANGED <<now, up, redis>>

-----------------------------------------------------------------------------
(* The clock, Redis and the processes *)

\* The time limits of the Redis client are seconds: no request waits for Redis
\* through a whole minute.
Tick ==
  /\ now < MaxMinute
  /\ \A r \in Requests : req[r].pc = "redis" => req[r].window = now
  /\ now' = now + 1
  /\ UNCHANGED <<up, redis, local, req>>

Expire(m, k) ==
  /\ redis[m][k].count > 0
  /\ now >= redis[m][k].expires
  /\ redis' = [redis EXCEPT ![m][k] = NoCounter]
  /\ UNCHANGED <<now, up, local, req>>

\* The process ends, and its map with it; its requests get no answer.
Stop(s) ==
  /\ s \in up
  /\ up' = up \ {s}
  /\ local' = [local EXCEPT ![s] = [k \in Keys |-> NoBucket]]
  /\ req' = [r \in Requests |->
               IF req[r].server = s /\ req[r].pc \in {"redis", "local"}
               THEN [req[r] EXCEPT !.pc = "gone"] ELSE req[r]]
  /\ UNCHANGED <<now, redis>>

Handle(r) ==
  Arrive(r) \/ Increment(r) \/ Resend(r) \/ IncrementFails(r) \/ IncrementLocal(r)

Next ==
  \/ \E r \in Requests : Handle(r)
  \/ Tick
  \/ \E m \in Minutes, k \in Keys : Expire(m, k)
  \/ \E s \in Servers : Stop(s)

Spec == Init /\ [][Next]_vars

-----------------------------------------------------------------------------
(* Properties *)

Request ==
  [pc : {"idle", "redis", "local", "admitted", "rejected", "gone"},
   server : Servers \cup {None}, key : Keys \cup {None}, window : Minutes,
   tries : 0 .. MaxRetries, by : {"none", "redis", "local"}, number : Nat]

\* Every variable has its type, no window lies in the future, and a request
\* under way has a running server.
TypeOK ==
  /\ now \in Minutes
  /\ up \subseteq Servers
  /\ redis \in [Minutes -> [Keys -> [count : Nat, expires : Nat]]]
  /\ local \in [Servers -> [Keys -> [window : 0 .. now, count : Nat]]]
  /\ req \in [Requests -> Request]
  /\ \A r \in Requests :
       /\ req[r].window <= now
       /\ req[r].pc \in {"redis", "local"} => req[r].server \in up /\ req[r].key \in Keys

Answered(call) == call.pc \in {"admitted", "rejected"}

SameCounter(a, b) ==
  /\ a.by = b.by /\ a.window = b.window /\ a.key = b.key
  /\ a.by = "local" => a.server = b.server

\* No two requests are given the same number by one counter, whatever expires,
\* is dropped or fails: a counter admits at most Limit requests of a client per
\* minute (increment, incrementLocal).
OwnNumber ==
  \A r, q \in Requests :
    /\ r # q
    /\ Answered(req[r]) /\ Answered(req[q])
    /\ SameCounter(req[r], req[q])
    => req[r].number # req[q].number

\* Redis may have counted the request without the server having its number.
CountedInVain(call) ==
  call.tries > 0 \/ call.pc \in {"local", "gone"} \/ (RedisEnabled /\ call.by = "local")

\* A request is rejected only where its counter has admitted Limit others in
\* that minute; a Redis counter may also have been used up in vain.
RejectedOnlyWhenFull ==
  \A r \in Requests :
    req[r].pc = "rejected" =>
      \/ \A n \in 1 .. Limit : \E q \in Requests :
           /\ req[q].pc = "admitted"
           /\ SameCounter(req[q], req[r])
           /\ req[q].number = n
      \/ /\ req[r].by = "redis"
         /\ \E q \in Requests : req[q].key = req[r].key /\ CountedInVain(req[q])

\* Dropping expired buckets never loses a count that still matters: a running
\* server's bucket of the current minute has counted every request of it.
CurrentCountKept ==
  \A s \in up, k \in Keys :
    LET counted == {r \in Requests :
                      /\ req[r].by = "local" /\ req[r].server = s
                      /\ req[r].key = k /\ req[r].window = now}
        bucket == local[s][k]
    IN  Cardinality(counted) = IF bucket.window = now THEN bucket.count ELSE 0

\* The map outgrows CleanupAt only by clients of one single minute.
MapBounded ==
  \A s \in Servers :
    \/ Cardinality(Tracked(s)) <= CleanupAt
    \/ \A j, k \in Tracked(s) : local[s][j].window = local[s][k].window

=============================================================================
