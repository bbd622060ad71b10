------------------------------- MODULE Startup -------------------------------
(***************************************************************************)
(* The start of a server: connect to the database with retries, migrate,   *)
(* seed each empty table, ping Redis, serve.  Several servers may start at *)
(* once, be killed and started again, or lose the database on the way;     *)
(* users of a serving one create and delete records meanwhile.             *)
(*                                                                         *)
(*   open --> ping --> migrate --> create --> count --> insert --> redis   *)
(*    ^        |                                ^          |         |     *)
(*    +- wait -+ pingAgain                      +- next ---+      serving  *)
(*                                                                         *)
(* Tables are numbered in the order of Seed: the users first, the priority *)
(* decisions last.  Codes 1 .. SeedCount of a table are its seeds, Extra   *)
(* is a code only users create.                                            *)
(***************************************************************************)
EXTENDS Naturals, FiniteSets

CONSTANTS
  Servers,
  TableCount,
  SeedCount,
  MaxAttempts,
  MaxFaults     \* bound on kills, outages and expired start contexts together

ASSUME StartupAssumption ==
  /\ TableCount \in Nat /\ TableCount >= 2
  /\ SeedCount \in Nat \ {0}
  /\ MaxAttempts \in Nat \ {0}
  /\ MaxFaults \in Nat

VARIABLES
  reachable,  \* which of the database and Redis answer
  schema,     \* whether the tables exist
  store,      \* the rows by table and code, and the decisions with revisions
  proc,       \* per server, its place in the start and its local variables
  faults

vars == <<reachable, schema, store, proc, faults>>

Tables == 1 .. TableCount
UserTable == 1
Decisions == TableCount
Seeds == 1 .. SeedCount
Extra == SeedCount + 1
Codes == 1 .. Extra
Backends == {"db", "redis"}

Starting == [pc |-> "open", attempt |-> 1, failed |-> FALSE, table |-> 1, open |-> 0]

Init ==
  /\ reachable = Backends
  /\ schema = FALSE
  /\ store = [rows |-> [t \in Tables |-> [i \in Codes |-> "absent"]], revised |-> {}]
  /\ proc = [s \in Servers |-> Starting]
  /\ faults = 0

-----------------------------------------------------------------------------
(* Errors end the process; an open transaction is rolled back with it *)

\* Mutant: the transaction stays open.
Exited_Open(call) == [call EXCEPT !.pc = "exited"]

Exited(call) == [call EXCEPT !.pc = "exited", !.open = 0]

\* INSERT 2i - 1 of the transaction adds decision i, INSERT 2i its revisions.
Inserted(s, i) == i \in Seeds /\ proc[s].open >= 2 * i - 1

WithInserted(s) ==
  [rows |-> [store.rows EXCEPT ![Decisions] =
               [i \in Codes |-> IF Inserted(s, i) THEN "live" ELSE @[i]]],
   revised |-> store.revised \cup {i \in Seeds : proc[s].open >= 2 * i}]

\* Mutant: the decisions are seeded without a transaction.
RolledBack_Kept(s) == WithInserted(s)

RolledBack(s) == store

Exit(s) ==
  /\ proc' = [proc EXCEPT ![s] = Exited(@)]
  /\ store' = RolledBack(s)
  /\ UNCHANGED <<reachable, schema, faults>>

\* The server goes on at another place.
Goto(s, pc) ==
  /\ proc' = [proc EXCEPT ![s].pc = pc]
  /\ UNCHANGED <<reachable, schema, store, faults>>

At(s, pc) == proc[s].pc = pc

-----------------------------------------------------------------------------
(* Open: the connect loop *)

\* gorm.Open pings once itself.
OpenDatabase(s) ==
  /\ At(s, "open")
  /\ \/ "db" \in reachable /\ Goto(s, "ping")
     \/ /\ "db" \notin reachable
        /\ proc' = [proc EXCEPT ![s].pc = "wait", ![s].failed = TRUE]
        /\ UNCHANGED <<reachable, schema, store, faults>>

Ping(s) ==
  /\ At(s, "ping")
  /\ Goto(s, IF "db" \in reachable THEN "migrate" ELSE "pingAgain")

\* A second ping gives the error; answered, it leaves none, and still no break.
PingAgain(s) ==
  /\ At(s, "pingAgain")
  /\ proc' = [proc EXCEPT ![s].pc = "wait", ![s].failed = "db" \notin reachable]
  /\ UNCHANGED <<reachable, schema, store, faults>>

Retry(s) ==
  /\ At(s, "wait")
  /\ \/ /\ proc[s].attempt < MaxAttempts
        /\ proc' = [proc EXCEPT ![s].pc = "open", ![s].attempt = @ + 1]
        /\ UNCHANGED <<reachable, schema, store, faults>>
     \/ /\ proc[s].attempt = MaxAttempts
        /\ IF proc[s].failed THEN Exit(s) ELSE Goto(s, "migrate")

-----------------------------------------------------------------------------
(* migrate: AutoMigrate looks for each table and creates those it misses *)

Migrate(s) ==
  /\ At(s, "migrate")
  /\ IF "db" \in reachable
     THEN Goto(s, IF schema THEN "count" ELSE "create")
     ELSE Exit(s)

\* CREATE TABLE of a table that another server has just created is an error.
CreateTables(s) ==
  /\ At(s, "create")
  /\ IF "db" \in reachable /\ ~schema
     THEN /\ schema' = TRUE
          /\ proc' = [proc EXCEPT ![s].pc = "count"]
          /\ UNCHANGED <<reachable, store, faults>>
     ELSE Exit(s)

-----------------------------------------------------------------------------
(* Seed *)

Live(t) == {i \in Codes : store.rows[t][i] = "live"}

\* Mutant: the table is seeded without counting its rows.
NeedsSeeds_Always(t) == TRUE

\* Count leaves out the soft-deleted rows.
NeedsSeeds(t) == Live(t) = {}

\* Mutant: a table that has rows ends the whole of Seed.
Following_None(t) == TableCount + 1

Following(t) == t + 1

\* The place after table t is seeded or found filled.
Advanced(call) ==
  LET t == Following(call.table)
  IN  [call EXCEPT !.pc = IF t \in Tables THEN "count" ELSE "redis",
                   !.table = IF t \in Tables THEN t ELSE 1,
                   !.open = 0]

Count(s) ==
  /\ At(s, "count")
  /\ \/ "db" \notin reachable /\ Exit(s)
     \/ "db" \in reachable /\ NeedsSeeds(proc[s].table) /\ Goto(s, "insert")
     \/ /\ "db" \in reachable /\ ~NeedsSeeds(proc[s].table)
        /\ proc' = [proc EXCEPT ![s] = Advanced(@)]
        /\ UNCHANGED <<reachable, schema, store, faults>>

\* Mutant: the unique index leaves out the soft-deleted rows.
Taken_Live(t, i) == store.rows[t][i] = "live"

\* The unique index on code holds the soft-deleted rows too.
Taken(t, i) == store.rows[t][i] # "absent"

\* The users and the three record tables: one INSERT of all seeds.
InsertAll(s) ==
  LET t == proc[s].table
  IN  /\ At(s, "insert") /\ t # Decisions
      /\ IF "db" \notin reachable \/ \E i \in Seeds : Taken(t, i)
         THEN Exit(s)
         ELSE /\ store' = [store EXCEPT !.rows[t] =
                             [i \in Codes |-> IF i \in Seeds THEN "live" ELSE @[i]]]
              /\ proc' = [proc EXCEPT ![s] = Advanced(@)]
              /\ UNCHANGED <<reachable, schema, faults>>

\* The next INSERT of the transaction; it waits for a transaction that has
\* inserted the same code.
InsertNext(s) ==
  LET n == proc[s].open + 1
      i == (n + 1) \div 2
  IN  /\ At(s, "insert") /\ proc[s].table = Decisions
      /\ n <= 2 * SeedCount
      /\ \A q \in Servers \ {s} : ~Inserted(q, i)
      /\ IF "db" \notin reachable \/ (n % 2 = 1 /\ Taken(Decisions, i))
         THEN Exit(s)
         ELSE /\ proc' = [proc EXCEPT ![s].open = n]
              /\ UNCHANGED <<reachable, schema, store, faults>>

Commit(s) ==
  /\ At(s, "insert") /\ proc[s].table = Decisions
  /\ proc[s].open = 2 * SeedCount
  /\ IF "db" \notin reachable
     THEN Exit(s)
     ELSE /\ store' = WithInserted(s)
          /\ proc' = [proc EXCEPT ![s] = Advanced(@)]
          /\ UNCHANGED <<reachable, schema, faults>>

PingRedis(s) ==
  /\ At(s, "redis")
  /\ IF "redis" \in reachable THEN Goto(s, "serving") ELSE Exit(s)

-----------------------------------------------------------------------------
(* The surroundings *)

\* restart: unless-stopped
Restart(s) ==
  /\ At(s, "exited")
  /\ proc' = [proc EXCEPT ![s] = Starting]
  /\ UNCHANGED <<reachable, schema, store, faults>>

\* A kill or stop at any place, or the start context that expires while it waits.
Kill(s) ==
  /\ faults < MaxFaults
  /\ ~At(s, "exited")
  /\ faults' = faults + 1
  /\ proc' = [proc EXCEPT ![s] = Exited(@)]
  /\ store' = RolledBack(s)
  /\ UNCHANGED <<reachable, schema>>

Outage(b) ==
  /\ faults < MaxFaults
  /\ b \in reachable
  /\ faults' = faults + 1
  /\ reachable' = reachable \ {b}
  /\ UNCHANGED <<schema, store, proc>>

Recover(b) ==
  /\ b \notin reachable
  /\ reachable' = reachable \cup {b}
  /\ UNCHANGED <<schema, store, proc, faults>>

Serving == "db" \in reachable /\ \E s \in Servers : At(s, "serving")

UserCreates(t) ==
  /\ Serving /\ t # UserTable
  /\ ~Taken(t, Extra)
  /\ store' = [store EXCEPT !.rows[t][Extra] = "live"]
  /\ UNCHANGED <<reachable, schema, proc, faults>>

\* Any record, but of the decisions only drafts: the first seed is one, and so
\* is a new decision.
UserDeletes(t, i) ==
  /\ Serving /\ t # UserTable
  /\ t = Decisions => i \in {1, Extra}
  /\ store.rows[t][i] = "live"
  /\ store' = [store EXCEPT !.rows[t][i] = "deleted"]
  /\ UNCHANGED <<reachable, schema, proc, faults>>

Start(s) ==
  \/ OpenDatabase(s) \/ Ping(s) \/ PingAgain(s) \/ Retry(s)
  \/ Migrate(s) \/ CreateTables(s)
  \/ Count(s) \/ InsertAll(s) \/ InsertNext(s) \/ Commit(s)
  \/ PingRedis(s)

Next ==
  \/ \E s \in Servers : Start(s) \/ Restart(s) \/ Kill(s)
  \/ \E b \in Backends : Outage(b) \/ Recover(b)
  \/ \E t \in Tables : UserCreates(t)
  \/ \E t \in Tables, i \in Codes : UserDeletes(t, i)

Fairness ==
  /\ \A s \in Servers : WF_vars(Start(s)) /\ WF_vars(Restart(s))
  /\ \A b \in Backends : WF_vars(Recover(b))

Spec == Init /\ [][Next]_vars

FairSpec == Spec /\ Fairness

-----------------------------------------------------------------------------
(* Properties *)

Process ==
  [pc : {"open", "ping", "pingAgain", "wait", "migrate", "create", "count",
         "insert", "redis", "serving", "exited"},
   attempt : 1 .. MaxAttempts, failed : BOOLEAN, table : Tables,
   open : 0 .. 2 * SeedCount]

\* Every variable has its type, and a transaction is open only while decisions
\* are being seeded.
TypeOK ==
  /\ reachable \subseteq Backends
  /\ schema \in BOOLEAN
  /\ store \in [rows : [Tables -> [Codes -> {"absent", "live", "deleted"}]],
                revised : SUBSET Seeds]
  /\ proc \in [Servers -> Process]
  /\ \A s \in Servers :
       proc[s].open > 0 => At(s, "insert") /\ proc[s].table = Decisions
  /\ faults \in 0 .. MaxFaults

\* A server answers requests only when every table has been seeded, however
\* earlier starts were cut short between two tables (Seed).
ServingSeeded ==
  (\E s \in Servers : At(s, "serving")) =>
    \A t \in Tables, i \in Seeds : store.rows[t][i] # "absent"

\* The seeds of a table are stored all or none, and a decision is there exactly
\* when its revisions are: the states the write handlers start from
\* (seedPriorityDecision's transaction).
SeededWhole ==
  \A t \in Tables :
    LET stored == {i \in Seeds : store.rows[t][i] # "absent"}
    IN  /\ stored \in {{}, Seeds}
        /\ t = Decisions => store.revised = stored

\* No start brings back a record that a user has deleted.
NotResurrected ==
  [][\A t \in Tables, i \in Codes :
       store.rows[t][i] = "deleted" => store'.rows[t][i] = "deleted"]_vars

\* Seeded once and since without a record; the next start fails on the index.
Emptied(t) == Live(t) = {} /\ \E i \in Codes : store.rows[t][i] = "deleted"

\* Servers that start together, are killed half-way or lose the database come
\* up in the end, unless some table stays emptied (Open, restart policy).
StartsUp ==
  <>[](\A t \in Tables : ~Emptied(t)) => <>[](\A s \in Servers : At(s, "serving"))

=============================================================================
