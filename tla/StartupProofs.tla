----------------------------- MODULE StartupProofs -----------------------------
(***************************************************************************)
(* Theorems about Startup, for any servers, tables, seeds, attempts and    *)
(* faults.                                                                 *)
(***************************************************************************)
EXTENDS Startup, TLAPS

-----------------------------------------------------------------------------
(* Type correctness *)

\* The steps of one server, started by it, its supervisor or its surroundings.
ServerStep(s) == Start(s) \/ Restart(s) \/ Kill(s)

\* Where a server can be.
Places ==
  {"open", "ping", "pingAgain", "wait", "migrate", "create", "count", "insert",
   "redis", "serving", "exited"}

\* A server's locals are typed, and a transaction is open only where decisions
\* are inserted.
Local(p) ==
  /\ p \in Process
  /\ p.open > 0 => p.pc = "insert" /\ p.table = Decisions

\* The tables are there to be numbered.
LEMMA Numbers ==
  /\ 1 \in Tables /\ Decisions \in Tables /\ Seeds \subseteq Codes /\ Extra \in Codes
  /\ Extra \notin Seeds /\ 1 \in Seeds /\ TableCount \in Nat /\ SeedCount \in Nat
  /\ MaxAttempts \in Nat \ {0} /\ MaxFaults \in Nat
  BY StartupAssumption DEF Tables, Decisions, Seeds, Codes, Extra

\* A server's locals stay typed when one of them takes a value it may have.
LEMMA ProcessField ==
  ASSUME NEW p \in Process
  PROVE  /\ \A v \in Places : [p EXCEPT !.pc = v] \in Process
         /\ \A v \in 1 .. MaxAttempts : [p EXCEPT !.attempt = v] \in Process
         /\ \A v \in BOOLEAN : [p EXCEPT !.failed = v] \in Process
         /\ \A v \in Tables : [p EXCEPT !.table = v] \in Process
         /\ \A v \in 0 .. 2 * SeedCount : [p EXCEPT !.open = v] \in Process
<1>1. \A v \in Places : [p EXCEPT !.pc = v] \in Process
  BY DEF Process, Places
<1>2. \A v \in 1 .. MaxAttempts : [p EXCEPT !.attempt = v] \in Process
  BY DEF Process
<1>3. \A v \in BOOLEAN : [p EXCEPT !.failed = v] \in Process
  BY DEF Process
<1>4. \A v \in Tables : [p EXCEPT !.table = v] \in Process
  BY DEF Process
<1>5. \A v \in 0 .. 2 * SeedCount : [p EXCEPT !.open = v] \in Process
  BY SMTT(60) DEF Process
<1> QED BY <1>1, <1>2, <1>3, <1>4, <1>5

\* Assigning a server's locals keeps their types.
LEMMA ProcessSet ==
  ASSUME NEW p \in Process
  PROVE  /\ \A pc \in Places :
              /\ [p EXCEPT !.pc = pc] \in Process
              /\ [p EXCEPT !.pc = pc, !.open = 0] \in Process
              /\ \A table \in Tables :
                   [p EXCEPT !.pc = pc, !.table = table, !.open = 0] \in Process
              /\ \A failed \in BOOLEAN :
                   [p EXCEPT !.pc = pc, !.failed = failed] \in Process
              /\ \A attempt \in 1 .. MaxAttempts :
                   [p EXCEPT !.pc = pc, !.attempt = attempt] \in Process
         /\ \A open \in 0 .. 2 * SeedCount : [p EXCEPT !.open = open] \in Process
<1>1. 0 \in 0 .. 2 * SeedCount
  BY Numbers
<1>2. ASSUME NEW pc \in Places
      PROVE  /\ [p EXCEPT !.pc = pc, !.open = 0] \in Process
             /\ \A table \in Tables : [p EXCEPT !.pc = pc, !.table = table, !.open = 0] \in Process
             /\ \A failed \in BOOLEAN : [p EXCEPT !.pc = pc, !.failed = failed] \in Process
             /\ \A attempt \in 1 .. MaxAttempts :
                  [p EXCEPT !.pc = pc, !.attempt = attempt] \in Process
  <2>1. [p EXCEPT !.pc = pc] \in Process
    BY ProcessField
  <2>2. /\ [p EXCEPT !.pc = pc, !.open = 0] \in Process
        /\ \A table \in Tables : [p EXCEPT !.pc = pc, !.table = table] \in Process
        /\ \A failed \in BOOLEAN : [p EXCEPT !.pc = pc, !.failed = failed] \in Process
        /\ \A attempt \in 1 .. MaxAttempts :
             [p EXCEPT !.pc = pc, !.attempt = attempt] \in Process
    BY <1>1, <2>1, ProcessField
  <2>3. ASSUME NEW table \in Tables
        PROVE  [p EXCEPT !.pc = pc, !.table = table, !.open = 0] \in Process
    BY <1>1, <2>2, ProcessField
  <2> QED BY <2>2, <2>3
<1> QED BY ZenonT(60), <1>2, ProcessField

\* A server starts, and ends, with nothing open.
LEMMA EndsLocal ==
  /\ Local(Starting)
  /\ \A p \in Process : Local(Exited(p)) /\ Exited(p).pc = "exited" /\ Exited(p).open = 0
<1>1. Local(Starting)
  BY Numbers DEF Local, Starting, Process
<1>2. ASSUME NEW p \in Process
      PROVE  Local(Exited(p)) /\ Exited(p).pc = "exited" /\ Exited(p).open = 0
  <2>1. Exited(p) \in Process
    BY ProcessSet DEF Exited, Places
  <2>2. Exited(p).pc = "exited" /\ Exited(p).open = 0
    BY DEF Exited, Process
  <2> QED BY <2>1, <2>2 DEF Local
<1> QED BY <1>1, <1>2

\* After a table comes the next one, or Redis.
LEMMA AdvancedLocal ==
  ASSUME NEW p \in Process
  PROVE  /\ Local(Advanced(p))
         /\ Advanced(p).open = 0
         /\ \/ /\ p.table # TableCount
               /\ Advanced(p).pc = "count" /\ Advanced(p).table = p.table + 1
            \/ /\ p.table = TableCount
               /\ Advanced(p).pc = "redis"
<1>1. p.table \in 1 .. TableCount
  BY DEF Process, Tables
<1>2. CASE p.table # TableCount
  <2>1. p.table + 1 \in Tables
    BY <1>1, <1>2, Numbers DEF Tables
  <2>2. Advanced(p) = [p EXCEPT !.pc = "count", !.table = p.table + 1, !.open = 0]
    BY <2>1 DEF Advanced, Following
  <2>3. Advanced(p) \in Process
    <3>1. "count" \in Places
      BY DEF Places
    <3>2. [p EXCEPT !.pc = "count", !.table = p.table + 1, !.open = 0] \in Process
      BY <2>1, <3>1, ProcessSet, Zenon
    <3> QED BY <2>2, <3>2
  <2>4. /\ Advanced(p).open = 0 /\ Advanced(p).pc = "count"
        /\ Advanced(p).table = p.table + 1
    BY <2>2 DEF Process
  <2> QED BY <1>2, <2>3, <2>4 DEF Local
<1>3. CASE p.table = TableCount
  <2>1. p.table + 1 \notin Tables
    BY <1>3, Numbers DEF Tables
  <2>2. Advanced(p) = [p EXCEPT !.pc = "redis", !.table = 1, !.open = 0]
    BY <2>1 DEF Advanced, Following
  <2>3. Advanced(p) \in Process
    <3>1. "redis" \in Places
      BY DEF Places
    <3>2. [p EXCEPT !.pc = "redis", !.table = 1, !.open = 0] \in Process
      BY <3>1, Numbers, ProcessSet, Zenon
    <3> QED BY <2>2, <3>2
  <2>4. Advanced(p).open = 0 /\ Advanced(p).pc = "redis"
    BY <2>2 DEF Process
  <2> QED BY <1>3, <2>3, <2>4 DEF Local
<1> QED BY <1>2, <1>3

-----------------------------------------------------------------------------
(* The inductive invariant *)

\* Every seed of a table is stored, or was before a user deleted it.
Seeded(t) == \A i \in Seeds : store.rows[t][i] # "absent"

\* A server is at a table only when those before it have been seeded, and past
\* Seed only when all have.
Placed(p) ==
  /\ p.pc \in {"open", "ping", "pingAgain", "wait", "migrate", "create"} => p.table = 1
  /\ p.pc \in {"count", "insert"} => \A t \in 1 .. p.table - 1 : Seeded(t)
  /\ p.pc \in {"redis", "serving"} => \A t \in Tables : Seeded(t)

\* Users only write to tables that have been seeded.
SeedingInv ==
  /\ \A s \in Servers : Placed(proc[s])
  /\ \A t \in Tables : store.rows[t][Extra] # "absent" => Seeded(t)

\* No decision is stored yet, by no name a seed has.
Unseeded == \A i \in Seeds : store.rows[Decisions][i] = "absent"

\* The unique index lets one transaction at a time insert the decisions, and
\* only into a table that holds none of them.
OpenInv ==
  /\ \A s, q \in Servers : proc[s].open > 0 /\ proc[q].open > 0 => s = q
  /\ \A s \in Servers : proc[s].open > 0 => Unseeded

\* SeededWhole is inductive with these.
Inv == TypeOK /\ SeedingInv /\ OpenInv /\ SeededWhole

\* No other server has a transaction open.
Alone(s) == \A q \in Servers \ {s} : proc[q].open = 0

\* A server at rest may go on at any place its tables allow.
Rest(s, r) ==
  /\ store' = store
  /\ Placed(r)
  /\ r.open > 0 => Alone(s) /\ Unseeded

\* One statement seeds a table that had none of its seeds.
FilledBy(s, r) ==
  LET t == proc[s].table
  IN  /\ t \in Tables \ {Decisions}
      /\ proc[s].pc = "insert"
      /\ \A i \in Seeds : store.rows[t][i] = "absent"
      /\ store' = [store EXCEPT !.rows[t] =
                     [i \in Codes |-> IF i \in Seeds THEN "live" ELSE @[i]]]
      /\ r = Advanced(proc[s])

\* A transaction seeds the decisions with their revisions.
CommittedBy(s, r) ==
  /\ proc[s].pc = "insert" /\ proc[s].table = Decisions
  /\ proc[s].open = 2 * SeedCount
  /\ store' = WithInserted(s)
  /\ r = Advanced(proc[s])

\* What a step of server s does, with r its locals afterwards.
Effect(s, r) ==
  /\ Local(r)
  /\ proc' = [proc EXCEPT ![s] = r]
  /\ reachable' = reachable
  /\ schema' \in BOOLEAN
  /\ faults' \in 0 .. MaxFaults
  /\ Rest(s, r) \/ FilledBy(s, r) \/ CommittedBy(s, r)

\* The facts of the types that the steps use.
LEMMA Typed ==
  ASSUME Inv, NEW s \in Servers
  PROVE  /\ proc[s] \in Process /\ Placed(proc[s]) /\ proc[s].table \in Tables
         /\ proc[s].open \in 0 .. 2 * SeedCount
         /\ schema \in BOOLEAN /\ faults \in 0 .. MaxFaults
         /\ proc[s].attempt \in 1 .. MaxAttempts /\ proc[s].failed \in BOOLEAN
         /\ proc[s].open > 0 => proc[s].pc = "insert" /\ proc[s].table = Decisions
  BY DEF Inv, TypeOK, SeedingInv, Process, At

\* Going on at a place before Seed, at the same table and with nothing open.
LEMMA EarlyEffect ==
  ASSUME Inv, NEW s \in Servers, NEW r \in Process,
         proc' = [proc EXCEPT ![s] = r], store' = store, reachable' = reachable,
         schema' \in BOOLEAN, faults' \in 0 .. MaxFaults,
         r.open = 0, Placed(r)
  PROVE  Effect(s, r)
<1>1. Local(r)
  BY DEF Local
<1>2. Rest(s, r)
  BY DEF Rest
<1> QED BY <1>1, <1>2 DEF Effect

\* Going on at another place by Goto.
LEMMA GotoEffect ==
  ASSUME Inv, NEW s \in Servers, NEW pc \in Places, Goto(s, pc), proc[s].open = 0,
         Placed([proc[s] EXCEPT !.pc = pc])
  PROVE  \E r \in Process : Effect(s, r)
<1> DEFINE r == [proc[s] EXCEPT !.pc = pc]
<1>1. r \in Process /\ r.open = 0
  <2>1. r \in Process
    BY Typed, ProcessSet
  <2>2. r.open = proc[s].open
    BY Typed DEF Process
  <2> QED BY <2>1, <2>2
<1>2. proc' = [proc EXCEPT ![s] = r]
  BY DEF Goto
<1>3. /\ store' = store /\ reachable' = reachable
      /\ schema' \in BOOLEAN /\ faults' \in 0 .. MaxFaults
  BY Typed DEF Goto
<1>4. Placed(r)
  OBVIOUS
<1> HIDE DEF r
<1> QED BY <1>1, <1>2, <1>3, <1>4, EarlyEffect

\* Ending the process.
LEMMA ExitEffect ==
  ASSUME Inv, NEW s \in Servers, proc' = [proc EXCEPT ![s] = Exited(proc[s])],
         store' = store, reachable' = reachable,
         schema' \in BOOLEAN, faults' \in 0 .. MaxFaults
  PROVE  \E r \in Process : Effect(s, r)
<1>1. proc[s] \in Process
  BY Typed
<1>2. /\ Exited(proc[s]) \in Process
      /\ Exited(proc[s]).pc = "exited" /\ Exited(proc[s]).open = 0
  BY <1>1, EndsLocal DEF Local
<1>3. Placed(Exited(proc[s]))
  BY <1>2 DEF Placed
<1> QED BY <1>2, <1>3, EarlyEffect

\* Exit ends the process and rolls its transaction back.
LEMMA ExitStep ==
  ASSUME Inv, NEW s \in Servers, Exit(s)
  PROVE  \E r \in Process : Effect(s, r)
  BY Typed, ExitEffect DEF Exit, RolledBack

-----------------------------------------------------------------------------
(* Each step of a server has an effect of this form *)

\* The connect loop.
LEMMA ConnectEffect ==
  ASSUME Inv, NEW s \in Servers,
         OpenDatabase(s) \/ Ping(s) \/ PingAgain(s) \/ Retry(s)
  PROVE  \E r \in Process : Effect(s, r)
<1> USE Typed
<1>1. \A pc \in {"ping", "migrate", "pingAgain"} :
        proc[s].table = 1 => Placed([proc[s] EXCEPT !.pc = pc])
  BY DEF Placed, Process
<1>2. \A pc \in {"ping", "migrate", "pingAgain"} :
        proc[s].table = 1 /\ proc[s].open = 0 /\ Goto(s, pc)
          => \E r \in Process : Effect(s, r)
  BY <1>1, GotoEffect DEF Places
<1>3. proc[s].pc \in {"open", "ping", "pingAgain", "wait"}
        => proc[s].table = 1 /\ proc[s].open = 0
  BY DEF Placed
<1>4. ASSUME NEW pc \in {"open", "wait"}, NEW failed \in BOOLEAN,
             NEW attempt \in 1 .. MaxAttempts,
             proc[s].table = 1, proc[s].open = 0, store' = store, reachable' = reachable,
             schema' = schema, faults' = faults,
             \/ proc' = [proc EXCEPT ![s] = [@ EXCEPT !.pc = pc, !.failed = failed]]
             \/ proc' = [proc EXCEPT ![s] = [@ EXCEPT !.pc = pc, !.attempt = attempt]]
      PROVE  \E r \in Process : Effect(s, r)
  <2>1. PICK r : /\ proc' = [proc EXCEPT ![s] = r]
                 /\ \/ r = [proc[s] EXCEPT !.pc = pc, !.failed = failed]
                    \/ r = [proc[s] EXCEPT !.pc = pc, !.attempt = attempt]
    BY <1>4
  <2>2. r \in Process
    <3>1. pc \in Places
      BY DEF Places
    <3>2. /\ [proc[s] EXCEPT !.pc = pc, !.failed = failed] \in Process
          /\ [proc[s] EXCEPT !.pc = pc, !.attempt = attempt] \in Process
      BY <3>1, ProcessSet, ZenonT(30)
    <3> QED BY <2>1, <3>2
  <2>3. r.table = 1 /\ r.open = 0 /\ r.pc = pc
    BY <2>1, <1>4 DEF Process
  <2>4. Placed(r)
    BY <2>3 DEF Placed
  <2> QED BY <2>1, <2>2, <2>3, <2>4, <1>4, EarlyEffect
<1>5. CASE OpenDatabase(s)
  <2>1. CASE Goto(s, "ping")
    BY <1>2, <1>3, <1>5, <2>1 DEF OpenDatabase, At
  <2>2. CASE ~Goto(s, "ping")
    <3>1. /\ proc' = [proc EXCEPT ![s] = [@ EXCEPT !.pc = "wait", !.failed = TRUE]]
          /\ UNCHANGED <<reachable, schema, store, faults>>
      BY <1>5, <2>2 DEF OpenDatabase
    <3> QED BY <1>3, <1>4, <1>5, <3>1 DEF OpenDatabase, At
  <2> QED BY <2>1, <2>2
<1>6. CASE Ping(s)
  BY <1>2, <1>3, <1>6 DEF Ping, At
<1>7. CASE PingAgain(s)
  <2>1. PICK failed \in BOOLEAN :
          proc' = [proc EXCEPT ![s] = [@ EXCEPT !.pc = "wait", !.failed = failed]]
    BY <1>7 DEF PingAgain
  <2> QED BY <1>3, <1>4, <1>7, <2>1 DEF PingAgain, At
<1>8. CASE Retry(s)
  <2>1. CASE proc[s].attempt < MaxAttempts /\ ~Exit(s) /\ ~Goto(s, "migrate")
    <3>1. proc[s].attempt + 1 \in 1 .. MaxAttempts
      BY <2>1, Numbers
    <3>2. proc' = [proc EXCEPT ![s] = [@ EXCEPT !.pc = "open", !.attempt = proc[s].attempt + 1]]
      BY <1>8, <2>1 DEF Retry
    <3> QED BY <1>3, <1>4, <1>8, <2>1, <3>1, <3>2 DEF Retry, At
  <2>2. CASE Exit(s)
    BY <2>2, ExitStep
  <2>3. CASE Goto(s, "migrate")
    BY <1>2, <1>3, <1>8, <2>3 DEF Retry, At
  <2> QED BY <1>8, <2>1, <2>2, <2>3 DEF Retry
<1> QED BY <1>5, <1>6, <1>7, <1>8

\* Migration and the ping of Redis.
LEMMA MigrateEffect ==
  ASSUME Inv, NEW s \in Servers, Migrate(s) \/ CreateTables(s) \/ PingRedis(s)
  PROVE  \E r \in Process : Effect(s, r)
<1> USE Typed
<1>1. CASE Exit(s)
  BY <1>1, ExitStep
<1>2. CASE Migrate(s) /\ ~Exit(s)
  <2>1. proc[s].table = 1 /\ proc[s].open = 0
    BY <1>2 DEF Migrate, At, Placed
  <2>2. \A pc \in {"count", "create"} : Placed([proc[s] EXCEPT !.pc = pc])
    BY <2>1 DEF Placed, Process
  <2> QED BY <1>2, <2>1, <2>2, GotoEffect DEF Migrate, Places
<1>3. CASE CreateTables(s) /\ ~Exit(s)
  <2> DEFINE r == [proc[s] EXCEPT !.pc = "count"]
  <2>1. proc' = [proc EXCEPT ![s] = r]
    BY <1>3 DEF CreateTables
  <2>2. proc[s].table = 1 /\ proc[s].open = 0
    BY <1>3 DEF CreateTables, At, Placed
  <2>3. r \in Process
    BY ProcessSet DEF Places
  <2>4. r.table = 1 /\ r.open = 0 /\ r.pc = "count"
    BY <2>2 DEF Process
  <2>5. Placed(r)
    BY <2>4 DEF Placed
  <2>6. /\ store' = store /\ reachable' = reachable
        /\ schema' \in BOOLEAN /\ faults' \in 0 .. MaxFaults
    BY <1>3 DEF CreateTables
  <2> HIDE DEF r
  <2> QED BY <2>1, <2>3, <2>4, <2>5, <2>6, EarlyEffect
<1>4. CASE PingRedis(s) /\ ~Exit(s)
  <2>1. proc[s].open = 0 /\ \A t \in Tables : Seeded(t)
    BY <1>4 DEF PingRedis, At, Placed
  <2>2. Placed([proc[s] EXCEPT !.pc = "serving"])
    BY <2>1 DEF Placed, Process
  <2> QED BY <1>4, <2>1, <2>2, GotoEffect DEF PingRedis, Places
<1> QED BY <1>1, <1>2, <1>3, <1>4

\* Starting again, or being killed.
LEMMA RestartEffect ==
  ASSUME Inv, NEW s \in Servers, Restart(s) \/ Kill(s)
  PROVE  \E r \in Process : Effect(s, r)
<1> USE Typed
<1>1. CASE Restart(s)
  <2>1. Starting \in Process /\ Starting.open = 0
    BY EndsLocal DEF Local, Starting
  <2>2. Placed(Starting)
    BY DEF Placed, Starting
  <2>3. /\ proc' = [proc EXCEPT ![s] = Starting]
        /\ store' = store /\ reachable' = reachable
        /\ schema' \in BOOLEAN /\ faults' \in 0 .. MaxFaults
    BY <1>1 DEF Restart
  <2> QED BY <2>1, <2>2, <2>3, EarlyEffect
<1>2. CASE Kill(s)
  <2>1. faults' \in 0 .. MaxFaults
    BY <1>2, Numbers DEF Kill
  <2> QED BY <1>2, <2>1, ExitEffect DEF Kill, RolledBack
<1> QED BY <1>1, <1>2

\* A table with a live row has all its seeds, deleted ones included.
LEMMA FilledSeeded ==
  ASSUME Inv, NEW t \in Tables, ~NeedsSeeds(t)
  PROVE  Seeded(t)
<1>1. PICK i \in Codes : store.rows[t][i] = "live"
  BY DEF NeedsSeeds, Live
<1>2. CASE i = Extra
  BY <1>1, <1>2 DEF Inv, SeedingInv
<1>3. CASE i # Extra
  <2>1. i \in Seeds
    BY <1>3, Numbers DEF Codes, Seeds, Extra
  <2>2. {j \in Seeds : store.rows[t][j] # "absent"} \in {{}, Seeds}
    BY DEF Inv, SeededWhole
  <2> QED BY <1>1, <2>1, <2>2 DEF Seeded
<1> QED BY <1>2, <1>3

\* Past table t, with t and those before it seeded.
LEMMA AdvancedPlaced ==
  ASSUME NEW p \in Process, \A t \in 1 .. p.table : Seeded(t)
  PROVE  Placed(Advanced(p))
<1>1. p.table \in 1 .. TableCount
  BY DEF Process, Tables
<1>2. CASE p.table = TableCount
  <2>1. Advanced(p).pc = "redis"
    BY <1>2, AdvancedLocal
  <2> QED BY <2>1, <1>2 DEF Placed, Tables
<1>3. CASE p.table # TableCount
  <2>1. Advanced(p).pc = "count" /\ Advanced(p).table = p.table + 1
    BY <1>3, AdvancedLocal
  <2>2. (p.table + 1) - 1 = p.table
    BY <1>1, Numbers
  <2> QED BY <2>1, <2>2 DEF Placed
<1> QED BY <1>2, <1>3

\* Counting the rows of a table.
LEMMA CountEffect ==
  ASSUME Inv, NEW s \in Servers, Count(s)
  PROVE  \E r \in Process : Effect(s, r)
<1> USE Typed
<1>1. CASE Exit(s)
  BY <1>1, ExitStep
<1>2. proc[s].open = 0 /\ \A t \in 1 .. proc[s].table - 1 : Seeded(t)
  BY DEF Count, At, Placed
<1>3. CASE Goto(s, "insert")
  <2>1. Placed([proc[s] EXCEPT !.pc = "insert"])
    BY <1>2 DEF Placed, Process
  <2> QED BY <1>2, <1>3, <2>1, GotoEffect DEF Places
<1>4. CASE ~Exit(s) /\ ~Goto(s, "insert")
  <2>1. ~NeedsSeeds(proc[s].table)
    BY <1>4 DEF Count
  <2>2. Seeded(proc[s].table)
    BY <2>1, FilledSeeded
  <2>3. \A t \in 1 .. proc[s].table : t = proc[s].table \/ t \in 1 .. proc[s].table - 1
    BY Numbers DEF Tables
  <2>4. Placed(Advanced(proc[s]))
    BY <1>2, <2>2, <2>3, AdvancedPlaced
  <2>5. Advanced(proc[s]) \in Process /\ Advanced(proc[s]).open = 0
    BY AdvancedLocal DEF Local
  <2>6. /\ proc' = [proc EXCEPT ![s] = Advanced(proc[s])]
        /\ store' = store /\ reachable' = reachable
        /\ schema' \in BOOLEAN /\ faults' \in 0 .. MaxFaults
    BY <1>4 DEF Count
  <2> QED BY <2>4, <2>5, <2>6, EarlyEffect
<1> QED BY <1>1, <1>3, <1>4

\* Seeding a record table.
LEMMA InsertAllEffect ==
  ASSUME Inv, NEW s \in Servers, InsertAll(s)
  PROVE  \E r \in Process : Effect(s, r)
<1> USE Typed
<1>1. CASE Exit(s)
  BY <1>1, ExitStep
<1>2. CASE ~Exit(s)
  <2>1. /\ proc[s].pc = "insert" /\ proc[s].table \in Tables \ {Decisions}
        /\ \A i \in Seeds : store.rows[proc[s].table][i] = "absent"
        /\ store' = [store EXCEPT !.rows[proc[s].table] =
                       [i \in Codes |-> IF i \in Seeds THEN "live" ELSE @[i]]]
        /\ proc' = [proc EXCEPT ![s] = Advanced(proc[s])]
        /\ reachable' = reachable /\ schema' = schema /\ faults' = faults
    BY <1>2 DEF InsertAll, Taken, At
  <2>2. FilledBy(s, Advanced(proc[s]))
    BY <2>1 DEF FilledBy
  <2>3. Local(Advanced(proc[s])) /\ Advanced(proc[s]) \in Process
    BY AdvancedLocal DEF Local
  <2> QED BY <2>1, <2>2, <2>3 DEF Effect
<1> QED BY <1>1, <1>2

\* The next INSERT of the transaction.  The first is alone, for the others hold
\* the same code, and finds no decision; the later ones have been so since.
LEMMA InsertNextEffect ==
  ASSUME Inv, NEW s \in Servers, InsertNext(s)
  PROVE  \E r \in Process : Effect(s, r)
<1> USE Typed
<1> DEFINE n == proc[s].open + 1
           r == [proc[s] EXCEPT !.open = n]
<1>1. CASE Exit(s)
  BY <1>1, ExitStep
<1>2. CASE ~Exit(s)
  <2>1. /\ proc[s].pc = "insert" /\ proc[s].table = Decisions
        /\ n \in 1 .. 2 * SeedCount
    BY Numbers DEF InsertNext, At
  <2>2. /\ proc' = [proc EXCEPT ![s] = r]
        /\ store' = store /\ reachable' = reachable
        /\ schema' = schema /\ faults' = faults
        /\ ~(n % 2 = 1 /\ Taken(Decisions, (n + 1) \div 2))
        /\ \A q \in Servers \ {s} : ~Inserted(q, (n + 1) \div 2)
    BY <1>2 DEF InsertNext
  <2>3. r \in Process
    <3>1. n \in 0 .. 2 * SeedCount
      BY <2>1
    <3> HIDE DEF n
    <3> QED BY <3>1, ProcessSet, ZenonT(30)
  <2>4. r.pc = "insert" /\ r.table = Decisions
    BY <2>1 DEF Process
  <2>5. Local(r)
    BY <2>3, <2>4 DEF Local
  <2>6. Placed(r)
    BY <2>1, <2>4 DEF Placed
  <2>7. Alone(s) /\ Unseeded
    <3>1. CASE proc[s].open > 0
      <4>1. ASSUME NEW q \in Servers \ {s}
            PROVE  proc[q].open = 0
        <5>1. proc[q].open \in 0 .. 2 * SeedCount
          OBVIOUS
        <5>2. ~(proc[q].open > 0)
          BY <3>1 DEF Inv, OpenInv
        <5> QED BY <5>1, <5>2, Numbers
      <4> QED BY <3>1, <4>1 DEF Alone, Inv, OpenInv
    <3>2. CASE proc[s].open = 0
      <4>1. n = 1 /\ (n + 1) \div 2 = 1 /\ n % 2 = 1
        BY <3>2
      <4>2. ASSUME NEW q \in Servers \ {s}
            PROVE  proc[q].open = 0
        <5>1. proc[q].open \in 0 .. 2 * SeedCount
          OBVIOUS
        <5>2. ~Inserted(q, 1)
          BY <2>2, <4>1
        <5>3. ~(proc[q].open >= 1)
          BY <5>2, Numbers DEF Inserted
        <5> QED BY <5>1, <5>3, Numbers
      <4>3. store.rows[Decisions][1] = "absent"
        BY <2>2, <4>1 DEF Taken
      <4>4. {j \in Seeds : store.rows[Decisions][j] # "absent"} \in {{}, Seeds}
        BY Numbers DEF Inv, SeededWhole
      <4>5. Unseeded
        BY <4>3, <4>4, Numbers DEF Unseeded
      <4> QED BY <4>2, <4>5 DEF Alone
    <3> QED BY <3>1, <3>2, Numbers
  <2>8. Rest(s, r)
    BY <2>2, <2>6, <2>7 DEF Rest
  <2> HIDE DEF r
  <2> QED BY <2>2, <2>3, <2>5, <2>8 DEF Effect
<1> QED BY <1>1, <1>2

\* The end of the transaction.
LEMMA CommitEffect ==
  ASSUME Inv, NEW s \in Servers, Commit(s)
  PROVE  \E r \in Process : Effect(s, r)
<1> USE Typed
<1>1. CASE Exit(s)
  BY <1>1, ExitStep
<1>2. CASE ~Exit(s)
  <2>1. CommittedBy(s, Advanced(proc[s]))
    BY <1>2 DEF Commit, CommittedBy, At
  <2>2. Local(Advanced(proc[s])) /\ Advanced(proc[s]) \in Process
    BY AdvancedLocal DEF Local
  <2>3. /\ proc' = [proc EXCEPT ![s] = Advanced(proc[s])]
        /\ reachable' = reachable /\ schema' = schema /\ faults' = faults
    BY <1>2 DEF Commit
  <2> QED BY <2>1, <2>2, <2>3 DEF Effect
<1> QED BY <1>1, <1>2

\* Every step of a server has such an effect.
LEMMA ServerEffect ==
  ASSUME Inv, NEW s \in Servers, ServerStep(s)
  PROVE  \E r \in Process : Effect(s, r)
  BY ConnectEffect, MigrateEffect, RestartEffect, CountEffect, InsertAllEffect,
     InsertNextEffect, CommitEffect DEF ServerStep, Start

-----------------------------------------------------------------------------
(* The invariant *)

\* The rows of the store, typed.
LEMMA Rows ==
  ASSUME Inv
  PROVE  /\ store.rows \in [Tables -> [Codes -> {"absent", "live", "deleted"}]]
         /\ store.revised \in SUBSET Seeds
         /\ store = [rows |-> store.rows, revised |-> store.revised]
  BY DEF Inv, TypeOK

\* What the rows and the revised decisions are after each way to write them.
LEMMA StoreWrites ==
  ASSUME Inv, NEW t \in Tables, NEW i \in Codes
  PROVE  /\ \A s \in Servers : \A r : FilledBy(s, r) =>
              /\ store' \in [rows : [Tables -> [Codes -> {"absent", "live", "deleted"}]],
                             revised : SUBSET Seeds]
              /\ store'.revised = store.revised
              /\ store'.rows[t][i] = IF t = proc[s].table /\ i \in Seeds
                                     THEN "live" ELSE store.rows[t][i]
         /\ \A s \in Servers : \A r : CommittedBy(s, r) =>
              /\ store' \in [rows : [Tables -> [Codes -> {"absent", "live", "deleted"}]],
                             revised : SUBSET Seeds]
              /\ store'.revised = Seeds
              /\ store'.rows[t][i] = IF t = Decisions /\ i \in Seeds
                                     THEN "live" ELSE store.rows[t][i]
         /\ \A u \in Tables : UserCreates(u) =>
              /\ store' \in [rows : [Tables -> [Codes -> {"absent", "live", "deleted"}]],
                             revised : SUBSET Seeds]
              /\ store'.revised = store.revised
              /\ store'.rows[t][i] = IF t = u /\ i = Extra
                                     THEN "live" ELSE store.rows[t][i]
         /\ \A u \in Tables, j \in Codes : UserDeletes(u, j) =>
              /\ store' \in [rows : [Tables -> [Codes -> {"absent", "live", "deleted"}]],
                             revised : SUBSET Seeds]
              /\ store'.revised = store.revised
              /\ store'.rows[t][i] = IF t = u /\ i = j
                                     THEN "deleted" ELSE store.rows[t][i]
<1> USE Rows
<1>1. ASSUME NEW s \in Servers, NEW r, FilledBy(s, r)
      PROVE  /\ store' \in [rows : [Tables -> [Codes -> {"absent", "live", "deleted"}]],
                            revised : SUBSET Seeds]
             /\ store'.revised = store.revised
             /\ store'.rows[t][i] = IF t = proc[s].table /\ i \in Seeds
                                    THEN "live" ELSE store.rows[t][i]
  <2>1. store' = [rows |-> [store.rows EXCEPT ![proc[s].table] =
                     [j \in Codes |-> IF j \in Seeds THEN "live" ELSE @[j]]],
                  revised |-> store.revised]
    BY <1>1 DEF FilledBy
  <2>2. proc[s].table \in Tables
    BY <1>1 DEF FilledBy
  <2>3. PICK row \in [Codes -> {"absent", "live", "deleted"}] :
          /\ store'.rows = [store.rows EXCEPT ![proc[s].table] = row]
          /\ row[i] = IF i \in Seeds THEN "live" ELSE store.rows[proc[s].table][i]
    <3> DEFINE row == [j \in Codes |-> IF j \in Seeds THEN "live"
                                       ELSE store.rows[proc[s].table][j]]
    <3>1. row \in [Codes -> {"absent", "live", "deleted"}]
      BY <2>2
    <3>2. row[i] = IF i \in Seeds THEN "live" ELSE store.rows[proc[s].table][i]
      OBVIOUS
    <3>3. store'.rows = [store.rows EXCEPT ![proc[s].table] = row]
      BY <2>1
    <3> HIDE DEF row
    <3> QED BY <3>1, <3>2, <3>3
  <2>4. store'.revised = store.revised /\ store' = [rows |-> store'.rows, revised |-> store.revised]
    BY <2>1
  <2>5. store'.rows \in [Tables -> [Codes -> {"absent", "live", "deleted"}]]
    BY <2>2, <2>3
  <2>6. store'.rows[t][i] = IF t = proc[s].table /\ i \in Seeds
                            THEN "live" ELSE store.rows[t][i]
    BY <2>2, <2>3
  <2> QED BY <2>4, <2>5, <2>6
<1>2. ASSUME NEW s \in Servers, NEW r, CommittedBy(s, r)
      PROVE  /\ store' \in [rows : [Tables -> [Codes -> {"absent", "live", "deleted"}]],
                            revised : SUBSET Seeds]
             /\ store'.revised = Seeds
             /\ store'.rows[t][i] = IF t = Decisions /\ i \in Seeds
                                    THEN "live" ELSE store.rows[t][i]
  <2>1. \A j \in Seeds : proc[s].open >= 2 * j - 1 /\ proc[s].open >= 2 * j
    BY <1>2, Numbers DEF CommittedBy, Seeds
  <2>2. store' = WithInserted(s)
    BY <1>2 DEF CommittedBy
  <2>3. \A j : Inserted(s, j) <=> j \in Seeds
    BY <2>1 DEF Inserted
  <2>4. store' = [rows |-> [store.rows EXCEPT ![Decisions] =
                     [j \in Codes |-> IF j \in Seeds THEN "live" ELSE @[j]]],
                  revised |-> store.revised \cup {j \in Seeds : proc[s].open >= 2 * j}]
    BY <2>2, <2>3 DEF WithInserted
  <2>5. store.revised \cup {j \in Seeds : proc[s].open >= 2 * j} = Seeds
    BY <2>1
  <2> QED BY <2>4, <2>5, Numbers
<1>3. ASSUME NEW u \in Tables, UserCreates(u)
      PROVE  /\ store' \in [rows : [Tables -> [Codes -> {"absent", "live", "deleted"}]],
                            revised : SUBSET Seeds]
             /\ store'.revised = store.revised
             /\ store'.rows[t][i] = IF t = u /\ i = Extra
                                    THEN "live" ELSE store.rows[t][i]
  <2>1. store' = [rows |-> [store.rows EXCEPT ![u][Extra] = "live"],
                  revised |-> store.revised]
    BY <1>3 DEF UserCreates
  <2> QED BY <2>1, Numbers
<1>4. ASSUME NEW u \in Tables, NEW j \in Codes, UserDeletes(u, j)
      PROVE  /\ store' \in [rows : [Tables -> [Codes -> {"absent", "live", "deleted"}]],
                            revised : SUBSET Seeds]
             /\ store'.revised = store.revised
             /\ store'.rows[t][i] = IF t = u /\ i = j
                                    THEN "deleted" ELSE store.rows[t][i]
  <2>1. store' = [rows |-> [store.rows EXCEPT ![u][j] = "deleted"],
                  revised |-> store.revised]
    BY <1>4 DEF UserDeletes
  <2> QED BY <2>1, Numbers
<1> QED BY <1>1, <1>2, <1>3, <1>4

\* The seeds of table t that are stored.
Stored(t) == {i \in Seeds : store.rows[t][i] # "absent"}

\* All or none of the seeds, and of the decisions the same with revisions.
Whole(t) == Stored(t) \in {{}, Seeds} /\ (t = Decisions => store.revised = Stored(t))

\* A store whose rows only leave "absent" and stay whole keeps the part of the
\* invariant that is about tables; servers that rest keep their places.
LEMMA SeedingKept ==
  ASSUME Inv, NEW s \in Servers, NEW r \in Process,
         proc' = [proc EXCEPT ![s] = r], Placed(r)',
         \A t \in Tables, i \in Codes :
           store.rows[t][i] # "absent" => store'.rows[t][i] # "absent",
         \A t \in Tables : store'.rows[t][Extra] # "absent" =>
           store.rows[t][Extra] # "absent" \/ Seeded(t)
  PROVE  SeedingInv'
<1>1. \A t \in Tables : Seeded(t) => Seeded(t)'
  BY Numbers DEF Seeded
<1>2. \A t \in Tables : (store.rows[t][Extra] # "absent" => Seeded(t))'
  BY <1>1 DEF Inv, SeedingInv
<1>3. ASSUME NEW q \in Servers
      PROVE  Placed(proc[q])'
  <2>1. proc' \in [Servers -> Process]
    BY DEF Inv, TypeOK
  <2>2. CASE q = s
    <3>1. proc'[q] = r
      BY <2>2 DEF Inv, TypeOK
    <3> QED BY <3>1 DEF Placed
  <2>3. CASE q # s
    <3>1. proc'[q] = proc[q]
      BY <2>3 DEF Inv, TypeOK
    <3>2. Placed(proc[q]) /\ proc[q].table \in Tables
      BY Typed
    <3>3. \A t \in 1 .. proc[q].table - 1 : t \in Tables
      BY <3>2, Numbers DEF Tables
    <3> QED BY <1>1, <3>1, <3>2, <3>3 DEF Placed
  <2> QED BY <2>2, <2>3
<1> QED BY <1>2, <1>3 DEF SeedingInv

\* The steps of servers keep the invariant.
LEMMA EffectKeeps ==
  ASSUME Inv, NEW s \in Servers, NEW r \in Process, Effect(s, r)
  PROVE  Inv'
<1>0. /\ proc \in [Servers -> Process]
      /\ proc' = [proc EXCEPT ![s] = r]
      /\ \A q \in Servers : proc[q].open \in 0 .. 2 * SeedCount
  BY Typed DEF Effect, Inv, TypeOK
<1>1. \A q \in Servers : proc'[q] = IF q = s THEN r ELSE proc[q]
  BY <1>0
<1>2. \A t \in Tables, i \in Codes :
        store.rows[t][i] # "absent" => store'.rows[t][i] # "absent"
  BY StoreWrites DEF Effect, Rest
<1>3. TypeOK'
  <2>1. store' \in [rows : [Tables -> [Codes -> {"absent", "live", "deleted"}]],
                    revised : SUBSET Seeds]
    <3>1. CASE Rest(s, r)
      BY <3>1 DEF Rest, Inv, TypeOK
    <3>2. CASE FilledBy(s, r)
      BY <3>2, StoreWrites, Numbers
    <3>3. CASE CommittedBy(s, r)
      BY <3>3, StoreWrites, Numbers
    <3> QED BY <3>1, <3>2, <3>3 DEF Effect
  <2>2. proc' \in [Servers -> Process]
    BY <1>0
  <2>3. \A q \in Servers :
          proc'[q].open > 0 => proc'[q].pc = "insert" /\ proc'[q].table = Decisions
    BY <1>1, Typed DEF Effect, Local
  <2>4. reachable' \subseteq Backends /\ schema' \in BOOLEAN /\ faults' \in 0 .. MaxFaults
    BY DEF Effect, Inv, TypeOK
  <2> QED BY <2>1, <2>2, <2>3, <2>4 DEF TypeOK, At
<1>4. SeedingInv'
  <2>1. \A t \in Tables : store'.rows[t][Extra] # "absent" =>
           store.rows[t][Extra] # "absent" \/ Seeded(t)
    BY StoreWrites, Numbers DEF Effect, Rest
  <2>2. Placed(r)'
    <3>1. CASE Rest(s, r)
      BY <3>1 DEF Rest, Placed, Seeded
    <3>2. CASE FilledBy(s, r) \/ CommittedBy(s, r)
      <4>1. /\ r = Advanced(proc[s]) /\ proc[s].pc = "insert"
            /\ proc[s].table \in Tables
        BY <3>2, Typed DEF FilledBy, CommittedBy
      <4>2. \A i \in Seeds : store'.rows[proc[s].table][i] # "absent"
        BY <3>2, <4>1, StoreWrites, Numbers DEF CommittedBy
      <4>3. \A t \in 1 .. proc[s].table - 1 : Seeded(t) /\ t \in Tables
        BY <4>1, Typed, Numbers DEF Placed, Tables
      <4>4. \A t \in 1 .. proc[s].table :
              t = proc[s].table \/ t \in 1 .. proc[s].table - 1
        BY <4>1, Numbers DEF Tables
      <4>5. \A t \in 1 .. proc[s].table : Seeded(t)'
        BY <1>2, <4>2, <4>3, <4>4, Numbers DEF Seeded
      <4>6. \/ r.pc = "count" /\ r.table - 1 = proc[s].table
            \/ r.pc = "redis" /\ proc[s].table = TableCount
        <5>1. \/ r.pc = "count" /\ r.table = proc[s].table + 1
              \/ r.pc = "redis" /\ proc[s].table = TableCount
          BY <4>1, Typed, AdvancedLocal
        <5> QED BY <4>1, <5>1, Numbers DEF Tables
      <4> QED BY <4>5, <4>6 DEF Placed, Tables
    <3> QED BY <3>1, <3>2 DEF Effect
  <2> QED BY <1>0, <1>2, <2>1, <2>2, SeedingKept
<1>5. OpenInv'
  <2>1. r.open > 0 => Alone(s) /\ Unseeded /\ store' = store
    BY AdvancedLocal, Typed DEF Effect, Rest, FilledBy, CommittedBy
  <2>2. \A q, z \in Servers : proc'[q].open > 0 /\ proc'[z].open > 0 => q = z
    BY <1>0, <1>1, <2>1 DEF Alone, Inv, OpenInv
  <2>3. ASSUME NEW q \in Servers, proc'[q].open > 0
        PROVE  Unseeded'
    <3>1. CASE q = s
      <4>1. Unseeded /\ store' = store
        BY <1>1, <2>1, <2>3, <3>1
      <4> QED BY <4>1 DEF Unseeded
    <3>2. CASE q # s
      <4>1. proc[q].open > 0 /\ Unseeded
        BY <1>1, <2>3, <3>2 DEF Inv, OpenInv
      <4>2. ~CommittedBy(s, r)
        <5>1. ~(proc[s].open > 0)
          BY <3>2, <4>1 DEF Inv, OpenInv
        <5>2. 2 * SeedCount > 0
          BY StartupAssumption
        <5> QED BY <5>1, <5>2 DEF CommittedBy
      <4>3. \A i \in Seeds : store'.rows[Decisions][i] = store.rows[Decisions][i]
        <5>1. CASE Rest(s, r)
          BY <5>1 DEF Rest
        <5>2. CASE FilledBy(s, r)
          <6>1. Decisions \in Tables /\ Seeds \subseteq Codes /\ proc[s].table # Decisions
            BY <5>2, Numbers DEF FilledBy
          <6> QED BY <5>2, <6>1, StoreWrites
        <5> QED BY <1>1, <4>2, <5>1, <5>2 DEF Effect
      <4> QED BY <4>1, <4>3 DEF Unseeded
    <3> QED BY <3>1, <3>2
  <2> QED BY <2>2, <2>3 DEF OpenInv
<1>6. SeededWhole'
  <2>1. ASSUME NEW t \in Tables
        PROVE  Whole(t)'
    <3>1. Whole(t)
      BY SMTT(60) DEF Inv, SeededWhole, Whole, Stored
    <3>2. CASE Rest(s, r)
      BY <3>1, <3>2 DEF Rest, Whole, Stored
    <3>3. CASE FilledBy(s, r)
      <4>1. store'.revised = store.revised /\ proc[s].table # Decisions
        <5>1. proc[s].table # Decisions
          BY <3>3 DEF FilledBy
        <5>2. \E i \in Codes : TRUE
          BY Numbers DEF Codes
        <5> QED BY <3>3, <5>1, <5>2, StoreWrites
      <4>2. Stored(t)' = IF t = proc[s].table THEN Seeds ELSE Stored(t)
        BY <3>3, StoreWrites, Numbers DEF Stored
      <4> QED BY SMTT(60), <3>1, <4>1, <4>2 DEF Whole
    <3>4. CASE CommittedBy(s, r)
      <4>1. store'.revised = Seeds
        BY <3>4, StoreWrites, Numbers
      <4>2. Stored(t)' = IF t = Decisions THEN Seeds ELSE Stored(t)
        BY <3>4, StoreWrites, Numbers DEF Stored
      <4> QED BY <3>1, <4>1, <4>2 DEF Whole
    <3> QED BY <3>2, <3>3, <3>4 DEF Effect
  <2> QED BY <2>1 DEF SeededWhole, Whole, Stored
<1> QED BY <1>3, <1>4, <1>5, <1>6 DEF Inv

\* So do the users, and outages.
LEMMA OthersKeep ==
  ASSUME Inv,
         \/ \E b \in Backends : Outage(b) \/ Recover(b)
         \/ \E t \in Tables : UserCreates(t)
         \/ \E t \in Tables, i \in Codes : UserDeletes(t, i)
         \/ UNCHANGED vars
  PROVE  Inv'
<1>1. CASE (\E b \in Backends : Outage(b) \/ Recover(b)) \/ UNCHANGED vars
  <2>1. /\ store' = store /\ proc' = proc /\ schema' = schema
        /\ reachable' \subseteq Backends /\ faults' \in 0 .. MaxFaults
    BY <1>1, Numbers DEF Outage, Recover, vars, Inv, TypeOK
  <2>2. TypeOK'
    BY <2>1 DEF Inv, TypeOK, At
  <2>3. SeedingInv' /\ OpenInv' /\ SeededWhole'
    BY <2>1 DEF Inv, SeedingInv, OpenInv, SeededWhole, Placed, Seeded, Unseeded
  <2> QED BY <2>2, <2>3 DEF Inv
<1>2. CASE \/ \E t \in Tables : UserCreates(t)
           \/ \E t \in Tables, i \in Codes : UserDeletes(t, i)
  <2>1. /\ proc' = proc /\ schema' = schema /\ reachable' = reachable /\ faults' = faults
        /\ Serving
    BY <1>2 DEF UserCreates, UserDeletes
  <2>2. \A t \in Tables : Seeded(t)
    BY <2>1, Typed DEF Serving, At, Placed
  <2>3. /\ store' \in [rows : [Tables -> [Codes -> {"absent", "live", "deleted"}]],
                       revised : SUBSET Seeds]
        /\ store'.revised = store.revised
    BY <1>2, StoreWrites, Numbers
  <2>4. \A t \in Tables, i \in Seeds :
          store.rows[t][i] # "absent" /\ store'.rows[t][i] # "absent"
    BY <1>2, <2>2, StoreWrites, Numbers DEF Seeded
  <2>5. TypeOK'
    BY <2>1, <2>3 DEF Inv, TypeOK, At
  <2>6. SeedingInv'
    <3>1. \A t \in Tables : Seeded(t)'
      BY <2>4 DEF Seeded
    <3>2. \A q \in Servers : proc[q].table \in Tables /\ Placed(proc[q])
      BY Typed
    <3>3. \A q \in Servers : Placed(proc[q])'
      BY <2>1, <3>1, <3>2, Numbers DEF Placed, Tables
    <3> QED BY <3>1, <3>3 DEF SeedingInv
  <2>7. OpenInv'
    <3>1. \A q \in Servers : ~(proc[q].open > 0)
      BY <2>4, Numbers DEF Inv, OpenInv, Unseeded
    <3> QED BY <2>1, <3>1 DEF OpenInv
  <2>8. SeededWhole'
    <3>1. \A t \in Tables : Stored(t) = Seeds /\ Stored(t)' = Seeds
      BY <2>4 DEF Stored
    <3>2. store.revised = Seeds
      BY <3>1, Numbers DEF Inv, SeededWhole, Stored
    <3> QED BY <2>3, <3>1, <3>2 DEF SeededWhole, Stored
  <2> QED BY <2>5, <2>6, <2>7, <2>8 DEF Inv
<1> QED BY <1>1, <1>2

\* The invariant holds initially.
LEMMA InitInv == Init => Inv
<1> SUFFICES ASSUME Init PROVE Inv
  OBVIOUS
<1>1. \A s \in Servers : proc[s] = Starting
  BY DEF Init
<1>2. TypeOK
  <2>1. Starting \in Process /\ Local(Starting)
    BY EndsLocal DEF Local
  <2>2. proc \in [Servers -> Process]
    BY <2>1 DEF Init
  <2>3. store \in [rows : [Tables -> [Codes -> {"absent", "live", "deleted"}]],
                   revised : SUBSET Seeds]
    BY DEF Init
  <2>4. \A s \in Servers :
          proc[s].open > 0 => proc[s].pc = "insert" /\ proc[s].table = Decisions
    BY <1>1, <2>1 DEF Local
  <2>5. reachable \subseteq Backends /\ schema \in BOOLEAN
    BY DEF Init
  <2>6. faults \in 0 .. MaxFaults
    BY Numbers DEF Init
  <2> QED BY <2>2, <2>3, <2>4, <2>5, <2>6 DEF TypeOK, At
<1>3. Starting.open = 0 /\ Starting.table = 1 /\ Starting.pc = "open"
  BY DEF Starting
<1>4. SeedingInv
  BY <1>1, <1>3, Numbers DEF Init, SeedingInv, Placed
<1>5. OpenInv
  BY <1>1, <1>3, Numbers DEF OpenInv
<1>6. SeededWhole
  <2>1. \A t \in Tables : Stored(t) = {} /\ store.revised = {}
    BY Numbers DEF Init, Stored
  <2> QED BY <2>1 DEF SeededWhole, Stored
<1> QED BY <1>2, <1>4, <1>5, <1>6 DEF Inv

\* Every step keeps it.
LEMMA NextInv == Inv /\ [Next]_vars => Inv'
  BY ServerEffect, EffectKeeps, OthersKeep DEF Next, ServerStep

\* It always holds.
LEMMA Always == Spec => []Inv
  BY InitInv, NextInv, PTL DEF Spec

-----------------------------------------------------------------------------
(* Theorems *)

\* Every variable keeps its type, and a transaction is open only while a server
\* seeds the decisions.
THEOREM TypeCorrect == Spec => []TypeOK
<1>1. Inv => TypeOK
  BY DEF Inv
<1> QED BY <1>1, Always, PTL

\* However starts are cut short, repeated or run together, a server that answers
\* requests has every table seeded.
THEOREM ServesSeeded == Spec => []ServingSeeded
<1>1. Inv => ServingSeeded
  BY Typed DEF ServingSeeded, Placed, Seeded, At
<1> QED BY <1>1, Always, PTL

\* Whatever servers seed at once and wherever they are killed, the seeds of a
\* table are stored all or none, and decisions only with their revisions.
THEOREM SeedsWhole == Spec => []SeededWhole
<1>1. Inv => SeededWhole
  BY DEF Inv
<1> QED BY <1>1, Always, PTL

\* No start of any server brings back a record that a user has deleted.
THEOREM DeletedStay == Spec => NotResurrected
<1> DEFINE Kept == \A t \in Tables, i \in Codes :
                     store.rows[t][i] = "deleted" => store'.rows[t][i] = "deleted"
<1>1. ASSUME Inv, [Next]_vars
      PROVE  Kept
  <2>1. ASSUME NEW s \in Servers, ServerStep(s)
        PROVE  Kept
    <3>1. PICK r \in Process : Effect(s, r)
      BY <1>1, <2>1, ServerEffect
    <3>2. CASE Rest(s, r)
      BY SMTT(60), <3>2 DEF Rest
    <3>3. CASE FilledBy(s, r)
      BY <1>1, <3>3, StoreWrites DEF FilledBy
    <3>4. CASE CommittedBy(s, r)
      <4>1. Unseeded
        <5>1. proc[s].open = 2 * SeedCount /\ 2 * SeedCount > 0
          BY <3>4, StartupAssumption DEF CommittedBy
        <5> QED BY <1>1, <5>1 DEF Inv, OpenInv
      <4> QED BY <1>1, <3>4, <4>1, StoreWrites DEF Unseeded
    <3> QED BY <3>1, <3>2, <3>3, <3>4 DEF Effect
  <2>2. ASSUME NEW u \in Tables, UserCreates(u)
        PROVE  Kept
    BY SMTT(60), <1>1, <2>2, StoreWrites DEF UserCreates, Taken
  <2>3. ASSUME NEW u \in Tables, NEW j \in Codes, UserDeletes(u, j)
        PROVE  Kept
    BY <1>1, <2>3, StoreWrites
  <2>4. CASE (\E b \in Backends : Outage(b) \/ Recover(b)) \/ UNCHANGED vars
    BY <2>4 DEF Outage, Recover, vars
  <2> HIDE DEF Kept
  <2> QED BY <1>1, <2>1, <2>2, <2>3, <2>4 DEF Next, ServerStep
<1>2. Inv /\ [Next]_vars => [Kept]_vars
  BY <1>1
<1> QED BY <1>2, Always, PTL DEF Spec, NotResurrected

=============================================================================
