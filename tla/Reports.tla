------------------------------- MODULE Reports -------------------------------
(***************************************************************************)
(* Reports made of several SELECTs while requests write: the pages of a    *)
(* record list or of the audit log, and the summary of the audit log.      *)
(*                                                                         *)
(* A page is a COUNT and then a SELECT with an offset into the rows as     *)
(* they stand at that moment.  Records are ordered by updated_at, ties by  *)
(* id; audit entries by created_at alone, ties as the database likes.      *)
(* Both times are read from the clock before the statement that stores     *)
(* them, so rows may be stored in another order than they are stamped.     *)
(* The rows a batch of seeds inserts share one time.                       *)
(*                                                                         *)
(* One client reads one report: a walk over all pages, up to the first     *)
(* that is not full, or a summary.  The writers are the requests of        *)
(* RecordStore with their data reduced to status, version and updated_at:  *)
(* here only the order and the membership of lists matter.                 *)
(***************************************************************************)
EXTENDS Naturals, FiniteSets, FiniteSetsExt

CONSTANTS
  Ids,          \* ids of the record table, given in this order
  Seeded,       \* the ids of the seeds
  SeedStatus,
  InitialStatus, \* of a new record
  Statuses,
  Ahead,        \* how far expectedVersion may exceed the version stored
  Writers,      \* writing requests
  Users,
  ActorOf,      \* the user of each writing request
  EntityTypes,  \* the entity types of the audit log
  RecordType,   \* the one of the table
  EarlierLogs,  \* what the audit log may hold at the start
  AskedSizes,   \* page sizes clients ask for
  DefaultSize,  \* 20
  MaxSize,      \* 100
  Window,       \* how far back a summary looks
  MaxTime       \* bound of the clock

ASSUME ReportsAssumption ==
  /\ Ids \subseteq Nat \ {0} /\ IsFiniteSet(Ids) /\ Seeded \subseteq Ids
  /\ SeedStatus \in [Seeded -> Statuses] /\ InitialStatus \in Statuses
  /\ "none" \notin Statuses /\ Ahead \in Nat
  /\ ActorOf \in [Writers -> Users] /\ RecordType \in EntityTypes
  /\ AskedSizes \subseteq Nat
  /\ DefaultSize \in 1 .. MaxSize /\ MaxSize \in Nat
  /\ Window \in Nat /\ MaxTime \in Nat \ {0}

VARIABLES
  now,     \* the clock
  table,   \* the record table: membership, status, version, updated_at
  log,     \* the audit_logs rows
  writer,  \* per writing request, its place and local variables
  reader   \* the client, the report it asks for, and what happened meanwhile

vars == <<now, table, log, writer, reader>>

-----------------------------------------------------------------------------
(* Rows, entries, lists *)

Time == 0 .. MaxTime

Actions == {"create", "update", "transition", "delete"}

Row ==
  [state : {"absent", "live", "deleted"}, status : Statuses \cup {"none"},
   version : Nat, at : Time]

NoRow == [state |-> "absent", status |-> "none", version |-> 0, at |-> 0]

LogEntry == [id : Nat, action : Actions, entity : EntityTypes, actor : Users, at : Time]

\* Entries are numbered as they are inserted, and none is ever taken out.
ASSUME LogsAssumption ==
  \A earlier \in EarlierLogs :
    /\ earlier \subseteq LogEntry /\ IsFiniteSet(earlier)
    /\ \A a, b \in earlier : a.id = b.id => a = b
    /\ \A e \in earlier : e.id <= Cardinality(earlier)

Writer ==
  [pc : {"idle", "stamp", "write", "audit", "insert", "done"}, op : Actions \cup {"none"},
   id : Ids \cup {0}, expected : Nat, ahead : Nat, status : Statuses \cup {"none"},
   at : Time]

\* "ahead" is history: by how much the version expected exceeds the one read.
NoWriter ==
  [pc |-> "idle", op |-> "none", id |-> 0, expected |-> 0, ahead |-> 0, status |-> "none",
   at |-> 0]

\* What a report is about: the rows not deleted, of one status if one is asked
\* for, or all entries of the log.
Listed(list, filter) ==
  IF list # "records" THEN {[id |-> e.id, at |-> e.at] : e \in log}
  ELSE {[id |-> d, at |-> table[d].at] :
          d \in {d \in Ids : table[d].state = "live" /\ filter \in {"any", table[d].status}}}

\* Mutant: updated_at alone orders records too.
Precedes_NoTieBreak(list, a, b) == a.at > b.at

\* "updated_at DESC, id DESC" and "created_at DESC".
Precedes(list, a, b) ==
  \/ a.at > b.at
  \/ list = "records" /\ a.at = b.at /\ a.id > b.id

\* The first n items, in any order the database may take.
Heads(list, items, n) ==
  {head \in kSubset(Min({n, Cardinality(items)}), items) :
     \A a \in head, b \in items \ head : ~Precedes(list, b, a)}

Offset(page, size) == (page - 1) * size

\* What a SELECT with this offset and limit may return.
PagesOf(list, items, page, size) ==
  LET skipped == Heads(list, items, Offset(page, size))
      reached == Heads(list, items, Offset(page, size) + size)
  IN  {ends[2] \ ends[1] : ends \in {ends \in skipped \X reached : ends[1] \subseteq ends[2]}}

\* Mutant: no upper bound.
BoundSize_Any(asked) == IF asked < 1 THEN DefaultSize ELSE asked

\* The handlers' bounds on the page size, then the repository's.
BoundSize(asked) == IF asked < 1 \/ asked > MaxSize THEN DefaultSize ELSE asked

NormalSize(size) ==
  IF size < 1 THEN DefaultSize ELSE IF size > MaxSize THEN MaxSize ELSE size

\* The size an answer names: of records, the one applied; of audit entries, the
\* one the handler bound.
ToldSize(list, asked) ==
  IF list = "records" THEN NormalSize(BoundSize(asked)) ELSE BoundSize(asked)

-----------------------------------------------------------------------------
(* The client *)

Reader ==
  [pc : {"idle", "count", "find", "total", "transitions", "actors", "actions", "entities",
         "over", "failed"},
   list : {"none", "records", "audits", "summary"}, filter : Statuses \cup {"any"},
   asked : Nat, page : Nat \ {0}, total : Nat, seen : SUBSET Nat, repeated : BOOLEAN,
   since : Time, transitions : Nat, actors : Nat,
   actions : SUBSET [of : Actions, count : Nat],
   entities : SUBSET [of : EntityTypes, count : Nat],
   started : SUBSET [id : Nat, at : Time], touched : SUBSET Nat, sunk : BOOLEAN,
   quiet : BOOLEAN]

NoReader ==
  [pc |-> "idle", list |-> "none", filter |-> "any", asked |-> 0, page |-> 1, total |-> 0,
   seen |-> {}, repeated |-> FALSE,
   since |-> 0, transitions |-> 0, actors |-> 0, actions |-> {}, entities |-> {},
   started |-> {}, touched |-> {}, sunk |-> FALSE, quiet |-> TRUE]

\* What a write does to a report under way.  This is history, for the
\* properties: the items written since it began, whether one left the list or was
\* stored under an older time, and whether nothing happened at all.
Noticed ==
  \E list \in {reader.list}, filter \in {reader.filter} :
    LET before == Listed(list, filter)
        after  == Listed(list, filter)'
    IN  reader' = IF reader.pc \in {"idle", "over", "failed"} THEN reader
                  ELSE [reader EXCEPT
                          !.touched = @ \cup {i.id : i \in after \ before},
                          !.sunk = @ \/ \E i \in before : \A j \in after : j.id # i.id \/ j.at < i.at,
                          !.quiet = @ /\ after = before]

SeedRow(status) == [state |-> "live", status |-> status, version |-> 1, at |-> 1]

Init ==
  /\ now = 1
  /\ table = [d \in Ids |-> IF d \in Seeded THEN SeedRow(SeedStatus[d]) ELSE NoRow]
  /\ log \in EarlierLogs
  /\ writer = [w \in Writers |-> NoWriter]
  /\ reader = NoReader

-----------------------------------------------------------------------------
(* Writers *)

Tick ==
  /\ now < MaxTime
  /\ now' = now + 1
  /\ UNCHANGED <<table, log, writer, reader>>

\* The handler begins with the operation, the id and expectedVersion of the
\* request and the status it is going to store.
Begun(op, d, version, ahead, status) ==
  [pc |-> IF op = "delete" THEN "write" ELSE "stamp", op |-> op, id |-> d,
   expected |-> version + ahead, ahead |-> ahead, status |-> status, at |-> 0]

Begin(w, op, d, version, ahead, status) ==
  writer' = [writer EXCEPT ![w] = Begun(op, d, version, ahead, status)]

\* The handler reads the record, unless it creates one.  An edit writes back the
\* status read, a transition another one.  expectedVersion is the client's, and
\* is not compared with the version read; one already left behind never matches
\* (WriteFails).
ReadRow(w) ==
  /\ writer[w].pc = "idle"
  /\ \/ Begin(w, "create", 0, 0, 0, InitialStatus)
     \/ \E d \in Ids :
          /\ table[d].state = "live"
          /\ \/ Begin(w, "delete", d, 0, 0, "none")
             \/ \E ahead \in 0 .. Ahead, status \in Statuses :
                  Begin(w, IF status = table[d].status THEN "update" ELSE "transition",
                        d, table[d].version, ahead, status)
  /\ UNCHANGED <<now, table, log, reader>>

\* Handler or GORM stamps the copy, before the statement is sent.
StampRow(w) ==
  /\ writer[w].pc = "stamp"
  /\ writer' = [writer EXCEPT ![w].pc = "write", ![w].at = now]
  /\ UNCHANGED <<now, table, log, reader>>

\* Mutant: the status column is left out.
Written_NoStatus(call, row) ==
  IF call.op = "delete" THEN [row EXCEPT !.state = "deleted"]
  ELSE [state |-> "live", status |-> row.status, version |-> call.expected + 1, at |-> call.at]

\* The row a write leaves: a deletion marks it, all else is the handler's copy.
Written(call, row) ==
  IF call.op = "delete" THEN [row EXCEPT !.state = "deleted"]
  ELSE [state |-> "live", status |-> call.status, version |-> call.expected + 1, at |-> call.at]

\* Mutant: WHERE id = ?
Matches_NoVersion(call, d) ==
  IF call.op = "create" THEN table[d].state = "absent"
  ELSE d = call.id /\ table[d].state = "live"

\* A free id is given to a new row; the others name theirs, not deleted, and an
\* UPDATE the version expected.
Matches(call, d) ==
  IF call.op = "create" THEN table[d].state = "absent"
  ELSE /\ d = call.id /\ table[d].state = "live"
       /\ call.op # "delete" => table[d].version = call.expected

CommitRow(w) ==
  /\ writer[w].pc = "write"
  /\ \E d \in Ids :
       /\ Matches(writer[w], d)
       /\ table' = [table EXCEPT ![d] = Written(writer[w], @)]
  /\ writer' = [writer EXCEPT ![w] = [NoWriter EXCEPT !.pc = "audit", !.op = writer[w].op]]
  /\ UNCHANGED <<now, log>>
  /\ Noticed

\* No row matched, or the statement failed.
WriteFails(w) ==
  /\ writer[w].pc = "write"
  /\ writer' = [writer EXCEPT ![w] = [NoWriter EXCEPT !.pc = "done"]]
  /\ UNCHANGED <<now, table, log, reader>>

\* The service stamps the audit entry ...
StampEntry(w) ==
  /\ writer[w].pc = "audit"
  /\ writer' = [writer EXCEPT ![w].pc = "insert", ![w].at = now]
  /\ UNCHANGED <<now, table, log, reader>>

\* ... and inserts it.
InsertEntry(w) ==
  /\ writer[w].pc = "insert"
  /\ log' = log \cup {[id |-> Cardinality(log) + 1, action |-> writer[w].op,
                       entity |-> RecordType, actor |-> ActorOf[w], at |-> writer[w].at]}
  /\ writer' = [writer EXCEPT ![w] = [NoWriter EXCEPT !.pc = "done"]]
  /\ UNCHANGED <<now, table>>
  /\ Noticed

-----------------------------------------------------------------------------
(* A walk over the pages of a list *)

BeginWalk ==
  /\ reader.pc = "idle"
  /\ \E list \in {"records", "audits"}, filter \in Statuses \cup {"any"}, asked \in AskedSizes :
       /\ list = "audits" => filter = "any"
       /\ reader' = [NoReader EXCEPT
                       !.pc = "count", !.list = list, !.filter = filter, !.asked = asked,
                       !.started = Listed(list, filter)]
  /\ UNCHANGED <<now, table, log, writer>>

CountItems ==
  /\ reader.pc = "count"
  /\ reader' = [reader EXCEPT !.pc = "find",
                              !.total = Cardinality(Listed(reader.list, reader.filter))]
  /\ UNCHANGED <<now, table, log, writer>>

\* The page is answered.  The client asks for the next if this one is full by
\* the size it was told.
FindItems ==
  /\ reader.pc = "find"
  /\ \E page \in PagesOf(reader.list, Listed(reader.list, reader.filter), reader.page,
                         NormalSize(BoundSize(reader.asked))) :
       LET ids  == {i.id : i \in page}
           full == Cardinality(page) >= ToldSize(reader.list, reader.asked)
       IN  reader' = [reader EXCEPT !.pc = IF full THEN "count" ELSE "over",
                                    !.page = @ + 1,
                                    !.seen = @ \cup ids,
                                    !.repeated = @ \/ ids \cap reader.seen # {}]
  /\ UNCHANGED <<now, table, log, writer>>

-----------------------------------------------------------------------------
(* The summary of the audit log: five SELECTs with one lower bound *)

\* Mutant: the bound moves on with the clock.
Since_Moving == IF now > Window THEN now - Window ELSE 0

Since == reader.since

Recent == {e \in log : e.at >= Since}

BeginSummary ==
  /\ reader.pc = "idle"
  /\ reader' = [NoReader EXCEPT !.pc = "total", !.list = "summary",
                                !.since = IF now > Window THEN now - Window ELSE 0]
  /\ UNCHANGED <<now, table, log, writer>>

\* A query of the summary and the place it leads to.
Query(from, to, answered) ==
  /\ reader.pc = from
  /\ reader' = [answered EXCEPT !.pc = to]
  /\ UNCHANGED <<now, table, log, writer>>

CountTotal ==
  Query("total", "transitions", [reader EXCEPT !.total = Cardinality(Recent)])

CountTransitions ==
  Query("transitions", "actors",
        [reader EXCEPT !.transitions = Cardinality({e \in Recent : e.action = "transition"})])

CountActors ==
  Query("actors", "actions", [reader EXCEPT !.actors = Cardinality({e.actor : e \in Recent})])

\* GROUP BY: one row per value there is.
Grouped(column) ==
  {[of |-> v, count |-> Quantify(Recent, LAMBDA e : e[column] = v)] : v \in {e[column] : e \in Recent}}

GroupActions == Query("actions", "entities", [reader EXCEPT !.actions = Grouped("action")])

GroupEntities == Query("entities", "over", [reader EXCEPT !.entities = Grouped("entity")])

\* A SELECT fails: the report is an error.
SelectFails ==
  /\ reader.pc \notin {"idle", "over", "failed"}
  /\ reader' = [NoReader EXCEPT !.pc = "failed"]
  /\ UNCHANGED <<now, table, log, writer>>

-----------------------------------------------------------------------------

Write(w) ==
  \/ ReadRow(w) \/ StampRow(w) \/ CommitRow(w) \/ WriteFails(w)
  \/ StampEntry(w) \/ InsertEntry(w)

Summarise ==
  \/ BeginSummary \/ CountTotal \/ CountTransitions \/ CountActors
  \/ GroupActions \/ GroupEntities

Next ==
  \/ Tick
  \/ \E w \in Writers : Write(w)
  \/ BeginWalk \/ CountItems \/ FindItems
  \/ Summarise \/ SelectFails

Spec == Init /\ [][Next]_vars

-----------------------------------------------------------------------------
(* Properties *)

\* Every variable has its type, and every stored record a status.
TypeOK ==
  /\ now \in Time
  /\ table \in [Ids -> Row]
  /\ \A d \in Ids : table[d].status = "none" <=> table[d].state = "absent"
  /\ log \subseteq LogEntry
  /\ writer \in [Writers -> Writer]
  /\ reader \in Reader

Walked == reader.pc = "over" /\ reader.list # "summary"

Unshared(list, i) == list = "audits" => \A e \in log : e.at = i.at => e.id = i.id

\* Pages shift while they are read, but only downwards unless a record leaves the
\* list or sinks in it, stored under an older time.  Otherwise a walk to the first
\* page that is not full misses no record that was listed when it began and is
\* untouched since, and no entry that shares its time with no other (Store.List,
\* ListAudits).
WalkComplete ==
  Walked =>
    \A i \in reader.started :
      \/ i.id \in reader.seen
      \/ reader.sunk \/ i.id \in reader.touched
      \/ ~Unshared(reader.list, i)

\* A write by a client that names the version it was shown never takes updated_at
\* back, so that no record sinks, whatever versions others name.  Stamps are taken
\* long before the statement, but a row stamped later has another version by then
\* (Update, Transition).  A version that runs ahead does let an older stamp in.
UpdatedAtRises ==
  [][\A w \in Writers, d \in Ids :
       writer[w].pc = "write" /\ writer'[w].pc = "audit" /\ writer[w].ahead = 0 =>
         table'[d].at >= table[d].at]_vars

\* If nothing was written meanwhile, a walk meets every item once, as many as it
\* was told there are.
WalkExact ==
  Walked /\ reader.quiet /\ (\A i \in reader.started : Unshared(reader.list, i)) =>
    /\ reader.seen = {i.id : i \in reader.started}
    /\ ~reader.repeated
    /\ reader.total = Cardinality(reader.started)

\* The counts of the groups added up: as many as there are pairs of a group and
\* a number up to its count.
Sum(groups) == Cardinality(UNION {{g.of} \X (1 .. g.count) : g \in groups})

\* The five parts of a summary are read one after the other, and entries inserted
\* in between are in the later ones only: the total never exceeds what the
\* actions add up to, nor they the entity types; there are no more transitions
\* counted than grouped, nor actors than actions; and all agree if nothing was
\* inserted (SummarizeAudits).
SummaryConsistent ==
  reader.pc = "over" /\ reader.list = "summary" =>
    LET acted == Sum(reader.actions)
        typed == Sum(reader.entities)
        moved == Sum({g \in reader.actions : g.of = "transition"})
    IN  /\ reader.total <= acted /\ acted <= typed
        /\ reader.transitions <= moved
        /\ reader.actors <= acted
        /\ reader.quiet => reader.total = typed /\ reader.transitions = moved

=============================================================================
