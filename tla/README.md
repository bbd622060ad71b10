# Railway bridge defect priority: a TLA+ model of the server

The repository is a Go HTTP server (Gin, GORM over PostgreSQL as deployed,
MySQL or SQLite, and Redis) with a
Vue workbench. Operators record bridges, inspection rounds and defects; for a
defect a *priority decision* is drafted by one person and finalised by another
(`observe`, `restrict`, `urgent`), with a revision for every version and an audit
log over everything. What is hard in it is small and lives between the database
calls: a handler reads a record, decides, writes it back in another statement,
then audits and re-reads, and nothing but a version column holds concurrent
requests apart.

## 1. Inventory

| Part (source) | State | Operations | What makes it correct |
|---|---|---|---|
| Priority decisions (`handler`, `service`, `repository/priority_decision.go`) | `priority_decisions`, `priority_decision_revisions` | list, get, create, update, transition, delete | versions traceable one by one; finalised once, by somebody else, on the evidence of the last draft; never changed after; no lost update |
| Bridges, inspection rounds, defects (`service/*`, `repository/base.go`) | three tables, one generic `Store` | list, get, create, update, transition, delete | status moves along the table's graph; no lost or mixed update |
| Status graphs (`constants/status.go`) | none | `CanTransition` | - |
| Audit log (`service/security.go`, `repository/security.go`) | `audit_logs` | append from every write handler; list, summary, history | reports what happened and nothing else |
| Role guards (`middleware/auth.go`) | none | `RequireMinimumRole`, `RequireRoles` | - |
| Startup (`database/database.go`) | schema and seeded rows | connect with retries, migrate, four conditional seeds | no server answers before every table is seeded; starts cut short or racing come up in the end; a restart brings nothing back |
| Paging and search (`repository/base.go`, `bindPage`) | none | count, then page | a walk over the pages misses nothing that stood still, and is exact if all did |
| Audit reads and overview (`handler/system.go`) | none | several SELECTs per report | no part of a report contradicts another |
| Session (`service/security.go`, `middleware/auth.go`, frontend `useAuth`, `client.ts`, router) | users table; token stored in the browser, session shown by each tab | login, verify, expire, log out, reload | the role used is one the user recently had; a session given up is not used again |
| Rate limiter (`middleware/ratelimit.go`) | one Redis counter per client and minute, expiring; a local map, cleaned of past minutes from 512 buckets on | count, fall back, clean up | a counter gives each number once, and rejects only when used up |
| Request context, router, health, configuration | none that outlives a request | - | - |
| Frontend stores and pages (`stores/factory.ts`, `EntityPage.vue`, `format.ts`) | page of records, open dialog, loading flag | load, create, transition, refresh | a transition moves the row its user saw; what a page offers, the server accepts |

How the parts meet. A browser sends requests over the router, through request
id, rate limiter, token check and role guard, to a handler, which calls a
service, which makes several repository calls. Requests share nothing in memory
except the limiter's map; they meet in the database. Each statement, and each
`db.Transaction`, is atomic; between two of them any other request may run. The
only lock is `UPDATE ... WHERE id = ? AND version = ?`. Nothing is retried by
the server, and no lock outlives a statement or transaction.

Hard behaviours: checks made on a row that a later statement writes; an
`expectedVersion` taken from the client and never compared with the row that
was read; soft deletes under a unique index; an audit entry that is a statement
of its own after the commit; an answer assembled from later reads; a process
that dies between two of these steps; reports made of several SELECTs; answers
that reach a page in another order than it asked. `PROJECT.json` lists each at its line
under "hazards", with the properties that cover it.

## 2. Modules

| Module | Models | State |
|---|---|---|
| `StatusGraphs` | the four graphs and `CanTransition` | - |
| `AccessControl` | `roleRank` and the two route guards | - |
| `PriorityDecision` | decision handlers down to the database | `rows`, `revisions`, `audits`, `req` |
| `DecisionLedger` | abstract: what the decision register promises | `ledger` |
| `PriorityDecisionProofs` | theorems: types, chain of revisions, independent review, the lock, frozen finals | |
| `PriorityDecisionAnswers` | theorems: what answers and audit entries tell, whatever versions are named; then, for informed clients, evidence, before-states, conflicts, the ledger | |
| `RecordStore` | the three record tables, one module because their services are the same code up to names, graph and initial status | `rows`, `audits`, `req` |
| `RecordRegister` | abstract: what the record tables promise | `register` |
| `RecordStoreProofs` | theorems about `RecordStore`: types, refinement, what writers are answered, what the log tells | |
| `Reports` | page walks over a record list or the audit log, the audit summary, and abstract writers | `now`, `table`, `log`, `writer`, `reader` |
| `Workbench` | the record pages in browser tabs, composed with `RecordStore` | `page`, `dialog`, `busy`, `asked`, `load`, and those of `RecordStore` |
| `Session` | users, logins, tokens, the tabs of one browser, guarded requests | `now`, `users`, `stored`, `shown`, `place`, `login`, `call`, and two history variables |
| `RateLimiter` | the limiter's middleware, Redis, the local maps, the clock | `now`, `up`, `redis`, `local`, `req` |
| `Startup` | connect loop, migration, seeding, restarts, users meanwhile | `reachable`, `schema`, `store`, `proc`, `faults` |
| `RateLimiterProofs`, `StartupProofs`, `ReportsProofs`, `WorkbenchProofs`, `SessionProofs` | theorems about these modules | |
| `MCPriorityDecision`, `MCRecordStore`, `MCRateLimiter`, `MCStartup`, `MCReports`, `MCWorkbench`, `MCSession` | small instances for TLC | |

**State of the two store modules.** `rows[d]` is the record with code `d`, live, soft-deleted or absent;
`revisions[d]` the revision rows of a decision; `audits` the audit entries;
`req[r]` one execution of a handler: its program point and its local variables
(actor, record, version, the status and content it will write, the before-state
of the audit entry), and after its end the answer it gave.

**Actions.** One per database call of a handler:

| Step of a handler | Actions |
|---|---|
| route guard, first `Get`, business checks | `Create`, `Update`, `Transition`, `Delete` (and `Read` for GET) |
| the writing statement or transaction | `CommitCreate`, `CodeTaken`, `CommitUpdate`, `Conflict`, `CommitDelete`, `DeleteMissed` |
| `AppendAudit` | `AppendAudit`, `AuditFails` |
| second `Get` | `Reread`; for decisions `Preload` for the revisions, a second SELECT |
| errors | `DatabaseError` (no effect), the second disjunct of `Applied` (committed, but reported as failed), `AuditFails` (entry stored or not), `Crash` |

A create is one INSERT (with its revision in one transaction for decisions), so
its checks need no read. `Create` and `Update` drop the audit's error,
`Transition` and `Delete` return it, as in the services. A record create answers
with the copy it inserted; a decision create reads the decision again.

**Abstractions.** The code of a record and its id are one key: the unique index
on `code`, which also counts deleted rows, makes them so. Business fields are one
field `content` or `evidence`; `None` is a blank that validation rejects. Requests
that fail to bind (400) or carry no valid token (401) change nothing and are
left out. Decisions are written under distinct request ids. Time and wording are
left out. `SeedStatus` gives each code the *set* of statuses a seed may have, so
that one run starts from several tables. Match and write of an UPDATE are one step,
`Matches` evaluated in the same action as the write: PostgreSQL at READ COMMITTED
re-evaluates the WHERE clause on the row it waited for, MySQL matches the current
row, SQLite has one writer at a time.

**RateLimiter.** `Increment` is the MULTI/INCR/EXPIRE/EXEC pipeline, atomic in
Redis. `Resend` is an answer lost on the way that makes the client library send the
pipeline again, `IncrementFails` an error after which the request goes to the local
map, counted or not. `IncrementLocal` is the whole of `incrementLocal`, which holds
the mutex and reads the clock inside it, with its cleanup. Time is the number of
the minute, the same for all servers. The Redis key is built in `Arrive`, before
the command is sent, so a request may be counted in the minute after its own;
`Tick` assumes no longer delay, since the time limits of the Redis client are
seconds. A process that is started again is another server, with an empty map.

**Startup.** Actions follow `Open`, `migrate` and `Seed` call by call. The users and
the record tables are each seeded by one INSERT (`InsertAll`); the decisions by a
transaction of two INSERTs each (`InsertNext`), where a code that another open
transaction has inserted must be waited for, and `Commit`. An error at any call
ends the process (`Exit`) and rolls its transaction back; Compose starts it again
(`Restart`). A commit whose answer is lost is `Commit` followed by `Kill`. The three
record tables are seeded by the same code, so instances have one of them
between the users and the decisions. Code that only users create is one code per
table. `CreateTables` is one step for the seven tables that `migrate` creates one by
one; a start cut short between them is followed by one that creates the rest. Compose
runs one server; several are what the shared limiter is built for.

**Reports.** `CountItems` and `FindItems` are the two statements of `List` and
`ListAudits`; `CountTotal` to `GroupEntities` the five of `SummarizeAudits`. `PagesOf`
is what a SELECT with offset and limit may return when its order leaves ties open,
as `created_at DESC` does for entries of one instant and `updated_at DESC, id DESC`
does not. `BoundSize` is `bindPage`, `NormalSize` is `normalizePage`; `ToldSize` is the
size the answer names, which for audit entries is the one before `normalizePage`.
A client walks from page 1 to the first page that is not full. Writers are those of
`RecordStore` with their data reduced to what lists show: membership, status, version
and `updated_at`. A handler reads the record (`ReadRow`), handler or GORM reads the
clock before the statement is sent (`StampRow`, `StampEntry`), and `CommitRow` stores the
copy if the row still has the version the client named (`Matches`), which need not be the
version read; so rows are stored in another order than they are stamped. A create gets a
free id when it is stored. A search is a choice of rows, of which the status filter is
the instance modelled. `reader.started`, `touched`, `sunk` and `quiet` are history for
the properties, and so is `ahead` in a writer.

**Workbench.** `INSTANCE RecordStore` is the server; the requests are the clicks of
the tabs and the calls of other clients. All tabs are on the page of one table,
`Kind`, since each page has a store of its own. A click goes through `Confirm`, `Arrive`
and the handler's steps, `ClickSucceeds` or `ClickFails`, and the load that follows.
`ClickFails` may happen at any time: the browser gave up, and the request may still
reach the server. Loads (`Refresh`, and the one after a click) are served by a
SELECT at one moment and answered at another, in any order, with any subset of the
records (search, first page). `Shut` is the `pending.value = null` after a load that
a click waited for: it shuts the dialog that is open by then, whichever it is.
`Idle` is the `finally` of a load. The loading mask does not stop the keyboard, so
rows can be acted on while a load is under way. Leaving a page and coming
back is `Cancel` and `Refresh`. Every tab starts with the seeds on screen.

**Session.** `ReadUser` and `SignToken` are the two halves of `Login`, with a bcrypt
comparison and no time limit between them: the row may change meanwhile, and the clock
runs on. `since` in a login is the time of its SELECT and `took` in a token the time from
there to the signature, both history. The users table is changed by hand (`ChangeUser`): the
server has no route for it, but `active` and `role` are columns the login honours.
`stored` is `localStorage`, common to all tabs, and `shown` the `session` of `useAuth`
in each. Requests and the router's guard read `stored`, the buttons `shown`. The
places of a tab are the login page and the rest. A 401 is an error on the page
and changes no session. `unheld` counts, for each user and role, the time since
the row last gave it (`Never` beyond any reach), and `discarded` holds the tokens given
up that are neither expired nor gone from the browser.

**`Ahead`.** The handlers accept any positive `expectedVersion`. `Ahead` bounds how
far it may exceed the version stored when the handler reads, in the store modules and in
`Reports`. `Ahead = 0` is a
client that sends a version it was shown; `Ahead = 1` already reaches everything
that goes wrong otherwise, because one commit by another request makes the
named version real. Which properties need `Ahead = 0` is part of the result, and
the modules list them apart.

## 3. Properties and runs

### PriorityDecision

| Property | What it says |
|---|---|
| `RevisionChain` | revisions are numbered 1 to the stored version, no gap, no duplicate; the last one is the row |
| `IndependentReview` | every final revision is by a reviewer or administrator who did not write revision 1 |
| `AnswerTruthful` | a success is in the tables under the request's id, a refusal or conflict left no trace, 404 after an applied write means it was deleted since |
| `AuditTruthful` | no entry without its revision or deletion; a decision is deleted once |
| `AcknowledgedAudited` | a transition answered 200 and a delete answered 204 are in the log |
| `AnswerCoversVersion` | record and revisions of an answer come from two SELECTs, yet the revisions cover the record's version; a writer sees at least its own |
| `WriteBasedOnCurrent` (`Ahead = 0`) | a write that passes the version check overwrites the row it was computed from |
| `ConflictHasWinner` (`Ahead = 0`) | 409 only when somebody else's write or delete superseded the version |
| `ReviewedEvidence` (`Ahead = 0`) | a final revision follows a draft and carries its evidence |
| `AuditBefore` (`Ahead = 0`) | the entry's before-state is the status the write replaced |
| `FinalContentFrozen` (`Ahead = 0`) | no step changes a final decision's status, evidence or version |
| `ImplementsLedger` (`Ahead = 0`) | refinement of `DecisionLedger` |

| Run | Instance | Question |
|---|---|---|
| `informed` | 1 code, unused or a seeded draft, operator and administrator, 3 requests, 2 evidences, `Ahead = 0` | what rests on honest versions, the answers, and the refinement from the first draft to the end |
| `any_version` | a draft, a final and an unused code, 2 requests, 4 roles, 2 evidences, `Ahead = 1` | what does not rest on honest versions, with reviewers and administrators as preparers |
| `final_deleted`, `final_overwritten`, `final_unaudited` | 1 draft, 2 requests | the findings below |

### RecordStore

| Property | What it says |
|---|---|
| `OneWinner` | of the requests that named the same version of a record, at most one is told it succeeded |
| `OwnWriteShown` | the record a writer is shown is its own version, as written, or a newer one |
| `ConflictHasWinner` (`Ahead = 0`) | as above |
| `AuditAccountsForStatus` (`Ahead = 0`) | where no transition lost its entry, the log's transitions lead from the first status of the record to its present one (each status entered as often as left, but for the two ends) |
| `ImplementsRegister` (`Ahead = 0`) | refinement of `RecordRegister`: opened once, edited without moving, moved along the graph without editing, removed for good |

| Run | Instance | Question |
|---|---|---|
| `records` | one record of each table, seeded or new, 3 requests, 2 contents, `Ahead = 0` | all properties, with the three graphs |
| `illegal_edge` | 1 bridge, 2 requests, `Ahead = 1` | the finding below |

### RateLimiter

| Property | What it says |
|---|---|
| `OwnNumber` | no counter gives two requests the same number, whatever expires, is cleaned, lost or sent again: a counter admits at most `Limit` requests of a client and route per minute |
| `RejectedOnlyWhenFull` | a rejected request finds `Limit` others admitted by its counter; a Redis counter may also have been used up in vain by lost answers |
| `CurrentCountKept` | a running server's bucket of the current minute has counted all its requests, cleanups or not |
| `MapBounded` | more than `CleanupAt` buckets are tracked only if all are of one minute |

What does *not* hold, and is not claimed: the limit per client over all servers.
Each server falls back to a map of its own, so a Redis outage admits up to `Limit`
more per server and per restart.

| Run | Instance | Question |
|---|---|---|
| `limiter` | 3 requests, 2 servers, 2 clients, limit 2, cleanup from 1 bucket, 1 resend, 3 minutes | all properties, under lost answers, failures, expiry and stops |

Here `CleanupAt` stands for 512, `Limit` for `REQUEST_LIMIT` (180 by default, 240 in
Compose), `MaxRetries` for the 3 of the client
library, and `MaxMinute` bounds the clock: minute 2 is the first in which a key of
minute 0 may expire. Three requests fill a limit of two and go past the
cleanup with two clients, of one minute or of two.

### Startup

| Property | What it says |
|---|---|
| `ServingSeeded` | if a server answers, every table holds its seeds (or did, before users deleted them) |
| `SeededWhole` | a table's seeds are stored all or none, a decision exactly with its revisions: the initial states of `PriorityDecision` |
| `NotResurrected` | no start brings a deleted record back |
| `StartsUp` | unless a table stays emptied of live records, all servers serve in the end |

The condition of `StartsUp` is real: `Count` leaves soft-deleted rows out and the
unique index does not, so after the last live record of a table is deleted every
start inserts taken codes and exits, until another server creates a record.

| Run | Instance | Question |
|---|---|---|
| `startup` | 2 servers, 3 tables, 2 seeds, 2 attempts, 2 faults | all properties, under `FairSpec` |

`MaxFaults` bounds kills, outages and expired start contexts together: two are
enough to kill one server in its transaction and the other after it, or to lose
the database between the two pings of one attempt (`MaxAttempts` stands for 20).

### Reports

| Property | What it says |
|---|---|
| `WalkComplete` | a walk misses only what was written meanwhile, what slipped because a row left the list or was stored under an older time, or entries that share their instant with another |
| `WalkExact` | if nothing was written meanwhile, a walk meets each item once, as many as the total told |
| `SummaryConsistent` | the five parts of a summary are read at five moments, yet the total never exceeds the sum over actions, nor that the sum over entity types; no more transitions are counted than grouped, nor actors than actions |
| `UpdatedAtRises` | a write that names the version it was shown never takes `updated_at` back, whatever versions others name: it sinks no record |

What does *not* hold, and is not claimed: equality of the parts under writers, and a
walk without repetitions: a record that is updated moves to page 1 and pushes
others to the page still to come. Nor does `updated_at` only rise: a handler that has
read and stamped, and named the next version, may store its copy over one stamped later.
The record then sinks to a page still to come, another moves up to one already read, and
a walk misses that one though nobody wrote it and the list kept all its records. Without
the words "or was stored under an older time" TLC finds this walk.

| Run | Instance | Question |
|---|---|---|
| `reports` | 2 seeds and 2 free ids, 2 writers, `Ahead = 1`, page sizes 2 and 3 asked (maximum 2, default 1), window 1, clock 1 to 2 | all properties |

`MaxSize` stands for 100 and `DefaultSize` for 20: a size of 3 is one that `bindPage`
turns into the default and `normalizePage` would turn into the maximum. The log is
empty or holds an older entry of another type, before the window at a later summary.

### Workbench

| Property | What it says |
|---|---|
| `ImplementsInformed` | behind the pages, `RecordStore` behaves as with `Ahead = 0`: however stale a page and late a request, no page names a version it was not shown. What is checked and proved under `Ahead = 0` holds for clients that use the pages |
| `ConfirmedRowMoved` | a transition is applied to the very row shown in the dialog, status, content and version, or not at all |
| `OfferedIsAccepted` | 403 and 422 answer a click only if the row changed since it was shown: the pages' copies of graphs and roles agree with the server's |
| `BusyHasCause` | the loading indicator is on only while a call of the tab is under way |

`OfferedIsAccepted` is README's promise that "routes, frontend guards, navigation and
buttons are consistent". The indicator may be *off* while a call is under way,
because each call switches it off; nothing promises otherwise.

| Run | Instance | Question |
|---|---|---|
| `workbench` | 1 tab of an administrator, 1 closed finding, 2 clicks, 1 load, 1 call of another client | all properties |

Two clicks and their loads, a toolbar load and a foreign write give every order of
three answers, the double confirmation, and the dialog opened over a click under way.
Another tab is another client. A closed finding has one target in its graph, so
offering any other is caught.

### Session

| Property | What it says |
|---|---|
| `RoleRecentlyHeld` | a request is accepted in a role only if its user held that role, active, less than `TTL` plus the duration of the login ago, however the row changed during the login and since |
| `DiscardedUnused` | after a logout or another login in one tab, no tab sends the token given up |

| Run | Instance | Question |
|---|---|---|
| `session` | 1 user with a role the guards know and one they do not, 2 tabs, 1 request, `TTL = 1`, clock to 2 | both properties |

Tokens are told apart by role, expiry and duration of the login, so one user has several
sessions. Three moments let a login last as long as a lifetime, and a token be signed,
expire and be replaced by another. The bound of `RoleRecentlyHeld` is exact: one unit
less, or `TTL` alone, is violated in this instance.

### Bounds and fairness

**Why these bounds.** In the store modules every property relates at most a record, its history and
three requests: a writer, the one that beats it and an observer (a reader, a
deleter, or a second review). Three requests on one record contain all of those,
with every interleaving of their calls and every failure; a second record only
multiplies states, since no handler touches two, and `any_version` and `records`
use several records only to have several seeds and graphs at once. Two contents
distinguish "mine" from "theirs". Each property also has a mutant in
`PROJECT.json`, a plausible bug that breaks it within the same bounds: the bound
is large enough for the case to happen. Requests run once, so every instance
comes to rest when all are over: the runs turn the deadlock check off. Handlers
are straight-line code with no lock, wait or retry, so that nothing rests half way is
plain and no property says it. Symmetry over requests, writers, tabs and contents is
sound because no constant or definition tells them apart; `startup`, the run with
liveness, does not use it.

**Fairness.** Only `Startup` has liveness. Its `FairSpec` asks weak fairness of the next
step of a starting server, of `Restart` (`restart: unless-stopped`) and of `Recover`, the
end of an outage; users and faults owe nothing.

## 4. Findings

1. `final_deleted` - `Delete` checks "not final" on its first read, then
   soft-deletes by id alone. A decision finalised in between is deleted, though
   `service/errors.go` calls final decisions immutable.
2. `final_overwritten` - `Update` never compares `expectedVersion` with the version
   it read. A request that named the *next* version passes the draft check, waits
   for the review to commit, and writes its stale draft over the final decision.
3. `final_unaudited` - the audit entry is a statement of its own after the transaction,
   sent only when the transaction is known to have committed. In the trace the commit is
   applied and its answer lost: `Transition` returns the error, never reaches `Audit`, and
   the finalised decision has no entry, while README.md promises one for every change of
   status. (An insert that fails, or a process that stops before it, ends the same way.)
4. `illegal_edge` - the same omission as in 2, in the record services: an edit that read a
   restricted bridge and named the next version waits for another request's legal
   transition to `retired`, and then writes its stale status over it. The bridge leaves an
   end of its graph by a request that, says `dto/bridge_asset.go`, cannot bypass the state
   machine.

2 and 4 need a client that sends a version it was not shown; 1 and 3 do not.

## 5. What is proved

TLAPS checks the following for every value of the constants: any number of records,
requests, users, contents, servers, clients, tabs, and any limits. All that is assumed
of the constants are the named ASSUMEs of the modules: `None` is no other value, roles
are roles, graphs are closed and initial statuses in them, the seeded reviewer is
entitled and is not the preparer, limits and bounds are natural numbers and the limit is
not 0, seeds are at least one and tables at least two, ids are finitely many, audit
entries are numbered as they were inserted (`LogsAssumption`), and the tabs of
`Workbench` show one of the three kinds of records, which the server moves along the
graph of that kind (`TableAssumption`). TLC evaluates each of them on its instance.

**Priority decisions**

| Theorem | Statement | Argument |
|---|---|---|
| `PriorityDecisionProofs!TypeCorrect` | `Spec => []TypeOK` | inductive as it stands, since `LocalsOK` says what locals each program point needs |
| `RevisionsChained` | `Spec => []RevisionChain` | `TypeOK` and the chain are inductive: the version check makes each new revision the next one (`ChainGrows`) |
| `ReviewIndependent` | `Spec => []IndependentReview` | needs more than itself. `ReviewInv` adds that the row's preparer is the actor of revision 1 and that a handler waiting to write was checked against that same preparer: the write may hit a newer row than was checked, and only the preparer is certain not to have changed |
| `LockSound` | `Ahead = 0`: `[]WriteBasedOnCurrent` | `BaseInv`: a waiting handler names a version at most the stored one, and if it is the stored one, the row is what was read; versions only grow, and a row changes only with its version (`VersionGrows`) |
| `FinalFrozen` | `Ahead = 0`: `FinalContentFrozen` | from `BaseInv`: a write that matches was checked on this row, so the row was a draft |
| `PriorityDecisionAnswers!AnswersTruthful`, `LogTruthful`, `SuccessAudited`, `AnswersCovered` | `Spec => []AnswerTruthful`, `AuditTruthful`, `AcknowledgedAudited`, `AnswerCoversVersion` | one invariant, `TraceInv`, ties tables, log and handlers in both directions: a revision or an entry tells what its request asked and how far it has come (`Traced`, `Reported`), an entry has its revision or deletion (`Vouched`), a handler at each program point has stored what its earlier calls stored (`Footing`), and an answer means what it says (`Meant`). It is kept because the tables only grow (`TablesGrow`), and two deletes of a decision cannot both be on their way to the log (`DeletedOnce`) |
| `EvidenceReviewed`, `BeforeReplaced`, `ConflictWon` | `Ahead = 0`: `[]ReviewedEvidence`, `[]AuditBefore`, `[]ConflictHasWinner` | `InformedInv` beside all the former: the row a write replaces is the row its handler read (`BaseInv`), so the evidence written back and the before-state carried to the log (`Replaced`) are those of the last revision; the loser of a conflict found its row deleted or newer, and it stays so (`Beaten`) |
| `LedgerImplemented` | `Ahead = 0`: `Spec => ImplementsLedger` | a step of the ledger per commit, a stutter for every other step; the guards of the ledger come from `Entitled`, which no step takes away, `ReviewInv` and `BaseInv` |

**Records**

| Theorem | Statement | Argument |
|---|---|---|
| `RecordStoreProofs!TypeCorrect` | `Spec => []TypeOK` | as above; a row also keeps to the statuses of its own table |
| `RegisterImplemented` | `Ahead = 0`: `Spec => ImplementsRegister` | `PendingInv`, the counterpart of `BaseInv`, then each commit is one step of the register and every other step a stutter (`RegisterStep`) |
| `WinnerUnique` | `Spec => []OneWinner` | needs more than itself: `WonInv` follows a write from its commit to its answer. A committed write shows in its row (`Shows`: as written, or a later version), so a second commit, which finds the version it named in the row, named another one |
| `WriteShown` | `Spec => []OwnWriteShown` | the same invariant: rows go on showing a committed write (`ShowsKept`), so the second read finds it |
| `ConflictWon` | `Ahead = 0`: `[]ConflictHasWinner` | `Beaten`: the row a loser found was deleted or past the version it named, and stays so |
| `LogAccounts` | `Ahead = 0`: `[]AuditAccountsForStatus` | counting what is in the log is not inductive, since entries come late. `Foreseen` adds the entries under way to it: a commit adds one entry to what is foreseen, an append none, and each new entry leads on from the status that was replaced (`PendingInv`), so that what is foreseen always balances (`BalanceMore`), unless a transition was lost on the way (`Unclear`) |

**Reports, limiter, startup, workbench, session**

| Theorem | Statement | Argument |
|---|---|---|
| `ReportsProofs!WalksComplete` | `Spec => []WalkComplete` | `WalkInv` counts the rows before a row: an item that a walk owes has not been passed by, since at least as many rows precede it as the pages read could hold (`Due`). Writes only add to those rows, by their ids, while none leaves the list or is stored under an older time (`NoneSinks`, `NoneMovesUp`), whatever versions are named. A page that does not reach the item is full (`PageIsFull`), by the size told as by the size applied (`SizeTold`) |
| `StampsRise` | `Spec => UpdatedAtRises` | `StampInv`: an informed write names a version no later than the stored one, and if it is that one, the row is as it was read and stamped no later than the write (`Timely`); every other write gives the row another version (`CommitRises`) |
| `WalksExact` | `Spec => []WalkExact` | undisturbed, what has been read is a head of the list (`HeadRead`), and where the order leaves no choice there is one head of each length (`HeadsUnique`) |
| `SummaryAgrees` | `Spec => []SummaryConsistent` | the groups of a column add up to the entries (`GroupsAddUp`, by numbering the entries of each group), and what is recent only grows while its lower bound stands |
| `RateLimiterProofs!NumbersUnique`, `RejectedForCause` | `Spec => []OwnNumber`, `[]RejectedOnlyWhenFull` | `OwnNumber` is not inductive: a counter that expired or was dropped would start over. `RedisInv` says that a Redis counter outlives every request that may still reach it, is at least every number it gave and gave all numbers up to it, but for those lost on the way; `LocalInv` says the same of the bucket of the current minute; `CallInv` bounds how late a request may be |
| `CountsKept` | `Spec => []CurrentCountKept` | `CountInv`, the same with cardinalities: one request more, one number more |
| `MapStaysBounded` | `Spec => []MapBounded` | `MapInv`: a count above the threshold drops every other minute first, one below it adds at most one bucket |
| `StartupProofs!ServesSeeded`, `SeedsWhole` | `Spec => []ServingSeeded`, `[]SeededWhole` | together inductive with `SeedingInv` (a server past a table leaves it seeded, and users write only where there are seeds) and `OpenInv` (one open transaction, over a table without seeds): what a killed server rolls back, no other has built on |
| `DeletedStay` | `Spec => NotResurrected` | every step of a server adds rows where there are none, or none at all |
| `WorkbenchProofs!InformedImplemented` | `Spec => ImplementsInformed` | whatever a tab shows, has loaded, offers or has sent is a past of the stored row (`Screens`): same version means same row, otherwise the stored one is newer. So a click names a version that `RecordStore` with `Ahead = 0` allows. The server's part comes from the lemmas of `RecordStoreProofs`, instantiated |
| `ShownRowMoved` | `Spec => ConfirmedRowMoved` | the version check admits the click only over the version it showed, hence over the row it showed |
| `OffersAccepted` | `Spec => []OfferedIsAccepted` | pages and server have the same graphs and ranks (`SameGraph`), so a refusal of a writer's offer means another status, and another status a newer version |
| `BusyCaused` | `Spec => []BusyHasCause` | needs that a click's own load begins only after the click is over (`Following`) |
| `SessionProofs!RoleHeld` | `Spec => RoleRecentlyHeld` | `Vouched`: how long ago the role of a token was held, plus its expiry, is at most the time plus `TTL` plus what the login took. It was held when the login read it, a role lapses no faster than the clock goes, and the token is signed with both times in it; so one not expired was vouched for less than `TTL` and its login ago |
| `GivenUpUnused` | `Spec => DiscardedUnused` | the stored session is never one given up |

`Ahead = 0` cannot be dropped where it stands: findings 2 and 4 are counterexamples
for `LockSound`, `FinalFrozen`, `LedgerImplemented` and `RegisterImplemented`, and a
client ahead of the table is refused without a winner, or replaces a row that it
did not read. Everything else holds whatever versions anybody names (`UpdatedAtRises` of
those who name what they were shown), and
`InformedImplemented` shows that the hypothesis is what the pages guarantee.

How the leaves are cut matters to the provers: that a record with many fields keeps
its type is proved one field at a time (`ReaderField`, `RequestField`, `ProcessField`),
since an update of several fields at once is translated too slowly for the SMT solver;
and that a step leaves the other requests alone is shown per action (`OthersKept`).
`tlapm --stretch 0.2` on each proof module shows how far its leaves are from the
provers' time limits.

Only model-checked is liveness (`StartsUp`), since fairness and
ENABLED are out of the prover's reach. Every property proved was checked by TLC on the
instances of section 3 before. No module here declares a
RECURSIVE operator, and `Sum` in `Reports` is a cardinality rather than a fold: what a
fold returns for every set would need an induction that the provers cannot instantiate.

## 6. Not modelled

Token cryptography, password hashing, JSON binding, logging, configuration
parsing, health pings, nginx and compose files, page layout and wording: either
no state of their own, or nothing a state machine says of them that the code
does not show. Time appears only where a part decides by it.
Of the limiter, its response headers and status page; of the startup, the listener.
Of the reports, the history of an entity, one SELECT in the order of `ListAudits`; the
overview, four counts of one SELECT each over tables that no rule relates; the
clamping of the summary's window; and the LIKE patterns of a search. Of the workbench,
the create dialog, which sends no version and whose code from the clock may
collide (then `CodeTaken`); the page of the priority decisions, whose server side
is `PriorityDecision` and whose buttons add the check for another preparer; the audit
page, one load when it is entered. `Workbench` takes the sessions of its tabs as
fixed, `Session` takes any guarded request for all.

## 7. Plan

Order of work, most important behaviour first; all of it is done.

1. `PriorityDecision` with `DecisionLedger`: the core.
2. `RecordStore` with `RecordRegister`.
3. `RateLimiter`.
4. `Startup`.
5. `Reports`: paging and the audit summary against concurrent writers.
6. `Session`.
7. `Workbench` over `RecordStore`: `Ahead = 0` is what the frontend really guarantees.
8. Proofs: all properties that a passing run checks, but for liveness.
