----------------------------- MODULE RecordStore -----------------------------
(***************************************************************************)
(* Bridges, inspection rounds and defect findings: three tables behind the *)
(* generic Store, whose services differ only in their transition graph.    *)
(*                                                                         *)
(* A handler makes several database calls and holds no lock between them.  *)
(* Each call is a step, as in PriorityDecision, but there is no revision   *)
(* table, an edit checks neither status nor owner, a delete looks at       *)
(* nothing, and a create answers with its own copy:                        *)
(*                                                                         *)
(*   idle --(Get, checks)--> write --> audit --(update, transition)-->     *)
(*        reread --> done                                                  *)
(***************************************************************************)
EXTENDS Naturals, FiniteSets, StatusGraphs, AccessControl

CONSTANTS
  Records,          \* codes; the unique index makes code and id one key
  GraphOf,          \* the transition graph of each record's table
  InitialStatusOf,  \* the status a new record of that table gets
  Requests,         \* requests, each one execution of a handler
  Users,
  RoleOf,           \* the role claim of each user's token
  Content,          \* business content; one field stands for all of them
  SeedStatus,       \* status of each seeded record, "none" where none is
  Ahead,            \* how far expectedVersion may exceed the version stored
  None              \* blank or absent

ASSUME ConstantsAssumption ==
  /\ None \notin Records \cup Requests \cup Users \cup Content
  /\ RoleOf \in [Users -> Roles]
  /\ \A d \in Records :
       /\ InitialStatusOf[d] \in DOMAIN GraphOf[d]
       /\ SeedStatus[d] \in {"none"} \cup DOMAIN GraphOf[d]
       /\ "none" \notin DOMAIN GraphOf[d]
       /\ \A s \in DOMAIN GraphOf[d] : GraphOf[d][s] \subseteq DOMAIN GraphOf[d]
  /\ Ahead \in Nat

VARIABLES
  rows,    \* the record tables
  audits,  \* the audit_logs rows about these records
  req      \* per request, the handler's place and its local variables

vars == <<rows, audits, req>>

-----------------------------------------------------------------------------
(* Rows, audit entries and requests *)

Ops == {"create", "update", "transition", "delete", "read"}

StatusesOf(d) == DOMAIN GraphOf[d]

Statuses == UNION {StatusesOf(d) : d \in Records}

Row ==
  [state : {"live", "deleted"}, status : Statuses,
   version : Nat \ {0}, content : Content]

NoRow == [state |-> "absent", status |-> "none", version |-> 0, content |-> None]

AuditLog ==
  [request : Requests, actor : Users, action : Ops \ {"read"}, id : Records,
   before : Statuses \cup {"none"}, after : Statuses \cup {"deleted"}]

Codes == {200, 201, 204, 403, 404, 409, 422, 500}

InFlight == {"write", "audit", "reread"}

\* A request not yet sent; also the blank that locals fall back to.
Idle ==
  [pc |-> "idle", op |-> "none", actor |-> None, id |-> None, expected |-> 0,
   before |-> "none", status |-> "none", content |-> None, code |-> 0,
   seen |-> NoRow]

Request ==
  [pc : {"idle", "done", "gone"} \cup InFlight,
   op : Ops \cup {"none"},
   actor : Users \cup {None},
   id : Records \cup {None},
   expected : Nat,
   before : Statuses \cup {"none"},
   status : Statuses \cup {"none"},
   content : Content \cup {None},
   code : Codes \cup {0},
   seen : Row \cup {NoRow}]

Live(d) == rows[d].state = "live"

SeedRow(d, c) ==
  IF SeedStatus[d] = "none" THEN NoRow
  ELSE [state |-> "live", status |-> SeedStatus[d], version |-> 1, content |-> c]

Init ==
  /\ \E c \in Content : rows = [d \in Records |-> SeedRow(d, c)]
  /\ audits = {}
  /\ req = [r \in Requests |-> Idle]

-----------------------------------------------------------------------------
(* Answers *)

\* The handler is over.  The client still knows what it asked for: operation,
\* record, version, status and content are kept of an acknowledged write.
Answer(call, code, seen) ==
  [call EXCEPT !.pc = "done", !.actor = None, !.before = "none",
               !.code = code, !.seen = seen]

Refused(call, code) ==
  [Answer(call, code, NoRow) EXCEPT !.status = "none", !.content = None]

\* 0 is "no objection": the handler goes on to its write.
Proceed(call, refusal) ==
  IF refusal = 0 THEN [call EXCEPT !.pc = "write"] ELSE Refused(call, refusal)

-----------------------------------------------------------------------------
(* Up to the write: route guard, first Get, checks *)

\* expectedVersion is whatever the client sends, up to Ahead beyond the
\* version stored when the handler reads.
ExpectedVersions(d) == 1 .. rows[d].version + Ahead

Call(op, u, d) == [Idle EXCEPT !.op = op, !.actor = u, !.id = d]

CreateRefusal(u, c) ==
  IF ~HasMinimumRole(RoleOf[u], "operator") THEN 403
  ELSE IF c = None THEN 422
  ELSE 0

Create(r) ==
  /\ req[r].pc = "idle"
  /\ \E u \in Users, d \in Records, c \in Content \cup {None} :
       LET call == [Call("create", u, d) EXCEPT
                      !.status = InitialStatusOf[d], !.content = c]
       IN  req' = [req EXCEPT ![r] = Proceed(call, CreateRefusal(u, c))]
  /\ UNCHANGED <<rows, audits>>

\* Mutant: blank fields are accepted.
UpdateRefusal_BlankToo(u, d, c) ==
  IF ~HasMinimumRole(RoleOf[u], "operator") THEN 403
  ELSE IF ~Live(d) THEN 404
  ELSE 0

UpdateRefusal(u, d, c) ==
  IF ~HasMinimumRole(RoleOf[u], "operator") THEN 403
  ELSE IF ~Live(d) THEN 404
  ELSE IF c = None THEN 422
  ELSE 0

\* The status written back is the status read here.
Update(r) ==
  /\ req[r].pc = "idle"
  /\ \E u \in Users, d \in Records, c \in Content \cup {None} :
     \E v \in IF UpdateRefusal(u, d, c) = 0 THEN ExpectedVersions(d) ELSE {0} :
       LET call == [Call("update", u, d) EXCEPT
                      !.expected = v, !.content = c,
                      !.before = rows[d].status, !.status = rows[d].status]
       IN  req' = [req EXCEPT ![r] = Proceed(call, UpdateRefusal(u, d, c))]
  /\ UNCHANGED <<rows, audits>>

\* Mutant: the target is only checked to be a status of the table.
TransitionRefusal_TargetOnly(u, d, target) ==
  IF ~HasMinimumRole(RoleOf[u], "operator") THEN 403
  ELSE IF ~Live(d) THEN 404
  ELSE IF target \notin StatusesOf(d) THEN 422
  ELSE 0

TransitionRefusal(u, d, target) ==
  IF ~HasMinimumRole(RoleOf[u], "operator") THEN 403
  ELSE IF ~Live(d) THEN 404
  ELSE IF ~CanTransition(GraphOf[d], rows[d].status, target) THEN 422
  ELSE 0

\* The content written back is the content read here.
Transition(r) ==
  /\ req[r].pc = "idle"
  /\ \E u \in Users, d \in Records : \E target \in StatusesOf(d) :
     \E v \in IF TransitionRefusal(u, d, target) = 0 THEN ExpectedVersions(d) ELSE {0} :
       LET call == [Call("transition", u, d) EXCEPT
                      !.expected = v, !.content = rows[d].content,
                      !.before = rows[d].status, !.status = target]
       IN  req' = [req EXCEPT ![r] = Proceed(call, TransitionRefusal(u, d, target))]
  /\ UNCHANGED <<rows, audits>>

DeleteRefusal(u, d) ==
  IF ~HasOneOf(RoleOf[u], {"admin"}) THEN 403
  ELSE IF ~Live(d) THEN 404
  ELSE 0

Delete(r) ==
  /\ req[r].pc = "idle"
  /\ \E u \in Users, d \in Records :
       LET call == [Call("delete", u, d) EXCEPT !.before = rows[d].status]
       IN  req' = [req EXCEPT ![r] = Proceed(call, DeleteRefusal(u, d))]
  /\ UNCHANGED <<rows, audits>>

-----------------------------------------------------------------------------
(* The write: one statement *)

\* The statement is applied; the handler is told so, or is told of an error.
Applied(r) ==
  \/ req' = [req EXCEPT ![r].pc = "audit"]
  \/ req' = [req EXCEPT ![r] = Refused(req[r], 500)]

NewRow(call) ==
  [state |-> "live", status |-> call.status, version |-> 1, content |-> call.content]

\* Mutant: the row keeps its version.
Overwritten_SameVersion(call) ==
  [rows[call.id] EXCEPT !.status = call.status, !.content = call.content]

\* Every column but id, code and deleted_at comes from the handler's copy.
Overwritten(call) ==
  [rows[call.id] EXCEPT !.status = call.status, !.content = call.content,
                        !.version = call.expected + 1]

CommitCreate(r) ==
  LET d == req[r].id
  IN  /\ req[r].pc = "write" /\ req[r].op = "create"
      /\ rows[d].state = "absent"
      /\ rows' = [rows EXCEPT ![d] = NewRow(req[r])]
      /\ Applied(r)
      /\ UNCHANGED audits

\* The unique index on code counts deleted rows too.
CodeTaken(r) ==
  /\ req[r].pc = "write" /\ req[r].op = "create"
  /\ rows[req[r].id].state # "absent"
  /\ req' = [req EXCEPT ![r] = Refused(req[r], 500)]
  /\ UNCHANGED <<rows, audits>>

\* Mutant: WHERE id = ?
Matches_NoVersion(call) == Live(call.id)

\* Mutant: the version compared with is the one already incremented.
Matches_NewVersion(call) ==
  /\ Live(call.id)
  /\ rows[call.id].version = call.expected + 1

\* WHERE id = ? AND version = ?, among the rows not deleted.
Matches(call) ==
  /\ Live(call.id)
  /\ rows[call.id].version = call.expected

CommitUpdate(r) ==
  /\ req[r].pc = "write" /\ req[r].op \in {"update", "transition"}
  /\ Matches(req[r])
  /\ rows' = [rows EXCEPT ![req[r].id] = Overwritten(req[r])]
  /\ Applied(r)
  /\ UNCHANGED audits

\* No row matched: ErrVersionConflict.
Conflict(r) ==
  /\ req[r].pc = "write" /\ req[r].op \in {"update", "transition"}
  /\ ~Matches(req[r])
  /\ req' = [req EXCEPT ![r] = Refused(req[r], 409)]
  /\ UNCHANGED <<rows, audits>>

\* Soft delete by id alone, whatever the record has become since the Get.
CommitDelete(r) ==
  LET d == req[r].id
  IN  /\ req[r].pc = "write" /\ req[r].op = "delete"
      /\ Live(d)
      /\ rows' = [rows EXCEPT ![d].state = "deleted"]
      /\ Applied(r)
      /\ UNCHANGED audits

DeleteMissed(r) ==
  /\ req[r].pc = "write" /\ req[r].op = "delete"
  /\ ~Live(req[r].id)
  /\ req' = [req EXCEPT ![r] = Refused(req[r], 404)]
  /\ UNCHANGED <<rows, audits>>

-----------------------------------------------------------------------------
(* After the write: audit, second Get, answer *)

\* Mutant: the before-state is read when the entry is written.
AuditEntry_LateBefore(call, r) ==
  [request |-> r, actor |-> call.actor, action |-> call.op, id |-> call.id,
   before |-> rows[call.id].status,
   after |-> IF call.op = "delete" THEN "deleted" ELSE call.status]

AuditEntry(call, r) ==
  [request |-> r, actor |-> call.actor, action |-> call.op, id |-> call.id,
   before |-> call.before,
   after |-> IF call.op = "delete" THEN "deleted" ELSE call.status]

\* A create answers with the copy it inserted, a delete with no content; the
\* others read the record again.
Audited(call) ==
  CASE call.op = "create" -> Answer(call, 201, NewRow(call))
    [] call.op = "delete" -> Refused(call, 204)
    [] OTHER              -> [call EXCEPT !.pc = "reread"]

\* Create and Update drop the error, Transition and Delete answer with it.
AuditFailed(call) ==
  IF call.op \in {"create", "update"} THEN Audited(call) ELSE Refused(call, 500)

AppendAudit(r) ==
  /\ req[r].pc = "audit"
  /\ audits' = audits \cup {AuditEntry(req[r], r)}
  /\ req' = [req EXCEPT ![r] = Audited(req[r])]
  /\ UNCHANGED rows

\* The insert reports an error; it may have been applied all the same.
AuditFails(r) ==
  /\ req[r].pc = "audit"
  /\ \/ audits' = audits
     \/ audits' = audits \cup {AuditEntry(req[r], r)}
  /\ req' = [req EXCEPT ![r] = AuditFailed(req[r])]
  /\ UNCHANGED rows

\* The SELECT of the record, by a GET request or at the end of a write.
Fetched(call) ==
  IF Live(call.id) THEN Answer(call, 200, rows[call.id]) ELSE Refused(call, 404)

Read(r) ==
  /\ req[r].pc = "idle"
  /\ \E d \in Records : req' = [req EXCEPT ![r] = Fetched(Call("read", None, d))]
  /\ UNCHANGED <<rows, audits>>

Reread(r) ==
  /\ req[r].pc = "reread"
  /\ req' = [req EXCEPT ![r] = Fetched(req[r])]
  /\ UNCHANGED <<rows, audits>>

-----------------------------------------------------------------------------
(* Failures *)

\* A statement fails with no effect: the first Get, the write, the second Get.
DatabaseError(r) ==
  /\ req[r].pc \in {"idle", "write", "reread"}
  /\ req' = [req EXCEPT ![r] = Refused(req[r], 500)]
  /\ UNCHANGED <<rows, audits>>

\* The process stops, or the connection is lost, with the request under way.
Crash(r) ==
  /\ req[r].pc \in InFlight
  /\ req' = [req EXCEPT ![r] = [Refused(req[r], 0) EXCEPT !.pc = "gone"]]
  /\ UNCHANGED <<rows, audits>>

-----------------------------------------------------------------------------

Arrive(r) == Create(r) \/ Update(r) \/ Transition(r) \/ Delete(r) \/ Read(r)

Write(r) ==
  \/ CommitCreate(r) \/ CodeTaken(r)
  \/ CommitUpdate(r) \/ Conflict(r)
  \/ CommitDelete(r) \/ DeleteMissed(r)

Continue(r) == Write(r) \/ AppendAudit(r) \/ Reread(r)

Fail(r) == AuditFails(r) \/ DatabaseError(r) \/ Crash(r)

Next == \E r \in Requests : Arrive(r) \/ Continue(r) \/ Fail(r)

Spec == Init /\ [][Next]_vars

-----------------------------------------------------------------------------
(* Invariants that hold whatever expectedVersion the client sends *)

\* The locals a handler has set by the time it reaches each call.
LocalsOK(call) ==
  /\ call.pc = "idle" => call = Idle
  /\ call.pc \in InFlight => call.op \in Ops \ {"read"} /\ call.id \in Records
  /\ call.pc \in {"write", "audit"} =>
       /\ call.actor \in Users
       /\ call.op # "delete" => call.status \in StatusesOf(call.id) /\ call.content \in Content
  /\ call.pc = "reread" => call.op \in {"update", "transition"}

\* Every variable has its type, every record a status of its own table, and
\* every handler under way its locals.
TypeOK ==
  /\ rows \in [Records -> Row \cup {NoRow}]
  /\ \A d \in Records : rows[d].status \in StatusesOf(d) \cup {"none"}
  /\ audits \subseteq AuditLog
  /\ req \in [Requests -> Request]
  /\ \A r \in Requests : LocalsOK(req[r])

\* No lost update: of the requests that named the same version of a record, at
\* most one is told that it succeeded (Store.Update).
OneWinner ==
  \A r, q \in Requests :
    /\ r # q
    /\ req[r].code = 200 /\ req[q].code = 200
    /\ req[r].op \in {"update", "transition"} /\ req[q].op \in {"update", "transition"}
    /\ req[r].id = req[q].id
    => req[r].expected # req[q].expected

\* The record a writer is shown is read by a later statement, yet it is the
\* writer's own version or a newer one, and its own version shows what it wrote.
OwnWriteShown ==
  \A r \in Requests :
    LET a == req[r]
    IN  a.code = 200 /\ a.op \in {"update", "transition"} =>
          /\ a.seen.version > a.expected
          /\ a.seen.version = a.expected + 1 =>
               a.seen.status = a.status /\ a.seen.content = a.content

-----------------------------------------------------------------------------
(* What holds as long as clients send a version they were shown (Ahead = 0) *)

\* 409 is answered only to a request that lost: the version it named has been
\* superseded, or the record deleted.
ConflictHasWinner ==
  \A r \in Requests :
    req[r].code = 409 =>
      \/ rows[req[r].id].state = "deleted"
      \/ rows[req[r].id].version > req[r].expected

FirstStatus(d) == IF SeedStatus[d] = "none" THEN InitialStatusOf[d] ELSE SeedStatus[d]

\* No transition of the record is under way or ended without a clear answer.
Settled(d) ==
  \A r \in Requests :
    req[r].op = "transition" /\ req[r].id = d =>
      req[r].pc \notin {"audit", "gone"} /\ req[r].code # 500

Moves(d) == {a \in audits : a.action = "transition" /\ a.id = d}

\* The audit log accounts for the status.  Where no transition was lost from
\* it, the record has entered each status as often as it left it, save that it
\* started in the first and is now in the last.
AuditAccountsForStatus ==
  \A d \in Records :
    rows[d].state # "absent" /\ Settled(d) =>
      \A s \in StatusesOf(d) :
        LET entered == Cardinality({a \in Moves(d) : a.after = s})
            left    == Cardinality({a \in Moves(d) : a.before = s})
        IN  entered + (IF s = FirstStatus(d) THEN 1 ELSE 0)
              = left + (IF s = rows[d].status THEN 1 ELSE 0)

\* What the table seen from outside is: a row without its version.
RegisterOf(d) ==
  [state   |-> IF rows[d].state = "deleted" THEN "removed" ELSE rows[d].state,
   status  |-> rows[d].status,
   content |-> rows[d].content]

Register == INSTANCE RecordRegister WITH register <- [d \in Records |-> RegisterOf(d)]

\* Whatever the interleaving, a record is opened once, edited without moving
\* it, moved along its graph without editing it, and once removed stays so.
ImplementsRegister == Register!Spec

-----------------------------------------------------------------------------
(* What the repository says and the code does not do *)

\* "callers cannot bypass the service state machine" (dto/bridge_asset.go):
\* a stored status only changes along the graph of its table.
StatusFollowsGraph ==
  [][\A d \in Records :
       rows[d].state = "live" /\ rows'[d].status # rows[d].status =>
         CanTransition(GraphOf[d], rows[d].status, rows'[d].status)]_vars

=============================================================================
