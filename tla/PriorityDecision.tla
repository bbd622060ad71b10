-------------------------- MODULE PriorityDecision --------------------------
(***************************************************************************)
(* Priority decisions: concurrent HTTP requests against the decision       *)
(* table, its append-only revision table and the audit log.                *)
(*                                                                         *)
(* A handler makes several database calls and holds no lock between them.  *)
(* Each call is a step here, so the handlers interleave at the same places *)
(* as the goroutines of the server do:                                     *)
(*                                                                         *)
(*    idle --(first Get, checks)--> write --(transaction)--> audit         *)
(*         --(append audit)--> reread --(row)--> preload --(revisions)-->  *)
(*         done                                                            *)
(*                                                                         *)
(* A request runs once; "done" carries the status code of its answer and   *)
(* "gone" is a request whose process or connection died under it.          *)
(***************************************************************************)
EXTENDS Naturals, StatusGraphs, AccessControl

CONSTANTS
  Decisions,   \* decision codes: the unique index makes code and id one key
  Requests,    \* requests, each one execution of a handler
  Users,
  RoleOf,      \* the role claim of each user's token
  Evidence,    \* business content; one field stands for all of them
  SeedStatus,  \* the statuses a decision may be seeded with, "none" for no seed
  Preparer,    \* actor of the seeded drafts
  Reviewer,    \* actor of the seeded reviews
  Ahead,       \* how far expectedVersion may exceed the version stored
  None         \* blank or absent

ASSUME ConstantsAssumption ==
  /\ None \notin Decisions \cup Requests \cup Users \cup Evidence
  /\ RoleOf \in [Users -> Roles]
  /\ SeedStatus \in [Decisions -> SUBSET ({"none"} \cup PriorityStatus)]
  /\ Preparer \in Users
  /\ Reviewer \in Users
  /\ Preparer # Reviewer
  /\ RoleOf[Reviewer] \in {"reviewer", "admin"}
  /\ Ahead \in Nat

VARIABLES
  rows,       \* the priority_decisions table
  revisions,  \* the priority_decision_revisions rows of each decision
  audits,     \* the audit_logs rows about decisions
  req         \* per request, the handler's place and its local variables

vars == <<rows, revisions, audits, req>>

-----------------------------------------------------------------------------
(* Rows, revisions, audit entries and requests *)

Ops == {"create", "update", "transition", "delete", "read"}

Row ==
  [state : {"live", "deleted"}, status : PriorityStatus,
   version : Nat \ {0}, evidence : Evidence, preparedBy : Users]

\* A code that was never inserted.
NoRow ==
  [state |-> "absent", status |-> "none",
   version |-> 0, evidence |-> None, preparedBy |-> None]

Revision ==
  [version : Nat \ {0}, status : PriorityStatus, evidence : Evidence,
   actor : Users, request : Requests \cup {None}]

AuditLog ==
  [request : Requests, actor : Users, action : Ops \ {"read"}, id : Decisions,
   before : PriorityStatus \cup {"none"}, after : PriorityStatus \cup {"deleted"}]

Codes == {200, 201, 204, 403, 404, 409, 422, 500}

InFlight == {"write", "audit", "reread", "preload"}

\* A request not yet sent; also the blank that locals fall back to.
Idle ==
  [pc |-> "idle", op |-> "none", actor |-> None, id |-> None, expected |-> 0,
   before |-> "none", status |-> "none", evidence |-> None, code |-> 0,
   seen |-> NoRow, revs |-> {}]

Request ==
  [pc : {"idle", "done", "gone"} \cup InFlight,
   op : Ops \cup {"none"},
   actor : Users \cup {None},
   id : Decisions \cup {None},
   expected : Nat,
   before : PriorityStatus \cup {"none"},
   status : PriorityStatus \cup {"none"},
   evidence : Evidence \cup {None},
   code : Codes \cup {0},
   seen : Row \cup {NoRow},
   revs : SUBSET Revision]

Live(d) == rows[d].state = "live"

-----------------------------------------------------------------------------
(* Seeded database *)

Seeds ==
  {seed \in [Decisions -> {"none"} \cup PriorityStatus] :
     \A d \in Decisions : seed[d] \in SeedStatus[d]}

SeedRow(status, e) ==
  IF status = "none" THEN NoRow
  ELSE [state |-> "live", status |-> status,
        version |-> IF status = "draft" THEN 1 ELSE 2,
        evidence |-> e, preparedBy |-> Preparer]

SeedRevisions(status, e) ==
  LET drafted == [version |-> 1, status |-> "draft", evidence |-> e,
                  actor |-> Preparer, request |-> None]
      reviewed == [version |-> 2, status |-> status, evidence |-> e,
                   actor |-> Reviewer, request |-> None]
  IN  CASE status = "none"  -> {}
        [] status = "draft" -> {drafted}
        [] OTHER            -> {drafted, reviewed}

Init ==
  /\ \E e \in Evidence, seed \in Seeds :
       /\ rows = [d \in Decisions |-> SeedRow(seed[d], e)]
       /\ revisions = [d \in Decisions |-> SeedRevisions(seed[d], e)]
  /\ audits = {}
  /\ req = [r \in Requests |-> Idle]

-----------------------------------------------------------------------------
(* Answers *)

\* The handler is over; its locals no longer exist.
Answer(call, code) ==
  [pc |-> "done", op |-> call.op, actor |-> None, id |-> call.id,
   expected |-> call.expected, before |-> "none", status |-> "none",
   evidence |-> None, code |-> code, seen |-> NoRow, revs |-> {}]

\* The answer carries the record and the revisions it was read with.
AnswerWith(call, code, revs) ==
  [Answer(call, code) EXCEPT !.seen = call.seen, !.revs = revs]

\* 0 is "no objection": the handler goes on to its transaction.
Proceed(call, refusal) ==
  IF refusal = 0 THEN [call EXCEPT !.pc = "write"] ELSE Answer(call, refusal)

-----------------------------------------------------------------------------
(* Up to the write: route guard, first Get, checks *)

\* expectedVersion is whatever the client sends, up to Ahead beyond the
\* version stored when the handler reads.  With Ahead = 0 the client names a
\* version it can have been shown.
ExpectedVersions(d) == 1 .. rows[d].version + Ahead

Call(op, u, d) == [Idle EXCEPT !.op = op, !.actor = u, !.id = d]

CreateRefusal(u, e) ==
  IF ~HasMinimumRole(RoleOf[u], "operator") THEN 403
  ELSE IF e = None THEN 422
  ELSE 0

Create(r) ==
  /\ req[r].pc = "idle"
  /\ \E u \in Users, d \in Decisions, e \in Evidence \cup {None} :
       LET call == [Call("create", u, d) EXCEPT !.status = "draft", !.evidence = e]
       IN  req' = [req EXCEPT ![r] = Proceed(call, CreateRefusal(u, e))]
  /\ UNCHANGED <<rows, revisions, audits>>

\* Mutant: the update of a final decision is not refused.
UpdateRefusal_FinalToo(u, d, e) ==
  IF ~HasMinimumRole(RoleOf[u], "operator") THEN 403
  ELSE IF ~Live(d) THEN 404
  ELSE IF u # rows[d].preparedBy /\ RoleOf[u] # "admin" THEN 403
  ELSE IF e = None THEN 422
  ELSE 0

\* Mutant: anyone above viewer may edit a draft.
UpdateRefusal_AnyEditor(u, d, e) ==
  IF ~HasMinimumRole(RoleOf[u], "operator") THEN 403
  ELSE IF ~Live(d) THEN 404
  ELSE IF rows[d].status # "draft" \/ e = None THEN 422
  ELSE 0

\* Mutant: blank evidence is accepted.
UpdateRefusal_BlankToo(u, d, e) ==
  IF ~HasMinimumRole(RoleOf[u], "operator") THEN 403
  ELSE IF ~Live(d) THEN 404
  ELSE IF rows[d].status # "draft" THEN 422
  ELSE IF u # rows[d].preparedBy /\ RoleOf[u] # "admin" THEN 403
  ELSE 0

UpdateRefusal(u, d, e) ==
  IF ~HasMinimumRole(RoleOf[u], "operator") THEN 403
  ELSE IF ~Live(d) THEN 404
  ELSE IF rows[d].status # "draft" THEN 422
  ELSE IF u # rows[d].preparedBy /\ RoleOf[u] # "admin" THEN 403
  ELSE IF e = None THEN 422
  ELSE 0

Update(r) ==
  /\ req[r].pc = "idle"
  /\ \E u \in Users, d \in Decisions, e \in Evidence \cup {None} :
     \E v \in IF UpdateRefusal(u, d, e) = 0 THEN ExpectedVersions(d) ELSE {0} :
       LET call == [Call("update", u, d) EXCEPT
                      !.expected = v, !.evidence = e,
                      !.before = rows[d].status, !.status = rows[d].status]
       IN  req' = [req EXCEPT ![r] = Proceed(call, UpdateRefusal(u, d, e))]
  /\ UNCHANGED <<rows, revisions, audits>>

\* Mutant: the preparer may finalise.
TransitionRefusal_PreparerToo(u, d, target) ==
  IF ~Live(d) THEN 404
  ELSE IF RoleOf[u] \notin {"reviewer", "admin"} THEN 403
  ELSE IF ~CanTransition(PriorityDecisionTransitions, rows[d].status, target) THEN 422
  ELSE 0

TransitionRefusal(u, d, target) ==
  IF ~HasMinimumRole(RoleOf[u], "operator") THEN 403
  ELSE IF ~Live(d) THEN 404
  ELSE IF RoleOf[u] \notin {"reviewer", "admin"} THEN 403
  ELSE IF u = rows[d].preparedBy THEN 422
  ELSE IF ~CanTransition(PriorityDecisionTransitions, rows[d].status, target) THEN 422
  ELSE 0

\* The evidence written back is the evidence read here.
Transition(r) ==
  /\ req[r].pc = "idle"
  /\ \E u \in Users, d \in Decisions, target \in PriorityStatus :
     \E v \in IF TransitionRefusal(u, d, target) = 0 THEN ExpectedVersions(d) ELSE {0} :
       LET call == [Call("transition", u, d) EXCEPT
                      !.expected = v, !.evidence = rows[d].evidence,
                      !.before = rows[d].status, !.status = target]
       IN  req' = [req EXCEPT ![r] = Proceed(call, TransitionRefusal(u, d, target))]
  /\ UNCHANGED <<rows, revisions, audits>>

DeleteRefusal(u, d) ==
  IF ~HasOneOf(RoleOf[u], {"admin"}) THEN 403
  ELSE IF ~Live(d) THEN 404
  ELSE IF rows[d].status # "draft" THEN 422
  ELSE 0

Delete(r) ==
  /\ req[r].pc = "idle"
  /\ \E u \in Users, d \in Decisions :
       LET call == [Call("delete", u, d) EXCEPT !.before = rows[d].status]
       IN  req' = [req EXCEPT ![r] = Proceed(call, DeleteRefusal(u, d))]
  /\ UNCHANGED <<rows, revisions, audits>>

-----------------------------------------------------------------------------
(* The write: one database transaction *)

\* The transaction is applied; the handler is told so, or is told of an error.
Applied(r, next) ==
  \/ req' = [req EXCEPT ![r].pc = next]
  \/ req' = [req EXCEPT ![r] = Answer(req[r], 500)]

NewRow(call) ==
  [state |-> "live", status |-> "draft", version |-> 1,
   evidence |-> call.evidence, preparedBy |-> call.actor]

\* Mutant: the row keeps its version.
Overwritten_SameVersion(call) ==
  [rows[call.id] EXCEPT !.status = call.status, !.evidence = call.evidence]

\* Everything is overwritten with the handler's copy except the preparer.
Overwritten(call) ==
  [rows[call.id] EXCEPT !.status = call.status, !.evidence = call.evidence,
                        !.version = call.expected + 1]

RevisionOf(call, r) ==
  [version |-> call.expected + 1, status |-> call.status,
   evidence |-> call.evidence, actor |-> call.actor, request |-> r]

AppendRevision(r) ==
  LET call == req[r]
  IN  revisions' = [revisions EXCEPT ![call.id] = @ \cup {RevisionOf(call, r)}]

\* CreateWithRevision; the unique index on code counts deleted rows too.
CommitCreate(r) ==
  LET d == req[r].id
  IN  /\ req[r].pc = "write" /\ req[r].op = "create"
      /\ rows[d].state = "absent"
      /\ rows' = [rows EXCEPT ![d] = NewRow(req[r])]
      /\ AppendRevision(r)
      /\ Applied(r, "audit")
      /\ UNCHANGED audits

\* The code was used before, by a row live or deleted: an error like any other.
CodeTaken(r) ==
  /\ req[r].pc = "write" /\ req[r].op = "create"
  /\ rows[req[r].id].state # "absent"
  /\ req' = [req EXCEPT ![r] = Answer(req[r], 500)]
  /\ UNCHANGED <<rows, revisions, audits>>

\* Mutant: WHERE id = ?
Matches_NoVersion(call) == Live(call.id)

\* Mutant: the version compared with is the one already incremented.
Matches_NewVersion(call) ==
  /\ Live(call.id)
  /\ rows[call.id].version = call.expected + 1

\* WHERE id = ? AND version = ?, among the rows not deleted.
Matches(call) ==
  /\ Live(call.id)
  /\ rows[call.id].version = call.expected

UniqueVersion(call) ==
  \A rev \in revisions[call.id] : rev.version # call.expected + 1

\* UpdateWithRevision
CommitUpdate(r) ==
  /\ req[r].pc = "write" /\ req[r].op \in {"update", "transition"}
  /\ Matches(req[r])
  /\ UniqueVersion(req[r])
  /\ rows' = [rows EXCEPT ![req[r].id] = Overwritten(req[r])]
  /\ AppendRevision(r)
  /\ Applied(r, "audit")
  /\ UNCHANGED audits

\* Mutant: RowsAffected is not looked at.
Conflict_Unnoticed(r) ==
  /\ req[r].pc = "write" /\ req[r].op \in {"update", "transition"}
  /\ ~Matches(req[r])
  /\ req' = [req EXCEPT ![r].pc = "audit"]
  /\ UNCHANGED <<rows, revisions, audits>>

\* Mutant: the revision is inserted outside the transaction.
Conflict_RevisionKept(r) ==
  /\ req[r].pc = "write" /\ req[r].op \in {"update", "transition"}
  /\ ~Matches(req[r])
  /\ AppendRevision(r)
  /\ req' = [req EXCEPT ![r] = Answer(req[r], 409)]
  /\ UNCHANGED <<rows, audits>>

\* No row matched: ErrVersionConflict.
Conflict(r) ==
  /\ req[r].pc = "write" /\ req[r].op \in {"update", "transition"}
  /\ ~Matches(req[r])
  /\ req' = [req EXCEPT ![r] = Answer(req[r], 409)]
  /\ UNCHANGED <<rows, revisions, audits>>

\* Soft delete by id alone; the checks were made on an earlier read.
CommitDelete(r) ==
  LET d == req[r].id
  IN  /\ req[r].pc = "write" /\ req[r].op = "delete"
      /\ Live(d)
      /\ rows' = [rows EXCEPT ![d].state = "deleted"]
      /\ Applied(r, "audit")
      /\ UNCHANGED <<revisions, audits>>

DeleteMissed(r) ==
  /\ req[r].pc = "write" /\ req[r].op = "delete"
  /\ ~Live(req[r].id)
  /\ req' = [req EXCEPT ![r] = Answer(req[r], 404)]
  /\ UNCHANGED <<rows, revisions, audits>>

-----------------------------------------------------------------------------
(* After the write: audit, second Get, answer *)

\* Mutant: the before-state is read when the entry is written.
AuditEntry_LateBefore(call, r) ==
  [request |-> r, actor |-> call.actor, action |-> call.op, id |-> call.id,
   before |-> rows[call.id].status,
   after |-> IF call.op = "delete" THEN "deleted" ELSE call.status]

AuditEntry(call, r) ==
  [request |-> r, actor |-> call.actor, action |-> call.op, id |-> call.id,
   before |-> call.before,
   after |-> IF call.op = "delete" THEN "deleted" ELSE call.status]

\* A delete answers here; the others read the record again.
AuditWritten(call) ==
  IF call.op = "delete" THEN Answer(call, 204) ELSE [call EXCEPT !.pc = "reread"]

\* Mutant: Transition drops the error as well.
AuditFailed_Dropped(call) ==
  IF call.op = "delete" THEN Answer(call, 500) ELSE [call EXCEPT !.pc = "reread"]

\* Create and Update drop the error, Transition and Delete answer with it.
AuditFailed(call) ==
  IF call.op \in {"create", "update"} THEN [call EXCEPT !.pc = "reread"]
  ELSE Answer(call, 500)

AppendAudit(r) ==
  /\ req[r].pc = "audit"
  /\ audits' = audits \cup {AuditEntry(req[r], r)}
  /\ req' = [req EXCEPT ![r] = AuditWritten(req[r])]
  /\ UNCHANGED <<rows, revisions>>

\* The insert reports an error; it may have been applied all the same.
AuditFails(r) ==
  /\ req[r].pc = "audit"
  /\ \/ audits' = audits
     \/ audits' = audits \cup {AuditEntry(req[r], r)}
  /\ req' = [req EXCEPT ![r] = AuditFailed(req[r])]
  /\ UNCHANGED <<rows, revisions>>

\* The SELECT of the row, by a GET request or at the end of a write.
FirstRow(call) ==
  IF Live(call.id) THEN [call EXCEPT !.pc = "preload", !.seen = rows[call.id]]
  ELSE Answer(call, 404)

Read(r) ==
  /\ req[r].pc = "idle"
  /\ \E d \in Decisions : req' = [req EXCEPT ![r] = FirstRow(Call("read", None, d))]
  /\ UNCHANGED <<rows, revisions, audits>>

Reread(r) ==
  /\ req[r].pc = "reread"
  /\ req' = [req EXCEPT ![r] = FirstRow(req[r])]
  /\ UNCHANGED <<rows, revisions, audits>>

\* Mutant: the revisions are read before the row.
Preload_RevisionsFirst(r) ==
  LET call == req[r]
  IN  /\ call.pc = "preload"
      /\ req' = [req EXCEPT ![r] =
                   AnswerWith([call EXCEPT !.seen = rows[call.id]],
                              IF call.op = "create" THEN 201 ELSE 200,
                              {rev \in revisions[call.id] :
                                 rev.version <= call.seen.version})]
      /\ UNCHANGED <<rows, revisions, audits>>

\* The SELECT of the revisions is a second statement: others may commit first.
Preload(r) ==
  LET call == req[r]
  IN  /\ call.pc = "preload"
      /\ req' = [req EXCEPT ![r] =
                   AnswerWith(call, IF call.op = "create" THEN 201 ELSE 200,
                              revisions[call.id])]
      /\ UNCHANGED <<rows, revisions, audits>>

-----------------------------------------------------------------------------
(* Failures *)

\* A statement fails with no effect: the first Get, the transaction, the
\* second Get.
DatabaseError(r) ==
  /\ req[r].pc \in {"idle", "write", "reread", "preload"}
  /\ req' = [req EXCEPT ![r] = Answer(req[r], 500)]
  /\ UNCHANGED <<rows, revisions, audits>>

\* The process stops, or the connection is lost, with the request under way.
Crash(r) ==
  /\ req[r].pc \in InFlight
  /\ req' = [req EXCEPT ![r] = [Answer(req[r], 0) EXCEPT !.pc = "gone"]]
  /\ UNCHANGED <<rows, revisions, audits>>

-----------------------------------------------------------------------------

Arrive(r) == Create(r) \/ Update(r) \/ Transition(r) \/ Delete(r) \/ Read(r)

Write(r) ==
  \/ CommitCreate(r) \/ CodeTaken(r)
  \/ CommitUpdate(r) \/ Conflict(r)
  \/ CommitDelete(r) \/ DeleteMissed(r)

Continue(r) == Write(r) \/ AppendAudit(r) \/ Reread(r) \/ Preload(r)

Fail(r) == AuditFails(r) \/ DatabaseError(r) \/ Crash(r)

Next == \E r \in Requests : Arrive(r) \/ Continue(r) \/ Fail(r)

Spec == Init /\ [][Next]_vars

-----------------------------------------------------------------------------
(* Invariants that hold whatever expectedVersion the client sends *)

\* The locals a handler has set by the time it reaches each call.
LocalsOK(call) ==
  /\ call.pc = "idle" => call = Idle
  /\ call.pc \in InFlight => call.op \in Ops /\ call.id \in Decisions
  /\ call.pc \in {"write", "audit"} =>
       /\ call.actor \in Users
       /\ call.op # "read"
       /\ call.op # "delete" => call.status \in PriorityStatus /\ call.evidence \in Evidence
       /\ call.op = "create" => call.expected = 0 /\ call.status = "draft"

\* Every variable has its type, and every handler under way its locals.
TypeOK ==
  /\ rows \in [Decisions -> Row \cup {NoRow}]
  /\ revisions \in [Decisions -> SUBSET Revision]
  /\ audits \subseteq AuditLog
  /\ req \in [Requests -> Request]
  /\ \A r \in Requests : LocalsOK(req[r])

\* The versions of a decision are traceable one by one: its revisions are
\* numbered 1 to the stored version with no gap and no duplicate, and the last
\* one says what the row says (UpdateWithRevision and CreateWithRevision).
RevisionChain ==
  \A d \in Decisions :
    /\ {rev.version : rev \in revisions[d]} = 1 .. rows[d].version
    /\ \A a, b \in revisions[d] : a.version = b.version => a = b
    /\ \A rev \in revisions[d] :
         rev.version = rows[d].version =>
           /\ rev.status = rows[d].status
           /\ rev.evidence = rows[d].evidence

\* Every final revision was written by a reviewer or an administrator who is
\* not the actor of revision 1, however requests overlapped (Transition).
IndependentReview ==
  \A d \in Decisions : \A final, first \in revisions[d] :
    /\ final.status \in PriorityLevel
    /\ first.version = 1
    => /\ RoleOf[final.actor] \in {"reviewer", "admin"}
       /\ final.actor # first.actor

Committed(r) == \E d \in Decisions : \E rev \in revisions[d] : rev.request = r

Audited(r) == \E a \in audits : a.request = r

\* An answer says what became of the request: success means the write is in
\* the tables under the request's id, a refusal or a conflict means no trace
\* of it anywhere, and "not found" for a write that was applied means that the
\* decision has been deleted since.
AnswerTruthful ==
  \A r \in Requests :
    LET a == req[r]
    IN  /\ a.code \in {200, 201} /\ a.op # "read" =>
             \E rev \in revisions[a.id] :
               rev.request = r /\ rev.version = a.expected + 1
        /\ a.code = 204 => rows[a.id].state = "deleted"
        /\ a.code \in {403, 409, 422} => ~Committed(r) /\ ~Audited(r)
        /\ a.code = 404 /\ Committed(r) => rows[a.id].state = "deleted"

\* The audit log reports nothing that did not happen: an entry for a write
\* names the actor, request and status of a stored revision, an entry for a
\* delete names a deleted decision, and a decision is deleted once.
AuditTruthful ==
  \A a \in audits :
    /\ a.action # "delete" =>
         \E rev \in revisions[a.id] :
           /\ rev.request = a.request
           /\ rev.actor = a.actor
           /\ rev.status = a.after
    /\ a.action = "delete" =>
         /\ rows[a.id].state = "deleted"
         /\ \A b \in audits : b.action = "delete" /\ b.id = a.id => a = b

\* A transition answered with 200 and a delete answered with 204 are in the
\* audit log (Transition and Delete return the audit's error).
AcknowledgedAudited ==
  \A r \in Requests :
    \/ req[r].op = "transition" /\ req[r].code = 200
    \/ req[r].op = "delete" /\ req[r].code = 204
    => \E a \in audits : a.request = r /\ a.action = req[r].op

\* The record and the revisions of an answer come from two statements, yet the
\* revisions always include every version up to the record's and the one the
\* record was stored by; and a writer is shown a version at least its own.
AnswerCoversVersion ==
  \A r \in Requests :
    LET a == req[r]
    IN  a.pc = "done" /\ a.code \in {200, 201} =>
          /\ 1 .. a.seen.version \subseteq {rev.version : rev \in a.revs}
          /\ \E rev \in a.revs :
               /\ rev.version = a.seen.version
               /\ rev.status = a.seen.status
               /\ rev.evidence = a.seen.evidence
          /\ a.op # "read" => a.seen.version > a.expected

-----------------------------------------------------------------------------
(* What holds as long as clients send a version they were shown (Ahead = 0) *)

\* The optimistic lock: a write that passes the version check overwrites
\* exactly the row it was computed from.
WriteBasedOnCurrent ==
  \A r \in Requests :
    LET call == req[r]
    IN  /\ call.pc = "write"
        /\ call.op \in {"update", "transition"}
        /\ Matches(call)
        => /\ call.before = rows[call.id].status
           /\ call.op = "transition" => call.evidence = rows[call.id].evidence

\* 409 is answered only to a request that lost: the version it named has been
\* superseded, or the decision deleted.
ConflictHasWinner ==
  \A r \in Requests :
    req[r].code = 409 =>
      \/ rows[req[r].id].state = "deleted"
      \/ rows[req[r].id].version > req[r].expected

\* What was reviewed is what was finalised: a final revision directly follows
\* a draft revision and carries that draft's evidence.
ReviewedEvidence ==
  \A d \in Decisions : \A final \in revisions[d] :
    final.status \in PriorityLevel =>
      \E draft \in revisions[d] :
        /\ draft.version + 1 = final.version
        /\ draft.status = "draft"
        /\ draft.evidence = final.evidence

\* The before-state of an audit entry is the status that the write replaced.
AuditBefore ==
  \A a \in audits : \A rev, previous \in revisions[a.id] :
    /\ a.action \in {"update", "transition"}
    /\ rev.request = a.request
    /\ previous.version + 1 = rev.version
    => a.before = previous.status

\* No step changes the content of a final decision ("immutable", errors.go).
FinalContentFrozen ==
  [][\A d \in Decisions :
       rows[d].status \in PriorityLevel =>
         /\ rows'[d].status = rows[d].status
         /\ rows'[d].evidence = rows[d].evidence
         /\ rows'[d].version = rows[d].version]_vars

-----------------------------------------------------------------------------
(* The register seen from outside: the ledger of its revisions *)

LedgerOf(d) ==
  [v \in 1 .. rows[d].version |->
     LET rev == CHOOSE rev \in revisions[d] : rev.version = v
     IN  [status |-> rev.status, evidence |-> rev.evidence, actor |-> rev.actor]]

Ledger == INSTANCE DecisionLedger WITH ledger <- [d \in Decisions |-> LedgerOf(d)]

\* Whatever the interleaving, the stored revisions evolve as the ledger's
\* entries do: opened once, revised by those entitled, closed once, and closed
\* on the last draft.
ImplementsLedger == Ledger!Spec

-----------------------------------------------------------------------------
(* What the repository says and the code does not do *)

\* "final priority decisions are immutable" (service/errors.go): a final
\* decision is never deleted.
FinalNeverDeleted ==
  \A d \in Decisions :
    rows[d].status \in PriorityLevel => rows[d].state # "deleted"

\* "all state changes use the optimistic lock and are written to the audit
\* log" (README.md): once the request that finalised a decision is over, the
\* log has an entry for it.
FinalisationAudited ==
  \A d \in Decisions : \A rev \in revisions[d] :
    /\ rev.status \in PriorityLevel
    /\ rev.request \in Requests
    /\ req[rev.request].pc \in {"done", "gone"}
    => Audited(rev.request)

=============================================================================
