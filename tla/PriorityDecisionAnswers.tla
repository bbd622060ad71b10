------------------------ MODULE PriorityDecisionAnswers ------------------------
(***************************************************************************)
(* Theorems about what PriorityDecision answers and what it writes to the  *)
(* audit log whatever versions the clients name, and then, with informed   *)
(* clients, who never name a version beyond the one stored when their      *)
(* handler reads (Ahead = 0), about what was reviewed, replaced and lost,  *)
(* and the ledger of a decision.                                           *)
(***************************************************************************)
EXTENDS PriorityDecisionProofs, SequenceTheorems

-----------------------------------------------------------------------------
(* What a step does to one request *)

\* An answer keeps what was asked for and nothing else.
LEMMA AnswerKeeps ==
  ASSUME NEW call, NEW code, NEW revs
  PROVE  /\ Answer(call, code).pc = "done" /\ Answer(call, code).code = code
         /\ Answer(call, code).op = call.op /\ Answer(call, code).id = call.id
         /\ Answer(call, code).expected = call.expected
         /\ AnswerWith(call, code, revs).pc = "done" /\ AnswerWith(call, code, revs).code = code
         /\ AnswerWith(call, code, revs).op = call.op /\ AnswerWith(call, code, revs).id = call.id
         /\ AnswerWith(call, code, revs).expected = call.expected
         /\ AnswerWith(call, code, revs).seen = call.seen
         /\ AnswerWith(call, code, revs).revs = revs
<1>1. /\ Answer(call, code).pc = "done" /\ Answer(call, code).code = code
      /\ Answer(call, code).op = call.op /\ Answer(call, code).id = call.id
      /\ Answer(call, code).expected = call.expected
  BY DEF Answer
<1>2. AnswerWith(call, code, revs).pc = "done"
  BY DEF Answer, AnswerWith
<1>3. AnswerWith(call, code, revs).code = code
  BY DEF Answer, AnswerWith
<1>4. AnswerWith(call, code, revs).op = call.op
  BY DEF Answer, AnswerWith
<1>5. AnswerWith(call, code, revs).id = call.id
  BY DEF Answer, AnswerWith
<1>6. AnswerWith(call, code, revs).expected = call.expected
  BY DEF Answer, AnswerWith
<1>7. AnswerWith(call, code, revs).seen = call.seen
  BY DEF Answer, AnswerWith
<1>8. AnswerWith(call, code, revs).revs = revs
  BY DEF Answer, AnswerWith
<1> QED BY <1>1, <1>2, <1>3, <1>4, <1>5, <1>6, <1>7, <1>8

\* The steps of a request, by what becomes of it.
Checked(q) == req[q].pc = "idle" /\ req'[q].pc = "write" /\ req'[q].code = 0

\* It is refused before it writes.
Refused(q) == req[q].pc = "idle" /\ req'[q].pc = "done" /\ req'[q].code \in {403, 404, 422}

\* The row is read, by a GET request or at the end of a write.
Fetched(q) ==
  /\ \/ req[q].pc = "idle" /\ req'[q].op = "read" /\ req'[q].code = 0
     \/ /\ req[q].pc = "reread"
        /\ req'[q] = [req[q] EXCEPT !.pc = "preload", !.seen = rows[req[q].id]]
  /\ req'[q].pc = "preload"
  /\ req'[q].id \in Decisions /\ Live(req'[q].id)
  /\ req'[q].seen = rows[req'[q].id]
  /\ UNCHANGED <<rows, revisions, audits>>

\* Its write is committed, and it goes on to its audit entry.
Committing(q) ==
  /\ CommitCreate(q) \/ CommitUpdate(q) \/ CommitDelete(q)
  /\ req'[q] = [req[q] EXCEPT !.pc = "audit"]

\* A statement fails.
Failed(q) == req'[q] = Answer(req[q], 500)

\* Another write was first.
Lost(q) ==
  /\ req[q].pc = "write" /\ req[q].op \in {"update", "transition"}
  /\ ~Matches(req[q])
  /\ req'[q] = Answer(req[q], 409)
  /\ UNCHANGED <<rows, revisions, audits>>

\* There is nothing left to delete.
Missed(q) ==
  /\ req[q].pc \in {"write", "reread"}
  /\ ~Live(req[q].id)
  /\ req'[q] = Answer(req[q], 404)
  /\ UNCHANGED <<rows, revisions, audits>>

\* It has appended its audit entry and goes on to read its answer.
AuditedOn(q) ==
  /\ req[q].pc = "audit" /\ req[q].op # "delete"
  /\ req'[q] = [req[q] EXCEPT !.pc = "reread"]
  /\ req[q].op = "transition" => AuditEntry(req[q], q) \in audits'
  /\ UNCHANGED <<rows, revisions>>

\* It has appended its audit entry and is over.
AuditedLast(q) ==
  /\ req[q].pc = "audit" /\ req[q].op = "delete"
  /\ req'[q] = Answer(req[q], 204)
  /\ AuditEntry(req[q], q) \in audits'
  /\ UNCHANGED <<rows, revisions>>

\* It has read the revisions and answers.
Answered(q) ==
  /\ req[q].pc = "preload"
  /\ req'[q] = AnswerWith(req[q], IF req[q].op = "create" THEN 201 ELSE 200,
                          revisions[req[q].id])
  /\ UNCHANGED <<rows, revisions, audits>>

\* Its process dies.
Gone(q) == req'[q] = [Answer(req[q], 0) EXCEPT !.pc = "gone"]

\* A handler that has made its checks waits to write or has refused.
LEMMA ProceedOutcome ==
  ASSUME NEW call \in Request, NEW refusal \in {0, 403, 404, 422}, call.code = 0,
         NEW q \in Requests, req[q].pc = "idle", req'[q] = Proceed(call, refusal)
  PROVE  Checked(q) \/ Refused(q)
<1>1. CASE refusal = 0
  BY <1>1 DEF Proceed, Checked, Request
<1>2. CASE refusal # 0
  BY <1>2, AnswerKeeps DEF Proceed, Refused
<1> QED BY <1>1, <1>2

\* What the checks may refuse with.
LEMMA RefusalCode ==
  ASSUME NEW u, NEW d, NEW x
  PROVE  /\ CreateRefusal(u, x) \in {0, 403, 404, 422}
         /\ UpdateRefusal(u, d, x) \in {0, 403, 404, 422}
         /\ TransitionRefusal(u, d, x) \in {0, 403, 404, 422}
         /\ DeleteRefusal(u, d) \in {0, 403, 404, 422}
  BY DEF CreateRefusal, UpdateRefusal, TransitionRefusal, DeleteRefusal

\* A read finds the row or answers 404.
LEMMA ReadOutcome ==
  ASSUME TypeOK, NEW q \in Requests, Read(q)
  PROVE  Refused(q) \/ Fetched(q)
<1>1. PICK d \in Decisions : req' = [req EXCEPT ![q] = FirstRow(Call("read", None, d))]
  BY DEF Read
<1> DEFINE call == Call("read", None, d)
<1>2. call \in Request /\ call.op = "read" /\ call.id = d /\ call.code = 0
  BY IdleType DEF Call, Idle, Request, Ops
<1> HIDE DEF call
<1>3. req'[q] = FirstRow(call)
  BY <1>1 DEF TypeOK, call
<1>4. req[q].pc = "idle" /\ UNCHANGED <<rows, revisions, audits>>
  BY DEF Read
<1>5. CASE ~Live(d)
  BY <1>2, <1>3, <1>4, <1>5, AnswerKeeps DEF FirstRow, Refused
<1>6. CASE Live(d)
  <2>1. req'[q] = [call EXCEPT !.pc = "preload", !.seen = rows[d]]
    BY <1>2, <1>3, <1>6 DEF FirstRow
  <2>2. /\ req'[q].pc = "preload" /\ req'[q].op = "read" /\ req'[q].code = 0
        /\ req'[q].id = d /\ req'[q].seen = rows[d]
    BY <1>2, <2>1 DEF Request
  <2> QED BY <1>4, <1>6, <2>2 DEF Fetched
<1> QED BY <1>5, <1>6

\* How a request arrives.
LEMMA ArriveOutcome ==
  ASSUME TypeOK, NEW q \in Requests, Arrive(q)
  PROVE  Checked(q) \/ Refused(q) \/ Fetched(q)
<1> USE RefusalCode
<1>1. req \in [Requests -> Request] /\ req[q].pc = "idle"
  BY DEF TypeOK, Arrive, Create, Update, Transition, Delete, Read
<1>2. CASE Create(q)
  <2>1. PICK u \in Users, d \in Decisions, e \in Evidence \cup {None}, call \in Request :
          req' = [req EXCEPT ![q] = Proceed(call, CreateRefusal(u, e))] /\ call.code = 0
    BY <1>2, CreateArrives
  <2> QED BY <1>1, <2>1, ProceedOutcome
<1>3. CASE Update(q)
  <2>1. PICK u \in Users, d \in Decisions, e \in Evidence \cup {None}, call \in Request :
          req' = [req EXCEPT ![q] = Proceed(call, UpdateRefusal(u, d, e))] /\ call.code = 0
    BY <1>3, UpdateArrives
  <2> QED BY <1>1, <2>1, ProceedOutcome
<1>4. CASE Transition(q)
  <2>1. PICK u \in Users, d \in Decisions, call \in Request :
          /\ req' = [req EXCEPT ![q] = Proceed(call, TransitionRefusal(u, d, call.status))]
          /\ call.code = 0
    BY <1>4, TransitionArrives
  <2> QED BY <1>1, <2>1, ProceedOutcome
<1>5. CASE Delete(q)
  <2>1. PICK u \in Users, d \in Decisions, call \in Request :
          req' = [req EXCEPT ![q] = Proceed(call, DeleteRefusal(u, d))] /\ call.code = 0
    BY <1>5, DeleteArrives
  <2> QED BY <1>1, <2>1, ProceedOutcome
<1>6. CASE Read(q)
  BY <1>6, ReadOutcome
<1> QED BY <1>2, <1>3, <1>4, <1>5, <1>6 DEF Arrive

\* How a request writes.
LEMMA WriteOutcome ==
  ASSUME TypeOK, NEW q \in Requests, Write(q)
  PROVE  Committing(q) \/ Failed(q) \/ Lost(q) \/ Missed(q)
<1>1. req \in [Requests -> Request]
  BY DEF TypeOK
<1>2. CASE CommitCreate(q) \/ CommitUpdate(q) \/ CommitDelete(q)
  <2>1. Applied(q, "audit")
    BY <1>2 DEF CommitCreate, CommitUpdate, CommitDelete
  <2>2. req'[q] = [req[q] EXCEPT !.pc = "audit"] \/ req'[q] = Answer(req[q], 500)
    BY <1>1, <2>1 DEF Applied
  <2> QED BY <1>2, <2>2 DEF Committing, Failed
<1>3. CASE CodeTaken(q)
  BY <1>1, <1>3 DEF CodeTaken, Failed
<1>4. CASE Conflict(q)
  BY <1>1, <1>4 DEF Conflict, Lost
<1>5. CASE DeleteMissed(q)
  BY <1>1, <1>5 DEF DeleteMissed, Missed
<1> QED BY <1>2, <1>3, <1>4, <1>5 DEF Write

\* How a request goes on after its audit entry, written or not.
LEMMA AuditOutcome ==
  ASSUME TypeOK, NEW q \in Requests, AppendAudit(q) \/ AuditFails(q)
  PROVE  AuditedOn(q) \/ AuditedLast(q) \/ Failed(q)
<1>1. req \in [Requests -> Request] /\ req[q].pc = "audit" /\ UNCHANGED <<rows, revisions>>
  BY DEF TypeOK, AppendAudit, AuditFails
<1>2. CASE AppendAudit(q)
  <2>1. req'[q] = AuditWritten(req[q]) /\ AuditEntry(req[q], q) \in audits'
    BY <1>1, <1>2 DEF AppendAudit
  <2> QED BY <1>1, <2>1 DEF AuditWritten, AuditedOn, AuditedLast
<1>3. CASE AuditFails(q)
  <2>1. req'[q] = AuditFailed(req[q])
    BY <1>1, <1>3 DEF AuditFails
  <2> QED BY <1>1, <2>1 DEF AuditFailed, AuditedOn, Failed
<1> QED BY <1>2, <1>3

\* How a request that has written answers.
LEMMA RereadOutcome ==
  ASSUME TypeOK, NEW q \in Requests, Reread(q)
  PROVE  Fetched(q) \/ Missed(q)
<1>1. /\ req[q] \in Request /\ req[q].pc = "reread" /\ req[q].id \in Decisions
      /\ UNCHANGED <<rows, revisions, audits>>
      /\ req'[q] = FirstRow(req[q])
  BY DEF TypeOK, LocalsOK, InFlight, Reread
<1>2. CASE ~Live(req[q].id)
  BY <1>1, <1>2 DEF FirstRow, Missed
<1>3. CASE Live(req[q].id)
  <2>1. req'[q] = [req[q] EXCEPT !.pc = "preload", !.seen = rows[req[q].id]]
    BY <1>1, <1>3 DEF FirstRow
  <2>2. req'[q].pc = "preload" /\ req'[q].id = req[q].id /\ req'[q].seen = rows[req[q].id]
    BY <1>1, <2>1 DEF Request
  <2> QED BY <1>1, <1>3, <2>1, <2>2 DEF Fetched
<1> QED BY <1>2, <1>3

\* What becomes of a request in a step.
LEMMA CallStep ==
  ASSUME TypeOK, [Next]_vars, NEW q \in Requests
  PROVE  \/ req'[q] = req[q]
         \/ Checked(q) \/ Refused(q) \/ Fetched(q)
         \/ Committing(q) \/ Failed(q) \/ Lost(q) \/ Missed(q)
         \/ AuditedOn(q) \/ AuditedLast(q) \/ Answered(q) \/ Gone(q)
<1>1. CASE Continue(q)
  <2>1. Preload(q) => Answered(q)
    BY DEF Preload, Answered, TypeOK
  <2> QED BY <1>1, <2>1, WriteOutcome, AuditOutcome, RereadOutcome DEF Continue
<1>2. CASE Fail(q)
  <2>1. DatabaseError(q) => Failed(q)
    BY DEF DatabaseError, Failed, TypeOK
  <2>2. Crash(q) => Gone(q)
    BY DEF Crash, Gone, TypeOK
  <2> QED BY <1>2, <2>1, <2>2, AuditOutcome DEF Fail
<1>3. req'[q] = req[q] \/ Arrive(q) \/ Continue(q) \/ Fail(q)
  <2>1. CASE UNCHANGED vars
    BY <2>1 DEF vars
  <2>2. CASE Next
    <3>1. PICK r \in Requests : Arrive(r) \/ Continue(r) \/ Fail(r)
      BY <2>2 DEF Next
    <3> QED BY <3>1, OthersKept
  <2> QED BY <2>1, <2>2
<1> QED BY <1>1, <1>2, <1>3, ArriveOutcome

-----------------------------------------------------------------------------
(* Traces of a request in the tables *)

\* The write of a request is in the tables under its id.
Stored(r) ==
  \E rev \in revisions[req[r].id] : rev.request = r /\ rev.version = req[r].expected + 1

\* The write of a request is in the audit log.
Logged(r) == \E a \in audits : a.request = r /\ a.action = req[r].op

\* Answers that mean the request changed nothing.
NoChange == {403, 409, 422}

\* What a revision says of the request that wrote it.
Traced(rev, d) ==
  rev.request \in Requests =>
    LET call == req[rev.request]
    IN  /\ call.pc \notin {"idle", "write"}
        /\ call.id = d
        /\ call.op \notin {"delete", "read"}
        /\ rev.version = call.expected + 1
        /\ call.code \notin NoChange

\* What an entry of the audit log says of its request.
Reported(a) ==
  LET call == req[a.request]
  IN  /\ call.pc \notin {"idle", "write", "audit"}
      /\ call.id = a.id
      /\ call.op = a.action
      /\ call.code \notin NoChange

\* An entry's word about the tables.
Vouched(a) ==
  /\ a.action # "delete" =>
       \E rev \in revisions[a.id] :
         rev.request = a.request /\ rev.actor = a.actor /\ rev.status = a.after
  /\ a.action = "delete" => rows[a.id].state = "deleted"

\* A row, and the revisions that account for it.
Covered(row, revs) ==
  /\ 1 .. row.version \subseteq {rev.version : rev \in revs}
  /\ \E rev \in revs :
       /\ rev.version = row.version
       /\ rev.status = row.status
       /\ rev.evidence = row.evidence

\* What a handler between its write and its answer can rely on.
Footing(r) ==
  LET call == req[r]
  IN  /\ call.pc # "done" => call.code = 0
      /\ call.pc = "audit" =>
           IF call.op = "delete" THEN rows[call.id].state = "deleted"
           ELSE RevisionOf(call, r) \in revisions[call.id]
      /\ call.pc \in {"reread", "preload"} /\ call.op # "read" =>
           /\ call.op # "delete"
           /\ Stored(r)
           /\ call.op = "transition" => Logged(r)
      /\ call.pc = "preload" =>
           /\ Covered(call.seen, revisions[call.id])
           /\ call.op # "read" => call.seen.version > call.expected

\* What an answer means.
Meant(r) ==
  LET a == req[r]
  IN  a.pc = "done" =>
      /\ a.code \in {200, 201} =>
           /\ a.id \in Decisions /\ a.op # "delete"
           /\ Covered(a.seen, a.revs)
           /\ a.op # "read" => Stored(r) /\ a.seen.version > a.expected
           /\ a.op = "transition" => Logged(r)
      /\ a.code = 204 =>
           /\ a.id \in Decisions /\ a.op = "delete"
           /\ rows[a.id].state = "deleted"
           /\ Logged(r)
      /\ a.code = 404 =>
           (a.id \in Decisions /\ Stored(r) => rows[a.id].state = "deleted")

\* The request is about to report the deletion.
Deleting(r, d) == req[r].pc = "audit" /\ req[r].op = "delete" /\ req[r].id = d

\* A decision is deleted by one request only.
DeletedOnce(d) ==
  /\ \A r, q \in Requests : Deleting(r, d) /\ Deleting(q, d) => r = q
  /\ \A a \in audits : a.action = "delete" /\ a.id = d =>
       /\ \A r \in Requests : ~Deleting(r, d)
       /\ \A b \in audits : b.action = "delete" /\ b.id = d => a = b

\* The inductive invariant behind the answers: every trace of a request in the
\* tables is a trace of what it asked for, and every handler stands on what its
\* earlier calls have stored.
TraceInv ==
  /\ \A d \in Decisions : \A rev \in revisions[d] : Traced(rev, d)
  /\ \A d \in Decisions : DeletedOnce(d)
  /\ \A a \in audits : Reported(a) /\ Vouched(a)
  /\ \A r \in Requests : Footing(r) /\ Meant(r)

-----------------------------------------------------------------------------
(* The tables only grow *)

\* Nothing is taken from the revisions or the log, and a deleted row stays deleted.
LEMMA TablesGrow ==
  ASSUME TypeOK, [Next]_vars
  PROVE  /\ audits \subseteq audits'
         /\ \A d \in Decisions :
              /\ revisions[d] \subseteq revisions'[d]
              /\ rows[d].state = "deleted" => rows'[d].state = "deleted"
<1>1. audits \subseteq audits'
  <2>1. ASSUME NEW r \in Requests, Arrive(r) \/ Continue(r) \/ Fail(r)
        PROVE  audits \subseteq audits'
    <3>1. CASE Arrive(r)
      BY <3>1 DEF Arrive, Create, Update, Transition, Delete, Read
    <3>2. CASE Continue(r)
      BY <3>2 DEF Continue, Write, CommitCreate, CodeTaken, CommitUpdate, Conflict,
                  CommitDelete, DeleteMissed, AppendAudit, Reread, Preload
    <3>3. CASE Fail(r)
      BY <3>3 DEF Fail, AuditFails, DatabaseError, Crash
    <3> QED BY <2>1, <3>1, <3>2, <3>3
  <2> QED BY <2>1 DEF Next, vars
<1>2. ASSUME NEW d \in Decisions
      PROVE  /\ revisions[d] \subseteq revisions'[d]
             /\ rows[d].state = "deleted" => rows'[d].state = "deleted"
  <2>1. CASE UNCHANGED <<rows, revisions>>
    BY <2>1
  <2>2. ASSUME NEW r \in Requests, CommitCreate(r)
        PROVE  /\ revisions[d] \subseteq revisions'[d]
               /\ rows[d].state = "deleted" => rows'[d].state = "deleted"
    <3>1. /\ req[r].id \in Decisions /\ rows[req[r].id] = NoRow
          /\ rows' = [rows EXCEPT ![req[r].id] = NewRow(req[r])]
          /\ revisions' = [revisions EXCEPT ![req[r].id] = @ \cup {RevisionOf(req[r], r)}]
      BY <2>2, CommitEffect
    <3>2. d # req[r].id => rows'[d] = rows[d]
      BY <3>1 DEF TypeOK
    <3>3. revisions[d] \subseteq revisions'[d]
      BY <3>1 DEF TypeOK
    <3> QED BY <3>1, <3>2, <3>3 DEF NoRow
  <2>3. ASSUME NEW r \in Requests, CommitUpdate(r)
        PROVE  /\ revisions[d] \subseteq revisions'[d]
               /\ rows[d].state = "deleted" => rows'[d].state = "deleted"
    <3>1. rows[req[r].id].state = "live"
      BY <2>3 DEF CommitUpdate, Matches, Live
    <3>2. /\ rows' = [rows EXCEPT ![req[r].id] = Overwritten(req[r])]
          /\ revisions' = [revisions EXCEPT ![req[r].id] = @ \cup {RevisionOf(req[r], r)}]
      BY <2>3, CommitEffect
    <3>3. d # req[r].id => rows'[d] = rows[d]
      BY <3>2 DEF TypeOK
    <3>4. revisions[d] \subseteq revisions'[d]
      BY <3>2 DEF TypeOK
    <3> QED BY <3>1, <3>3, <3>4
  <2>4. ASSUME NEW r \in Requests, CommitDelete(r)
        PROVE  /\ revisions[d] \subseteq revisions'[d]
               /\ rows[d].state = "deleted" => rows'[d].state = "deleted"
    <3>1. rows[req[r].id].state = "live"
      BY <2>4 DEF CommitDelete, Live
    <3> QED BY <2>4, <3>1, CommitEffect DEF TypeOK
  <2> QED BY <2>1, <2>2, <2>3, <2>4, TablesStep
<1> QED BY <1>1, <1>2

\* A revision is new by the commit of the request it names.
LEMMA NewRevision ==
  ASSUME TypeOK, [Next]_vars, NEW d \in Decisions,
         NEW rev \in revisions'[d], rev \notin revisions[d]
  PROVE  \E r \in Requests :
           /\ CommitCreate(r) \/ CommitUpdate(r)
           /\ req[r].id = d
           /\ rev = RevisionOf(req[r], r)
<1>1. PICK r \in Requests : CommitCreate(r) \/ CommitUpdate(r) \/ CommitDelete(r)
  BY TablesStep
<1>2. ~CommitDelete(r)
  BY CommitEffect
<1>3. revisions' = [revisions EXCEPT ![req[r].id] = @ \cup {RevisionOf(req[r], r)}]
  BY <1>1, <1>2, CommitEffect
<1> QED BY <1>1, <1>2, <1>3 DEF TypeOK

\* An entry is new by a handler that had the audit before it, and goes on.
LEMMA NewEntry ==
  ASSUME TypeOK, [Next]_vars, NEW a \in audits', a \notin audits
  PROVE  \E r \in Requests :
           /\ req[r].pc = "audit"
           /\ a = AuditEntry(req[r], r)
           /\ AuditedOn(r) \/ AuditedLast(r) \/ Failed(r)
           /\ UNCHANGED <<rows, revisions>>
           /\ audits' = audits \cup {a}
<1>1. PICK r \in Requests : Arrive(r) \/ Continue(r) \/ Fail(r)
  BY DEF Next, vars
<1>2. ~Arrive(r)
  BY DEF Arrive, Create, Update, Transition, Delete, Read
<1>3. AppendAudit(r) \/ AuditFails(r)
  BY <1>1, <1>2
  DEF Continue, Write, CommitCreate, CodeTaken, CommitUpdate, Conflict, CommitDelete,
      DeleteMissed, Reread, Preload, Fail, DatabaseError, Crash
<1>4. /\ req[r].pc = "audit"
      /\ a = AuditEntry(req[r], r)
      /\ UNCHANGED <<rows, revisions>>
      /\ audits' = audits \cup {a}
  BY <1>3 DEF AppendAudit, AuditFails
<1> QED BY <1>3, <1>4, AuditOutcome

\* A row becomes deleted, and a request waits to log its delete, by its commit.
LEMMA NewDeleting ==
  ASSUME TypeOK, [Next]_vars, NEW q \in Requests, NEW d \in Decisions,
         Deleting(q, d)'
  PROVE  \/ req'[q] = req[q]
         \/ /\ req[q].pc = "write" /\ rows[d].state = "live" /\ rows'[d].state = "deleted"
            /\ UNCHANGED audits
<1>1. CASE Committing(q)
  <2>1. req'[q].op = req[q].op /\ req'[q].id = req[q].id
    BY <1>1 DEF Committing, TypeOK, Request
  <2>2. CommitDelete(q) /\ req[q].id = d
    BY <1>1, <2>1 DEF Committing, Deleting, CommitCreate, CommitUpdate
  <2>3. rows[d] \in Row /\ rows' = [rows EXCEPT ![d] = [@ EXCEPT !.state = "deleted"]]
    BY <2>2, CommitEffect
  <2>4. rows'[d].state = "deleted"
    BY <2>3 DEF TypeOK, Row
  <2> QED BY <2>2, <2>4 DEF CommitDelete, Live
<1>2. ~Checked(q) /\ ~Refused(q) /\ ~Fetched(q)
  BY DEF Deleting, Checked, Refused, Fetched
<1>3. ~Failed(q) /\ ~Lost(q) /\ ~Missed(q) /\ ~AuditedLast(q) /\ ~Answered(q)
  <2>1. req'[q].pc # "done"
    BY DEF Deleting
  <2>2. \A call, code, revs :
          Answer(call, code).pc = "done" /\ AnswerWith(call, code, revs).pc = "done"
    BY AnswerKeeps
  <2>3. Answered(q) => \E call, code, revs : req'[q] = AnswerWith(call, code, revs)
    BY DEF Answered
  <2> QED BY <2>1, <2>2, <2>3 DEF Failed, Lost, Missed, AuditedLast
<1>4. ~AuditedOn(q) /\ ~Gone(q)
  BY DEF Deleting, AuditedOn, Gone, Answer, TypeOK, Request
<1> QED BY <1>1, <1>2, <1>3, <1>4, CallStep

-----------------------------------------------------------------------------
(* No step breaks the trace invariant *)

\* It is the same request after a step.
SameCall(after, before) ==
  after.op = before.op /\ after.id = before.id /\ after.expected = before.expected

\* A request past its write stays past it and is not refused any more.
LEMMA Onward ==
  ASSUME TypeOK, [Next]_vars, NEW q \in Requests,
         req[q].pc \notin {"idle", "write"}, req[q].code \notin NoChange
  PROVE  /\ SameCall(req'[q], req[q])
         /\ req'[q].pc \notin {"idle", "write"}
         /\ req'[q].code \notin NoChange
         /\ req[q].pc # "audit" => req'[q].pc # "audit"
<1> USE DEF SameCall
<1>1. req[q] \in Request
  BY DEF TypeOK
<1>2. CASE Fetched(q)
  <2>1. req'[q] = [req[q] EXCEPT !.pc = "preload", !.seen = rows[req[q].id]]
    BY <1>2 DEF Fetched
  <2> QED BY <1>1, <2>1 DEF Request
<1>3. CASE Failed(q) \/ Missed(q) \/ AuditedLast(q)
  <2>1. \E code \in {500, 404, 204} : req'[q] = Answer(req[q], code)
    BY <1>3 DEF Failed, Missed, AuditedLast
  <2> QED BY <2>1, AnswerKeeps DEF NoChange
<1>4. CASE AuditedOn(q)
  <2>1. req'[q] = [req[q] EXCEPT !.pc = "reread"]
    BY <1>4 DEF AuditedOn
  <2> QED BY <1>1, <2>1 DEF Request
<1>5. CASE Answered(q)
  <2>1. \E code \in {200, 201} : \E revs : req'[q] = AnswerWith(req[q], code, revs)
    BY <1>5 DEF Answered
  <2> QED BY <2>1, AnswerKeeps DEF NoChange
<1>6. CASE Gone(q)
  BY <1>6 DEF Gone, Answer, NoChange
<1>7. ~Checked(q) /\ ~Refused(q) /\ ~Lost(q)
  BY DEF Checked, Refused, Lost
<1>8. ~Committing(q)
  BY DEF Committing, CommitCreate, CommitUpdate, CommitDelete
<1>9. CASE req'[q] = req[q]
  BY <1>9
<1> QED BY <1>2, <1>3, <1>4, <1>5, <1>6, <1>7, <1>8, <1>9, CallStep

\* The request that commits is past its write.
LEMMA CommitOnward ==
  ASSUME TypeOK, [Next]_vars, TraceInv, NEW r \in Requests,
         CommitCreate(r) \/ CommitUpdate(r) \/ CommitDelete(r)
  PROVE  /\ SameCall(req'[r], req[r])
         /\ req'[r].pc \notin {"idle", "write"}
         /\ req'[r].code \notin NoChange
<1> USE DEF SameCall
<1>1. req \in [Requests -> Request] /\ req[r] \in Request /\ req[r].pc = "write" /\ req[r].code = 0
  BY DEF TypeOK, TraceInv, Footing, CommitCreate, CommitUpdate, CommitDelete
<1>2. req'[r] = [req[r] EXCEPT !.pc = "audit"] \/ req'[r] = Answer(req[r], 500)
  <2>1. Applied(r, "audit")
    BY DEF CommitCreate, CommitUpdate, CommitDelete
  <2> QED BY <1>1, <2>1 DEF Applied
<1>3. CASE req'[r] = [req[r] EXCEPT !.pc = "audit"]
  BY <1>1, <1>3 DEF Request, NoChange
<1>4. CASE req'[r] = Answer(req[r], 500)
  BY <1>4, AnswerKeeps DEF NoChange
<1> QED BY <1>2, <1>3, <1>4

\* Revisions go on saying what their requests asked for.
LEMMA TracedStep ==
  ASSUME TypeOK, TraceInv, [Next]_vars, NEW d \in Decisions, NEW rev \in revisions'[d]
  PROVE  Traced(rev, d)'
<1> SUFFICES ASSUME rev.request \in Requests
             PROVE  LET call == req'[rev.request]
                    IN  /\ call.pc \notin {"idle", "write"}
                        /\ call.id = d
                        /\ call.op \notin {"delete", "read"}
                        /\ rev.version = call.expected + 1
                        /\ call.code \notin NoChange
  BY DEF Traced
<1>1. CASE rev \in revisions[d]
  <2> DEFINE call == req[rev.request]
  <2>1. /\ call.pc \notin {"idle", "write"}
        /\ call.id = d
        /\ call.op \notin {"delete", "read"}
        /\ rev.version = call.expected + 1
        /\ call.code \notin NoChange
    BY <1>1 DEF TraceInv, Traced
  <2> QED BY <2>1, Onward DEF SameCall
<1>2. CASE rev \notin revisions[d]
  <2>1. PICK r \in Requests :
          /\ CommitCreate(r) \/ CommitUpdate(r)
          /\ req[r].id = d
          /\ rev = RevisionOf(req[r], r)
    BY <1>2, NewRevision
  <2>2. /\ rev.request = r
        /\ rev.version = req[r].expected + 1
    BY <2>1 DEF RevisionOf
  <2>3. req[r].op \notin {"delete", "read"}
    BY <2>1 DEF CommitCreate, CommitUpdate
  <2> QED BY <2>1, <2>2, <2>3, CommitOnward DEF SameCall
<1> QED BY <1>1, <1>2

\* What the word of an entry rests on stays in the tables.
LEMMA VouchedKept ==
  ASSUME TypeOK, [Next]_vars, NEW a \in AuditLog, Vouched(a)
  PROVE  Vouched(a)'
<1>1. a.id \in Decisions
  BY DEF AuditLog
<1> QED BY <1>1, TablesGrow DEF Vouched

\* So does the log: its entries are of requests past their audit.
LEMMA ReportedStep ==
  ASSUME TypeOK, TraceInv, [Next]_vars, NEW a \in audits'
  PROVE  (Reported(a) /\ Vouched(a))'
<1>1. CASE a \in audits
  <2> DEFINE call == req[a.request]
  <2>1. a \in AuditLog /\ a.request \in Requests
    BY <1>1 DEF TypeOK, AuditLog
  <2>2. Reported(a) /\ Vouched(a)
    BY <1>1 DEF TraceInv
  <2>3. /\ call.pc \notin {"idle", "write", "audit"}
        /\ call.id = a.id
        /\ call.op = a.action
        /\ call.code \notin NoChange
    BY <2>2 DEF Reported
  <2>4. Reported(a)'
    BY <2>1, <2>3, Onward DEF Reported, SameCall
  <2> QED BY <2>1, <2>2, <2>4, VouchedKept
<1>2. CASE a \notin audits
  <2>1. PICK r \in Requests :
          /\ req[r].pc = "audit"
          /\ a = AuditEntry(req[r], r)
          /\ AuditedOn(r) \/ AuditedLast(r) \/ Failed(r)
          /\ UNCHANGED <<rows, revisions>>
    BY <1>2, NewEntry
  <2>2. /\ a.request = r /\ a.actor = req[r].actor /\ a.action = req[r].op /\ a.id = req[r].id
        /\ a.after = IF req[r].op = "delete" THEN "deleted" ELSE req[r].status
    BY <2>1 DEF AuditEntry
  <2>3. Footing(r) /\ req[r] \in Request
    BY DEF TraceInv, TypeOK
  <2>4. /\ req[r].code = 0
        /\ IF req[r].op = "delete" THEN rows[req[r].id].state = "deleted"
           ELSE RevisionOf(req[r], r) \in revisions[req[r].id]
    BY <2>1, <2>3 DEF Footing
  <2>5. Vouched(a)'
    <3>1. CASE req[r].op = "delete"
      BY <2>1, <2>2, <2>4, <3>1 DEF Vouched
    <3>2. CASE req[r].op # "delete"
      <4> DEFINE rev == RevisionOf(req[r], r)
      <4>1. rev.request = a.request /\ rev.actor = a.actor /\ rev.status = a.after
        BY <2>2, <3>2 DEF RevisionOf
      <4>2. rev \in revisions'[a.id]
        BY <2>1, <2>2, <2>4, <3>2
      <4> HIDE DEF rev
      <4> QED BY <2>2, <3>2, <4>1, <4>2 DEF Vouched
    <3> QED BY <3>1, <3>2
  <2>6. req'[r].pc # "audit"
    <3>1. CASE AuditedOn(r)
      BY <2>3, <3>1 DEF AuditedOn, Request
    <3>2. CASE AuditedLast(r) \/ Failed(r)
      <4>1. \E code : req'[r] = Answer(req[r], code)
        BY <3>2 DEF AuditedLast, Failed
      <4> QED BY <4>1, AnswerKeeps
    <3> QED BY <2>1, <3>1, <3>2
  <2>7. /\ SameCall(req'[r], req[r])
        /\ req'[r].pc \notin {"idle", "write"}
        /\ req'[r].code \notin NoChange
    BY <2>1, <2>4, Onward DEF NoChange
  <2> QED BY <2>2, <2>5, <2>6, <2>7 DEF Reported, SameCall
<1> QED BY <1>1, <1>2

\* A decision goes on being deleted by one request only.
LEMMA DeletedOnceStep ==
  ASSUME TypeOK, TraceInv, [Next]_vars, NEW d \in Decisions
  PROVE  DeletedOnce(d)'
<1>1. DeletedOnce(d)
  BY DEF TraceInv
<1>2. \A q \in Requests : Deleting(q, d) => rows[d].state = "deleted"
  BY DEF TraceInv, Footing, Deleting
<1>3. \A a \in audits : a.action = "delete" /\ a.id = d => rows[d].state = "deleted"
  BY DEF TraceInv, Vouched
<1>4. \A q \in Requests : Deleting(q, d)' =>
        \/ Deleting(q, d)
        \/ /\ req[q].pc = "write" /\ rows[d].state = "live" /\ rows'[d].state = "deleted"
           /\ UNCHANGED audits
  BY NewDeleting DEF Deleting
<1>5. ASSUME NEW r \in Requests, NEW q \in Requests, Deleting(r, d)', Deleting(q, d)'
      PROVE  r = q
  <2>1. CASE Deleting(r, d) /\ Deleting(q, d)
    BY <1>1, <2>1 DEF DeletedOnce
  <2>2. CASE ~Deleting(r, d) /\ ~Deleting(q, d) /\ r # q
    <3>1. /\ req[r].pc = "write" /\ req'[r].pc = "audit"
          /\ req[q].pc = "write" /\ req'[q].pc = "audit"
      BY <1>4, <1>5, <2>2 DEF Deleting
    <3>2. PICK p \in Requests : Arrive(p) \/ Continue(p) \/ Fail(p)
      BY <3>1 DEF Next, vars
    <3>3. req'[r] = req[r] \/ req'[q] = req[q]
      BY <2>2, <3>2, OthersKept
    <3> QED BY <3>1, <3>3
  <2> QED BY <1>2, <1>4, <1>5, <2>1, <2>2
<1>6. ASSUME NEW a \in audits', a.action = "delete", a.id = d
      PROVE  /\ \A r \in Requests : ~Deleting(r, d)'
             /\ \A b \in audits' : b.action = "delete" /\ b.id = d => a = b
  <2>1. CASE a \in audits
    <3>1. \A r \in Requests : ~Deleting(r, d)
      BY <1>1, <1>6, <2>1 DEF DeletedOnce
    <3>2. ASSUME NEW b \in audits', b.action = "delete", b.id = d
          PROVE  b \in audits
      <4> SUFFICES ASSUME b \notin audits PROVE FALSE
        OBVIOUS
      <4>1. PICK p \in Requests : req[p].pc = "audit" /\ b = AuditEntry(req[p], p)
        BY NewEntry
      <4>2. Deleting(p, d)
        BY <3>2, <4>1 DEF Deleting, AuditEntry
      <4> QED BY <3>1, <4>2
    <3>3. \A b \in audits' : b.action = "delete" /\ b.id = d => a = b
      BY <1>1, <1>6, <2>1, <3>2 DEF DeletedOnce
    <3>4. rows[d].state = "deleted"
      BY <1>3, <1>6, <2>1
    <3> QED BY <1>4, <3>1, <3>3, <3>4
  <2>2. CASE a \notin audits
    <3>1. PICK p \in Requests :
            /\ req[p].pc = "audit"
            /\ a = AuditEntry(req[p], p)
            /\ AuditedOn(p) \/ AuditedLast(p) \/ Failed(p)
            /\ UNCHANGED <<rows, revisions>>
            /\ audits' = audits \cup {a}
      BY <2>2, NewEntry
    <3>2. Deleting(p, d)
      BY <1>6, <3>1 DEF Deleting, AuditEntry
    <3>3. \A b \in audits : ~(b.action = "delete" /\ b.id = d)
      BY <1>1, <3>2 DEF DeletedOnce
    <3>4. req'[p].pc # "audit"
      <4>1. ~AuditedOn(p)
        BY <3>2 DEF AuditedOn, Deleting
      <4>2. \E code : req'[p] = Answer(req[p], code)
        BY <3>1, <4>1 DEF AuditedLast, Failed
      <4> QED BY SMTT(60), <4>2, AnswerKeeps
    <3>5. rows'[d].state = "deleted" /\ rows'[d] = rows[d]
      BY <1>2, <3>1, <3>2
    <3>6. \A q \in Requests : Deleting(q, d)' => Deleting(q, d)
      BY <1>4, <3>5
    <3>7. \A q \in Requests : ~Deleting(q, d)'
      BY <1>1, <3>2, <3>4, <3>6 DEF DeletedOnce, Deleting
    <3> QED BY <3>1, <3>3, <3>7
  <2> QED BY <2>1, <2>2
<1> QED BY <1>5, <1>6 DEF DeletedOnce

\* A request that has not written yet, and does not now, has no revision.
LEMMA NotStored ==
  ASSUME TypeOK, TraceInv, [Next]_vars, NEW q \in Requests,
         req[q].pc \in {"idle", "write"},
         ~CommitCreate(q), ~CommitUpdate(q),
         NEW d \in Decisions, NEW rev \in revisions'[d]
  PROVE  rev.request # q
<1>1. CASE rev \in revisions[d]
  BY <1>1 DEF TraceInv, Traced
<1>2. CASE rev \notin revisions[d]
  <2>1. PICK r \in Requests :
          (CommitCreate(r) \/ CommitUpdate(r)) /\ rev = RevisionOf(req[r], r)
    BY <1>2, NewRevision
  <2> QED BY <2>1 DEF RevisionOf
<1> QED BY <1>1, <1>2

\* A row that is live has all its revisions.
LEMMA RowCovered ==
  ASSUME TypeOK, RevisionChain, NEW d \in Decisions, Live(d)
  PROVE  Covered(rows[d], revisions[d])
<1>1. Chained(d) /\ rows[d].version \in Nat \ {0}
  BY DEF RevisionChain, Chained, TypeOK, Row, NoRow, Live
<1>2. {rev.version : rev \in revisions[d]} = 1 .. rows[d].version
  BY <1>1 DEF Chained
<1>3. rows[d].version \in 1 .. rows[d].version
  BY <1>1
<1>4. PICK rev \in revisions[d] : rev.version = rows[d].version
  BY <1>2, <1>3
<1> QED BY <1>1, <1>2, <1>4 DEF Covered, Chained

\* A row with a revision has at least that version.
LEMMA StoredVersion ==
  ASSUME TypeOK, RevisionChain, NEW q \in Requests, req[q].id \in Decisions, Stored(q)
  PROVE  /\ rows[req[q].id].version > req[q].expected
         /\ ~Live(req[q].id) => rows[req[q].id].state = "deleted"
<1> DEFINE d == req[q].id
<1>1. Chained(d) /\ rows[d] \in Row \cup {NoRow} /\ req[q].expected \in Nat
  BY DEF RevisionChain, Chained, TypeOK, Request
<1>2. PICK rev \in revisions[d] : rev.version = req[q].expected + 1
  BY DEF Stored
<1>3. rev.version \in 1 .. rows[d].version
  BY <1>1 DEF Chained
<1>4. rows[d].version \in Nat
  BY <1>1 DEF Row, NoRow
<1>5. rows[d].version > req[q].expected /\ rows[d].version # 0
  BY <1>1, <1>2, <1>3, <1>4
<1>6. rows[d] # NoRow
  BY <1>5 DEF NoRow
<1> QED BY <1>1, <1>5, <1>6 DEF Row, Live

\* What is stored of a request stays so.
LEMMA StoredKept ==
  ASSUME TypeOK, [Next]_vars, NEW q \in Requests,
         req[q].id \in Decisions, SameCall(req'[q], req[q])
  PROVE  (Stored(q) => Stored(q)') /\ (Logged(q) => Logged(q)')
<1>1. Stored(q) => Stored(q)'
  BY TablesGrow DEF Stored, SameCall
<1>2. Logged(q) => Logged(q)'
  BY TablesGrow DEF Logged, SameCall
<1> QED BY <1>1, <1>2

\* Rows stay covered as revisions are added.
LEMMA CoveredGrows ==
  ASSUME NEW row, NEW fewer, NEW more, fewer \subseteq more, Covered(row, fewer)
  PROVE  Covered(row, more)
  BY DEF Covered

\* A request left alone keeps its footing and the meaning of its answer.
LEMMA AloneKept ==
  ASSUME TypeOK, TraceInv, [Next]_vars, NEW q \in Requests, req'[q] = req[q]
  PROVE  (Footing(q) /\ Meant(q))'
<1>1. /\ req[q] \in Request /\ LocalsOK(req[q]) /\ Footing(q) /\ Meant(q)
      /\ SameCall(req'[q], req[q])
  BY DEF TypeOK, TraceInv, SameCall
<1>2. Footing(q)'
  <2>1. CASE req[q].pc \in InFlight
    <3>1. req[q].id \in Decisions
      BY <1>1, <2>1 DEF LocalsOK
    <3>2. req[q].pc # "done" => req[q].code = 0
      BY <1>1 DEF Footing
    <3>3. req[q].pc = "audit" =>
            IF req[q].op = "delete" THEN rows'[req[q].id].state = "deleted"
            ELSE RevisionOf(req[q], q) \in revisions'[req[q].id]
      BY <1>1, <3>1, TablesGrow DEF Footing
    <3>4. req[q].pc \in {"reread", "preload"} /\ req[q].op # "read" =>
            /\ req[q].op # "delete"
            /\ Stored(q) /\ Stored(q)'
            /\ req[q].op = "transition" => Logged(q)'
      BY <1>1, <3>1, StoredKept DEF Footing
    <3>5. req[q].pc = "preload" =>
            /\ Covered(req[q].seen, revisions'[req[q].id])
            /\ req[q].op # "read" => req[q].seen.version > req[q].expected
      BY <1>1, <3>1, TablesGrow, CoveredGrows DEF Footing
    <3> HIDE DEF Stored, Logged, Covered, RevisionOf
    <3> QED BY <3>2, <3>3, <3>4, <3>5 DEF Footing, RevisionOf
  <2>2. CASE req[q].pc \notin InFlight
    BY <1>1, <2>2 DEF Footing, InFlight
  <2> QED BY <2>1, <2>2
<1>3. Meant(q)'
  <2> SUFFICES ASSUME req[q].pc = "done" PROVE Meant(q)'
    BY DEF Meant
  <2>1. req[q].code \in {200, 201} =>
          /\ req[q].id \in Decisions /\ req[q].op # "delete"
          /\ Covered(req[q].seen, req[q].revs)
          /\ req[q].op # "read" => Stored(q)' /\ req[q].seen.version > req[q].expected
          /\ req[q].op = "transition" => Logged(q)'
    BY <1>1, StoredKept DEF Meant
  <2>2. req[q].code = 204 =>
          /\ req[q].id \in Decisions /\ req[q].op = "delete"
          /\ rows'[req[q].id].state = "deleted"
          /\ Logged(q)'
    BY <1>1, StoredKept, TablesGrow DEF Meant
  <2>3. ASSUME req[q].code = 404, req[q].id \in Decisions, Stored(q)'
        PROVE  rows'[req[q].id].state = "deleted"
    <3>1. PICK rev \in revisions'[req[q].id] :
            rev.request = q /\ rev.version = req[q].expected + 1
      BY <2>3 DEF Stored
    <3>2. rev \in revisions[req[q].id]
      <4> SUFFICES ASSUME rev \notin revisions[req[q].id] PROVE FALSE
        OBVIOUS
      <4>1. PICK r \in Requests :
              (CommitCreate(r) \/ CommitUpdate(r)) /\ rev = RevisionOf(req[r], r)
        BY <2>3, NewRevision
      <4> QED BY <3>1, <4>1 DEF RevisionOf, CommitCreate, CommitUpdate
    <3>3. Stored(q)
      BY <3>1, <3>2 DEF Stored
    <3> QED BY <1>1, <2>3, <3>3, TablesGrow DEF Meant
  <2> QED BY <2>1, <2>2, <2>3 DEF Meant
<1> QED BY <1>2, <1>3

\* The row of a handler that has read it is accounted for by the revisions.
LEMMA FetchedFooting ==
  ASSUME TypeOK, RevisionChain, TraceInv, [Next]_vars, NEW q \in Requests, Fetched(q)
  PROVE  (Footing(q) /\ Meant(q))'
<1>1. /\ req[q] \in Request /\ LocalsOK(req[q]) /\ Footing(q)
      /\ req'[q].pc = "preload"
      /\ req'[q].id \in Decisions /\ Live(req'[q].id)
      /\ req'[q].seen = rows[req'[q].id]
      /\ UNCHANGED <<rows, revisions, audits>>
  BY DEF TypeOK, TraceInv, Fetched
<1>2. Covered(req'[q].seen, revisions'[req'[q].id])
  BY <1>1, RowCovered
<1>3. CASE req[q].pc = "idle"
  BY <1>1, <1>2, <1>3 DEF Fetched, Footing, Meant
<1>4. CASE req[q].pc = "reread"
  <2>1. req'[q] = [req[q] EXCEPT !.pc = "preload", !.seen = rows[req[q].id]]
    BY <1>4 DEF Fetched
  <2>2. SameCall(req'[q], req[q]) /\ req'[q].code = req[q].code
    BY <1>1, <2>1 DEF Request, SameCall
  <2>3. /\ req[q].code = 0
        /\ req[q].op # "read" =>
             /\ req[q].op # "delete"
             /\ Stored(q)
             /\ req[q].op = "transition" => Logged(q)
    BY <1>1, <1>4 DEF Footing
  <2>4. req[q].id \in Decisions
    BY <1>1, <2>2 DEF SameCall
  <2>5. req[q].op # "read" => rows[req[q].id].version > req[q].expected
    BY <1>1, <2>3, <2>4, StoredVersion
  <2>6. /\ req'[q].op # "read" => Stored(q)'
        /\ req'[q].op = "transition" => Logged(q)'
    BY <2>2, <2>3, <2>4, StoredKept DEF SameCall
  <2> QED BY <1>1, <1>2, <2>2, <2>3, <2>5, <2>6 DEF Footing, Meant, SameCall
<1> QED BY <1>3, <1>4 DEF Fetched

\* A handler goes from its commit to the audit with the write in the tables.
LEMMA CommittingFooting ==
  ASSUME TypeOK, TraceInv, [Next]_vars, NEW q \in Requests, Committing(q)
  PROVE  (Footing(q) /\ Meant(q))'
<1>1. /\ req[q] \in Request /\ LocalsOK(req[q]) /\ Footing(q) /\ req[q].pc = "write"
      /\ req'[q] = [req[q] EXCEPT !.pc = "audit"]
  BY DEF TypeOK, TraceInv, Committing, CommitCreate, CommitUpdate, CommitDelete
<1>2. /\ req'[q].pc = "audit" /\ req'[q].code = 0
      /\ req'[q].op = req[q].op /\ req'[q].id = req[q].id
      /\ RevisionOf(req'[q], q) = RevisionOf(req[q], q)
  BY <1>1 DEF Request, Footing, RevisionOf
<1>3. CASE CommitDelete(q)
  <2>1. /\ rows[req[q].id] \in Row
        /\ rows' = [rows EXCEPT ![req[q].id] = [@ EXCEPT !.state = "deleted"]]
        /\ req[q].op = "delete" /\ req[q].id \in Decisions
    BY <1>3, CommitEffect DEF CommitDelete
  <2>2. rows'[req[q].id].state = "deleted"
    BY <2>1 DEF TypeOK, Row
  <2> QED BY <1>2, <2>1, <2>2 DEF Footing, Meant
<1>4. CASE CommitCreate(q) \/ CommitUpdate(q)
  <2>1. /\ revisions' = [revisions EXCEPT ![req[q].id] = @ \cup {RevisionOf(req[q], q)}]
        /\ req[q].id \in Decisions
    BY <1>4, CommitEffect
  <2>2. RevisionOf(req[q], q) \in revisions'[req[q].id]
    BY <2>1 DEF TypeOK
  <2>3. req[q].op # "delete"
    BY <1>4 DEF CommitCreate, CommitUpdate
  <2>4. RevisionOf(req'[q], q) \in revisions'[req'[q].id]
    BY <1>2, <2>2
  <2> HIDE DEF RevisionOf
  <2> QED BY <1>2, <2>3, <2>4 DEF Footing, Meant
<1> QED BY <1>3, <1>4 DEF Committing

\* "Not found" after a write means that the decision is gone since.
LEMMA MissedMeans ==
  ASSUME TypeOK, RevisionChain, TraceInv, [Next]_vars, NEW q \in Requests, Missed(q)
  PROVE  (Footing(q) /\ Meant(q))'
<1>1. /\ req[q] \in Request /\ LocalsOK(req[q])
      /\ req[q].pc \in {"write", "reread"}
      /\ ~Live(req[q].id)
      /\ UNCHANGED <<rows, revisions, audits>>
  BY DEF TypeOK, Missed
<1>2. req'[q].pc = "done" /\ req'[q].code = 404 /\ SameCall(req'[q], req[q])
  BY AnswerKeeps DEF Missed, SameCall
<1>3. ASSUME req[q].id \in Decisions, Stored(q)'
      PROVE  rows'[req[q].id].state = "deleted"
  <2>1. Stored(q)
    BY <1>1, <1>2, <1>3 DEF Stored, SameCall
  <2> QED BY <1>1, <1>3, <2>1, StoredVersion
<1> QED BY <1>2, <1>3 DEF Footing, Meant, SameCall

\* What a handler has after its audit entry.
LEMMA AuditedFooting ==
  ASSUME TypeOK, TraceInv, [Next]_vars, NEW q \in Requests, AuditedOn(q) \/ AuditedLast(q)
  PROVE  (Footing(q) /\ Meant(q))'
<1>1. /\ req[q] \in Request /\ LocalsOK(req[q]) /\ Footing(q) /\ req[q].pc = "audit"
      /\ req[q].id \in Decisions
      /\ UNCHANGED <<rows, revisions>>
  BY DEF TypeOK, TraceInv, AuditedOn, AuditedLast, LocalsOK, InFlight
<1>2. AuditEntry(req[q], q).request = q /\ AuditEntry(req[q], q).action = req[q].op
  BY DEF AuditEntry
<1>3. /\ req[q].code = 0
      /\ IF req[q].op = "delete" THEN rows[req[q].id].state = "deleted"
         ELSE RevisionOf(req[q], q) \in revisions[req[q].id]
  BY <1>1 DEF Footing
<1>4. CASE AuditedOn(q)
  <2>1. req'[q].pc = "reread" /\ SameCall(req'[q], req[q]) /\ req'[q].code = 0
        /\ req[q].op # "delete"
    BY <1>1, <1>3, <1>4 DEF AuditedOn, Request, SameCall
  <2>2. Stored(q)
    BY <1>3, <2>1 DEF Stored, RevisionOf
  <2>3. Stored(q)'
    BY <1>1, <2>1, <2>2, StoredKept
  <2>4. req'[q].op = "transition" => Logged(q)'
    BY <1>2, <1>4, <2>1 DEF AuditedOn, Logged, SameCall
  <2> HIDE DEF Stored, Logged
  <2> QED BY <2>1, <2>3, <2>4 DEF Footing, Meant, SameCall
<1>5. CASE AuditedLast(q)
  <2>1. /\ req[q].op = "delete" /\ req'[q].pc = "done" /\ req'[q].code = 204
        /\ SameCall(req'[q], req[q])
    BY <1>5, AnswerKeeps DEF AuditedLast, SameCall
  <2>2. Logged(q)'
    BY <1>2, <1>5, <2>1 DEF AuditedLast, Logged, SameCall
  <2> HIDE DEF Logged
  <2> QED BY <1>1, <1>3, <2>1, <2>2 DEF Footing, Meant, SameCall
<1> QED BY <1>4, <1>5

\* A successful answer shows a record the revisions account for.
LEMMA AnsweredMeans ==
  ASSUME TypeOK, TraceInv, [Next]_vars, NEW q \in Requests, Answered(q)
  PROVE  (Footing(q) /\ Meant(q))'
<1>1. /\ req[q] \in Request /\ LocalsOK(req[q]) /\ Footing(q) /\ req[q].pc = "preload"
      /\ req[q].id \in Decisions
  BY DEF TypeOK, TraceInv, Answered, LocalsOK, InFlight
<1>2. PICK code \in {200, 201} : req'[q] = AnswerWith(req[q], code, revisions[req[q].id])
  BY DEF Answered
<1>3. /\ req'[q].pc = "done" /\ req'[q].code \in {200, 201} /\ SameCall(req'[q], req[q])
      /\ req'[q].seen = req[q].seen /\ req'[q].revs = revisions[req[q].id]
  BY <1>2, AnswerKeeps DEF SameCall
<1>4. /\ Covered(req[q].seen, revisions[req[q].id])
      /\ req[q].op # "read" =>
           /\ req[q].op # "delete"
           /\ req[q].seen.version > req[q].expected
           /\ Stored(q)
           /\ req[q].op = "transition" => Logged(q)
  BY <1>1 DEF Footing
<1>5. /\ req'[q].op # "read" => Stored(q)'
      /\ req'[q].op = "transition" => Logged(q)'
  BY <1>1, <1>3, <1>4, StoredKept DEF SameCall
<1> QED BY <1>1, <1>3, <1>4, <1>5 DEF Footing, Meant, SameCall

\* Every handler keeps its footing, and every answer its meaning.
LEMMA FootingStep ==
  ASSUME TypeOK, RevisionChain, TraceInv, [Next]_vars, NEW q \in Requests
  PROVE  (Footing(q) /\ Meant(q))'
<1>1. CASE Checked(q)
  BY <1>1 DEF Checked, Footing, Meant
<1>2. CASE Refused(q)
  <2>1. req'[q].pc = "done" /\ req'[q].code \in {403, 404, 422} /\ req[q].pc = "idle"
    BY <1>2 DEF Refused
  <2>2. req'[q].id \in Decisions => ~Stored(q)'
    BY <2>1, NotStored DEF Stored, CommitCreate, CommitUpdate
  <2> HIDE DEF Stored
  <2> QED BY <2>1, <2>2 DEF Footing, Meant
<1>3. CASE Failed(q) \/ Lost(q)
  <2>1. req'[q].pc = "done" /\ req'[q].code \in {500, 409}
    BY <1>3, AnswerKeeps DEF Failed, Lost
  <2> QED BY <2>1 DEF Footing, Meant
<1>4. CASE Gone(q)
  <2>1. req'[q].pc = "gone" /\ req'[q].code = 0
    BY <1>4 DEF Gone, Answer
  <2> QED BY <2>1 DEF Footing, Meant
<1> QED
  BY <1>1, <1>2, <1>3, <1>4, CallStep, AloneKept, FetchedFooting, CommittingFooting,
     MissedMeans, AuditedFooting, AnsweredMeans

\* No request has left a trace in a seeded database.
LEMMA TraceInit == Init => TraceInv
<1> SUFFICES ASSUME Init PROVE TraceInv
  OBVIOUS
<1>1. req = [r \in Requests |-> Idle] /\ audits = {}
  BY DEF Init
<1>2. \A d \in Decisions : \A rev \in revisions[d] : rev.request = None
  <2>1. PICK e \in Evidence, seed \in Seeds :
          revisions = [d \in Decisions |-> SeedRevisions(seed[d], e)]
    BY DEF Init
  <2>2. \A status : \A rev \in SeedRevisions(status, e) : rev.request = None
    BY DEF SeedRevisions
  <2> QED BY <2>1, <2>2
<1>3. None \notin Requests
  BY ConstantsAssumption
<1>4. \A d \in Decisions : \A rev \in revisions[d] : Traced(rev, d)
  BY <1>2, <1>3 DEF Traced
<1>5. \A d \in Decisions : DeletedOnce(d)
  BY <1>1 DEF DeletedOnce, Deleting, Idle
<1>6. \A r \in Requests : Footing(r) /\ Meant(r)
  BY <1>1 DEF Footing, Meant, Idle
<1> QED BY <1>1, <1>4, <1>5, <1>6 DEF TraceInv

\* The trace invariant is inductive beside the revision chain.
LEMMA TraceStep ==
  ASSUME TypeOK, RevisionChain, TraceInv, [Next]_vars
  PROVE  TraceInv'
<1>1. (\A d \in Decisions : \A rev \in revisions[d] : Traced(rev, d))'
  BY TracedStep
<1>2. (\A d \in Decisions : DeletedOnce(d))'
  BY DeletedOnceStep
<1>3. (\A a \in audits : Reported(a) /\ Vouched(a))'
  BY ReportedStep
<1>4. (\A r \in Requests : Footing(r) /\ Meant(r))'
  BY FootingStep
<1> QED BY <1>1, <1>2, <1>3, <1>4 DEF TraceInv

\* The invariants hold in every reachable state.
LEMMA TraceAlways == Spec => [](TypeOK /\ RevisionChain /\ TraceInv)
<1>1. Init => TraceInv
  BY TraceInit
<1>2. TypeOK /\ RevisionChain /\ TraceInv /\ [Next]_vars => TraceInv'
  BY TraceStep
<1> QED BY <1>1, <1>2, TypeCorrect, RevisionsChained, PTL DEF Spec

-----------------------------------------------------------------------------
(* What answers and the log can be trusted for *)

\* A request that committed has its revision under the decision it names.
LEMMA CommittedStored ==
  ASSUME TraceInv, NEW r \in Requests, Committed(r)
  PROVE  req[r].id \in Decisions /\ Stored(r) /\ req[r].code \notin NoChange
<1>1. PICK d \in Decisions : \E rev \in revisions[d] : rev.request = r
  BY DEF Committed
<1>2. PICK rev \in revisions[d] : rev.request = r
  BY <1>1
<1>3. Traced(rev, d)
  BY DEF TraceInv
<1> QED BY <1>2, <1>3 DEF Traced, Stored

\* The answer of a request says what became of it: for any number of requests,
\* users and decisions, any interleaving of their statements with commits,
\* crashes and failed statements, and whatever versions the clients name.
THEOREM AnswersTruthful == Spec => []AnswerTruthful
<1>1. TraceInv => AnswerTruthful
  <2> SUFFICES ASSUME TraceInv, NEW r \in Requests
               PROVE  LET a == req[r]
                      IN  /\ a.code \in {200, 201} /\ a.op # "read" =>
                               \E rev \in revisions[a.id] :
                                 rev.request = r /\ rev.version = a.expected + 1
                          /\ a.code = 204 => rows[a.id].state = "deleted"
                          /\ a.code \in {403, 409, 422} => ~Committed(r) /\ ~Audited(r)
                          /\ a.code = 404 /\ Committed(r) => rows[a.id].state = "deleted"
    BY DEF AnswerTruthful
  <2>1. Meant(r) /\ (req[r].code # 0 => req[r].pc = "done")
    BY DEF TraceInv, Footing
  <2>2. req[r].code \in {200, 201} /\ req[r].op # "read" => Stored(r)
    BY <2>1 DEF Meant
  <2>3. req[r].code = 204 => rows[req[r].id].state = "deleted"
    BY <2>1 DEF Meant
  <2>4. req[r].code \in {403, 409, 422} => ~Committed(r) /\ ~Audited(r)
    BY CommittedStored DEF TraceInv, Reported, Audited, NoChange
  <2>5. req[r].code = 404 /\ Committed(r) => rows[req[r].id].state = "deleted"
    BY <2>1, CommittedStored DEF Meant
  <2> QED BY <2>2, <2>3, <2>4, <2>5 DEF Stored
<1> QED BY <1>1, TraceAlways, PTL

\* The audit log reports nothing that did not happen, and one delete per
\* decision: it is appended to outside the transaction it tells of, so every
\* entry rests on what its handler had stored by then.
THEOREM LogTruthful == Spec => []AuditTruthful
<1>1. TypeOK /\ TraceInv => AuditTruthful
  <2> SUFFICES ASSUME TypeOK, TraceInv, NEW a \in audits
               PROVE  /\ Vouched(a)
                      /\ a.action = "delete" =>
                           \A b \in audits : b.action = "delete" /\ b.id = a.id => a = b
    BY DEF AuditTruthful, Vouched
  <2>1. a.id \in Decisions
    BY DEF TypeOK, AuditLog
  <2> QED BY <2>1 DEF TraceInv, DeletedOnce
<1> QED BY <1>1, TraceAlways, PTL

\* A transition and a delete that were answered with success are in the log:
\* the handlers of these two return the error of their audit entry.
THEOREM SuccessAudited == Spec => []AcknowledgedAudited
<1>1. TraceInv => AcknowledgedAudited
  <2> SUFFICES ASSUME TraceInv, NEW r \in Requests,
                      \/ req[r].op = "transition" /\ req[r].code = 200
                      \/ req[r].op = "delete" /\ req[r].code = 204
               PROVE  Logged(r)
    BY DEF AcknowledgedAudited, Logged
  <2> QED BY DEF TraceInv, Footing, Meant
<1> QED BY <1>1, TraceAlways, PTL

\* The revisions of an answer, read after its row, account for every version up
\* to the row's, and a writer is shown a version at least its own.
THEOREM AnswersCovered == Spec => []AnswerCoversVersion
<1>1. TraceInv => AnswerCoversVersion
  BY DEF TraceInv, Meant, Covered, AnswerCoversVersion
<1> QED BY <1>1, TraceAlways, PTL

-----------------------------------------------------------------------------
(* With informed clients: the invariant *)

\* ReviewedEvidence, of one decision.
Attested(d) ==
  \A final \in revisions[d] :
    final.status \in PriorityLevel =>
      \E draft \in revisions[d] :
        /\ draft.version + 1 = final.version
        /\ draft.status = "draft"
        /\ draft.evidence = final.evidence

\* The before-state that a handler carries to its audit entry is the status of
\* the revision its write has replaced.
Replaced(r) ==
  req[r].pc = "audit" /\ req[r].op \in {"update", "transition"} =>
    \A previous \in revisions[req[r].id] :
      previous.version = req[r].expected => req[r].before = previous.status

\* ConflictHasWinner, of one request, with the row it lost.
Beaten(r) ==
  req[r].code = 409 =>
    /\ req[r].id \in Decisions
    /\ rows[req[r].id] # NoRow
    /\ \/ rows[req[r].id].state = "deleted"
       \/ rows[req[r].id].version > req[r].expected

\* The inductive invariant that informed clients preserve, beside the chain,
\* the trace, the review and the base invariants.
InformedInv ==
  /\ \A d \in Decisions : Attested(d)
  /\ \A r \in Requests : Replaced(r) /\ Beaten(r)
  /\ AuditBefore

-----------------------------------------------------------------------------
(* Its preservation *)

\* A new revision is numbered beyond all those stored.
LEMMA NewVersion ==
  ASSUME TypeOK, RevisionChain, [Next]_vars, NEW d \in Decisions,
         NEW rev \in revisions'[d], rev \notin revisions[d],
         NEW old \in revisions[d]
  PROVE  old.version \in Nat /\ rev.version \in Nat /\ old.version < rev.version
<1>1. PICK r \in Requests :
        (CommitCreate(r) \/ CommitUpdate(r)) /\ req[r].id = d /\ rev = RevisionOf(req[r], r)
  BY NewRevision
<1>2. {o.version : o \in revisions[d]} = 1 .. rows[d].version
  BY DEF RevisionChain
<1>3. old.version \in 1 .. rows[d].version
  BY <1>2
<1>4. CommitUpdate(r)
  <2>1. CommitCreate(r) => rows[d] = NoRow
    BY <1>1, CommitEffect
  <2>2. rows[d] # NoRow
    BY <1>3 DEF NoRow
  <2> QED BY <1>1, <2>1, <2>2
<1>5. rows[d] \in Row /\ rev.version = rows[d].version + 1
  BY <1>1, <1>4, CommitEffect DEF RevisionOf
<1> QED BY <1>3, <1>5 DEF Row

\* A final revision is written over a draft, with the evidence of that draft.
LEMMA AttestedStep ==
  ASSUME TypeOK, RevisionChain, ReviewInv, BaseInv, InformedInv, [Next]_vars,
         NEW d \in Decisions
  PROVE  Attested(d)'
<1> SUFFICES ASSUME NEW final \in revisions'[d], final.status \in PriorityLevel
             PROVE  \E draft \in revisions'[d] :
                      /\ draft.version + 1 = final.version
                      /\ draft.status = "draft"
                      /\ draft.evidence = final.evidence
  BY DEF Attested
<1>1. revisions[d] \subseteq revisions'[d]
  BY TablesGrow
<1>2. CASE final \in revisions[d]
  BY <1>1, <1>2 DEF InformedInv, Attested
<1>3. CASE final \notin revisions[d]
  <2>1. PICK r \in Requests :
          (CommitCreate(r) \/ CommitUpdate(r)) /\ req[r].id = d /\ final = RevisionOf(req[r], r)
    BY <1>3, NewRevision
  <2>2. /\ final.version = req[r].expected + 1 /\ final.status = req[r].status
        /\ final.evidence = req[r].evidence
    BY <2>1 DEF RevisionOf
  <2>3. CommitUpdate(r)
    <3>1. CommitCreate(r) => req[r].status = "draft"
      BY DEF TypeOK, LocalsOK, CommitCreate
    <3> QED BY <2>1, <2>2, <3>1 DEF PriorityLevel
  <2>4. /\ req[r].pc = "write" /\ req[r].op \in {"update", "transition"}
        /\ rows[d] \in Row /\ rows[d].version = req[r].expected
    BY <2>1, <2>3, CommitEffect
  <2>5. req[r].op = "transition"
    BY <2>2, <2>4 DEF ReviewInv, PendingReview, PriorityLevel
  <2>6. rows[d].status = "draft" /\ rows[d].evidence = req[r].evidence
    BY <2>1, <2>4, <2>5 DEF BaseInv, PendingBase
  <2>7. PICK draft \in revisions[d] :
          /\ draft.version = rows[d].version
          /\ draft.status = rows[d].status
          /\ draft.evidence = rows[d].evidence
    <3>1. {rev.version : rev \in revisions[d]} = 1 .. rows[d].version
      BY DEF RevisionChain
    <3>2. rows[d].version \in 1 .. rows[d].version
      BY <2>4 DEF Row
    <3> QED BY <3>1, <3>2 DEF RevisionChain
  <2> QED BY <1>1, <2>2, <2>4, <2>6, <2>7
<1> QED BY <1>2, <1>3

\* The handler reaches its audit entry only by its commit.
LEMMA AuditFromCommit ==
  ASSUME TypeOK, [Next]_vars, NEW q \in Requests, req'[q].pc = "audit", req'[q] # req[q]
  PROVE  Committing(q)
<1>1. ~Checked(q) /\ ~Refused(q) /\ ~Fetched(q)
  BY DEF Checked, Refused, Fetched
<1>2. ~Failed(q) /\ ~Lost(q) /\ ~Missed(q) /\ ~AuditedLast(q)
  <2>1. Failed(q) \/ Lost(q) \/ Missed(q) \/ AuditedLast(q) =>
          \E code : req'[q] = Answer(req[q], code)
    BY DEF Failed, Lost, Missed, AuditedLast
  <2> QED BY <2>1, AnswerKeeps
<1>3. ~Answered(q)
  <2>1. Answered(q) => \E code, revs : req'[q] = AnswerWith(req[q], code, revs)
    BY DEF Answered
  <2> QED BY <2>1, AnswerKeeps
<1>4. ~AuditedOn(q) /\ ~Gone(q)
  BY DEF AuditedOn, Gone, Answer, TypeOK, Request
<1> QED BY <1>1, <1>2, <1>3, <1>4, CallStep

\* What a handler carries to its audit entry stays the status it has replaced.
LEMMA ReplacedStep ==
  ASSUME TypeOK, RevisionChain, TraceInv, BaseInv, InformedInv, [Next]_vars,
         NEW q \in Requests
  PROVE  Replaced(q)'
<1> SUFFICES ASSUME req'[q].pc = "audit", req'[q].op \in {"update", "transition"},
                    NEW previous \in revisions'[req'[q].id],
                    previous.version = req'[q].expected
             PROVE  req'[q].before = previous.status
  BY DEF Replaced
<1>1. CASE req'[q] = req[q]
  <2> DEFINE d == req[q].id
             mine == RevisionOf(req[q], q)
  <2>1. d \in Decisions
    BY <1>1 DEF TypeOK, LocalsOK, InFlight
  <2>2. mine \in revisions[d] /\ mine.version = req[q].expected + 1
    BY <1>1 DEF TraceInv, Footing, RevisionOf
  <2>3. req[q].expected \in Nat
    BY DEF TypeOK, Request
  <2> HIDE DEF mine, d
  <2>4. previous \in revisions[d]
    BY <1>1, <2>1, <2>2, <2>3, NewVersion DEF d
  <2> QED BY <1>1, <2>4 DEF InformedInv, Replaced, d
<1>2. CASE req'[q] # req[q]
  <2>1. req'[q] = [req[q] EXCEPT !.pc = "audit"]
        /\ (CommitCreate(q) \/ CommitUpdate(q) \/ CommitDelete(q))
    BY <1>2, AuditFromCommit DEF Committing
  <2>2. /\ req'[q].op = req[q].op /\ req'[q].id = req[q].id
        /\ req'[q].expected = req[q].expected /\ req'[q].before = req[q].before
    BY <2>1 DEF TypeOK, Request
  <2>3. CommitUpdate(q)
    BY <2>1, <2>2 DEF CommitCreate, CommitDelete
  <2> DEFINE d == req[q].id
  <2>4. /\ req[q].pc = "write" /\ d \in Decisions
        /\ rows[d] \in Row /\ rows[d].version = req[q].expected
        /\ revisions' = [revisions EXCEPT ![d] = @ \cup {RevisionOf(req[q], q)}]
    BY <2>3, CommitEffect
  <2>5. req[q].before = rows[d].status
    BY <2>2, <2>4 DEF BaseInv, PendingBase
  <2>6. previous \in revisions[d]
    <3>1. revisions'[d] = revisions[d] \cup {RevisionOf(req[q], q)}
      BY <2>4 DEF TypeOK
    <3>2. RevisionOf(req[q], q).version = req[q].expected + 1 /\ req[q].expected \in Nat
      BY <2>4 DEF RevisionOf, Row
    <3> QED BY <2>2, <3>1, <3>2
  <2>7. previous.status = rows[d].status
    BY <2>2, <2>4, <2>6 DEF RevisionChain
  <2> QED BY <2>2, <2>5, <2>7
<1> QED BY <1>1, <1>2

\* Entries keep naming the status that their writes replaced.
LEMMA BeforeStep ==
  ASSUME TypeOK, RevisionChain, TraceInv, InformedInv, [Next]_vars
  PROVE  AuditBefore'
<1> SUFFICES ASSUME NEW a \in audits',
                    NEW rev \in revisions'[a.id], NEW previous \in revisions'[a.id],
                    a.action \in {"update", "transition"},
                    rev.request = a.request, previous.version + 1 = rev.version
             PROVE  a.before = previous.status
  BY DEF AuditBefore
<1>1. CASE a \in audits
  <2>1. a.id \in Decisions /\ a.request \in Requests /\ Reported(a)
    BY <1>1 DEF TypeOK, AuditLog, TraceInv
  <2>2. rev \in revisions[a.id]
    <3> SUFFICES ASSUME rev \notin revisions[a.id] PROVE FALSE
      OBVIOUS
    <3>1. PICK r \in Requests :
            (CommitCreate(r) \/ CommitUpdate(r)) /\ rev = RevisionOf(req[r], r)
      BY <2>1, NewRevision
    <3> QED BY <2>1, <3>1 DEF RevisionOf, Reported, CommitCreate, CommitUpdate
  <2>3. previous \in revisions[a.id]
    <3> SUFFICES ASSUME previous \notin revisions[a.id] PROVE FALSE
      OBVIOUS
    <3>1. rev.version \in Nat /\ previous.version \in Nat /\ rev.version < previous.version
      BY <2>1, <2>2, NewVersion
    <3> QED BY <3>1
  <2> QED BY <1>1, <2>2, <2>3 DEF InformedInv, AuditBefore
<1>2. CASE a \notin audits
  <2>1. PICK r \in Requests :
          req[r].pc = "audit" /\ a = AuditEntry(req[r], r) /\ UNCHANGED <<rows, revisions>>
    BY <1>2, NewEntry
  <2>2. /\ a.request = r /\ a.action = req[r].op /\ a.id = req[r].id
        /\ a.before = req[r].before
    BY <2>1 DEF AuditEntry
  <2>3. req[r].id \in Decisions /\ req[r].expected \in Nat
    BY <2>1 DEF TypeOK, LocalsOK, InFlight, Request
  <2>4. rev.version = req[r].expected + 1
    BY <2>1, <2>2, <2>3 DEF TraceInv, Traced
  <2>5. previous \in revisions[req[r].id] /\ previous.version \in Nat
    BY <2>1, <2>2, <2>3 DEF TypeOK, Revision
  <2>6. previous.version = req[r].expected
    BY <2>3, <2>4, <2>5
  <2> QED BY <2>1, <2>2, <2>5, <2>6 DEF InformedInv, Replaced
<1> QED BY <1>1, <1>2

\* A conflict is answered to a request that has lost, and the loss is for good.
LEMMA BeatenStep ==
  ASSUME TypeOK, ReviewInv, BaseInv, TraceInv, InformedInv, [Next]_vars, NEW q \in Requests
  PROVE  Beaten(q)'
<1> SUFFICES ASSUME req'[q].code = 409
             PROVE  /\ req'[q].id \in Decisions
                    /\ rows'[req'[q].id] # NoRow
                    /\ \/ rows'[req'[q].id].state = "deleted"
                       \/ rows'[req'[q].id].version > req'[q].expected
  BY DEF Beaten
<1>1. req[q] \in Request /\ (req[q].pc # "done" => req[q].code = 0)
  BY DEF TypeOK, TraceInv, Footing
<1>2. CASE req'[q] = req[q]
  <2> DEFINE d == req[q].id
  <2>1. /\ d \in Decisions /\ rows[d] # NoRow
        /\ rows[d].state = "deleted" \/ rows[d].version > req[q].expected
    BY <1>2 DEF InformedInv, Beaten
  <2> HIDE DEF d
  <2>2. rows'[d] # NoRow
    BY <2>1, PreparerKept
  <2>3. rows[d].state = "deleted" => rows'[d].state = "deleted"
    BY <2>1, TablesGrow
  <2>4. rows[d].version \in Nat /\ rows'[d].version \in Nat /\ rows'[d].version >= rows[d].version
    BY <2>1, VersionGrows
  <2>5. req[q].expected \in Nat
    BY <1>1 DEF Request
  <2>6. rows'[d].state = "deleted" \/ rows'[d].version > req[q].expected
    BY <2>1, <2>3, <2>4, <2>5
  <2> QED BY <1>2, <2>1, <2>2, <2>6 DEF d
<1>3. CASE Lost(q)
  <2> DEFINE d == req[q].id
  <2>1. /\ req[q].pc = "write" /\ req[q].op \in {"update", "transition"}
        /\ ~Matches(req[q]) /\ UNCHANGED rows
        /\ req'[q].id = d /\ req'[q].expected = req[q].expected
    <3>1. req'[q] = Answer(req[q], 409)
      BY <1>3 DEF Lost
    <3>2. req'[q].id = d /\ req'[q].expected = req[q].expected
      BY <3>1, AnswerKeeps
    <3> QED BY <1>3, <3>2 DEF Lost
  <2>2. d \in Decisions /\ req[q].expected \in Nat
    BY <1>1, <2>1 DEF TypeOK, LocalsOK, InFlight, Request
  <2>3. rows[d] # NoRow
    BY <2>1 DEF ReviewInv, PendingReview
  <2>4. req[q].expected <= rows[d].version
    BY <2>1 DEF BaseInv, PendingBase
  <2>5. rows[d] \in Row
    BY <2>2, <2>3 DEF TypeOK
  <2>6. rows[d].state = "deleted" \/ rows[d].version # req[q].expected
    BY <2>1, <2>5 DEF Matches, Live, Row
  <2> QED BY <2>1, <2>2, <2>3, <2>4, <2>5, <2>6 DEF Row
<1>4. ~Checked(q) /\ ~Refused(q)
  BY DEF Checked, Refused
<1>5. ~Fetched(q) /\ ~Committing(q) /\ ~AuditedOn(q)
  <2>1. Fetched(q) => req'[q].code = 0
    BY ZenonT(60), <1>1 DEF Fetched, Request
  <2>2. Committing(q) \/ AuditedOn(q) => req'[q].code = 0
    BY <1>1 DEF Committing, AuditedOn, CommitCreate, CommitUpdate, CommitDelete, Request
  <2> QED BY <2>1, <2>2
<1>6. ~Failed(q) /\ ~Missed(q) /\ ~AuditedLast(q) /\ ~Gone(q)
  <2>1. Gone(q) => req'[q].code = 0
    BY DEF Gone, Answer
  <2>2. Failed(q) \/ Missed(q) \/ AuditedLast(q) =>
          \E code \in {500, 404, 204} : req'[q] = Answer(req[q], code)
    BY DEF Failed, Missed, AuditedLast
  <2>3. Failed(q) \/ Missed(q) \/ AuditedLast(q) => req'[q].code # 409
    BY <2>2 DEF Answer
  <2> QED BY <2>1, <2>3
<1>7. ~Answered(q)
  <2>1. Answered(q) => \E code \in {200, 201} : \E revs : req'[q] = AnswerWith(req[q], code, revs)
    BY DEF Answered
  <2> QED BY <2>1, AnswerKeeps
<1> QED BY <1>2, <1>3, <1>4, <1>5, <1>6, <1>7, CallStep

\* Seeded final decisions follow their seeded draft.
LEMMA InformedInit == Init => InformedInv
<1> SUFFICES ASSUME Init PROVE InformedInv
  OBVIOUS
<1>1. req = [r \in Requests |-> Idle] /\ audits = {}
  BY DEF Init
<1>2. ASSUME NEW d \in Decisions
      PROVE  Attested(d)
  <2>1. PICK e \in Evidence, seed \in Seeds : revisions[d] = SeedRevisions(seed[d], e)
    BY DEF Init
  <2>2. CASE seed[d] \in {"none", "draft"}
    BY <2>1, <2>2 DEF SeedRevisions, Attested, PriorityLevel
  <2>3. CASE seed[d] \notin {"none", "draft"}
    <3>1. revisions[d] = {[version |-> 1, status |-> "draft", evidence |-> e,
                           actor |-> Preparer, request |-> None],
                          [version |-> 2, status |-> seed[d], evidence |-> e,
                           actor |-> Reviewer, request |-> None]}
      BY <2>1, <2>3 DEF SeedRevisions
    <3> QED BY <3>1 DEF Attested, PriorityLevel
  <2> QED BY <2>2, <2>3
<1>3. \A r \in Requests : Replaced(r) /\ Beaten(r)
  BY <1>1 DEF Replaced, Beaten, Idle
<1>4. AuditBefore
  BY <1>1 DEF AuditBefore
<1> QED BY <1>2, <1>3, <1>4 DEF InformedInv

\* All the invariants, together and always.
LEMMA InformedAlways ==
  ASSUME Ahead = 0
  PROVE  Spec => [](TypeOK /\ RevisionChain /\ ReviewInv /\ BaseInv /\ InformedInv)
<1>1. Init => InformedInv
  BY InformedInit
<1>2. TypeOK /\ RevisionChain /\ TraceInv /\ ReviewInv /\ BaseInv /\ InformedInv
      /\ [Next]_vars => InformedInv'
  <2> SUFFICES ASSUME TypeOK, RevisionChain, TraceInv, ReviewInv, BaseInv, InformedInv,
                      [Next]_vars
               PROVE  InformedInv'
    OBVIOUS
  <2>1. (\A d \in Decisions : Attested(d))'
    BY AttestedStep
  <2>2. (\A r \in Requests : Replaced(r) /\ Beaten(r))'
    BY ReplacedStep, BeatenStep
  <2>3. AuditBefore'
    BY BeforeStep
  <2> QED BY <2>1, <2>2, <2>3 DEF InformedInv
<1> QED BY <1>1, <1>2, TraceAlways, BaseAlways, PTL DEF Spec

-----------------------------------------------------------------------------
(* What informed clients can rely on *)

\* What was reviewed is what was finalised: the transition writes back the
\* evidence it read, and the version check admits it only over that draft.
THEOREM EvidenceReviewed ==
  ASSUME Ahead = 0
  PROVE  Spec => []ReviewedEvidence
<1>1. InformedInv => ReviewedEvidence
  BY DEF InformedInv, Attested, ReviewedEvidence
<1> QED BY <1>1, InformedAlways, PTL

\* The before-state of an audit entry is the status that the write replaced,
\* although it was read before the transaction and logged after it.
THEOREM BeforeReplaced ==
  ASSUME Ahead = 0
  PROVE  Spec => []AuditBefore
<1>1. InformedInv => AuditBefore
  BY DEF InformedInv
<1> QED BY <1>1, InformedAlways, PTL

\* 409 is answered only to a request that lost to another.
THEOREM ConflictWon ==
  ASSUME Ahead = 0
  PROVE  Spec => []ConflictHasWinner
<1>1. InformedInv => ConflictHasWinner
  BY DEF InformedInv, Beaten, ConflictHasWinner
<1> QED BY <1>1, InformedAlways, PTL

-----------------------------------------------------------------------------
(* The ledger of a decision *)

\* Whoever writes had the right to when it was checked, and still has it: the
\* preparer of a row never changes.
Entitled(r) ==
  req[r].pc = "write" =>
    /\ req[r].op = "create" => HasMinimumRole(RoleOf[req[r].actor], "operator")
    /\ req[r].op = "update" =>
         /\ rows[req[r].id] # NoRow
         /\ \/ req[r].actor = rows[req[r].id].preparedBy
            \/ RoleOf[req[r].actor] = "admin"
    /\ req[r].op = "transition" => req[r].status \in PriorityLevel

\* No step takes a right away from a handler about to write.
LEMMA EntitledStep ==
  ASSUME TypeOK, [Next]_vars, NEW q \in Requests, Entitled(q)
  PROVE  Entitled(q)'
<1> SUFFICES ASSUME req'[q].pc = "write"
             PROVE  /\ req'[q].op = "create" =>
                         HasMinimumRole(RoleOf[req'[q].actor], "operator")
                    /\ req'[q].op = "update" =>
                         /\ rows'[req'[q].id] # NoRow
                         /\ \/ req'[q].actor = rows'[req'[q].id].preparedBy
                            \/ RoleOf[req'[q].actor] = "admin"
                    /\ req'[q].op = "transition" => req'[q].status \in PriorityLevel
  BY DEF Entitled
<1>1. CASE req'[q] = req[q]
  <2>1. req[q].id \in Decisions
    BY <1>1, WrittenType
  <2> QED BY <1>1, <2>1, PreparerKept DEF Entitled
<1>2. CASE req'[q] # req[q]
  <2>1. PICK u \in Users, d \in Decisions :
          /\ UNCHANGED rows
          /\ req'[q].actor = u
          /\ req'[q].id = d
          /\ \/ req'[q].op = "create" /\ \E e : CreateRefusal(u, e) = 0
             \/ req'[q].op = "delete"
             \/ req'[q].op = "update" /\ \E e : UpdateRefusal(u, d, e) = 0
             \/ req'[q].op = "transition" /\ TransitionRefusal(u, d, req'[q].status) = 0
    BY <1>2, PendingStep
  <2>2. \A e : CreateRefusal(u, e) = 0 => HasMinimumRole(RoleOf[u], "operator")
    BY DEF CreateRefusal
  <2>3. \A e : UpdateRefusal(u, d, e) = 0 =>
          rows[d] \in Row /\ (u = rows[d].preparedBy \/ RoleOf[u] = "admin")
    BY NoRefusal DEF UpdateRefusal
  <2>4. TransitionRefusal(u, d, req'[q].status) = 0 => req'[q].status \in PriorityLevel
    BY NoRefusal
  <2>5. NoRow \notin Row
    BY DEF Row, NoRow
  <2> QED BY <2>1, <2>2, <2>3, <2>4, <2>5
<1> QED BY <1>1, <1>2

\* An entry of the ledger is what a revision says.
EntryOf(rev) == Ledger!Entry(rev.status, rev.evidence, rev.actor)

\* The entries there may be.
Entries == [status : PriorityStatus, evidence : Evidence, actor : Users]

\* A ledger over n revisions, LedgerOf with its state as parameters.
LedgerOver(n, revs) ==
  [v \in 1 .. n |->
     LET rev == CHOOSE rev \in revs : rev.version = v
     IN  [status |-> rev.status, evidence |-> rev.evidence, actor |-> rev.actor]]

\* Revisions numbered 1 to n without gap or duplicate.
Numbered(n, revs) ==
  /\ n \in Nat
  /\ revs \subseteq Revision
  /\ {rev.version : rev \in revs} = 1 .. n
  /\ \A a, b \in revs : a.version = b.version => a = b

\* A ledger has one entry for each revision, at the place of its number.
LEMMA LedgerEntry ==
  ASSUME NEW n, NEW revs, Numbered(n, revs)
  PROVE  /\ n \in Nat
         /\ LedgerOver(n, revs) \in Seq(Entries) /\ Len(LedgerOver(n, revs)) = n
         /\ \A rev \in revs :
              /\ rev.version \in 1 .. n
              /\ EntryOf(rev) \in Entries
              /\ LedgerOver(n, revs)[rev.version] = EntryOf(rev)
         /\ \A v \in 1 .. n : \E rev \in revs : rev.version = v
<1>1. n \in Nat
  BY DEF Numbered
<1> DEFINE At(v) == CHOOSE rev \in revs : rev.version = v
<1>2. \A v \in 1 .. n : \E rev \in revs : rev.version = v
  BY DEF Numbered
<1>3. \A v \in 1 .. n : At(v) \in revs /\ At(v).version = v
  BY <1>2
<1>4. \A rev \in revs : rev.version \in 1 .. n /\ At(rev.version) = rev
  <2>1. \A rev \in revs : rev.version \in 1 .. n
    BY DEF Numbered
  <2> QED BY <1>3, <2>1 DEF Numbered
<1>5. LedgerOver(n, revs) = [v \in 1 .. n |-> EntryOf(At(v))]
  BY DEF LedgerOver, EntryOf, Ledger!Entry
<1> HIDE DEF At
<1>6. \A rev \in revs : EntryOf(rev) \in Entries
  BY DEF Numbered, Revision, EntryOf, Entries, Ledger!Entry
<1>7. LedgerOver(n, revs) \in Seq(Entries) /\ Len(LedgerOver(n, revs)) = n
  <2>1. LedgerOver(n, revs) \in [1 .. n -> Entries]
    BY <1>3, <1>5, <1>6
  <2> QED BY <1>1, <2>1
<1>8. \A rev \in revs : LedgerOver(n, revs)[rev.version] = EntryOf(rev)
  BY <1>4, <1>5
<1> QED BY <1>1, <1>2, <1>4, <1>6, <1>7, <1>8

\* A revision added to the chain is an entry appended to the ledger.
LEMMA LedgerAppended ==
  ASSUME NEW n, NEW fewer, NEW new, Numbered(n, fewer),
         Numbered(n + 1, fewer \cup {new}), new.version = n + 1
  PROVE  LedgerOver(n + 1, fewer \cup {new}) = Append(LedgerOver(n, fewer), EntryOf(new))
<1> DEFINE more == fewer \cup {new}
           before == LedgerOver(n, fewer)
           after == LedgerOver(n + 1, more)
           appended == Append(before, EntryOf(new))
<1>1. n \in Nat /\ before \in Seq(Entries) /\ Len(before) = n
  BY LedgerEntry
<1>2. after \in Seq(Entries) /\ Len(after) = n + 1
  BY <1>1, LedgerEntry
<1>3. new \in more /\ EntryOf(new) \in Entries /\ after[n + 1] = EntryOf(new)
  <2>1. \A rev \in more : EntryOf(rev) \in Entries /\ after[rev.version] = EntryOf(rev)
    BY <1>1, LedgerEntry
  <2> QED BY <2>1
<1>4. \A v \in 1 .. n : after[v] = before[v]
  <2>1. ASSUME NEW v \in 1 .. n
        PROVE  after[v] = before[v]
    <3>1. PICK rev \in fewer : rev.version = v
      BY LedgerEntry
    <3>2. before[v] = EntryOf(rev)
      BY <3>1, LedgerEntry
    <3>3. rev \in more
      OBVIOUS
    <3>4. \A x \in more : after[x.version] = EntryOf(x)
      BY <1>1, LedgerEntry
    <3> QED BY <3>1, <3>2, <3>3, <3>4
  <2> QED BY <2>1
<1> HIDE DEF more, before, after
<1>5. /\ appended \in Seq(Entries) /\ Len(appended) = n + 1
      /\ \A v \in 1 .. n : appended[v] = before[v]
      /\ appended[n + 1] = EntryOf(new)
  BY <1>1, <1>3, AppendProperties
<1> HIDE DEF appended
<1>6. \A v \in 1 .. n + 1 : after[v] = appended[v]
  BY <1>1, <1>3, <1>4, <1>5
<1>7. after = appended
  BY <1>1, <1>2, <1>5, <1>6, SeqEqual
<1> QED BY <1>7 DEF more, before, after, appended

\* The ledgers of all decisions.
Ledgers == [d \in Decisions |-> LedgerOf(d)]

\* The ledger of a decision is that of its row and revisions.
LEMMA LedgerState ==
  ASSUME TypeOK, RevisionChain, NEW d \in Decisions
  PROVE  /\ Ledgers[d] = LedgerOver(rows[d].version, revisions[d])
         /\ Numbered(rows[d].version, revisions[d])
<1>1. Ledgers[d] = LedgerOver(rows[d].version, revisions[d])
  BY DEF Ledgers, LedgerOf, LedgerOver
<1>2. rows[d].version \in Nat /\ revisions[d] \subseteq Revision
  BY DEF TypeOK, Row, NoRow
<1> QED BY <1>1, <1>2 DEF Numbered, RevisionChain

\* The first entry of a ledger names the preparer, the last one says what the
\* row says.
LEMMA LedgerEnds ==
  ASSUME TypeOK, RevisionChain, ReviewInv, NEW d \in Decisions, rows[d] \in Row
  PROVE  /\ Ledgers[d] # <<>>
         /\ Ledgers[d][1].actor = rows[d].preparedBy
         /\ Ledgers[d][Len(Ledgers[d])].status = rows[d].status
         /\ Ledgers[d][Len(Ledgers[d])].evidence = rows[d].evidence
<1> DEFINE n == rows[d].version
<1>1. /\ Ledgers[d] \in Seq(Entries) /\ Len(Ledgers[d]) = n
      /\ \A rev \in revisions[d] : Ledgers[d][rev.version] = EntryOf(rev)
      /\ \A v \in 1 .. n : \E rev \in revisions[d] : rev.version = v
  BY LedgerState, LedgerEntry
<1>2. n \in Nat \ {0} /\ 1 \in 1 .. n /\ n \in 1 .. n
  BY DEF Row
<1>3. PICK first \in revisions[d] : first.version = 1
  BY <1>1, <1>2
<1>4. PICK last \in revisions[d] : last.version = n
  BY <1>1, <1>2
<1>5. first.actor = rows[d].preparedBy
  BY <1>3 DEF ReviewInv, PreparerFirst
<1>6. last.status = rows[d].status /\ last.evidence = rows[d].evidence
  BY <1>4 DEF RevisionChain
<1>7. EntryOf(first).actor = first.actor /\ EntryOf(last).status = last.status
      /\ EntryOf(last).evidence = last.evidence
  BY DEF EntryOf, Ledger!Entry
<1>8. Ledgers[d] # <<>>
  BY <1>1, <1>2
<1> QED BY <1>1, <1>3, <1>4, <1>5, <1>6, <1>7, <1>8

\* A commit that adds a revision to one decision appends its entry there.
LEMMA LedgerWritten ==
  ASSUME TypeOK, RevisionChain, [Next]_vars, NEW d \in Decisions, NEW row, NEW new,
         rows' = [rows EXCEPT ![d] = row],
         revisions' = [revisions EXCEPT ![d] = @ \cup {new}],
         row.version = rows[d].version + 1, new.version = rows[d].version + 1
  PROVE  /\ Ledgers' = [Ledgers EXCEPT ![d] = Append(@, EntryOf(new))]
         /\ Ledgers' # Ledgers
<1>1. TypeOK' /\ RevisionChain'
  BY NextType, ChainStep
<1> DEFINE n == rows[d].version
<1>2. rows'[d] = row /\ revisions'[d] = revisions[d] \cup {new}
  BY DEF TypeOK
<1>3. Ledgers[d] = LedgerOver(n, revisions[d]) /\ Numbered(n, revisions[d])
  BY LedgerState
<1>4. /\ Ledgers'[d] = LedgerOver(n + 1, revisions[d] \cup {new})
      /\ Numbered(n + 1, revisions[d] \cup {new})
  <2>1. Ledgers'[d] = LedgerOver(rows'[d].version, revisions'[d])
    BY DEF Ledgers, LedgerOf, LedgerOver
  <2>2. /\ rows'[d].version \in Nat /\ revisions'[d] \subseteq Revision
        /\ {rev.version : rev \in revisions'[d]} = 1 .. rows'[d].version
        /\ \A a, b \in revisions'[d] : a.version = b.version => a = b
    <3>1. rows'[d] \in Row \cup {NoRow} /\ revisions'[d] \in SUBSET Revision
      BY <1>1 DEF TypeOK
    <3>2. rows'[d].version \in Nat
      BY <3>1 DEF Row, NoRow
    <3> QED BY <1>1, <3>1, <3>2 DEF RevisionChain
  <2> QED BY <1>2, <2>1, <2>2 DEF Numbered
<1>5. Ledgers'[d] = Append(Ledgers[d], EntryOf(new))
  BY <1>3, <1>4, LedgerAppended
<1>6. ASSUME NEW c \in Decisions, c # d
      PROVE  Ledgers'[c] = Ledgers[c]
  <2>1. rows'[c] = rows[c] /\ revisions'[c] = revisions[c]
    BY <1>6 DEF TypeOK
  <2> QED BY <2>1 DEF Ledgers, LedgerOf
<1>7. Ledgers' = [Ledgers EXCEPT ![d] = Append(@, EntryOf(new))]
  BY <1>5, <1>6 DEF Ledgers
<1>8. Ledgers'[d] # Ledgers[d]
  BY <1>3, <1>4, LedgerEntry
<1> QED BY <1>7, <1>8

\* Every step appends the right entry to a ledger, or none.
LEMMA LedgerStep ==
  ASSUME TypeOK, RevisionChain, ReviewInv, BaseInv, \A r \in Requests : Entitled(r),
         [Next]_vars
  PROVE  [Ledger!Next]_Ledgers
<1>1. UNCHANGED <<rows, revisions>> => UNCHANGED Ledgers
  BY DEF Ledgers, LedgerOf
<1>2. ASSUME NEW r \in Requests, CommitDelete(r)
      PROVE  UNCHANGED Ledgers
  BY <1>2, DeleteKeeps DEF Ledgers, LedgerOf
<1>3. ASSUME NEW r \in Requests, CommitCreate(r)
      PROVE  Ledger!Next
  <2> DEFINE d == req[r].id
             u == req[r].actor
             e == req[r].evidence
             new == RevisionOf(req[r], r)
  <2>1. /\ req[r].pc = "write" /\ req[r].op = "create" /\ d \in Decisions
        /\ rows[d] = NoRow
        /\ rows' = [rows EXCEPT ![d] = NewRow(req[r])]
        /\ revisions' = [revisions EXCEPT ![d] = @ \cup {new}]
        /\ new.version = 1 /\ new.status = "draft"
    BY <1>3, CommitEffect
  <2>2. u \in Users /\ e \in Evidence
    BY <2>1 DEF TypeOK, LocalsOK
  <2>3. rows[d].version = 0 /\ NewRow(req[r]).version = 1
    BY <2>1 DEF NoRow, NewRow
  <2>4. EntryOf(new) = Ledger!Entry("draft", e, u)
    BY <2>1 DEF EntryOf, RevisionOf
  <2> HIDE DEF new
  <2>5. /\ Ledgers' = [Ledgers EXCEPT ![d] = Append(@, Ledger!Entry("draft", e, u))]
        /\ Ledgers' # Ledgers
    <3>1. NewRow(req[r]).version = rows[d].version + 1 /\ new.version = rows[d].version + 1
      BY <2>1, <2>3
    <3>2. /\ Ledgers' = [Ledgers EXCEPT ![d] = Append(@, EntryOf(new))]
          /\ Ledgers' # Ledgers
      BY <2>1, <3>1, LedgerWritten
    <3> QED BY <2>4, <3>2
  <2>6. Ledgers[d] = <<>>
    BY <2>1, <2>3, LedgerState, LedgerEntry
  <2>7. Ledger!HasMinimumRole(RoleOf[u], "operator")
    BY <2>1 DEF Entitled, HasMinimumRole, RoleRank, Ledger!HasMinimumRole, Ledger!RoleRank
  <2>8. Ledger!Prepare(d, u, e)
    BY <2>5, <2>6, <2>7 DEF Ledger!Prepare, Ledger!Append1, Ledgers
  <2> QED BY <2>1, <2>2, <2>5, <2>8 DEF Ledger!Next, Ledgers
<1>4. ASSUME NEW r \in Requests, CommitUpdate(r)
      PROVE  Ledger!Next
  <2> DEFINE d == req[r].id
             u == req[r].actor
             e == req[r].evidence
             s == req[r].status
             new == RevisionOf(req[r], r)
  <2>1. /\ req[r].pc = "write" /\ req[r].op \in {"update", "transition"} /\ d \in Decisions
        /\ rows[d] \in Row /\ rows[d].version = req[r].expected
        /\ rows' = [rows EXCEPT ![d] = Overwritten(req[r])]
        /\ revisions' = [revisions EXCEPT ![d] = @ \cup {new}]
    BY <1>4, CommitEffect
  <2>2. u \in Users /\ e \in Evidence
    BY <2>1 DEF TypeOK, LocalsOK
  <2>3. Overwritten(req[r]).version = rows[d].version + 1
    BY <2>1 DEF Overwritten, Row
  <2>4. new.version = rows[d].version + 1
    BY <2>1 DEF RevisionOf
  <2>5. EntryOf(new) = Ledger!Entry(s, e, u)
    BY DEF EntryOf, RevisionOf
  <2> HIDE DEF new
  <2>6. /\ Ledgers' = [Ledgers EXCEPT ![d] = Append(@, Ledger!Entry(s, e, u))]
        /\ Ledgers' # Ledgers
    <3>1. /\ Ledgers' = [Ledgers EXCEPT ![d] = Append(@, EntryOf(new))]
          /\ Ledgers' # Ledgers
      BY <2>1, <2>3, <2>4, LedgerWritten
    <3> QED BY <2>5, <3>1
  <2>7. /\ rows[d].status = "draft"
        /\ req[r].op = "transition" => e = rows[d].evidence
    BY <2>1 DEF BaseInv, PendingBase
  <2>8. Ledger!Open(d)
    BY <2>1, <2>7, LedgerEnds DEF Ledger!Open, Ledger!Last, Ledgers
  <2>9. CASE req[r].op = "update"
    <3>1. s = "draft"
      BY <2>1, <2>9 DEF ReviewInv, PendingReview
    <3>2. u = Ledgers[d][1].actor \/ RoleOf[u] = "admin"
      BY <2>1, <2>9, LedgerEnds DEF Entitled
    <3>3. Ledger!Revise(d, u, e)
      BY <2>6, <2>8, <3>1, <3>2 DEF Ledger!Revise, Ledger!Append1, Ledgers
    <3> QED BY <2>1, <2>2, <2>6, <3>3 DEF Ledger!Next, Ledgers
  <2>10. CASE req[r].op = "transition"
    <3>1. s \in PriorityLevel
      BY <2>1, <2>10 DEF Entitled
    <3>2. RoleOf[u] \in {"reviewer", "admin"} /\ u # Ledgers[d][1].actor
      BY <2>1, <2>10, LedgerEnds DEF ReviewInv, PendingReview
    <3>3. Ledger!Last(d).evidence = e
      BY <2>1, <2>7, <2>10, LedgerEnds DEF Ledger!Last, Ledgers
    <3>4. Ledger!Finalise(d, u, s)
      BY <2>6, <2>8, <3>2, <3>3 DEF Ledger!Finalise, Ledger!Append1, Ledgers
    <3> QED BY <2>1, <2>2, <2>6, <3>1, <3>4
      DEF Ledger!Next, Ledgers, Ledger!PriorityLevel, PriorityLevel
  <2> QED BY <2>1, <2>9, <2>10
<1> QED BY <1>1, <1>2, <1>3, <1>4, TablesStep

\* A seeded database is a seeded ledger.
LEMMA LedgerInit == Init => Ledger!Init
<1> SUFFICES ASSUME Init PROVE Ledger!Init
  OBVIOUS
<1> USE DEF Ledger!PriorityStatus, Ledger!PriorityLevel
<1>1. TypeOK /\ RevisionChain
  BY InitType, InitChained
<1>2. PICK e \in Evidence, seed \in Seeds :
        /\ rows = [d \in Decisions |-> SeedRow(seed[d], e)]
        /\ revisions = [d \in Decisions |-> SeedRevisions(seed[d], e)]
  BY DEF Init
<1>3. /\ seed \in [Decisions -> {"none"} \cup PriorityStatus]
      /\ \A d \in Decisions : seed[d] \in SeedStatus[d]
  BY DEF Seeds
<1> DEFINE drafted == [version |-> 1, status |-> "draft", evidence |-> e,
                       actor |-> Preparer, request |-> None]
           reviewed(s) == [version |-> 2, status |-> s, evidence |-> e,
                           actor |-> Reviewer, request |-> None]
<1>4. ASSUME NEW d \in Decisions
      PROVE  Ledgers[d] = Ledger!SeedLedger(seed[d], e)
  <2> DEFINE n == rows[d].version
             s == seed[d]
  <2>1. /\ n \in Nat /\ Ledgers[d] \in Seq(Entries) /\ Len(Ledgers[d]) = n
        /\ \A rev \in revisions[d] :
             EntryOf(rev) \in Entries /\ Ledgers[d][rev.version] = EntryOf(rev)
    BY <1>1, LedgerState, LedgerEntry
  <2>2. rows[d] = SeedRow(s, e) /\ revisions[d] = SeedRevisions(s, e)
    BY <1>2
  <2>3. EntryOf(drafted) = Ledger!Entry("draft", e, Preparer)
    BY DEF EntryOf
  <2>4. EntryOf(reviewed(s)) = Ledger!Entry(s, e, Reviewer)
    BY DEF EntryOf
  <2>5. CASE s = "none"
    <3>1. n = 0
      BY <2>2, <2>5 DEF SeedRow, NoRow
    <3>2. Ledgers[d] = <<>>
      BY <2>1, <3>1
    <3> QED BY <2>5, <3>2 DEF Ledger!SeedLedger
  <2>6. CASE s = "draft"
    <3>1. n = 1 /\ revisions[d] = {drafted}
      BY <2>2, <2>6 DEF SeedRow, SeedRevisions
    <3> DEFINE entry == EntryOf(drafted)
    <3>2. Ledgers[d][1] = entry /\ entry \in Entries
      BY <2>1, <3>1
    <3> HIDE DEF entry
    <3>3. Ledgers[d] = <<entry>>
      BY <2>1, <3>1, <3>2
    <3> QED BY <2>3, <2>6, <3>3 DEF Ledger!SeedLedger, entry
  <2>7. CASE s \notin {"none", "draft"}
    <3>1. n = 2 /\ revisions[d] = {drafted, reviewed(s)}
      BY <2>2, <2>7 DEF SeedRow, SeedRevisions
    <3> DEFINE first == EntryOf(drafted)
               second == EntryOf(reviewed(s))
    <3>2. Ledgers[d][1] = first /\ Ledgers[d][2] = second
      BY <2>1, <3>1
    <3>3. first \in Entries /\ second \in Entries
      BY <2>1, <3>1
    <3> HIDE DEF first, second
    <3>4. Ledgers[d] = <<first, second>>
      BY <2>1, <3>1, <3>2, <3>3
    <3> QED BY <2>3, <2>4, <2>7, <3>4 DEF Ledger!SeedLedger, first, second
  <2> QED BY <2>5, <2>6, <2>7
<1>5. Ledgers = [d \in Decisions |-> Ledger!SeedLedger(seed[d], e)]
  BY <1>4 DEF Ledgers
<1> QED BY <1>3, <1>5 DEF Ledger!Init, Ledgers, PriorityStatus, PriorityLevel

\* The decision register implements the ledger: whatever the interleaving of
\* requests, crashes and failed statements, as long as clients name versions
\* they were shown, decisions are opened once, revised by those entitled,
\* closed once by somebody else, and closed on the last draft.
THEOREM LedgerImplemented ==
  ASSUME Ahead = 0
  PROVE  Spec => ImplementsLedger
<1> DEFINE Rights == \A r \in Requests : Entitled(r)
<1>1. Init => Ledger!Init
  BY LedgerInit
<1>2. Init => Rights
  BY DEF Init, Idle, Entitled
<1>3. TypeOK /\ Rights /\ [Next]_vars => Rights'
  BY EntitledStep
<1>4. TypeOK /\ RevisionChain /\ ReviewInv /\ BaseInv /\ Rights /\ [Next]_vars
        => [Ledger!Next]_Ledgers
  BY LedgerStep
<1>5. TypeOK /\ RevisionChain /\ ReviewInv /\ BaseInv /\ Rights /\ [Next]_vars
        => [Ledger!Next]_([d \in Decisions |-> LedgerOf(d)])
  BY <1>4 DEF Ledgers
<1> HIDE DEF Rights
<1> QED BY <1>1, <1>2, <1>3, <1>5, InformedAlways, PTL DEF Spec, ImplementsLedger, Ledger!Spec

=============================================================================
