----------------------- MODULE PriorityDecisionProofs -----------------------
(***************************************************************************)
(* Theorems about PriorityDecision, for any decisions, requests, users and *)
(* evidence.                                                               *)
(***************************************************************************)
EXTENDS PriorityDecision, TLAPS

-----------------------------------------------------------------------------
(* Type correctness *)

\* A blank request is well typed.
LEMMA IdleType == Idle \in Request /\ LocalsOK(Idle)
  BY DEF Idle, Request, LocalsOK, InFlight

\* Answering a request yields a well-typed request, whatever the answer.
LEMMA AnswerType ==
  ASSUME NEW call \in Request, NEW code \in Codes \cup {0}
  PROVE  /\ Answer(call, code) \in Request
         /\ LocalsOK(Answer(call, code))
<1>1. /\ call.op \in Ops \cup {"none"}
      /\ call.id \in Decisions \cup {None}
      /\ call.expected \in Nat
  BY DEF Request
<1>2. Answer(call, code) \in Request
  BY <1>1 DEF Answer, Request
<1>3. LocalsOK(Answer(call, code))
  BY DEF Answer, LocalsOK, InFlight
<1> QED BY <1>2, <1>3

\* A handler that has passed its checks has the locals its write needs.
LEMMA ProceedType ==
  ASSUME NEW call \in Request, NEW refusal \in Codes \cup {0},
         call.op \in Ops \ {"read"}, call.id \in Decisions, call.actor \in Users,
         refusal = 0 /\ call.op # "delete" =>
           call.status \in PriorityStatus /\ call.evidence \in Evidence,
         call.op = "create" => call.expected = 0 /\ call.status = "draft"
  PROVE  /\ Proceed(call, refusal) \in Request
         /\ LocalsOK(Proceed(call, refusal))
<1>1. CASE refusal = 0
  BY <1>1 DEF Proceed, Request, LocalsOK, InFlight, Ops
<1>2. CASE refusal # 0
  BY <1>2, AnswerType DEF Proceed
<1> QED BY <1>1, <1>2

\* A request as it arrives.
LEMMA CallType ==
  ASSUME NEW op \in Ops, NEW u \in Users, NEW d \in Decisions
  PROVE  /\ Call(op, u, d) \in Request
         /\ Call(op, u, d).pc = "idle"
         /\ Call(op, u, d).op = op
         /\ Call(op, u, d).actor = u
         /\ Call(op, u, d).id = d
         /\ Call(op, u, d).expected = 0
         /\ Call(op, u, d).code = 0
<1>1. Call(op, u, d) \in Request
  BY IdleType DEF Call, Request
<1>2. Call(op, u, d).pc = "idle" /\ Call(op, u, d).op = op /\ Call(op, u, d).actor = u
  BY DEF Call, Idle
<1>3. Call(op, u, d).id = d /\ Call(op, u, d).expected = 0 /\ Call(op, u, d).code = 0
  BY DEF Call, Idle
<1> QED BY <1>1, <1>2, <1>3

\* The second Get hands on a row that is in the table, or answers.
LEMMA FirstRowType ==
  ASSUME TypeOK, NEW call \in Request, call.op \in Ops, call.id \in Decisions
  PROVE  FirstRow(call) \in Request /\ LocalsOK(FirstRow(call))
<1>1. CASE Live(call.id)
  <2>1. rows[call.id] \in Row \cup {NoRow}
    BY DEF TypeOK
  <2>2. FirstRow(call) = [call EXCEPT !.pc = "preload", !.seen = rows[call.id]]
    BY <1>1 DEF FirstRow
  <2>3. FirstRow(call) \in Request
    BY <2>1, <2>2 DEF Request, InFlight
  <2>4. /\ FirstRow(call).pc = "preload"
        /\ FirstRow(call).op = call.op
        /\ FirstRow(call).id = call.id
    BY <2>2 DEF Request
  <2> QED BY <2>3, <2>4 DEF LocalsOK
<1>2. CASE ~Live(call.id)
  BY <1>2, AnswerType DEF FirstRow, Codes
<1> QED BY <1>1, <1>2

\* Replacing the call of one request keeps the others.
LEMMA ReqType ==
  ASSUME TypeOK, NEW r \in Requests, NEW call \in Request, LocalsOK(call),
         req' = [req EXCEPT ![r] = call]
  PROVE  /\ req' \in [Requests -> Request]
         /\ \A q \in Requests : LocalsOK(req'[q])
  BY DEF TypeOK

\* The seeded database is well typed.
LEMMA InitType == Init => TypeOK
<1> SUFFICES ASSUME Init PROVE TypeOK
  OBVIOUS
<1>1. PICK e \in Evidence, seed \in Seeds :
        /\ rows = [d \in Decisions |-> SeedRow(seed[d], e)]
        /\ revisions = [d \in Decisions |-> SeedRevisions(seed[d], e)]
  BY DEF Init
<1>2. ASSUME NEW d \in Decisions
      PROVE  /\ SeedRow(seed[d], e) \in Row \cup {NoRow}
             /\ SeedRevisions(seed[d], e) \in SUBSET Revision
  <2>1. CASE seed[d] = "none"
    BY <2>1 DEF SeedRow, SeedRevisions
  <2>2. CASE seed[d] = "draft"
    BY <2>2, ConstantsAssumption DEF SeedRow, SeedRevisions, Row, Revision, PriorityStatus
  <2>3. CASE seed[d] \in PriorityLevel
    BY <2>3, ConstantsAssumption
    DEF SeedRow, SeedRevisions, Row, Revision, PriorityStatus, PriorityLevel
  <2> QED BY <2>1, <2>2, <2>3 DEF Seeds, PriorityStatus
<1>3. rows \in [Decisions -> Row \cup {NoRow}] /\ revisions \in [Decisions -> SUBSET Revision]
  BY <1>1, <1>2
<1>4. req \in [Requests -> Request] /\ \A r \in Requests : LocalsOK(req[r])
  BY IdleType DEF Init
<1> QED BY <1>3, <1>4 DEF Init, TypeOK

\* A refusal is one of the answers' codes, or none.
LEMMA RefusalType ==
  ASSUME NEW u, NEW d, NEW x
  PROVE  /\ CreateRefusal(u, x) \in Codes \cup {0}
         /\ UpdateRefusal(u, d, x) \in Codes \cup {0}
         /\ TransitionRefusal(u, d, x) \in Codes \cup {0}
         /\ DeleteRefusal(u, d) \in Codes \cup {0}
  BY DEF CreateRefusal, UpdateRefusal, TransitionRefusal, DeleteRefusal, Codes

\* What the checks establish when they refuse nothing.
LEMMA NoRefusal ==
  ASSUME TypeOK, NEW u \in Users, NEW d \in Decisions
  PROVE  /\ \A e : CreateRefusal(u, e) = 0 => e # None
         /\ \A e : UpdateRefusal(u, d, e) = 0 =>
              /\ rows[d] \in Row
              /\ rows[d].status = "draft"
              /\ e # None
         /\ \A target : TransitionRefusal(u, d, target) = 0 =>
              /\ rows[d] \in Row
              /\ rows[d].status = "draft"
              /\ target \in PriorityLevel
              /\ RoleOf[u] \in {"reviewer", "admin"}
              /\ u # rows[d].preparedBy
<1>1. \A e : CreateRefusal(u, e) = 0 => e # None
  BY DEF CreateRefusal
<1>2. Live(d) => rows[d] \in Row
  BY DEF TypeOK, Live, NoRow
<1>3. ASSUME NEW e, UpdateRefusal(u, d, e) = 0
      PROVE  rows[d] \in Row /\ rows[d].status = "draft" /\ e # None
  BY <1>2, <1>3 DEF UpdateRefusal
<1>4. ASSUME NEW target, TransitionRefusal(u, d, target) = 0
      PROVE  /\ rows[d] \in Row
             /\ rows[d].status = "draft"
             /\ target \in PriorityLevel
             /\ RoleOf[u] \in {"reviewer", "admin"}
             /\ u # rows[d].preparedBy
  <2>1. /\ Live(d)
        /\ RoleOf[u] \in {"reviewer", "admin"}
        /\ u # rows[d].preparedBy
        /\ CanTransition(PriorityDecisionTransitions, rows[d].status, target)
    BY <1>4 DEF TransitionRefusal
  <2>2. rows[d].status = "draft" /\ target \in PriorityLevel
    BY <2>1 DEF CanTransition, PriorityDecisionTransitions
  <2> QED BY <2>1, <2>2, <1>2
<1> QED BY <1>1, <1>3, <1>4

\* What a handler that passes its checks takes along.
LEMMA ProceedWrites ==
  ASSUME NEW call \in Request, NEW refusal, call.pc = "idle",
         Proceed(call, refusal).pc = "write"
  PROVE  /\ refusal = 0
         /\ Proceed(call, refusal).op = call.op
         /\ Proceed(call, refusal).actor = call.actor
         /\ Proceed(call, refusal).id = call.id
         /\ Proceed(call, refusal).expected = call.expected
         /\ Proceed(call, refusal).before = call.before
         /\ Proceed(call, refusal).status = call.status
         /\ Proceed(call, refusal).evidence = call.evidence
<1>1. refusal = 0
  BY DEF Proceed, Answer
<1>2. Proceed(call, refusal) = [call EXCEPT !.pc = "write"]
  BY <1>1 DEF Proceed
<1> QED BY <1>1, <1>2 DEF Request

\* A request stays one when one of its fields takes a value it may have.
LEMMA RequestField ==
  ASSUME NEW call \in Request
  PROVE  /\ \A v \in Nat : [call EXCEPT !.expected = v] \in Request
         /\ \A v \in Evidence \cup {None} : [call EXCEPT !.evidence = v] \in Request
         /\ \A v \in PriorityStatus \cup {"none"} : [call EXCEPT !.before = v] \in Request
         /\ \A v \in PriorityStatus \cup {"none"} : [call EXCEPT !.status = v] \in Request
         /\ \A v \in Row \cup {NoRow} : [call EXCEPT !.seen = v] \in Request
         /\ \A v \in SUBSET Revision : [call EXCEPT !.revs = v] \in Request
<1>1. \A v \in Nat : [call EXCEPT !.expected = v] \in Request
  BY DEF Request
<1>2. \A v \in Evidence \cup {None} : [call EXCEPT !.evidence = v] \in Request
  BY DEF Request
<1>3. \A v \in PriorityStatus \cup {"none"} : [call EXCEPT !.before = v] \in Request
  BY DEF Request
<1>4. \A v \in PriorityStatus \cup {"none"} : [call EXCEPT !.status = v] \in Request
  BY DEF Request
<1>5. \A v \in Row \cup {NoRow} : [call EXCEPT !.seen = v] \in Request
  BY DEF Request
<1>6. \A v \in SUBSET Revision : [call EXCEPT !.revs = v] \in Request
  BY DEF Request
<1> QED BY <1>1, <1>2, <1>3, <1>4, <1>5, <1>6

\* Reading a record into a call keeps its type.
LEMMA RecordSet ==
  ASSUME NEW call \in Request, NEW row \in Row \cup {NoRow}, NEW revs \in SUBSET Revision
  PROVE  [call EXCEPT !.seen = row, !.revs = revs] \in Request
<1>1. [call EXCEPT !.seen = row] \in Request
  BY RequestField
<1> QED BY <1>1, RequestField

\* The local variables of a create that has just been checked.
LEMMA CreateArrives ==
  ASSUME NEW r \in Requests, Create(r)
  PROVE  \E u \in Users, d \in Decisions, e \in Evidence \cup {None}, call \in Request :
           /\ req' = [req EXCEPT ![r] = Proceed(call, CreateRefusal(u, e))]
           /\ call.pc = "idle" /\ call.op = "create" /\ call.actor = u /\ call.id = d
           /\ call.code = 0
           /\ call.expected = 0 /\ call.status = "draft" /\ call.evidence = e
<1>1. PICK u \in Users, d \in Decisions, e \in Evidence \cup {None} :
        req' = [req EXCEPT ![r] =
                  Proceed([Call("create", u, d) EXCEPT !.status = "draft", !.evidence = e],
                          CreateRefusal(u, e))]
  BY DEF Create
<1> DEFINE call == [Call("create", u, d) EXCEPT !.status = "draft", !.evidence = e]
<1>2. /\ Call("create", u, d) \in Request
      /\ Call("create", u, d).pc = "idle"
      /\ Call("create", u, d).op = "create"
      /\ Call("create", u, d).actor = u
      /\ Call("create", u, d).id = d
      /\ Call("create", u, d).code = 0
      /\ Call("create", u, d).expected = 0
  BY CallType DEF Ops
<1>3. call \in Request
  <2>1. [Call("create", u, d) EXCEPT !.status = "draft"] \in Request
    BY <1>2, RequestField DEF PriorityStatus
  <2> QED BY <2>1, RequestField
<1>4. call.pc = "idle" /\ call.op = "create" /\ call.actor = u /\ call.id = d /\ call.code = 0
  BY <1>2 DEF Request
<1>5. call.expected = 0 /\ call.status = "draft" /\ call.evidence = e
  BY <1>2 DEF Request
<1>6. req' = [req EXCEPT ![r] = Proceed(call, CreateRefusal(u, e))]
  BY <1>1
<1> HIDE DEF call
<1> QED BY <1>3, <1>4, <1>5, <1>6

\* The same for a delete.
LEMMA DeleteArrives ==
  ASSUME TypeOK, NEW r \in Requests, Delete(r)
  PROVE  \E u \in Users, d \in Decisions, call \in Request :
           /\ req' = [req EXCEPT ![r] = Proceed(call, DeleteRefusal(u, d))]
           /\ call.pc = "idle" /\ call.op = "delete" /\ call.actor = u /\ call.id = d
           /\ call.code = 0
<1>1. PICK u \in Users, d \in Decisions :
        req' = [req EXCEPT ![r] =
                  Proceed([Call("delete", u, d) EXCEPT !.before = rows[d].status],
                          DeleteRefusal(u, d))]
  BY DEF Delete
<1> DEFINE call == [Call("delete", u, d) EXCEPT !.before = rows[d].status]
<1>2. /\ Call("delete", u, d) \in Request
      /\ Call("delete", u, d).pc = "idle"
      /\ Call("delete", u, d).op = "delete"
      /\ Call("delete", u, d).actor = u
      /\ Call("delete", u, d).id = d
      /\ Call("delete", u, d).code = 0
  BY CallType DEF Ops
<1>3. rows[d].status \in PriorityStatus \cup {"none"}
  BY DEF TypeOK, Row, NoRow
<1>4. call \in Request
  BY <1>2, <1>3 DEF Request
<1>5. call.pc = "idle" /\ call.op = "delete" /\ call.actor = u /\ call.id = d /\ call.code = 0
  BY <1>2 DEF Request
<1>6. req' = [req EXCEPT ![r] = Proceed(call, DeleteRefusal(u, d))]
  BY <1>1
<1> HIDE DEF call
<1> QED BY <1>4, <1>5, <1>6

\* Setting the locals of a write keeps the type of a call.
LEMMA LocalsSet ==
  ASSUME NEW call \in Request, NEW v \in Nat, NEW e \in Evidence \cup {None},
         NEW before \in PriorityStatus \cup {"none"},
         NEW status \in PriorityStatus \cup {"none"}
  PROVE  [call EXCEPT !.expected = v, !.evidence = e,
                      !.before = before, !.status = status] \in Request
<1>1. [call EXCEPT !.expected = v] \in Request
  BY RequestField
<1>2. [call EXCEPT !.expected = v, !.evidence = e] \in Request
  BY <1>1, RequestField
<1>3. [call EXCEPT !.expected = v, !.evidence = e, !.before = before] \in Request
  BY <1>2, RequestField
<1> QED BY <1>3, RequestField

\* The same for an update, whose status is the row's.
LEMMA UpdateArrives ==
  ASSUME TypeOK, NEW r \in Requests, Update(r)
  PROVE  \E u \in Users, d \in Decisions, e \in Evidence \cup {None}, call \in Request :
           /\ req' = [req EXCEPT ![r] = Proceed(call, UpdateRefusal(u, d, e))]
           /\ call.pc = "idle" /\ call.op = "update" /\ call.actor = u /\ call.id = d
           /\ call.code = 0
           /\ call.status = rows[d].status /\ call.before = rows[d].status
           /\ call.evidence = e
           /\ UpdateRefusal(u, d, e) = 0 => call.expected \in ExpectedVersions(d)
<1>1. PICK u \in Users, d \in Decisions, e \in Evidence \cup {None} :
        \E v \in IF UpdateRefusal(u, d, e) = 0 THEN ExpectedVersions(d) ELSE {0} :
          req' = [req EXCEPT ![r] =
                    Proceed([Call("update", u, d) EXCEPT
                               !.expected = v, !.evidence = e,
                               !.before = rows[d].status, !.status = rows[d].status],
                            UpdateRefusal(u, d, e))]
  BY ZenonT(30) DEF Update
<1>2. PICK v \in IF UpdateRefusal(u, d, e) = 0 THEN ExpectedVersions(d) ELSE {0} :
        req' = [req EXCEPT ![r] =
                  Proceed([Call("update", u, d) EXCEPT
                             !.expected = v, !.evidence = e,
                             !.before = rows[d].status, !.status = rows[d].status],
                          UpdateRefusal(u, d, e))]
  BY <1>1
<1> DEFINE call == [Call("update", u, d) EXCEPT
                      !.expected = v, !.evidence = e,
                      !.before = rows[d].status, !.status = rows[d].status]
<1>3. /\ Call("update", u, d) \in Request
      /\ Call("update", u, d).pc = "idle"
      /\ Call("update", u, d).op = "update"
      /\ Call("update", u, d).actor = u
      /\ Call("update", u, d).id = d
      /\ Call("update", u, d).code = 0
  BY CallType DEF Ops
<1>4. /\ rows[d].status \in PriorityStatus \cup {"none"}
      /\ v \in Nat
  BY DEF TypeOK, Row, NoRow, ExpectedVersions
<1>5. call \in Request
  BY <1>3, <1>4, LocalsSet
<1>6. /\ call.pc = "idle" /\ call.op = "update" /\ call.actor = u /\ call.id = d /\ call.code = 0
      /\ call.status = rows[d].status /\ call.before = rows[d].status
  BY <1>3 DEF Request
<1>7. call.evidence = e /\ call.expected = v
  BY <1>3 DEF Request
<1>8. req' = [req EXCEPT ![r] = Proceed(call, UpdateRefusal(u, d, e))]
  BY <1>2
<1> HIDE DEF call
<1> QED BY <1>5, <1>6, <1>7, <1>8

\* The same for a transition: the status is the target, the evidence the row's.
LEMMA TransitionArrives ==
  ASSUME TypeOK, NEW r \in Requests, Transition(r)
  PROVE  \E u \in Users, d \in Decisions, call \in Request :
           /\ req' = [req EXCEPT ![r] =
                        Proceed(call, TransitionRefusal(u, d, call.status))]
           /\ call.pc = "idle" /\ call.op = "transition" /\ call.actor = u /\ call.id = d
           /\ call.code = 0
           /\ call.status \in PriorityStatus /\ call.before = rows[d].status
           /\ call.evidence = rows[d].evidence
           /\ TransitionRefusal(u, d, call.status) = 0 => call.expected \in ExpectedVersions(d)
<1>1. PICK u \in Users, d \in Decisions, target \in PriorityStatus :
        \E v \in IF TransitionRefusal(u, d, target) = 0 THEN ExpectedVersions(d) ELSE {0} :
          req' = [req EXCEPT ![r] =
                    Proceed([Call("transition", u, d) EXCEPT
                               !.expected = v, !.evidence = rows[d].evidence,
                               !.before = rows[d].status, !.status = target],
                            TransitionRefusal(u, d, target))]
  BY ZenonT(30) DEF Transition
<1>2. PICK v \in IF TransitionRefusal(u, d, target) = 0 THEN ExpectedVersions(d) ELSE {0} :
        req' = [req EXCEPT ![r] =
                  Proceed([Call("transition", u, d) EXCEPT
                             !.expected = v, !.evidence = rows[d].evidence,
                             !.before = rows[d].status, !.status = target],
                          TransitionRefusal(u, d, target))]
  BY <1>1
<1> DEFINE call == [Call("transition", u, d) EXCEPT
                      !.expected = v, !.evidence = rows[d].evidence,
                      !.before = rows[d].status, !.status = target]
<1>3. /\ Call("transition", u, d) \in Request
      /\ Call("transition", u, d).pc = "idle"
      /\ Call("transition", u, d).op = "transition"
      /\ Call("transition", u, d).actor = u
      /\ Call("transition", u, d).id = d
      /\ Call("transition", u, d).code = 0
  BY CallType DEF Ops
<1>4. /\ rows[d].status \in PriorityStatus \cup {"none"}
      /\ rows[d].evidence \in Evidence \cup {None}
      /\ v \in Nat
  BY DEF TypeOK, Row, NoRow, ExpectedVersions
<1>5. call \in Request
  BY <1>3, <1>4, LocalsSet
<1>6. /\ call.pc = "idle" /\ call.op = "transition" /\ call.actor = u
      /\ call.id = d /\ call.code = 0
      /\ call.status = target /\ call.before = rows[d].status
  BY <1>3 DEF Request
<1>7. call.evidence = rows[d].evidence /\ call.expected = v
  BY <1>3 DEF Request
<1>8. req' = [req EXCEPT ![r] = Proceed(call, TransitionRefusal(u, d, target))]
  BY <1>2
<1> HIDE DEF call
<1> QED BY <1>5, <1>6, <1>7, <1>8

\* A request that arrives leaves the tables alone and gets well-typed locals.
LEMMA ArriveType ==
  ASSUME TypeOK, NEW r \in Requests, Arrive(r)
  PROVE  TypeOK'
<1> USE RefusalType
<1>1. CASE Create(r)
  <2>1. PICK u \in Users, d \in Decisions, e \in Evidence \cup {None}, call \in Request :
          /\ req' = [req EXCEPT ![r] = Proceed(call, CreateRefusal(u, e))]
          /\ call.op = "create" /\ call.actor = u /\ call.id = d
          /\ call.expected = 0 /\ call.status = "draft" /\ call.evidence = e
    BY <1>1, CreateArrives
  <2>2. CreateRefusal(u, e) = 0 => e \in Evidence
    BY NoRefusal
  <2>3. Proceed(call, CreateRefusal(u, e)) \in Request
        /\ LocalsOK(Proceed(call, CreateRefusal(u, e)))
    BY <2>1, <2>2, ProceedType DEF Ops, PriorityStatus
  <2> QED BY <2>1, <2>3, <1>1, ReqType DEF Create, TypeOK
<1>2. CASE Update(r)
  <2>1. PICK u \in Users, d \in Decisions, e \in Evidence \cup {None}, call \in Request :
          /\ req' = [req EXCEPT ![r] = Proceed(call, UpdateRefusal(u, d, e))]
          /\ call.op = "update" /\ call.actor = u /\ call.id = d
          /\ call.status = rows[d].status /\ call.evidence = e
    BY <1>2, UpdateArrives
  <2>2. UpdateRefusal(u, d, e) = 0 => e \in Evidence /\ rows[d].status \in PriorityStatus
    BY NoRefusal DEF PriorityStatus
  <2>3. Proceed(call, UpdateRefusal(u, d, e)) \in Request
        /\ LocalsOK(Proceed(call, UpdateRefusal(u, d, e)))
    BY <2>1, <2>2, ProceedType DEF Ops
  <2> QED BY <2>1, <2>3, <1>2, ReqType DEF Update, TypeOK
<1>3. CASE Transition(r)
  <2>1. PICK u \in Users, d \in Decisions, call \in Request :
          /\ req' = [req EXCEPT ![r] = Proceed(call, TransitionRefusal(u, d, call.status))]
          /\ call.op = "transition" /\ call.actor = u /\ call.id = d
          /\ call.status \in PriorityStatus /\ call.evidence = rows[d].evidence
    BY <1>3, TransitionArrives
  <2>2. TransitionRefusal(u, d, call.status) = 0 => rows[d].evidence \in Evidence
    BY NoRefusal DEF Row
  <2>3. Proceed(call, TransitionRefusal(u, d, call.status)) \in Request
        /\ LocalsOK(Proceed(call, TransitionRefusal(u, d, call.status)))
    BY <2>1, <2>2, ProceedType DEF Ops
  <2> QED BY <2>1, <2>3, <1>3, ReqType DEF Transition, TypeOK
<1>4. CASE Delete(r)
  <2>1. PICK u \in Users, d \in Decisions, call \in Request :
          /\ req' = [req EXCEPT ![r] = Proceed(call, DeleteRefusal(u, d))]
          /\ call.op = "delete" /\ call.actor = u /\ call.id = d
    BY <1>4, DeleteArrives
  <2>2. /\ Proceed(call, DeleteRefusal(u, d)) \in Request
        /\ LocalsOK(Proceed(call, DeleteRefusal(u, d)))
    BY <2>1, ProceedType DEF Ops
  <2> QED BY <2>1, <2>2, <1>4, ReqType DEF Delete, TypeOK
<1>5. CASE Read(r)
  <2>1. PICK d \in Decisions : req' = [req EXCEPT ![r] = FirstRow(Call("read", None, d))]
    BY <1>5 DEF Read
  <2>2. Call("read", None, d) \in Request /\ Call("read", None, d).op = "read"
        /\ Call("read", None, d).id = d
    BY IdleType DEF Call, Idle, Request, Ops
  <2>3. FirstRow(Call("read", None, d)) \in Request /\ LocalsOK(FirstRow(Call("read", None, d)))
    BY <2>2, FirstRowType DEF Ops
  <2> QED BY <2>1, <2>3, <1>5, ReqType DEF Read, TypeOK
<1> QED BY <1>1, <1>2, <1>3, <1>4, <1>5 DEF Arrive

\* A request that has written goes on to the audit or answers 500.
LEMMA AppliedType ==
  ASSUME TypeOK, NEW r \in Requests, req[r].pc = "write", Applied(r, "audit")
  PROVE  /\ req' \in [Requests -> Request]
         /\ \A q \in Requests : LocalsOK(req'[q])
<1>1. req[r] \in Request /\ LocalsOK(req[r])
  BY DEF TypeOK
<1>2. CASE req' = [req EXCEPT ![r].pc = "audit"]
  <2> DEFINE call == [req[r] EXCEPT !.pc = "audit"]
  <2>1. req' = [req EXCEPT ![r] = call]
    BY <1>2
  <2>2. call \in Request
    BY <1>1 DEF Request, InFlight
  <2>3. /\ call.pc = "audit" /\ call.op = req[r].op /\ call.id = req[r].id
        /\ call.actor = req[r].actor /\ call.status = req[r].status
        /\ call.evidence = req[r].evidence /\ call.expected = req[r].expected
    BY <1>1 DEF Request
  <2>4. LocalsOK(call)
    BY <1>1, <2>3 DEF LocalsOK, InFlight
  <2> HIDE DEF call
  <2> QED BY <2>1, <2>2, <2>4, ReqType
<1>3. CASE req' = [req EXCEPT ![r] = Answer(req[r], 500)]
  <2>1. Answer(req[r], 500) \in Request /\ LocalsOK(Answer(req[r], 500))
    BY <1>1, AnswerType DEF Codes
  <2> QED BY <1>3, <2>1, ReqType, ZenonT(60)
<1> QED BY <1>2, <1>3 DEF Applied

\* A handler's write, revision and audit entry are well typed.
LEMMA WrittenType ==
  ASSUME TypeOK, NEW r \in Requests, req[r].pc \in {"write", "audit"}
  PROVE  /\ req[r] \in Request
         /\ req[r].id \in Decisions
         /\ req[r].op # "delete" =>
              /\ RevisionOf(req[r], r) \in Revision
              /\ NewRow(req[r]) \in Row
              /\ rows[req[r].id] \in Row => Overwritten(req[r]) \in Row
         /\ AuditEntry(req[r], r) \in AuditLog
<1>1. /\ req[r] \in Request
      /\ req[r].op \in Ops \ {"read"}
      /\ req[r].id \in Decisions
      /\ req[r].actor \in Users
      /\ req[r].op # "delete" => req[r].status \in PriorityStatus /\ req[r].evidence \in Evidence
      /\ req[r].expected \in Nat
      /\ req[r].before \in PriorityStatus \cup {"none"}
  <2>1. req[r] \in Request /\ LocalsOK(req[r])
    BY DEF TypeOK
  <2> QED BY <2>1 DEF LocalsOK, InFlight, Request
<1>2. ASSUME req[r].op # "delete"
      PROVE  /\ RevisionOf(req[r], r) \in Revision
             /\ NewRow(req[r]) \in Row
             /\ rows[req[r].id] \in Row => Overwritten(req[r]) \in Row
  <2>1. RevisionOf(req[r], r) \in Revision
    BY <1>1, <1>2 DEF RevisionOf, Revision
  <2>2. NewRow(req[r]) \in Row
    BY <1>1, <1>2 DEF NewRow, Row, PriorityStatus
  <2>3. ASSUME rows[req[r].id] \in Row
        PROVE  Overwritten(req[r]) \in Row
    <3>1. req[r].expected + 1 \in Nat \ {0}
      BY <1>1
    <3>2. \A row \in Row, status \in PriorityStatus, e \in Evidence, v \in Nat \ {0} :
            [row EXCEPT !.status = status, !.evidence = e, !.version = v] \in Row
      BY DEF Row
    <3> QED BY <1>1, <1>2, <2>3, <3>1, <3>2 DEF Overwritten
  <2> QED BY <2>1, <2>2, <2>3
<1>3. AuditEntry(req[r], r) \in AuditLog
  BY <1>1 DEF AuditEntry, AuditLog
<1> QED BY <1>1, <1>2, <1>3

\* A transaction leaves the tables well typed.
LEMMA WriteType ==
  ASSUME TypeOK, NEW r \in Requests, Write(r)
  PROVE  TypeOK'
<1> DEFINE d == req[r].id
<1>1. req[r].pc = "write" /\ req[r] \in Request /\ d \in Decisions
  BY WrittenType
  DEF Write, CommitCreate, CodeTaken, CommitUpdate, Conflict, CommitDelete, DeleteMissed
<1>2. Live(d) => rows[d] \in Row
  BY <1>1 DEF TypeOK, Live, NoRow
<1>3. CASE CommitCreate(r)
  <2>1. rows' = [rows EXCEPT ![d] = NewRow(req[r])] /\ NewRow(req[r]) \in Row
    BY <1>1, <1>3, WrittenType DEF CommitCreate
  <2>2. revisions' = [revisions EXCEPT ![d] = @ \cup {RevisionOf(req[r], r)}]
        /\ RevisionOf(req[r], r) \in Revision
    BY <1>1, <1>3, WrittenType DEF CommitCreate, AppendRevision
  <2>3. rows' \in [Decisions -> Row \cup {NoRow}] /\ revisions' \in [Decisions -> SUBSET Revision]
    BY <1>1, <2>1, <2>2 DEF TypeOK
  <2> QED BY <2>3, <1>1, <1>3, AppliedType DEF CommitCreate, TypeOK
<1>4. CASE CommitUpdate(r)
  <2>1. rows' = [rows EXCEPT ![d] = Overwritten(req[r])] /\ Overwritten(req[r]) \in Row
    BY <1>1, <1>2, <1>4, WrittenType DEF CommitUpdate, Matches
  <2>2. revisions' = [revisions EXCEPT ![d] = @ \cup {RevisionOf(req[r], r)}]
        /\ RevisionOf(req[r], r) \in Revision
    BY <1>1, <1>4, WrittenType DEF CommitUpdate, AppendRevision
  <2>3. rows' \in [Decisions -> Row \cup {NoRow}] /\ revisions' \in [Decisions -> SUBSET Revision]
    BY <1>1, <2>1, <2>2 DEF TypeOK
  <2> QED BY <2>3, <1>1, <1>4, AppliedType DEF CommitUpdate, TypeOK
<1>5. CASE CommitDelete(r)
  <2>1. rows' = [rows EXCEPT ![d] = [@ EXCEPT !.state = "deleted"]]
    BY <1>5 DEF CommitDelete
  <2>2. [rows[d] EXCEPT !.state = "deleted"] \in Row
    BY <1>2, <1>5 DEF CommitDelete, Row
  <2>3. rows' \in [Decisions -> Row \cup {NoRow}]
    BY <1>1, <2>1, <2>2 DEF TypeOK
  <2> QED BY <2>3, <1>1, <1>5, AppliedType DEF CommitDelete, TypeOK
<1>6. CASE CodeTaken(r)
  BY <1>1, <1>6, AnswerType, ReqType DEF CodeTaken, TypeOK, Codes
<1>7. CASE Conflict(r)
  BY <1>1, <1>7, AnswerType, ReqType DEF Conflict, TypeOK, Codes
<1>8. CASE DeleteMissed(r)
  BY <1>1, <1>8, AnswerType, ReqType DEF DeleteMissed, TypeOK, Codes
<1> QED BY <1>3, <1>4, <1>5, <1>6, <1>7, <1>8 DEF Write

\* A step after the write leaves the tables well typed, failed or not.
LEMMA AfterWriteType ==
  ASSUME TypeOK, NEW r \in Requests,
         AppendAudit(r) \/ Reread(r) \/ Preload(r) \/ Fail(r)
  PROVE  TypeOK'
<1>1. req[r] \in Request /\ LocalsOK(req[r])
  BY DEF TypeOK
<1>2. ASSUME req[r].pc = "audit"
      PROVE  /\ [req[r] EXCEPT !.pc = "reread"] \in Request
             /\ LocalsOK([req[r] EXCEPT !.pc = "reread"])
  <2>1. [req[r] EXCEPT !.pc = "reread"] \in Request
    BY <1>1 DEF Request, InFlight
  <2>2. /\ [req[r] EXCEPT !.pc = "reread"].pc = "reread"
        /\ [req[r] EXCEPT !.pc = "reread"].op = req[r].op
        /\ [req[r] EXCEPT !.pc = "reread"].id = req[r].id
    BY <1>1 DEF Request
  <2> QED BY <1>1, <1>2, <2>1, <2>2 DEF LocalsOK, InFlight
<1>3. CASE AppendAudit(r)
  <2>1. AuditWritten(req[r]) \in Request /\ LocalsOK(AuditWritten(req[r]))
    BY <1>1, <1>2, <1>3, AnswerType DEF AppendAudit, AuditWritten, Codes
  <2> QED BY <1>3, <2>1, WrittenType, ReqType DEF AppendAudit, TypeOK
<1>4. CASE AuditFails(r)
  <2>1. AuditFailed(req[r]) \in Request /\ LocalsOK(AuditFailed(req[r]))
    BY <1>1, <1>2, <1>4, AnswerType DEF AuditFails, AuditFailed, Codes
  <2> QED BY <1>4, <2>1, WrittenType, ReqType DEF AuditFails, TypeOK
<1>5. CASE Reread(r)
  <2>1. FirstRow(req[r]) \in Request /\ LocalsOK(FirstRow(req[r]))
    BY <1>1, <1>5, FirstRowType DEF Reread, LocalsOK, InFlight
  <2> QED BY <1>5, <2>1, ReqType DEF Reread, TypeOK
<1>6. CASE Preload(r)
  <2> DEFINE code == IF req[r].op = "create" THEN 201 ELSE 200
             answer == AnswerWith(req[r], code, revisions[req[r].id])
  <2>1. req[r].id \in Decisions
    BY <1>1, <1>6 DEF Preload, LocalsOK, InFlight
  <2>2. Answer(req[r], code) \in Request
    BY <1>1, AnswerType DEF Codes
  <2>3. req[r].seen \in Row \cup {NoRow} /\ revisions[req[r].id] \in SUBSET Revision
    BY <1>1, <2>1 DEF TypeOK, Request
  <2>4. answer \in Request
    <3>1. PICK first \in Request : first = Answer(req[r], code)
      BY <2>2
    <3>2. [first EXCEPT !.seen = req[r].seen, !.revs = revisions[req[r].id]] \in Request
      BY <2>3, RecordSet
    <3> QED BY <3>1, <3>2 DEF AnswerWith
  <2>5. LocalsOK(answer)
    BY DEF AnswerWith, Answer, LocalsOK, InFlight
  <2>6. req' = [req EXCEPT ![r] = answer]
    BY <1>6 DEF Preload
  <2> QED BY <1>6, <2>4, <2>5, <2>6, ReqType DEF Preload, TypeOK
<1>7. CASE DatabaseError(r)
  BY <1>1, <1>7, AnswerType, ReqType DEF DatabaseError, TypeOK, Codes
<1>8. CASE Crash(r)
  <2> DEFINE gone == [Answer(req[r], 0) EXCEPT !.pc = "gone"]
  <2>1. gone \in Request
    BY <1>1, AnswerType DEF Request
  <2>2. LocalsOK(gone)
    BY DEF Answer, LocalsOK, InFlight
  <2>3. req' = [req EXCEPT ![r] = gone]
    BY <1>8 DEF Crash
  <2> QED BY <1>8, <2>1, <2>2, <2>3, ReqType DEF Crash, TypeOK
<1> QED BY <1>3, <1>4, <1>5, <1>6, <1>7, <1>8 DEF Fail

\* No step leaves the types.
LEMMA NextType == TypeOK /\ [Next]_vars => TypeOK'
<1> SUFFICES ASSUME TypeOK, [Next]_vars PROVE TypeOK'
  OBVIOUS
<1>1. CASE UNCHANGED vars
  BY <1>1 DEF vars, TypeOK
<1>2. ASSUME NEW r \in Requests, Arrive(r) \/ Continue(r) \/ Fail(r)
      PROVE  TypeOK'
  BY <1>2, ArriveType, WriteType, AfterWriteType DEF Continue
<1> QED BY <1>1, <1>2 DEF Next

\* Every variable always has its type, and every handler under way has the
\* locals it needs.
THEOREM TypeCorrect == Spec => []TypeOK
<1>1. Init => TypeOK
  BY InitType
<1>2. TypeOK /\ [Next]_vars => TypeOK'
  BY NextType
<1> QED BY <1>1, <1>2, PTL DEF Spec

-----------------------------------------------------------------------------
(* What a step can do *)

\* Only the three commits touch the tables of decisions and revisions.
LEMMA TablesStep ==
  ASSUME [Next]_vars
  PROVE  \/ UNCHANGED <<rows, revisions>>
         \/ \E r \in Requests : CommitCreate(r) \/ CommitUpdate(r) \/ CommitDelete(r)
<1>1. CASE UNCHANGED vars
  BY <1>1 DEF vars
<1>2. ASSUME NEW r \in Requests, Arrive(r) \/ Continue(r) \/ Fail(r)
      PROVE  \/ UNCHANGED <<rows, revisions>>
             \/ CommitCreate(r) \/ CommitUpdate(r) \/ CommitDelete(r)
  <2>1. CASE Arrive(r)
    BY <2>1 DEF Arrive, Create, Update, Transition, Delete, Read
  <2>2. CASE Continue(r)
    BY <2>2 DEF Continue, Write, CodeTaken, Conflict, DeleteMissed, AppendAudit, Reread, Preload
  <2>3. CASE Fail(r)
    BY <2>3 DEF Fail, AuditFails, DatabaseError, Crash
  <2> QED BY <1>2, <2>1, <2>2, <2>3
<1> QED BY <1>1, <1>2 DEF Next

\* The precise effect of each commit.
LEMMA CommitEffect ==
  ASSUME TypeOK, NEW r \in Requests
  PROVE  /\ CommitCreate(r) =>
              /\ req[r].pc = "write" /\ req[r].op = "create"
              /\ req[r].id \in Decisions
              /\ rows[req[r].id] = NoRow
              /\ rows' = [rows EXCEPT ![req[r].id] = NewRow(req[r])]
              /\ revisions' = [revisions EXCEPT ![req[r].id] = @ \cup {RevisionOf(req[r], r)}]
              /\ RevisionOf(req[r], r).version = 1
              /\ RevisionOf(req[r], r).status = "draft"
         /\ CommitUpdate(r) =>
              /\ req[r].pc = "write" /\ req[r].op \in {"update", "transition"}
              /\ req[r].id \in Decisions
              /\ rows[req[r].id] \in Row
              /\ rows[req[r].id].version = req[r].expected
              /\ rows' = [rows EXCEPT ![req[r].id] = Overwritten(req[r])]
              /\ revisions' = [revisions EXCEPT ![req[r].id] = @ \cup {RevisionOf(req[r], r)}]
         /\ CommitDelete(r) =>
              /\ req[r].id \in Decisions
              /\ rows[req[r].id] \in Row
              /\ rows' = [rows EXCEPT ![req[r].id].state = "deleted"]
              /\ revisions' = revisions
<1>1. ASSUME CommitCreate(r) \/ CommitUpdate(r) \/ CommitDelete(r)
      PROVE  /\ req[r].pc = "write" /\ req[r].id \in Decisions
             /\ rows[req[r].id] \in Row \cup {NoRow}
             /\ LocalsOK(req[r])
  BY <1>1, WrittenType DEF CommitCreate, CommitUpdate, CommitDelete, TypeOK
<1>2. ASSUME CommitCreate(r)
      PROVE  /\ rows[req[r].id] = NoRow
             /\ RevisionOf(req[r], r).version = 1
             /\ RevisionOf(req[r], r).status = "draft"
  <2>1. rows[req[r].id] = NoRow
    BY <1>1, <1>2 DEF CommitCreate, Row
  <2>2. req[r].expected = 0 /\ req[r].status = "draft"
    BY <1>1, <1>2 DEF CommitCreate, LocalsOK
  <2> QED BY <2>1, <2>2 DEF RevisionOf
<1>3. CommitUpdate(r) => rows[req[r].id] \in Row /\ rows[req[r].id].version = req[r].expected
  BY <1>1 DEF CommitUpdate, Matches, Live, NoRow
<1>4. CommitDelete(r) => rows[req[r].id] \in Row
  BY <1>1 DEF CommitDelete, Live, NoRow
<1> QED
  BY <1>1, <1>2, <1>3, <1>4 DEF CommitCreate, CommitUpdate, CommitDelete, AppendRevision

\* A delete keeps everything but the state of the row.
LEMMA DeleteKeeps ==
  ASSUME TypeOK, NEW r \in Requests, CommitDelete(r), NEW d \in Decisions
  PROVE  /\ revisions'[d] = revisions[d]
         /\ rows'[d].version = rows[d].version
         /\ rows'[d].status = rows[d].status
         /\ rows'[d].evidence = rows[d].evidence
         /\ rows'[d].preparedBy = rows[d].preparedBy
         /\ rows[d] # NoRow => rows'[d] # NoRow
<1>1. /\ rows[req[r].id] \in Row
      /\ rows' = [rows EXCEPT ![req[r].id] = [@ EXCEPT !.state = "deleted"]]
      /\ revisions' = revisions
  BY CommitEffect
<1>2. CASE d = req[r].id
  <2>1. rows'[d] = [rows[d] EXCEPT !.state = "deleted"]
    BY <1>1, <1>2 DEF TypeOK
  <2>2. /\ rows'[d].state = "deleted"
        /\ rows'[d].version = rows[d].version
        /\ rows'[d].status = rows[d].status
        /\ rows'[d].evidence = rows[d].evidence
        /\ rows'[d].preparedBy = rows[d].preparedBy
    BY <1>1, <1>2, <2>1 DEF Row
  <2> QED BY <1>1, <2>2 DEF NoRow
<1>3. CASE d # req[r].id
  BY <1>1, <1>3 DEF TypeOK
<1> QED BY <1>2, <1>3

\* The step of one request leaves the others alone.
LEMMA OthersKept ==
  ASSUME TypeOK, NEW r \in Requests, NEW q \in Requests, r # q,
         Arrive(r) \/ Continue(r) \/ Fail(r)
  PROVE  req'[q] = req[q]
<1>1. CASE Arrive(r)
  BY ZenonT(60), <1>1 DEF TypeOK, Arrive, Create, Update, Transition, Delete, Read
<1>2. CASE Continue(r)
  <2>1. CASE Write(r)
    BY <2>1 DEF TypeOK, Write, CommitCreate, CodeTaken, CommitUpdate, Conflict, CommitDelete,
                DeleteMissed, Applied
  <2>2. CASE AppendAudit(r) \/ Reread(r) \/ Preload(r)
    BY <2>2 DEF TypeOK, AppendAudit, Reread, Preload
  <2> QED BY <1>2, <2>1, <2>2 DEF Continue
<1>3. CASE Fail(r)
  BY <1>3 DEF TypeOK, Fail, AuditFails, DatabaseError, Crash
<1> QED BY SMTT(60), <1>1, <1>2, <1>3

\* A handler about to write has either been there before the step, untouched,
\* or has just passed its checks on the row as it is.
LEMMA PendingStep ==
  ASSUME TypeOK, [Next]_vars, NEW q \in Requests, req'[q].pc = "write"
  PROVE  \/ req'[q] = req[q]
         \/ /\ UNCHANGED rows
            /\ \E u \in Users, d \in Decisions :
                 /\ req'[q].actor = u
                 /\ req'[q].id = d
                 /\ \/ req'[q].op = "create" /\ \E e : CreateRefusal(u, e) = 0
                    \/ req'[q].op = "delete"
                    \/ /\ req'[q].op = "update"
                       /\ \E e : UpdateRefusal(u, d, e) = 0
                       /\ req'[q].status = rows[d].status
                       /\ req'[q].before = rows[d].status
                       /\ req'[q].expected \in ExpectedVersions(d)
                    \/ /\ req'[q].op = "transition"
                       /\ TransitionRefusal(u, d, req'[q].status) = 0
                       /\ req'[q].before = rows[d].status
                       /\ req'[q].evidence = rows[d].evidence
                       /\ req'[q].expected \in ExpectedVersions(d)
<1>1. UNCHANGED vars => req'[q] = req[q]
  BY DEF vars
<1>2. ASSUME NEW r \in Requests, r # q, Arrive(r) \/ Continue(r) \/ Fail(r)
      PROVE  req'[q] = req[q]
  BY <1>2, OthersKept
<1> DEFINE Checked ==
      \E u \in Users, d \in Decisions :
        /\ req'[q].actor = u
        /\ req'[q].id = d
        /\ \/ req'[q].op = "create" /\ \E e : CreateRefusal(u, e) = 0
           \/ req'[q].op = "delete"
           \/ /\ req'[q].op = "update"
              /\ \E e : UpdateRefusal(u, d, e) = 0
              /\ req'[q].status = rows[d].status
              /\ req'[q].before = rows[d].status
              /\ req'[q].expected \in ExpectedVersions(d)
           \/ /\ req'[q].op = "transition"
              /\ TransitionRefusal(u, d, req'[q].status) = 0
              /\ req'[q].before = rows[d].status
              /\ req'[q].evidence = rows[d].evidence
              /\ req'[q].expected \in ExpectedVersions(d)
<1>3. ASSUME Arrive(q)
      PROVE  UNCHANGED rows /\ Checked
  <2>1. UNCHANGED rows /\ req \in [Requests -> Request]
    BY <1>3 DEF Arrive, Create, Update, Transition, Delete, Read, TypeOK
  <2>2. CASE Create(q)
    <3>1. PICK u \in Users, d \in Decisions, e \in Evidence \cup {None}, call \in Request :
            /\ req' = [req EXCEPT ![q] = Proceed(call, CreateRefusal(u, e))]
            /\ call.pc = "idle" /\ call.op = "create" /\ call.actor = u /\ call.id = d
      BY <2>2, CreateArrives
    <3>2. req'[q] = Proceed(call, CreateRefusal(u, e))
      BY <2>1, <3>1
    <3> QED BY <2>1, <3>1, <3>2, ProceedWrites
  <2>3. CASE Update(q)
    <3>1. PICK u \in Users, d \in Decisions, e \in Evidence \cup {None}, call \in Request :
            /\ req' = [req EXCEPT ![q] = Proceed(call, UpdateRefusal(u, d, e))]
            /\ call.pc = "idle" /\ call.op = "update" /\ call.actor = u /\ call.id = d
            /\ call.status = rows[d].status /\ call.before = rows[d].status
            /\ UpdateRefusal(u, d, e) = 0 => call.expected \in ExpectedVersions(d)
      BY <2>3, UpdateArrives
    <3>2. req'[q] = Proceed(call, UpdateRefusal(u, d, e))
      BY <2>1, <3>1
    <3> QED BY <2>1, <3>1, <3>2, ProceedWrites
  <2>4. CASE Transition(q)
    <3>1. PICK u \in Users, d \in Decisions, call \in Request :
            /\ req' = [req EXCEPT ![q] = Proceed(call, TransitionRefusal(u, d, call.status))]
            /\ call.pc = "idle" /\ call.op = "transition" /\ call.actor = u /\ call.id = d
            /\ call.before = rows[d].status /\ call.evidence = rows[d].evidence
            /\ TransitionRefusal(u, d, call.status) = 0 => call.expected \in ExpectedVersions(d)
      BY <2>4, TransitionArrives
    <3>2. req'[q] = Proceed(call, TransitionRefusal(u, d, call.status))
      BY <2>1, <3>1
    <3> QED BY <2>1, <3>1, <3>2, ProceedWrites
  <2>5. CASE Delete(q)
    <3>1. PICK u \in Users, d \in Decisions, call \in Request :
            /\ req' = [req EXCEPT ![q] = Proceed(call, DeleteRefusal(u, d))]
            /\ call.pc = "idle" /\ call.op = "delete" /\ call.actor = u /\ call.id = d
      BY <2>5, DeleteArrives
    <3>2. req'[q] = Proceed(call, DeleteRefusal(u, d))
      BY <2>1, <3>1
    <3> QED BY <2>1, <3>1, <3>2, ProceedWrites
  <2>6. ~Read(q)
    <3>1. \A d \in Decisions : FirstRow(Call("read", None, d)).pc # "write"
      BY IdleType DEF FirstRow, Call, Idle, Answer, Request
    <3> QED BY <2>1, <3>1 DEF Read
  <2> QED BY <1>3, <2>2, <2>3, <2>4, <2>5, <2>6 DEF Arrive
<1>4. ~Continue(q) /\ ~Fail(q)
  <2>1. req[q] \in Request
    BY DEF TypeOK
  <2>2. ~Write(q)
    BY <2>1
    DEF TypeOK, Write, CommitCreate, CodeTaken, CommitUpdate, Conflict, CommitDelete,
        DeleteMissed, Applied, Answer, Request
  <2>3. ~AppendAudit(q) /\ ~AuditFails(q)
    BY <2>1 DEF TypeOK, AppendAudit, AuditFails, AuditWritten, AuditFailed, Answer, Request
  <2>4. ~Reread(q)
    <3>1. FirstRow(req[q]).pc \in {"preload", "done"}
      BY <2>1 DEF FirstRow, Answer, Request
    <3> QED BY <3>1 DEF TypeOK, Reread
  <2>5. ~Preload(q)
    <3>1. \A call, code, revs : AnswerWith(call, code, revs).pc = "done"
      BY DEF AnswerWith, Answer
    <3>2. ASSUME Preload(q)
          PROVE  \E call, code, revs : req'[q] = AnswerWith(call, code, revs)
      BY <3>2 DEF Preload, TypeOK
    <3> QED BY <3>1, <3>2
  <2>6. ~DatabaseError(q) /\ ~Crash(q)
    <3>1. Answer(req[q], 500).pc = "done"
      BY DEF Answer
    <3>2. [Answer(req[q], 0) EXCEPT !.pc = "gone"].pc = "gone"
      BY DEF Answer
    <3>3. DatabaseError(q) => req'[q] = Answer(req[q], 500)
      BY DEF TypeOK, DatabaseError
    <3>4. Crash(q) => req'[q] = [Answer(req[q], 0) EXCEPT !.pc = "gone"]
      BY DEF TypeOK, Crash
    <3> QED BY <3>1, <3>2, <3>3, <3>4, ZenonT(60)
  <2> QED BY <2>2, <2>3, <2>4, <2>5, <2>6 DEF Continue, Fail
<1> HIDE DEF Checked
<1>5. req'[q] = req[q] \/ (UNCHANGED rows /\ Checked)
  <2>1. CASE UNCHANGED vars
    BY <1>1, <2>1
  <2>2. CASE Next
    <3>1. PICK r \in Requests : Arrive(r) \/ Continue(r) \/ Fail(r)
      BY <2>2 DEF Next
    <3>2. CASE r = q
      BY <3>1, <3>2, <1>3, <1>4
    <3>3. CASE r # q
      BY <3>1, <3>3, <1>2
    <3> QED BY <3>2, <3>3
  <2> QED BY <2>1, <2>2
<1> QED BY <1>5 DEF Checked

-----------------------------------------------------------------------------
(* The revision chain *)

\* RevisionChain, of one decision.
Chained(d) ==
  /\ {rev.version : rev \in revisions[d]} = 1 .. rows[d].version
  /\ \A a, b \in revisions[d] : a.version = b.version => a = b
  /\ \A rev \in revisions[d] :
       rev.version = rows[d].version =>
         rev.status = rows[d].status /\ rev.evidence = rows[d].evidence

\* A revision numbered one beyond the chain, written with its row, extends it.
LEMMA ChainGrows ==
  ASSUME NEW d, NEW new, NEW n \in Nat, Chained(d), rows[d].version = n,
         revisions'[d] = revisions[d] \cup {new},
         new.version = n + 1, rows'[d].version = n + 1,
         new.status = rows'[d].status, new.evidence = rows'[d].evidence
  PROVE  Chained(d)'
<1>1. \A rev \in revisions[d] : rev.version \in 1 .. n
  BY DEF Chained
<1>2. \A v \in 1 .. n : \E rev \in revisions[d] : rev.version = v
  BY DEF Chained
<1>3. {rev.version : rev \in revisions'[d]} = 1 .. rows'[d].version
  <2>1. \A rev \in revisions'[d] : rev.version \in 1 .. n + 1
    BY <1>1
  <2>2. ASSUME NEW v \in 1 .. n + 1
        PROVE  \E rev \in revisions'[d] : rev.version = v
    <3>1. CASE v \in 1 .. n
      BY <1>2, <3>1
    <3>2. CASE v = n + 1
      BY <3>2
    <3> QED BY <3>1, <3>2
  <2> QED BY <2>1, <2>2
<1>4. \A a, b \in revisions'[d] : a.version = b.version => a = b
  BY <1>1 DEF Chained
<1>5. \A rev \in revisions'[d] :
        rev.version = rows'[d].version =>
          rev.status = rows'[d].status /\ rev.evidence = rows'[d].evidence
  BY <1>1
<1> QED BY <1>3, <1>4, <1>5 DEF Chained

\* The seeded decisions are chained.
LEMMA InitChained == Init => RevisionChain
<1> SUFFICES ASSUME Init, NEW d \in Decisions PROVE Chained(d)
  BY DEF RevisionChain, Chained
<1>1. PICK e \in Evidence, seed \in Seeds :
        rows[d] = SeedRow(seed[d], e) /\ revisions[d] = SeedRevisions(seed[d], e)
  BY DEF Init
<1>2. CASE seed[d] = "none"
  BY <1>1, <1>2 DEF SeedRow, SeedRevisions, NoRow, Chained
<1>3. CASE seed[d] = "draft"
  <2>1. rows[d].version = 1 /\ rows[d].status = "draft" /\ rows[d].evidence = e
    BY <1>1, <1>3 DEF SeedRow
  <2>2. revisions[d] = {[version |-> 1, status |-> "draft", evidence |-> e,
                         actor |-> Preparer, request |-> None]}
    BY <1>1, <1>3 DEF SeedRevisions
  <2> QED BY <2>1, <2>2 DEF Chained
<1>4. CASE seed[d] \in PriorityLevel
  <2>1. rows[d].version = 2 /\ rows[d].status = seed[d] /\ rows[d].evidence = e
    BY <1>1, <1>4 DEF SeedRow, PriorityLevel
  <2>2. revisions[d] = {[version |-> 1, status |-> "draft", evidence |-> e,
                         actor |-> Preparer, request |-> None],
                        [version |-> 2, status |-> seed[d], evidence |-> e,
                         actor |-> Reviewer, request |-> None]}
    BY <1>1, <1>4 DEF SeedRevisions, PriorityLevel
  <2> QED BY <2>1, <2>2 DEF Chained
<1> QED BY <1>2, <1>3, <1>4 DEF Seeds, PriorityStatus

\* No step breaks a chain: the version check makes each revision the next one.
LEMMA ChainStep == TypeOK /\ RevisionChain /\ [Next]_vars => RevisionChain'
<1> SUFFICES ASSUME TypeOK, RevisionChain, [Next]_vars, NEW d \in Decisions
             PROVE  Chained(d)'
  BY DEF RevisionChain, Chained
<1>1. Chained(d) /\ rows[d] \in Row \cup {NoRow}
  BY DEF RevisionChain, Chained, TypeOK
<1>2. CASE UNCHANGED <<rows, revisions>>
  BY <1>1, <1>2 DEF Chained
<1>3. ASSUME NEW r \in Requests, CommitCreate(r)
      PROVE  Chained(d)'
  <2>1. CASE req[r].id = d
    <3>1. rows[d] = NoRow /\ rows'[d] = NewRow(req[r])
      BY <1>3, <2>1, CommitEffect DEF TypeOK
    <3>2. revisions'[d] = revisions[d] \cup {RevisionOf(req[r], r)}
      BY <1>3, <2>1, CommitEffect DEF TypeOK
    <3>3. rows[d].version = 0 /\ rows'[d].version = 1
      BY <3>1 DEF NoRow, NewRow
    <3>4. RevisionOf(req[r], r).version = 1 /\ RevisionOf(req[r], r).status = "draft"
      BY <1>3, CommitEffect
    <3>5. rows'[d].status = "draft" /\ rows'[d].evidence = RevisionOf(req[r], r).evidence
      BY <3>1 DEF NewRow, RevisionOf
    <3> QED BY <1>1, <3>2, <3>3, <3>4, <3>5, ChainGrows
  <2>2. CASE req[r].id # d
    <3>1. rows'[d] = rows[d] /\ revisions'[d] = revisions[d]
      BY <1>3, <2>2, CommitEffect DEF TypeOK
    <3> QED BY <1>1, <3>1 DEF Chained
  <2> QED BY <2>1, <2>2
<1>4. ASSUME NEW r \in Requests, CommitUpdate(r)
      PROVE  Chained(d)'
  <2>1. CASE req[r].id = d
    <3>1. /\ rows[d] \in Row /\ rows[d].version = req[r].expected
          /\ rows'[d] = Overwritten(req[r])
          /\ revisions'[d] = revisions[d] \cup {RevisionOf(req[r], r)}
      BY <1>4, <2>1, CommitEffect DEF TypeOK
    <3>2. /\ rows'[d].version = req[r].expected + 1
          /\ rows'[d].status = req[r].status
          /\ rows'[d].evidence = req[r].evidence
      BY <2>1, <3>1 DEF Overwritten, Row
    <3>3. req[r].expected \in Nat
      BY <3>1 DEF Row
    <3> QED BY <1>1, <3>1, <3>2, <3>3, ChainGrows DEF RevisionOf
  <2>2. CASE req[r].id # d
    <3>1. rows'[d] = rows[d] /\ revisions'[d] = revisions[d]
      BY <1>4, <2>2, CommitEffect DEF TypeOK
    <3> QED BY <1>1, <3>1 DEF Chained
  <2> QED BY <2>1, <2>2
<1>5. ASSUME NEW r \in Requests, CommitDelete(r)
      PROVE  Chained(d)'
  <2>1. /\ revisions'[d] = revisions[d]
        /\ rows'[d].version = rows[d].version
        /\ rows'[d].status = rows[d].status
        /\ rows'[d].evidence = rows[d].evidence
    BY <1>5, DeleteKeeps
  <2> QED BY <1>1, <2>1 DEF Chained
<1> QED BY <1>2, <1>3, <1>4, <1>5, TablesStep

\* Whatever versions clients send, the revisions of a decision are numbered
\* from 1 without gap or duplicate and the last one is the row.
THEOREM RevisionsChained == Spec => []RevisionChain
<1>1. Init => RevisionChain
  BY InitChained
<1>2. TypeOK /\ RevisionChain /\ [Next]_vars => RevisionChain'
  BY ChainStep
<1> QED BY <1>1, <1>2, TypeCorrect, PTL DEF Spec

-----------------------------------------------------------------------------
(* Independent review *)

\* The actor of revision 1 is the preparer of the row.
PreparerFirst(d) ==
  \A first \in revisions[d] : first.version = 1 => first.actor = rows[d].preparedBy

\* Final revisions were not written by the preparer of the row.
ReviewedBy(d) ==
  \A final \in revisions[d] :
    final.status \in PriorityLevel =>
      /\ RoleOf[final.actor] \in {"reviewer", "admin"}
      /\ final.actor # rows[d].preparedBy

\* What the checks made on an earlier row still mean when the handler writes:
\* the preparer of a row never changes.
PendingReview(r) ==
  /\ req[r].pc = "write"
  /\ req[r].op \in {"update", "transition"}
  => /\ rows[req[r].id] # NoRow
     /\ req[r].op = "update" => req[r].status = "draft"
     /\ req[r].op = "transition" =>
          /\ RoleOf[req[r].actor] \in {"reviewer", "admin"}
          /\ req[r].actor # rows[req[r].id].preparedBy

\* The inductive invariant behind IndependentReview.
ReviewInv ==
  /\ \A d \in Decisions : PreparerFirst(d) /\ ReviewedBy(d)
  /\ \A r \in Requests : PendingReview(r)

\* The seeded final decisions were reviewed by another than their preparer.
LEMMA InitReview == Init => ReviewInv
<1> SUFFICES ASSUME Init PROVE ReviewInv
  OBVIOUS
<1>1. ASSUME NEW d \in Decisions
      PROVE  PreparerFirst(d) /\ ReviewedBy(d)
  <2>1. PICK e \in Evidence, seed \in Seeds :
          rows[d] = SeedRow(seed[d], e) /\ revisions[d] = SeedRevisions(seed[d], e)
    BY DEF Init
  <2>2. CASE seed[d] = "none"
    BY <2>1, <2>2 DEF SeedRevisions, PreparerFirst, ReviewedBy
  <2>3. CASE seed[d] # "none"
    <3>1. rows[d].preparedBy = Preparer
      BY <2>1, <2>3 DEF SeedRow
    <3>2. \A rev \in revisions[d] :
            \/ rev.version = 1 /\ rev.status = "draft" /\ rev.actor = Preparer
            \/ rev.version = 2 /\ rev.actor = Reviewer
      BY <2>1, <2>3 DEF SeedRevisions
    <3> QED BY <3>1, <3>2, ConstantsAssumption DEF PreparerFirst, ReviewedBy, PriorityLevel
  <2> QED BY <2>2, <2>3
<1>2. \A r \in Requests : PendingReview(r)
  BY DEF Init, Idle, PendingReview
<1> QED BY <1>1, <1>2 DEF ReviewInv

\* Rows never disappear and keep their preparer.
LEMMA PreparerKept ==
  ASSUME TypeOK, [Next]_vars, NEW d \in Decisions, rows[d] # NoRow
  PROVE  rows'[d] # NoRow /\ rows'[d].preparedBy = rows[d].preparedBy
<1>1. ASSUME NEW r \in Requests, CommitCreate(r)
      PROVE  rows'[d] = rows[d]
  BY <1>1, CommitEffect DEF TypeOK
<1>2. ASSUME NEW r \in Requests, CommitUpdate(r)
      PROVE  rows'[d] # NoRow /\ rows'[d].preparedBy = rows[d].preparedBy
  <2>1. CASE req[r].id = d
    <3>1. rows[d] \in Row /\ rows'[d] = Overwritten(req[r])
      BY <1>2, <2>1, CommitEffect DEF TypeOK
    <3>2. rows'[d].preparedBy = rows[d].preparedBy /\ rows'[d].state = rows[d].state
      BY <2>1, <3>1 DEF Overwritten, Row
    <3> QED BY <3>1, <3>2 DEF Row, NoRow
  <2>2. CASE req[r].id # d
    BY <1>2, <2>2, CommitEffect DEF TypeOK
  <2> QED BY <2>1, <2>2
<1>3. ASSUME NEW r \in Requests, CommitDelete(r)
      PROVE  rows'[d] # NoRow /\ rows'[d].preparedBy = rows[d].preparedBy
  BY <1>3, DeleteKeeps
<1> QED BY <1>1, <1>2, <1>3, TablesStep

\* No step breaks the review invariant.
LEMMA ReviewStep == TypeOK /\ RevisionChain /\ ReviewInv /\ [Next]_vars => ReviewInv'
<1> SUFFICES ASSUME TypeOK, RevisionChain, ReviewInv, [Next]_vars PROVE ReviewInv'
  OBVIOUS
<1>1. ASSUME NEW d \in Decisions
      PROVE  (PreparerFirst(d) /\ ReviewedBy(d))'
  <2>1. PreparerFirst(d) /\ ReviewedBy(d) /\ Chained(d)
    BY DEF ReviewInv, RevisionChain, Chained
  <2>2. CASE UNCHANGED <<rows, revisions>>
    BY <2>1, <2>2 DEF PreparerFirst, ReviewedBy
  <2>3. ASSUME NEW r \in Requests, CommitCreate(r)
        PROVE  (PreparerFirst(d) /\ ReviewedBy(d))'
    <3>1. CASE req[r].id = d
      <4>1. /\ rows[d] = NoRow
            /\ rows'[d] = NewRow(req[r])
            /\ revisions'[d] = revisions[d] \cup {RevisionOf(req[r], r)}
            /\ RevisionOf(req[r], r).status = "draft"
        BY <2>3, <3>1, CommitEffect DEF TypeOK
      <4>2. revisions[d] = {}
        BY <2>1, <4>1 DEF Chained, NoRow
      <4>3. rows'[d].preparedBy = RevisionOf(req[r], r).actor
        BY <4>1 DEF NewRow, RevisionOf
      <4> QED BY <4>1, <4>2, <4>3 DEF PreparerFirst, ReviewedBy, PriorityLevel
    <3>2. CASE req[r].id # d
      <4>1. rows'[d] = rows[d] /\ revisions'[d] = revisions[d]
        BY <2>3, <3>2, CommitEffect DEF TypeOK
      <4> QED BY <2>1, <4>1 DEF PreparerFirst, ReviewedBy
    <3> QED BY <3>1, <3>2
  <2>4. ASSUME NEW r \in Requests, CommitUpdate(r)
        PROVE  (PreparerFirst(d) /\ ReviewedBy(d))'
    <3>1. CASE req[r].id = d
      <4>1. /\ rows[d] \in Row
            /\ rows[d].version = req[r].expected
            /\ revisions'[d] = revisions[d] \cup {RevisionOf(req[r], r)}
            /\ req[r].pc = "write" /\ req[r].op \in {"update", "transition"}
        BY <2>4, <3>1, CommitEffect DEF TypeOK
      <4>2. rows'[d].preparedBy = rows[d].preparedBy
        BY <4>1, PreparerKept DEF Row, NoRow
      <4>3. RevisionOf(req[r], r).version # 1
        BY <4>1 DEF RevisionOf, Row
      <4>4. /\ req[r].op = "update" => req[r].status = "draft"
            /\ req[r].op = "transition" =>
                 /\ RoleOf[req[r].actor] \in {"reviewer", "admin"}
                 /\ req[r].actor # rows[d].preparedBy
        BY <3>1, <4>1 DEF ReviewInv, PendingReview
      <4>5. RevisionOf(req[r], r).status \in PriorityLevel =>
              /\ RoleOf[RevisionOf(req[r], r).actor] \in {"reviewer", "admin"}
              /\ RevisionOf(req[r], r).actor # rows[d].preparedBy
        BY <4>1, <4>4 DEF RevisionOf, PriorityLevel
      <4> QED BY <2>1, <4>1, <4>2, <4>3, <4>5 DEF PreparerFirst, ReviewedBy
    <3>2. CASE req[r].id # d
      <4>1. rows'[d] = rows[d] /\ revisions'[d] = revisions[d]
        BY <2>4, <3>2, CommitEffect DEF TypeOK
      <4> QED BY <2>1, <4>1 DEF PreparerFirst, ReviewedBy
    <3> QED BY <3>1, <3>2
  <2>5. ASSUME NEW r \in Requests, CommitDelete(r)
        PROVE  (PreparerFirst(d) /\ ReviewedBy(d))'
    <3>1. revisions'[d] = revisions[d] /\ rows'[d].preparedBy = rows[d].preparedBy
      BY <2>5, DeleteKeeps
    <3> QED BY <2>1, <3>1 DEF PreparerFirst, ReviewedBy
  <2> QED BY <2>2, <2>3, <2>4, <2>5, TablesStep
<1>2. ASSUME NEW q \in Requests,
             req'[q].pc = "write", req'[q].op \in {"update", "transition"}
      PROVE  /\ rows'[req'[q].id] # NoRow
             /\ req'[q].op = "update" => req'[q].status = "draft"
             /\ req'[q].op = "transition" =>
                  /\ RoleOf[req'[q].actor] \in {"reviewer", "admin"}
                  /\ req'[q].actor # rows'[req'[q].id].preparedBy
  <2>1. CASE req'[q] = req[q]
    <3>1. req[q].id \in Decisions
      BY <1>2, <2>1, WrittenType
    <3>2. PendingReview(q)
      BY DEF ReviewInv
    <3> QED BY <1>2, <2>1, <3>1, <3>2, PreparerKept DEF PendingReview
  <2>2. CASE req'[q] # req[q]
    <3>1. PICK u \in Users, d \in Decisions :
            /\ UNCHANGED rows
            /\ req'[q].actor = u
            /\ req'[q].id = d
            /\ \/ /\ req'[q].op = "update"
                  /\ \E e : UpdateRefusal(u, d, e) = 0
                  /\ req'[q].status = rows[d].status
               \/ /\ req'[q].op = "transition"
                  /\ TransitionRefusal(u, d, req'[q].status) = 0
      BY <1>2, <2>2, PendingStep
    <3>2. rows[d] \in Row
      BY <3>1, NoRefusal
    <3>3. rows[d] # NoRow
      BY <3>2 DEF Row, NoRow
    <3>4. CASE req'[q].op = "update"
      BY <3>1, <3>3, <3>4, NoRefusal
    <3>5. CASE req'[q].op = "transition"
      BY <3>1, <3>3, <3>5, NoRefusal
    <3> QED BY <1>2, <3>4, <3>5
  <2> QED BY <2>1, <2>2
<1> QED BY <1>1, <1>2 DEF ReviewInv, PendingReview

\* Every final revision, of every decision, was written by a reviewer or an
\* administrator who did not prepare the decision, whatever the clients send
\* and however their requests overlap.
THEOREM ReviewIndependent == Spec => []IndependentReview
<1>1. Init => ReviewInv
  BY InitReview
<1>2. TypeOK /\ RevisionChain /\ ReviewInv /\ [Next]_vars => ReviewInv'
  BY ReviewStep
<1>3. ReviewInv => IndependentReview
  BY DEF ReviewInv, PreparerFirst, ReviewedBy, IndependentReview
<1> QED BY <1>1, <1>2, <1>3, TypeCorrect, RevisionsChained, PTL DEF Spec

-----------------------------------------------------------------------------
(* The optimistic lock, when clients send a version they were shown *)

\* What a handler about to write still knows about the row it read: its version
\* is at most the stored one, and while they are equal nothing has changed.
PendingBase(r) ==
  LET call == req[r]
      row == rows[call.id]
  IN  /\ call.pc = "write"
      /\ call.op \in {"update", "transition"}
      => /\ call.expected <= row.version
         /\ call.expected = row.version =>
              /\ call.before = row.status
              /\ call.before = "draft"
              /\ call.op = "transition" => call.evidence = row.evidence

\* The inductive invariant behind WriteBasedOnCurrent and FinalContentFrozen.
BaseInv == \A r \in Requests : PendingBase(r)

\* A row changes only together with its version, which only grows.
LEMMA VersionGrows ==
  ASSUME TypeOK, [Next]_vars, NEW d \in Decisions, rows[d] # NoRow
  PROVE  /\ rows[d].version \in Nat
         /\ rows'[d].version \in Nat
         /\ \/ rows'[d].version > rows[d].version
            \/ /\ rows'[d].version = rows[d].version
               /\ rows'[d].status = rows[d].status
               /\ rows'[d].evidence = rows[d].evidence
<1>1. rows[d].version \in Nat
  BY DEF TypeOK, Row
<1>2. CASE UNCHANGED <<rows, revisions>>
  BY <1>1, <1>2
<1>3. ASSUME NEW r \in Requests, CommitCreate(r)
      PROVE  rows'[d] = rows[d]
  BY <1>3, CommitEffect DEF TypeOK
<1>4. ASSUME NEW r \in Requests, CommitUpdate(r)
      PROVE  rows'[d] = rows[d] \/ rows'[d].version = rows[d].version + 1
  <2>1. CASE req[r].id = d
    <3>1. /\ rows[d] \in Row
          /\ rows[d].version = req[r].expected
          /\ rows'[d] = Overwritten(req[r])
      BY <1>4, <2>1, CommitEffect DEF TypeOK
    <3> QED BY <2>1, <3>1 DEF Overwritten, Row
  <2>2. CASE req[r].id # d
    BY <1>4, <2>2, CommitEffect DEF TypeOK
  <2> QED BY <2>1, <2>2
<1>5. ASSUME NEW r \in Requests, CommitDelete(r)
      PROVE  /\ rows'[d].version = rows[d].version
             /\ rows'[d].status = rows[d].status
             /\ rows'[d].evidence = rows[d].evidence
  BY <1>5, DeleteKeeps
<1> QED BY <1>1, <1>2, <1>3, <1>4, <1>5, TablesStep

\* No step breaks the base invariant when no client sends a version ahead.
LEMMA BaseStep ==
  ASSUME Ahead = 0, TypeOK, ReviewInv, BaseInv, [Next]_vars
  PROVE  BaseInv'
<1> SUFFICES ASSUME NEW q \in Requests,
                    req'[q].pc = "write", req'[q].op \in {"update", "transition"}
             PROVE  /\ req'[q].expected <= rows'[req'[q].id].version
                    /\ req'[q].expected = rows'[req'[q].id].version =>
                         /\ req'[q].before = rows'[req'[q].id].status
                         /\ req'[q].before = "draft"
                         /\ req'[q].op = "transition" =>
                              req'[q].evidence = rows'[req'[q].id].evidence
  BY DEF BaseInv, PendingBase
<1>1. CASE req'[q] = req[q]
  <2> DEFINE d == req[q].id
  <2>1. d \in Decisions /\ req[q].expected \in Nat
    BY <1>1, WrittenType DEF Request
  <2>2. rows[d] # NoRow
    BY <1>1 DEF ReviewInv, PendingReview
  <2>3. /\ req[q].expected <= rows[d].version
        /\ req[q].expected = rows[d].version =>
             /\ req[q].before = rows[d].status
             /\ req[q].before = "draft"
             /\ req[q].op = "transition" => req[q].evidence = rows[d].evidence
    BY <1>1 DEF BaseInv, PendingBase
  <2> HIDE DEF d
  <2>4. /\ rows[d].version \in Nat
        /\ rows'[d].version \in Nat
        /\ \/ rows'[d].version > rows[d].version
           \/ /\ rows'[d].version = rows[d].version
              /\ rows'[d].status = rows[d].status
              /\ rows'[d].evidence = rows[d].evidence
    BY <2>1, <2>2, VersionGrows
  <2>5. /\ req[q].expected <= rows'[d].version
        /\ req[q].expected = rows'[d].version =>
             /\ req[q].before = rows'[d].status
             /\ req[q].before = "draft"
             /\ req[q].op = "transition" => req[q].evidence = rows'[d].evidence
    BY <2>1, <2>3, <2>4
  <2> QED BY <1>1, <2>5 DEF d
<1>2. CASE req'[q] # req[q]
  <2>1. PICK u \in Users, d \in Decisions :
          /\ UNCHANGED rows
          /\ req'[q].id = d
          /\ req'[q].before = rows[d].status
          /\ req'[q].expected \in ExpectedVersions(d)
          /\ \/ req'[q].op = "update" /\ \E e : UpdateRefusal(u, d, e) = 0
             \/ /\ req'[q].op = "transition"
                /\ TransitionRefusal(u, d, req'[q].status) = 0
                /\ req'[q].evidence = rows[d].evidence
    BY <1>2, PendingStep
  <2>2. rows[d] \in Row /\ rows[d].status = "draft"
    BY <2>1, NoRefusal
  <2>3. req'[q].expected <= rows[d].version
    BY <2>1, <2>2 DEF ExpectedVersions, Row
  <2> QED BY <2>1, <2>2, <2>3
<1> QED BY <1>1, <1>2

\* The facts the lock rests on, together and always.
LEMMA BaseAlways ==
  ASSUME Ahead = 0
  PROVE  Spec => [](TypeOK /\ ReviewInv /\ BaseInv)
<1>1. Init => BaseInv
  BY DEF Init, Idle, BaseInv, PendingBase
<1>2. TypeOK /\ ReviewInv /\ BaseInv /\ [Next]_vars => BaseInv'
  BY BaseStep
<1>3. Init => ReviewInv
  BY InitReview
<1>4. TypeOK /\ RevisionChain /\ ReviewInv /\ [Next]_vars => ReviewInv'
  BY ReviewStep
<1> QED BY <1>1, <1>2, <1>3, <1>4, TypeCorrect, RevisionsChained, PTL DEF Spec

\* A write that passes the version check overwrites the very row it was
\* computed from, as long as clients send versions they were shown.
THEOREM LockSound ==
  ASSUME Ahead = 0
  PROVE  Spec => []WriteBasedOnCurrent
<1>1. BaseInv => WriteBasedOnCurrent
  BY DEF BaseInv, PendingBase, WriteBasedOnCurrent, Matches
<1> QED BY <1>1, BaseAlways, PTL

\* Under the same assumption no step ever changes the status, the evidence or
\* the version of a final decision.
THEOREM FinalFrozen ==
  ASSUME Ahead = 0
  PROVE  Spec => FinalContentFrozen
<1> DEFINE Frozen ==
      \A d \in Decisions :
        rows[d].status \in PriorityLevel =>
          /\ rows'[d].status = rows[d].status
          /\ rows'[d].evidence = rows[d].evidence
          /\ rows'[d].version = rows[d].version
<1>1. TypeOK /\ BaseInv /\ [Next]_vars => Frozen
  <2> SUFFICES ASSUME TypeOK, BaseInv, [Next]_vars,
                      NEW d \in Decisions, rows[d].status \in PriorityLevel
               PROVE  /\ rows'[d].status = rows[d].status
                      /\ rows'[d].evidence = rows[d].evidence
                      /\ rows'[d].version = rows[d].version
    OBVIOUS
  <2>1. CASE UNCHANGED <<rows, revisions>>
    BY <2>1
  <2>2. ASSUME NEW r \in Requests, CommitCreate(r)
        PROVE  rows'[d] = rows[d]
    <3>1. rows[req[r].id] = NoRow /\ rows' = [rows EXCEPT ![req[r].id] = NewRow(req[r])]
      BY <2>2, CommitEffect
    <3>2. req[r].id # d
      BY <3>1 DEF NoRow, PriorityLevel
    <3> QED BY <3>1, <3>2 DEF TypeOK
  <2>3. ASSUME NEW r \in Requests, CommitUpdate(r)
        PROVE  rows'[d] = rows[d]
    <3>1. /\ req[r].pc = "write" /\ req[r].op \in {"update", "transition"}
          /\ rows[req[r].id].version = req[r].expected
          /\ rows' = [rows EXCEPT ![req[r].id] = Overwritten(req[r])]
      BY <2>3, CommitEffect
    <3>2. rows[req[r].id].status = "draft"
      BY <3>1 DEF BaseInv, PendingBase
    <3>3. req[r].id # d
      BY <3>2 DEF PriorityLevel
    <3> QED BY <3>1, <3>3 DEF TypeOK
  <2>4. ASSUME NEW r \in Requests, CommitDelete(r)
        PROVE  /\ rows'[d].status = rows[d].status
               /\ rows'[d].evidence = rows[d].evidence
               /\ rows'[d].version = rows[d].version
    BY <2>4, DeleteKeeps
  <2> QED BY <2>1, <2>2, <2>3, <2>4, TablesStep
<1> QED BY <1>1, BaseAlways, PTL DEF Spec, FinalContentFrozen

=============================================================================
