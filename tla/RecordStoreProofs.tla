-------------------------- MODULE RecordStoreProofs --------------------------
(***************************************************************************)
(* Theorems about RecordStore, for any records, graphs, requests, users    *)
(* and contents: types, the register, what writers are answered, and what  *)
(* the log tells of a record.                                              *)
(***************************************************************************)
EXTENDS RecordStore, FiniteSetTheorems, TLAPS

-----------------------------------------------------------------------------
(* Type correctness *)

\* The statuses of one table are statuses.
LEMMA StatusesIn ==
  ASSUME NEW d \in Records
  PROVE  StatusesOf(d) \subseteq Statuses
  BY DEF Statuses

\* A blank request is well typed.
LEMMA IdleType == Idle \in Request /\ LocalsOK(Idle)
  BY DEF Idle, Request, LocalsOK, InFlight

\* A request stays one when one of its fields takes a value it may have.
LEMMA RequestField ==
  ASSUME NEW call \in Request
  PROVE  /\ \A v \in {"idle", "done", "gone"} \cup InFlight : [call EXCEPT !.pc = v] \in Request
         /\ \A v \in Users \cup {None} : [call EXCEPT !.actor = v] \in Request
         /\ \A v \in Nat : [call EXCEPT !.expected = v] \in Request
         /\ \A v \in Content \cup {None} : [call EXCEPT !.content = v] \in Request
         /\ \A v \in Statuses \cup {"none"} : [call EXCEPT !.before = v] \in Request
         /\ \A v \in Statuses \cup {"none"} : [call EXCEPT !.status = v] \in Request
         /\ \A v \in Codes \cup {0} : [call EXCEPT !.code = v] \in Request
         /\ \A v \in Row \cup {NoRow} : [call EXCEPT !.seen = v] \in Request
<1>1. \A v \in {"idle", "done", "gone"} \cup InFlight : [call EXCEPT !.pc = v] \in Request
  BY DEF Request
<1>2. \A v \in Users \cup {None} : [call EXCEPT !.actor = v] \in Request
  BY DEF Request
<1>3. \A v \in Nat : [call EXCEPT !.expected = v] \in Request
  BY DEF Request
<1>4. \A v \in Content \cup {None} : [call EXCEPT !.content = v] \in Request
  BY DEF Request
<1>5. \A v \in Statuses \cup {"none"} : [call EXCEPT !.before = v] \in Request
  BY DEF Request
<1>6. \A v \in Statuses \cup {"none"} : [call EXCEPT !.status = v] \in Request
  BY DEF Request
<1>7. \A v \in Codes \cup {0} : [call EXCEPT !.code = v] \in Request
  BY DEF Request
<1>8. \A v \in Row \cup {NoRow} : [call EXCEPT !.seen = v] \in Request
  BY DEF Request
<1> QED BY <1>1, <1>2, <1>3, <1>4, <1>5, <1>6, <1>7, <1>8

\* Answering a request yields a well-typed request.
LEMMA AnswerType ==
  ASSUME NEW call \in Request, NEW code \in Codes \cup {0}, NEW seen \in Row \cup {NoRow}
  PROVE  /\ Answer(call, code, seen) \in Request
         /\ LocalsOK(Answer(call, code, seen))
<1>1. Answer(call, code, seen) \in Request
  <2>1. [call EXCEPT !.pc = "done"] \in Request
    BY RequestField
  <2>2. [call EXCEPT !.pc = "done", !.actor = None] \in Request
    BY <2>1, RequestField
  <2>3. [call EXCEPT !.pc = "done", !.actor = None, !.before = "none"] \in Request
    BY <2>2, RequestField
  <2>4. [call EXCEPT !.pc = "done", !.actor = None, !.before = "none", !.code = code] \in Request
    BY <2>3, RequestField
  <2> QED BY <2>4, RequestField DEF Answer
<1>2. Answer(call, code, seen).pc = "done"
  BY DEF Answer, Request
<1> QED BY <1>1, <1>2 DEF LocalsOK, InFlight

\* So does refusing it.
LEMMA RefusedType ==
  ASSUME NEW call \in Request, NEW code \in Codes \cup {0}
  PROVE  /\ Refused(call, code) \in Request
         /\ Refused(call, code).pc = "done"
         /\ LocalsOK(Refused(call, code))
<1>1. Answer(call, code, NoRow) \in Request /\ Answer(call, code, NoRow).pc = "done"
  <2>1. Answer(call, code, NoRow) \in Request
    BY AnswerType
  <2>2. Answer(call, code, NoRow).pc = "done"
    BY DEF Answer, Request
  <2> QED BY <2>1, <2>2
<1>2. Refused(call, code) \in Request /\ Refused(call, code).pc = "done"
  <2>1. \A a \in Request, s \in Statuses \cup {"none"}, c \in Content \cup {None} :
          [a EXCEPT !.status = s, !.content = c] \in Request
    BY ZenonT(60) DEF Request
  <2>2. \A a \in Request : [a EXCEPT !.status = "none", !.content = None].pc = a.pc
    BY DEF Request
  <2> QED BY <1>1, <2>1, <2>2 DEF Refused
<1> QED BY <1>2 DEF LocalsOK, InFlight

\* A handler that has passed its checks has the locals its write needs.
LEMMA ProceedType ==
  ASSUME NEW call \in Request, NEW refusal \in Codes \cup {0},
         call.op \in Ops \ {"read"}, call.id \in Records, call.actor \in Users,
         refusal = 0 /\ call.op # "delete" =>
           call.status \in StatusesOf(call.id) /\ call.content \in Content
  PROVE  /\ Proceed(call, refusal) \in Request
         /\ LocalsOK(Proceed(call, refusal))
<1>1. CASE refusal = 0
  <2>1. Proceed(call, refusal) = [call EXCEPT !.pc = "write"]
    BY <1>1 DEF Proceed
  <2>2. Proceed(call, refusal) \in Request
    BY <2>1 DEF Request, InFlight
  <2>3. /\ Proceed(call, refusal).pc = "write" /\ Proceed(call, refusal).op = call.op
        /\ Proceed(call, refusal).id = call.id /\ Proceed(call, refusal).actor = call.actor
        /\ Proceed(call, refusal).status = call.status
        /\ Proceed(call, refusal).content = call.content
    BY <2>1 DEF Request
  <2> QED BY <1>1, <2>2, <2>3 DEF LocalsOK, InFlight
<1>2. CASE refusal # 0
  BY <1>2, RefusedType DEF Proceed
<1> QED BY <1>1, <1>2

\* A request as it arrives.
LEMMA CallType ==
  ASSUME NEW op \in Ops, NEW u \in Users \cup {None}, NEW d \in Records
  PROVE  /\ Call(op, u, d) \in Request
         /\ Call(op, u, d).pc = "idle"
         /\ Call(op, u, d).op = op
         /\ Call(op, u, d).actor = u
         /\ Call(op, u, d).id = d
         /\ Call(op, u, d).code = 0
<1>1. Call(op, u, d) \in Request
  BY ZenonT(60), IdleType DEF Call, Request
<1>2. Call(op, u, d).pc = "idle" /\ Call(op, u, d).op = op
  BY DEF Call, Idle
<1>3. Call(op, u, d).actor = u /\ Call(op, u, d).id = d /\ Call(op, u, d).code = 0
  BY DEF Call, Idle
<1> QED BY <1>1, <1>2, <1>3

\* The SELECT of the record answers with a row of the table or with 404.
LEMMA FetchedType ==
  ASSUME TypeOK, NEW call \in Request, call.id \in Records
  PROVE  Fetched(call) \in Request /\ LocalsOK(Fetched(call))
<1>1. rows[call.id] \in Row \cup {NoRow}
  BY DEF TypeOK
<1>2. CASE Live(call.id)
  <2>1. Fetched(call) = Answer(call, 200, rows[call.id])
    BY <1>2 DEF Fetched
  <2>2. 200 \in Codes \cup {0}
    BY DEF Codes
  <2> QED BY <1>1, <2>1, <2>2, AnswerType
<1>3. CASE ~Live(call.id)
  BY <1>3, RefusedType DEF Fetched, Codes
<1> QED BY <1>2, <1>3

\* Answering ends the handler.
LEMMA AnswerPc ==
  ASSUME NEW call \in Request, NEW code, NEW seen
  PROVE  Answer(call, code, seen).pc = "done"
  BY DEF Answer, Request

\* So does the SELECT of the record.
LEMMA FetchedPc ==
  ASSUME NEW call \in Request
  PROVE  Fetched(call).pc = "done"
  BY AnswerPc, RefusedType DEF Fetched, Codes

\* After the audit entry the handler reads again or is over.
LEMMA AuditedPc ==
  ASSUME NEW call \in Request
  PROVE  Audited(call).pc \in {"done", "reread"}
<1>1. CASE call.op = "create"
  BY <1>1, AnswerPc DEF Audited
<1>2. CASE call.op = "delete"
  BY <1>2, RefusedType DEF Audited, Codes
<1>3. CASE call.op \notin {"create", "delete"}
  <2>1. Audited(call) = [call EXCEPT !.pc = "reread"]
    BY <1>3 DEF Audited
  <2> QED BY <2>1 DEF Request
<1> QED BY <1>1, <1>2, <1>3

\* Replacing the call of one request keeps the others.
LEMMA ReqType ==
  ASSUME TypeOK, NEW r \in Requests, NEW call \in Request, LocalsOK(call),
         req' = [req EXCEPT ![r] = call]
  PROVE  /\ req' \in [Requests -> Request]
         /\ \A q \in Requests : LocalsOK(req'[q])
  BY DEF TypeOK

\* The seeded tables are well typed.
LEMMA InitType == Init => TypeOK
<1> SUFFICES ASSUME Init PROVE TypeOK
  OBVIOUS
<1>1. PICK c \in Content : rows = [d \in Records |-> SeedRow(d, c)]
  BY DEF Init
<1>2. ASSUME NEW d \in Records
      PROVE  /\ SeedRow(d, c) \in Row \cup {NoRow}
             /\ SeedRow(d, c).status \in StatusesOf(d) \cup {"none"}
  <2>1. CASE SeedStatus[d] = "none"
    BY <2>1 DEF SeedRow, NoRow
  <2>2. CASE SeedStatus[d] # "none"
    <3>1. SeedStatus[d] \in StatusesOf(d)
      BY <2>2, ConstantsAssumption DEF StatusesOf
    <3> QED BY <2>2, <3>1, StatusesIn DEF SeedRow, Row
  <2> QED BY <2>1, <2>2
<1>3. req \in [Requests -> Request] /\ \A r \in Requests : LocalsOK(req[r])
  BY IdleType DEF Init
<1> QED BY <1>1, <1>2, <1>3 DEF Init, TypeOK

\* A refusal is one of the answers' codes, or none.
LEMMA RefusalType ==
  ASSUME NEW u, NEW d, NEW x
  PROVE  /\ CreateRefusal(u, x) \in Codes \cup {0}
         /\ UpdateRefusal(u, d, x) \in Codes \cup {0}
         /\ TransitionRefusal(u, d, x) \in Codes \cup {0}
         /\ DeleteRefusal(u, d) \in Codes \cup {0}
  BY DEF CreateRefusal, UpdateRefusal, TransitionRefusal, DeleteRefusal, Codes

\* What the checks establish when they refuse nothing.
LEMMA NoRefusal ==
  ASSUME TypeOK, NEW u \in Users, NEW d \in Records
  PROVE  /\ \A c : CreateRefusal(u, c) = 0 => c # None
         /\ \A c : UpdateRefusal(u, d, c) = 0 => Live(d) /\ c # None
         /\ \A target : TransitionRefusal(u, d, target) = 0 =>
              /\ Live(d)
              /\ CanTransition(GraphOf[d], rows[d].status, target)
         /\ Live(d) => /\ rows[d] \in Row
                       /\ rows[d].status \in StatusesOf(d)
<1>1. \A c : CreateRefusal(u, c) = 0 => c # None
  BY DEF CreateRefusal
<1>2. \A c : UpdateRefusal(u, d, c) = 0 => Live(d) /\ c # None
  BY DEF UpdateRefusal
<1>3. \A target : TransitionRefusal(u, d, target) = 0 =>
        Live(d) /\ CanTransition(GraphOf[d], rows[d].status, target)
  BY DEF TransitionRefusal
<1>4. ASSUME Live(d)
      PROVE  rows[d] \in Row /\ rows[d].status \in StatusesOf(d)
  <2>1. rows[d] \in Row /\ rows[d].status \in StatusesOf(d) \cup {"none"}
    BY <1>4 DEF TypeOK, Live, NoRow
  <2>2. "none" \notin Statuses
    BY ConstantsAssumption DEF Statuses, StatusesOf
  <2> QED BY <2>1, <2>2 DEF Row
<1> QED BY <1>1, <1>2, <1>3, <1>4

\* Locals may be filled in with values of their types.
LEMMA LocalsType ==
  ASSUME NEW call \in Request, NEW v \in Nat,
         NEW b \in Statuses \cup {"none"}, NEW s \in Statuses \cup {"none"},
         NEW c \in Content \cup {None}
  PROVE  /\ [call EXCEPT !.status = s, !.content = c] \in Request
         /\ [call EXCEPT !.before = b] \in Request
         /\ [call EXCEPT !.expected = v, !.content = c, !.before = b, !.status = s] \in Request
<1>1. [call EXCEPT !.status = s, !.content = c] \in Request
  <2>1. [call EXCEPT !.status = s] \in Request
    BY RequestField
  <2> QED BY <2>1, RequestField
<1>2. [call EXCEPT !.before = b] \in Request
  BY RequestField
<1>3. [call EXCEPT !.expected = v, !.content = c, !.before = b, !.status = s] \in Request
  <2>1. [call EXCEPT !.expected = v] \in Request
    BY RequestField
  <2>2. [call EXCEPT !.expected = v, !.content = c] \in Request
    BY <2>1, RequestField
  <2>3. [call EXCEPT !.expected = v, !.content = c, !.before = b] \in Request
    BY <2>2, RequestField
  <2> QED BY <2>3, RequestField
<1> QED BY <1>1, <1>2, <1>3

\* What a handler that passes its checks takes along.
LEMMA ProceedWrites ==
  ASSUME NEW call \in Request, NEW refusal \in Codes \cup {0}, call.pc = "idle",
         Proceed(call, refusal).pc = "write"
  PROVE  /\ refusal = 0
         /\ Proceed(call, refusal).op = call.op
         /\ Proceed(call, refusal).actor = call.actor
         /\ Proceed(call, refusal).id = call.id
         /\ Proceed(call, refusal).expected = call.expected
         /\ Proceed(call, refusal).before = call.before
         /\ Proceed(call, refusal).status = call.status
         /\ Proceed(call, refusal).content = call.content
         /\ Proceed(call, refusal).code = call.code
<1>1. refusal = 0
  BY RefusedType DEF Proceed
<1>2. Proceed(call, refusal) = [call EXCEPT !.pc = "write"]
  BY <1>1 DEF Proceed
<1> QED BY <1>1, <1>2 DEF Request

\* The local variables of a create that has just been checked.
LEMMA CreateArrives ==
  ASSUME NEW r \in Requests, Create(r)
  PROVE  \E u \in Users, d \in Records, c \in Content \cup {None}, call \in Request :
           /\ req' = [req EXCEPT ![r] = Proceed(call, CreateRefusal(u, c))]
           /\ call.pc = "idle" /\ call.op = "create" /\ call.actor = u
           /\ call.id = d /\ call.code = 0
           /\ call.status = InitialStatusOf[d] /\ call.content = c
<1>1. PICK u \in Users, d \in Records, c \in Content \cup {None} :
        req' = [req EXCEPT ![r] =
                  Proceed([Call("create", u, d) EXCEPT
                             !.status = InitialStatusOf[d], !.content = c],
                          CreateRefusal(u, c))]
  BY DEF Create
<1> DEFINE call == [Call("create", u, d) EXCEPT !.status = InitialStatusOf[d], !.content = c]
<1>2. /\ Call("create", u, d) \in Request
      /\ Call("create", u, d).pc = "idle"
      /\ Call("create", u, d).op = "create"
      /\ Call("create", u, d).actor = u
      /\ Call("create", u, d).id = d
      /\ Call("create", u, d).code = 0
  BY CallType DEF Ops
<1>3. InitialStatusOf[d] \in Statuses
  BY ConstantsAssumption, StatusesIn DEF StatusesOf
<1>4. call \in Request
  BY ZenonT(60), <1>2, <1>3, LocalsType, 0 \in Nat
<1>5. call.pc = "idle" /\ call.op = "create" /\ call.actor = u /\ call.id = d /\ call.code = 0
  BY <1>2 DEF Request
<1>6. call.status = InitialStatusOf[d] /\ call.content = c
  BY <1>2 DEF Request
<1>7. req' = [req EXCEPT ![r] = Proceed(call, CreateRefusal(u, c))]
  BY <1>1
<1> HIDE DEF call
<1> QED BY <1>4, <1>5, <1>6, <1>7

\* The same for a delete.
LEMMA DeleteArrives ==
  ASSUME TypeOK, NEW r \in Requests, Delete(r)
  PROVE  \E u \in Users, d \in Records, call \in Request :
           /\ req' = [req EXCEPT ![r] = Proceed(call, DeleteRefusal(u, d))]
           /\ call.pc = "idle" /\ call.op = "delete" /\ call.actor = u
           /\ call.id = d /\ call.code = 0
<1>1. PICK u \in Users, d \in Records :
        req' = [req EXCEPT ![r] =
                  Proceed([Call("delete", u, d) EXCEPT !.before = rows[d].status],
                          DeleteRefusal(u, d))]
  BY DEF Delete
<1> DEFINE call == [Call("delete", u, d) EXCEPT !.before = rows[d].status]
<1>2. /\ Call("delete", u, d) \in Request
      /\ Call("delete", u, d).pc = "idle"
      /\ Call("delete", u, d).op = "delete"
      /\ Call("delete", u, d).actor = u
      /\ Call("delete", u, d).id = d
      /\ Call("delete", u, d).code = 0
  BY CallType DEF Ops
<1>3. rows[d].status \in Statuses \cup {"none"}
  BY SMTT(60), StatusesIn DEF TypeOK
<1>4. call \in Request
  BY ZenonT(60), <1>2, <1>3, LocalsType, 0 \in Nat
<1>5. call.pc = "idle" /\ call.op = "delete" /\ call.actor = u /\ call.id = d /\ call.code = 0
  BY <1>2 DEF Request
<1>6. req' = [req EXCEPT ![r] = Proceed(call, DeleteRefusal(u, d))]
  BY <1>1
<1> HIDE DEF call
<1> QED BY <1>4, <1>5, <1>6

\* The same for an update, whose status is the row's.
LEMMA UpdateArrives ==
  ASSUME TypeOK, NEW r \in Requests, Update(r)
  PROVE  \E u \in Users, d \in Records, c \in Content \cup {None}, call \in Request :
           /\ req' = [req EXCEPT ![r] = Proceed(call, UpdateRefusal(u, d, c))]
           /\ call.pc = "idle" /\ call.op = "update" /\ call.actor = u
           /\ call.id = d /\ call.code = 0
           /\ call.status = rows[d].status /\ call.content = c
           /\ UpdateRefusal(u, d, c) = 0 => call.expected \in ExpectedVersions(d)
<1>1. PICK u \in Users, d \in Records, c \in Content \cup {None} :
        \E v \in IF UpdateRefusal(u, d, c) = 0 THEN ExpectedVersions(d) ELSE {0} :
          req' = [req EXCEPT ![r] =
                    Proceed([Call("update", u, d) EXCEPT
                               !.expected = v, !.content = c,
                               !.before = rows[d].status, !.status = rows[d].status],
                            UpdateRefusal(u, d, c))]
  BY ZenonT(30) DEF Update
<1>2. PICK v \in IF UpdateRefusal(u, d, c) = 0 THEN ExpectedVersions(d) ELSE {0} :
        req' = [req EXCEPT ![r] =
                  Proceed([Call("update", u, d) EXCEPT
                             !.expected = v, !.content = c,
                             !.before = rows[d].status, !.status = rows[d].status],
                          UpdateRefusal(u, d, c))]
  BY <1>1
<1> DEFINE call == [Call("update", u, d) EXCEPT
                      !.expected = v, !.content = c,
                      !.before = rows[d].status, !.status = rows[d].status]
<1>3. /\ Call("update", u, d) \in Request
      /\ Call("update", u, d).pc = "idle"
      /\ Call("update", u, d).op = "update"
      /\ Call("update", u, d).actor = u
      /\ Call("update", u, d).id = d
      /\ Call("update", u, d).code = 0
  BY CallType DEF Ops
<1>4. rows[d].status \in Statuses \cup {"none"} /\ v \in Nat
  BY StatusesIn DEF TypeOK, ExpectedVersions
<1>5. call \in Request
  BY <1>3, <1>4, LocalsType
<1>6. /\ call.pc = "idle" /\ call.op = "update" /\ call.actor = u /\ call.id = d /\ call.code = 0
      /\ call.status = rows[d].status
  BY <1>3 DEF Request
<1>7. call.content = c /\ call.expected = v
  BY <1>3 DEF Request
<1>8. req' = [req EXCEPT ![r] = Proceed(call, UpdateRefusal(u, d, c))]
  BY <1>2
<1> HIDE DEF call
<1> QED BY <1>5, <1>6, <1>7, <1>8

\* The same for a transition: the status is the target, content and before-state
\* are the row's.
LEMMA TransitionArrives ==
  ASSUME TypeOK, NEW r \in Requests, Transition(r)
  PROVE  \E u \in Users, d \in Records, call \in Request :
           /\ req' = [req EXCEPT ![r] =
                        Proceed(call, TransitionRefusal(u, d, call.status))]
           /\ call.pc = "idle" /\ call.op = "transition" /\ call.actor = u
           /\ call.id = d /\ call.code = 0
           /\ call.status \in StatusesOf(d) /\ call.content = rows[d].content
           /\ call.before = rows[d].status
           /\ TransitionRefusal(u, d, call.status) = 0 => call.expected \in ExpectedVersions(d)
<1>1. PICK u \in Users, d \in Records : \E target \in StatusesOf(d) :
        \E v \in IF TransitionRefusal(u, d, target) = 0 THEN ExpectedVersions(d) ELSE {0} :
          req' = [req EXCEPT ![r] =
                    Proceed([Call("transition", u, d) EXCEPT
                               !.expected = v, !.content = rows[d].content,
                               !.before = rows[d].status, !.status = target],
                            TransitionRefusal(u, d, target))]
  BY ZenonT(30) DEF Transition
<1>9. PICK target \in StatusesOf(d) :
        \E v \in IF TransitionRefusal(u, d, target) = 0 THEN ExpectedVersions(d) ELSE {0} :
          req' = [req EXCEPT ![r] =
                    Proceed([Call("transition", u, d) EXCEPT
                               !.expected = v, !.content = rows[d].content,
                               !.before = rows[d].status, !.status = target],
                            TransitionRefusal(u, d, target))]
  BY <1>1
<1>2. PICK v \in IF TransitionRefusal(u, d, target) = 0 THEN ExpectedVersions(d) ELSE {0} :
        req' = [req EXCEPT ![r] =
                  Proceed([Call("transition", u, d) EXCEPT
                             !.expected = v, !.content = rows[d].content,
                             !.before = rows[d].status, !.status = target],
                          TransitionRefusal(u, d, target))]
  BY <1>9
<1> DEFINE call == [Call("transition", u, d) EXCEPT
                      !.expected = v, !.content = rows[d].content,
                      !.before = rows[d].status, !.status = target]
<1>3. /\ Call("transition", u, d) \in Request
      /\ Call("transition", u, d).pc = "idle"
      /\ Call("transition", u, d).op = "transition"
      /\ Call("transition", u, d).actor = u
      /\ Call("transition", u, d).id = d
      /\ Call("transition", u, d).code = 0
  BY CallType DEF Ops
<1>4. /\ rows[d].status \in Statuses \cup {"none"}
      /\ target \in Statuses
      /\ rows[d].content \in Content \cup {None}
      /\ v \in Nat
  BY StatusesIn DEF TypeOK, Row, NoRow, ExpectedVersions
<1>5. call \in Request
  BY <1>3, <1>4, LocalsType
<1>6. /\ call.pc = "idle" /\ call.op = "transition" /\ call.actor = u
      /\ call.id = d /\ call.code = 0
      /\ call.status = target
  BY <1>3 DEF Request
<1>7. call.content = rows[d].content /\ call.expected = v /\ call.before = rows[d].status
  BY <1>3 DEF Request
<1>8. req' = [req EXCEPT ![r] = Proceed(call, TransitionRefusal(u, d, target))]
  BY <1>2
<1> HIDE DEF call
<1> QED BY <1>5, <1>6, <1>7, <1>8

\* A request that arrives leaves the tables alone and gets well-typed locals.
LEMMA ArriveType ==
  ASSUME TypeOK, NEW r \in Requests, Arrive(r)
  PROVE  TypeOK'
<1> USE RefusalType
<1>1. CASE Create(r)
  <2>1. PICK u \in Users, d \in Records, c \in Content \cup {None}, call \in Request :
          /\ req' = [req EXCEPT ![r] = Proceed(call, CreateRefusal(u, c))]
          /\ call.op = "create" /\ call.actor = u /\ call.id = d
          /\ call.status = InitialStatusOf[d] /\ call.content = c
    BY <1>1, CreateArrives
  <2>2. CreateRefusal(u, c) = 0 => c \in Content
    BY NoRefusal
  <2>3. InitialStatusOf[d] \in StatusesOf(d)
    BY ConstantsAssumption DEF StatusesOf
  <2>4. Proceed(call, CreateRefusal(u, c)) \in Request
        /\ LocalsOK(Proceed(call, CreateRefusal(u, c)))
    BY <2>1, <2>2, <2>3, ProceedType DEF Ops
  <2> QED BY <2>1, <2>4, <1>1, ReqType DEF Create, TypeOK
<1>2. CASE Update(r)
  <2>1. PICK u \in Users, d \in Records, c \in Content \cup {None}, call \in Request :
          /\ req' = [req EXCEPT ![r] = Proceed(call, UpdateRefusal(u, d, c))]
          /\ call.op = "update" /\ call.actor = u /\ call.id = d
          /\ call.status = rows[d].status /\ call.content = c
    BY <1>2, UpdateArrives
  <2>2. UpdateRefusal(u, d, c) = 0 => c \in Content /\ rows[d].status \in StatusesOf(d)
    BY NoRefusal
  <2>3. Proceed(call, UpdateRefusal(u, d, c)) \in Request
        /\ LocalsOK(Proceed(call, UpdateRefusal(u, d, c)))
    BY <2>1, <2>2, ProceedType DEF Ops
  <2> QED BY <2>1, <2>3, <1>2, ReqType DEF Update, TypeOK
<1>3. CASE Transition(r)
  <2>1. PICK u \in Users, d \in Records, call \in Request :
          /\ req' = [req EXCEPT ![r] = Proceed(call, TransitionRefusal(u, d, call.status))]
          /\ call.op = "transition" /\ call.actor = u /\ call.id = d
          /\ call.status \in StatusesOf(d) /\ call.content = rows[d].content
    BY <1>3, TransitionArrives
  <2>2. TransitionRefusal(u, d, call.status) = 0 => rows[d].content \in Content
    BY NoRefusal DEF Row
  <2>3. Proceed(call, TransitionRefusal(u, d, call.status)) \in Request
        /\ LocalsOK(Proceed(call, TransitionRefusal(u, d, call.status)))
    BY <2>1, <2>2, ProceedType DEF Ops
  <2> QED BY <2>1, <2>3, <1>3, ReqType DEF Transition, TypeOK
<1>4. CASE Delete(r)
  <2>1. PICK u \in Users, d \in Records, call \in Request :
          /\ req' = [req EXCEPT ![r] = Proceed(call, DeleteRefusal(u, d))]
          /\ call.op = "delete" /\ call.actor = u /\ call.id = d
    BY <1>4, DeleteArrives
  <2>2. /\ Proceed(call, DeleteRefusal(u, d)) \in Request
        /\ LocalsOK(Proceed(call, DeleteRefusal(u, d)))
    BY <2>1, ProceedType DEF Ops
  <2> QED BY <2>1, <2>2, <1>4, ReqType DEF Delete, TypeOK
<1>5. CASE Read(r)
  <2>1. PICK d \in Records : req' = [req EXCEPT ![r] = Fetched(Call("read", None, d))]
    BY <1>5 DEF Read
  <2>2. Fetched(Call("read", None, d)) \in Request /\ LocalsOK(Fetched(Call("read", None, d)))
    BY CallType, FetchedType DEF Ops
  <2> QED BY <2>1, <2>2, <1>5, ReqType DEF Read, TypeOK
<1> QED BY <1>1, <1>2, <1>3, <1>4, <1>5 DEF Arrive

\* A request that has written goes on to the audit or answers 500.
LEMMA AppliedType ==
  ASSUME TypeOK, NEW r \in Requests, req[r].pc = "write", Applied(r)
  PROVE  /\ req' \in [Requests -> Request]
         /\ \A q \in Requests : LocalsOK(req'[q])
<1>1. req[r] \in Request /\ LocalsOK(req[r])
  BY DEF TypeOK
<1>2. CASE req' = [req EXCEPT ![r].pc = "audit"]
  <2> DEFINE call == [req[r] EXCEPT !.pc = "audit"]
  <2>1. req' = [req EXCEPT ![r] = call]
    BY <1>2
  <2>2. call \in Request
    BY <1>1 DEF Request, InFlight
  <2>3. /\ call.pc = "audit" /\ call.op = req[r].op /\ call.id = req[r].id
        /\ call.actor = req[r].actor /\ call.status = req[r].status
        /\ call.content = req[r].content
    BY <1>1 DEF Request
  <2>4. LocalsOK(call)
    BY <1>1, <2>3 DEF LocalsOK, InFlight
  <2> HIDE DEF call
  <2> QED BY <2>1, <2>2, <2>4, ReqType
<1>3. CASE req' = [req EXCEPT ![r] = Refused(req[r], 500)]
  <2>1. Refused(req[r], 500) \in Request /\ LocalsOK(Refused(req[r], 500))
    BY <1>1, RefusedType DEF Codes
  <2> QED BY ZenonT(60), <1>3, <2>1, ReqType
<1> QED BY <1>2, <1>3 DEF Applied

\* A handler's row and audit entry are well typed, of its own table's statuses.
LEMMA WrittenType ==
  ASSUME TypeOK, NEW r \in Requests, req[r].pc \in {"write", "audit"}
  PROVE  /\ req[r] \in Request
         /\ req[r].id \in Records
         /\ req[r].op \in Ops \ {"read"}
         /\ req[r].op # "delete" =>
              /\ req[r].status \in StatusesOf(req[r].id)
              /\ NewRow(req[r]) \in Row
              /\ rows[req[r].id] \in Row => Overwritten(req[r]) \in Row
         /\ AuditEntry(req[r], r) \in AuditLog
<1>1. /\ req[r] \in Request
      /\ req[r].op \in Ops \ {"read"}
      /\ req[r].id \in Records
      /\ req[r].actor \in Users
      /\ req[r].op # "delete" =>
           req[r].status \in StatusesOf(req[r].id) /\ req[r].content \in Content
      /\ req[r].expected \in Nat
      /\ req[r].before \in Statuses \cup {"none"}
  <2>1. req[r] \in Request /\ LocalsOK(req[r])
    BY DEF TypeOK
  <2> QED BY <2>1 DEF LocalsOK, InFlight, Request
<1>2. ASSUME req[r].op # "delete"
      PROVE  /\ req[r].status \in Statuses
             /\ NewRow(req[r]) \in Row
             /\ rows[req[r].id] \in Row => Overwritten(req[r]) \in Row
  <2>1. req[r].status \in Statuses
    BY <1>1, <1>2, StatusesIn
  <2>2. NewRow(req[r]) \in Row
    BY <1>1, <1>2, <2>1 DEF NewRow, Row
  <2>3. ASSUME rows[req[r].id] \in Row
        PROVE  Overwritten(req[r]) \in Row
    <3>1. req[r].expected + 1 \in Nat \ {0}
      BY <1>1
    <3>2. \A row \in Row, status \in Statuses, c \in Content, v \in Nat \ {0} :
            [row EXCEPT !.status = status, !.content = c, !.version = v] \in Row
      BY DEF Row
    <3> QED BY <1>1, <1>2, <2>1, <2>3, <3>1, <3>2 DEF Overwritten
  <2> QED BY <2>1, <2>2, <2>3
<1>3. AuditEntry(req[r], r) \in AuditLog
  BY <1>1, <1>2 DEF AuditEntry, AuditLog
<1> QED BY <1>1, <1>2, <1>3

\* One row of its type, with a status of its table, keeps the tables well typed.
LEMMA RowsType ==
  ASSUME TypeOK, NEW d \in Records, NEW row \in Row, row.status \in StatusesOf(d),
         rows' = [rows EXCEPT ![d] = row]
  PROVE  /\ rows' \in [Records -> Row \cup {NoRow}]
         /\ \A e \in Records : rows'[e].status \in StatusesOf(e) \cup {"none"}
  BY DEF TypeOK

\* A statement leaves the tables well typed.
LEMMA WriteType ==
  ASSUME TypeOK, NEW r \in Requests, Write(r)
  PROVE  TypeOK'
<1> DEFINE d == req[r].id
<1>1. req[r].pc = "write" /\ req[r] \in Request /\ d \in Records
  BY WrittenType
  DEF Write, CommitCreate, CodeTaken, CommitUpdate, Conflict, CommitDelete, DeleteMissed
<1>2. Live(d) => rows[d] \in Row /\ rows[d].status \in StatusesOf(d)
  <2>1. rows[d] \in Row \cup {NoRow} /\ rows[d].status \in StatusesOf(d) \cup {"none"}
    BY <1>1 DEF TypeOK
  <2>2. "none" \notin Statuses
    BY ConstantsAssumption DEF Statuses, StatusesOf
  <2> QED BY <2>1, <2>2 DEF Live, NoRow, Row
<1>3. CASE CommitCreate(r)
  <2>1. /\ rows' = [rows EXCEPT ![d] = NewRow(req[r])] /\ NewRow(req[r]) \in Row
        /\ req[r].status \in StatusesOf(d)
    BY <1>1, <1>3, WrittenType DEF CommitCreate
  <2>2. NewRow(req[r]).status \in StatusesOf(d)
    BY <2>1 DEF NewRow
  <2> QED BY <2>1, <2>2, <1>1, <1>3, RowsType, AppliedType DEF CommitCreate, TypeOK
<1>4. CASE CommitUpdate(r)
  <2>1. /\ rows' = [rows EXCEPT ![d] = Overwritten(req[r])] /\ Overwritten(req[r]) \in Row
        /\ req[r].status \in StatusesOf(d) /\ rows[d] \in Row
    BY <1>1, <1>2, <1>4, WrittenType DEF CommitUpdate, Matches
  <2>2. Overwritten(req[r]).status \in StatusesOf(d)
    BY <2>1 DEF Overwritten, Row
  <2> QED BY <2>1, <2>2, <1>1, <1>4, RowsType, AppliedType DEF CommitUpdate, TypeOK
<1>5. CASE CommitDelete(r)
  <2> DEFINE row == [rows[d] EXCEPT !.state = "deleted"]
  <2>1. rows' = [rows EXCEPT ![d] = row]
    BY <1>5 DEF CommitDelete
  <2>2. row \in Row /\ row.status \in StatusesOf(d)
    BY <1>2, <1>5 DEF CommitDelete, Row
  <2> HIDE DEF row
  <2> QED BY <2>1, <2>2, <1>1, <1>5, RowsType, AppliedType DEF CommitDelete, TypeOK
<1>6. CASE CodeTaken(r)
  BY <1>1, <1>6, RefusedType, ReqType DEF CodeTaken, TypeOK, Codes
<1>7. CASE Conflict(r)
  BY <1>1, <1>7, RefusedType, ReqType DEF Conflict, TypeOK, Codes
<1>8. CASE DeleteMissed(r)
  BY <1>1, <1>8, RefusedType, ReqType DEF DeleteMissed, TypeOK, Codes
<1> QED BY <1>3, <1>4, <1>5, <1>6, <1>7, <1>8 DEF Write

\* What follows the audit entry is well typed.
LEMMA AuditedType ==
  ASSUME TypeOK, NEW r \in Requests, req[r].pc = "audit"
  PROVE  Audited(req[r]) \in Request /\ LocalsOK(Audited(req[r]))
<1>1. req[r] \in Request /\ LocalsOK(req[r]) /\ req[r].op \in Ops \ {"read"}
  BY WrittenType DEF TypeOK
<1>2. CASE req[r].op = "create"
  <2>1. Audited(req[r]) = Answer(req[r], 201, NewRow(req[r]))
    BY <1>2 DEF Audited
  <2>2. NewRow(req[r]) \in Row
    BY <1>2, WrittenType
  <2> QED BY <1>1, <2>1, <2>2, AnswerType DEF Codes
<1>3. CASE req[r].op = "delete"
  <2>1. Audited(req[r]) = Refused(req[r], 204)
    BY <1>3 DEF Audited
  <2> QED BY <1>1, <2>1, RefusedType DEF Codes
<1>4. CASE req[r].op \in {"update", "transition"}
  <2>1. Audited(req[r]) = [req[r] EXCEPT !.pc = "reread"]
    BY <1>4 DEF Audited
  <2>2. Audited(req[r]) \in Request
    BY <1>1, <2>1 DEF Request, InFlight
  <2>3. /\ Audited(req[r]).pc = "reread" /\ Audited(req[r]).op = req[r].op
        /\ Audited(req[r]).id = req[r].id
    BY <1>1, <2>1 DEF Request
  <2>4. req[r].id \in Records
    BY WrittenType
  <2> QED BY <1>1, <1>4, <2>2, <2>3, <2>4 DEF LocalsOK, InFlight
<1> QED BY <1>1, <1>2, <1>3, <1>4 DEF Ops

\* A step after the write leaves the tables well typed, failed or not.
LEMMA AfterWriteType ==
  ASSUME TypeOK, NEW r \in Requests, AppendAudit(r) \/ Reread(r) \/ Fail(r)
  PROVE  TypeOK'
<1>1. req[r] \in Request /\ LocalsOK(req[r])
  BY DEF TypeOK
<1>2. CASE AppendAudit(r)
  BY <1>2, AuditedType, WrittenType, ReqType DEF AppendAudit, TypeOK
<1>3. CASE AuditFails(r)
  <2>1. AuditFailed(req[r]) \in Request /\ LocalsOK(AuditFailed(req[r]))
    BY <1>1, <1>3, AuditedType, RefusedType DEF AuditFails, AuditFailed, Codes
  <2> QED BY <1>3, <2>1, WrittenType, ReqType DEF AuditFails, TypeOK
<1>4. CASE Reread(r)
  <2>1. Fetched(req[r]) \in Request /\ LocalsOK(Fetched(req[r]))
    BY <1>1, <1>4, FetchedType DEF Reread, LocalsOK, InFlight
  <2> QED BY <1>4, <2>1, ReqType DEF Reread, TypeOK
<1>5. CASE DatabaseError(r)
  BY <1>1, <1>5, RefusedType, ReqType DEF DatabaseError, TypeOK, Codes
<1>6. CASE Crash(r)
  <2> DEFINE gone == [Refused(req[r], 0) EXCEPT !.pc = "gone"]
  <2>1. Refused(req[r], 0) \in Request
    BY <1>1, RefusedType
  <2>2. gone \in Request /\ gone.pc = "gone"
    BY <2>1 DEF Request
  <2>3. req' = [req EXCEPT ![r] = gone]
    BY <1>6 DEF Crash
  <2> HIDE DEF gone
  <2>4. LocalsOK(gone)
    BY <2>2 DEF LocalsOK, InFlight
  <2> QED BY <1>6, <2>2, <2>3, <2>4, ReqType DEF Crash, TypeOK
<1> QED BY <1>2, <1>3, <1>4, <1>5, <1>6 DEF Fail

\* No step leaves the types.
LEMMA NextType == TypeOK /\ [Next]_vars => TypeOK'
<1> SUFFICES ASSUME TypeOK, [Next]_vars PROVE TypeOK'
  OBVIOUS
<1>1. CASE UNCHANGED vars
  BY <1>1 DEF vars, TypeOK
<1>2. ASSUME NEW r \in Requests, Arrive(r) \/ Continue(r) \/ Fail(r)
      PROVE  TypeOK'
  BY <1>2, ArriveType, WriteType, AfterWriteType DEF Continue
<1> QED BY <1>1, <1>2 DEF Next

\* Every variable always has its type, every record a status of its own table
\* and every handler under way the locals it needs.
THEOREM TypeCorrect == Spec => []TypeOK
<1>1. Init => TypeOK
  BY InitType
<1>2. TypeOK /\ [Next]_vars => TypeOK'
  BY NextType
<1> QED BY <1>1, <1>2, PTL DEF Spec

-----------------------------------------------------------------------------
(* What a step can do *)

\* Only the three commits touch the tables.
LEMMA RowsStep ==
  ASSUME [Next]_vars
  PROVE  \/ UNCHANGED rows
         \/ \E r \in Requests : CommitCreate(r) \/ CommitUpdate(r) \/ CommitDelete(r)
<1>1. CASE UNCHANGED vars
  BY <1>1 DEF vars
<1>2. ASSUME NEW r \in Requests, Arrive(r) \/ Continue(r) \/ Fail(r)
      PROVE  UNCHANGED rows \/ CommitCreate(r) \/ CommitUpdate(r) \/ CommitDelete(r)
  <2>1. CASE Arrive(r)
    BY <2>1 DEF Arrive, Create, Update, Transition, Delete, Read
  <2>2. CASE Continue(r)
    BY <2>2 DEF Continue, Write, CodeTaken, Conflict, DeleteMissed, AppendAudit, Reread
  <2>3. CASE Fail(r)
    BY <2>3 DEF Fail, AuditFails, DatabaseError, Crash
  <2> QED BY <1>2, <2>1, <2>2, <2>3
<1> QED BY <1>1, <1>2 DEF Next

\* The precise effect of each commit on the row it is about.
LEMMA CommitEffect ==
  ASSUME TypeOK, NEW r \in Requests
  PROVE  /\ CommitCreate(r) =>
              /\ req[r].pc = "write" /\ req[r].op = "create" /\ req[r].id \in Records
              /\ req[r].content \in Content
              /\ rows[req[r].id] = NoRow
              /\ rows' = [rows EXCEPT ![req[r].id] = NewRow(req[r])]
         /\ CommitUpdate(r) =>
              /\ req[r].pc = "write" /\ req[r].op \in {"update", "transition"}
              /\ req[r].id \in Records
              /\ req[r].status \in StatusesOf(req[r].id) /\ req[r].content \in Content
              /\ rows[req[r].id] \in Row
              /\ rows[req[r].id].state = "live"
              /\ rows[req[r].id].version = req[r].expected
              /\ Overwritten(req[r]) \in Row
              /\ rows' = [rows EXCEPT ![req[r].id] = Overwritten(req[r])]
         /\ CommitDelete(r) =>
              /\ req[r].id \in Records
              /\ rows[req[r].id] \in Row
              /\ rows[req[r].id].state = "live"
              /\ rows' = [rows EXCEPT ![req[r].id] = [@ EXCEPT !.state = "deleted"]]
<1>1. ASSUME CommitCreate(r) \/ CommitUpdate(r) \/ CommitDelete(r)
      PROVE  /\ req[r].pc = "write" /\ req[r].id \in Records
             /\ rows[req[r].id] \in Row \cup {NoRow}
             /\ LocalsOK(req[r])
  BY <1>1, WrittenType DEF CommitCreate, CommitUpdate, CommitDelete, TypeOK
<1>2. CommitCreate(r) => rows[req[r].id] = NoRow /\ req[r].content \in Content
  BY <1>1 DEF CommitCreate, Row, LocalsOK
<1>3. ASSUME CommitUpdate(r)
      PROVE  /\ rows[req[r].id] \in Row
             /\ rows[req[r].id].state = "live"
             /\ rows[req[r].id].version = req[r].expected
             /\ req[r].status \in StatusesOf(req[r].id)
             /\ req[r].content \in Content
             /\ Overwritten(req[r]) \in Row
  <2>1. /\ rows[req[r].id] \in Row
        /\ rows[req[r].id].state = "live"
        /\ rows[req[r].id].version = req[r].expected
    BY <1>1, <1>3 DEF CommitUpdate, Matches, Live, NoRow
  <2>2. req[r].status \in StatusesOf(req[r].id) /\ req[r].content \in Content
    BY <1>1, <1>3 DEF CommitUpdate, LocalsOK
  <2>3. Overwritten(req[r]) \in Row
    BY <1>1, <1>3, <2>1, WrittenType DEF CommitUpdate
  <2> QED BY <2>1, <2>2, <2>3
<1>4. CommitDelete(r) => rows[req[r].id] \in Row /\ rows[req[r].id].state = "live"
  BY <1>1 DEF CommitDelete, Live, NoRow
<1> QED
  BY <1>1, <1>2, <1>3, <1>4 DEF CommitCreate, CommitUpdate, CommitDelete

\* What a matching update leaves in the row.
LEMMA OverwrittenEffect ==
  ASSUME TypeOK, NEW r \in Requests, CommitUpdate(r)
  PROVE  /\ Overwritten(req[r]).state = "live"
         /\ Overwritten(req[r]).status = req[r].status
         /\ Overwritten(req[r]).content = req[r].content
         /\ Overwritten(req[r]).version = rows[req[r].id].version + 1
  BY CommitEffect DEF Overwritten, Row

\* What a delete leaves in the row.
LEMMA DeletedEffect ==
  ASSUME NEW row \in Row
  PROVE  /\ [row EXCEPT !.state = "deleted"] \in Row
         /\ [row EXCEPT !.state = "deleted"].state = "deleted"
         /\ [row EXCEPT !.state = "deleted"].version = row.version
         /\ [row EXCEPT !.state = "deleted"].status = row.status
         /\ [row EXCEPT !.state = "deleted"].content = row.content
  BY DEF Row

\* A stored row stays stored, and its version counts its changes.
LEMMA RowKept ==
  ASSUME TypeOK, [Next]_vars, NEW d \in Records, rows[d] \in Row
  PROVE  /\ rows'[d] \in Row
         /\ \/ /\ rows'[d].version = rows[d].version
               /\ rows'[d].status = rows[d].status
               /\ rows'[d].content = rows[d].content
            \/ rows'[d].version = rows[d].version + 1
<1>1. CASE UNCHANGED rows
  BY <1>1
<1>2. ASSUME NEW r \in Requests, CommitCreate(r)
      PROVE  rows'[d] = rows[d]
  <2>1. NoRow \notin Row
    BY DEF NoRow, Row
  <2> QED BY <1>2, <2>1, CommitEffect DEF TypeOK
<1>3. ASSUME NEW r \in Requests, CommitUpdate(r)
      PROVE  \/ rows'[d] = rows[d]
             \/ rows'[d] \in Row /\ rows'[d].version = rows[d].version + 1
  BY ZenonT(60), <1>3, CommitEffect, OverwrittenEffect DEF TypeOK
<1>4. ASSUME NEW r \in Requests, CommitDelete(r)
      PROVE  rows'[d] = rows[d] \/ rows'[d] = [rows[d] EXCEPT !.state = "deleted"]
  <2>1. /\ req[r].id \in Records
        /\ rows' = [rows EXCEPT ![req[r].id] = [@ EXCEPT !.state = "deleted"]]
    BY <1>4, CommitEffect
  <2>2. CASE req[r].id = d
    BY <2>1, <2>2 DEF TypeOK
  <2>3. CASE req[r].id # d
    BY <2>1, <2>3 DEF TypeOK
  <2> QED BY <2>2, <2>3
<1> QED BY <1>1, <1>2, <1>3, <1>4, RowsStep, DeletedEffect

\* A deleted record stays deleted.
LEMMA DeletedForGood ==
  ASSUME TypeOK, [Next]_vars, NEW d \in Records, rows[d].state = "deleted"
  PROVE  rows'[d].state = "deleted"
<1>1. ASSUME NEW r \in Requests, CommitCreate(r)
      PROVE  rows'[d] = rows[d]
  <2>1. rows[req[r].id].state = "absent"
    BY <1>1 DEF CommitCreate
  <2> QED BY <1>1, <2>1, CommitEffect DEF TypeOK
<1>2. ASSUME NEW r \in Requests, CommitUpdate(r)
      PROVE  rows'[d] = rows[d]
  <2>1. rows[req[r].id].state = "live"
    BY <1>2 DEF CommitUpdate, Matches, Live
  <2> QED BY <1>2, <2>1, CommitEffect DEF TypeOK
<1>3. ASSUME NEW r \in Requests, CommitDelete(r)
      PROVE  rows'[d] = rows[d]
  <2>1. rows[req[r].id].state = "live"
    BY <1>3 DEF CommitDelete, Live
  <2> QED BY <1>3, <2>1, CommitEffect DEF TypeOK
<1> QED BY <1>1, <1>2, <1>3, RowsStep

\* The step of one request leaves the others alone.
LEMMA OthersKept ==
  ASSUME TypeOK, NEW r \in Requests, NEW q \in Requests, r # q,
         Arrive(r) \/ Continue(r) \/ Fail(r)
  PROVE  req'[q] = req[q]
<1>1. CASE Arrive(r)
  BY ZenonT(60), <1>1 DEF TypeOK, Arrive, Create, Update, Transition, Delete, Read
<1>2. CASE Continue(r)
  <2>1. CASE Write(r)
    BY <2>1 DEF TypeOK, Write, CommitCreate, CodeTaken, CommitUpdate, Conflict, CommitDelete,
                DeleteMissed, Applied
  <2>2. CASE AppendAudit(r) \/ Reread(r)
    BY <2>2 DEF TypeOK, AppendAudit, Reread
  <2> QED BY <1>2, <2>1, <2>2 DEF Continue
<1>3. CASE Fail(r)
  BY <1>3 DEF TypeOK, Fail, AuditFails, DatabaseError, Crash
<1> QED BY <1>1, <1>2, <1>3

\* A handler about to write has either been there before the step, untouched,
\* or has just passed its checks on the row as it is.
LEMMA PendingStep ==
  ASSUME TypeOK, [Next]_vars, NEW q \in Requests, req'[q].pc = "write"
  PROVE  \/ req'[q] = req[q]
         \/ /\ UNCHANGED rows
            /\ \E u \in Users, d \in Records :
                 /\ req'[q].id = d
                 /\ \/ req'[q].op = "delete"
                    \/ req'[q].op = "create" /\ req'[q].status = InitialStatusOf[d]
                    \/ /\ req'[q].op = "update"
                       /\ \E c : UpdateRefusal(u, d, c) = 0
                       /\ req'[q].status = rows[d].status
                       /\ req'[q].expected \in ExpectedVersions(d)
                    \/ /\ req'[q].op = "transition"
                       /\ TransitionRefusal(u, d, req'[q].status) = 0
                       /\ req'[q].content = rows[d].content /\ req'[q].before = rows[d].status
                       /\ req'[q].expected \in ExpectedVersions(d)
<1> USE RefusalType
<1>1. UNCHANGED vars => req'[q] = req[q]
  BY DEF vars
<1>2. ASSUME NEW r \in Requests, r # q, Arrive(r) \/ Continue(r) \/ Fail(r)
      PROVE  req'[q] = req[q]
  BY <1>2, OthersKept
<1> DEFINE Checked ==
      \E u \in Users, d \in Records :
        /\ req'[q].id = d
        /\ \/ req'[q].op = "delete"
           \/ req'[q].op = "create" /\ req'[q].status = InitialStatusOf[d]
           \/ /\ req'[q].op = "update"
              /\ \E c : UpdateRefusal(u, d, c) = 0
              /\ req'[q].status = rows[d].status
              /\ req'[q].expected \in ExpectedVersions(d)
           \/ /\ req'[q].op = "transition"
              /\ TransitionRefusal(u, d, req'[q].status) = 0
              /\ req'[q].content = rows[d].content /\ req'[q].before = rows[d].status
              /\ req'[q].expected \in ExpectedVersions(d)
<1>3. ASSUME Arrive(q)
      PROVE  UNCHANGED rows /\ Checked
  <2>1. UNCHANGED rows /\ req \in [Requests -> Request]
    BY <1>3 DEF Arrive, Create, Update, Transition, Delete, Read, TypeOK
  <2>2. CASE Create(q)
    <3>1. PICK u \in Users, d \in Records, c \in Content \cup {None}, call \in Request :
            /\ req' = [req EXCEPT ![q] = Proceed(call, CreateRefusal(u, c))]
            /\ call.pc = "idle" /\ call.op = "create" /\ call.id = d
            /\ call.status = InitialStatusOf[d]
      BY <2>2, CreateArrives
    <3>2. req'[q] = Proceed(call, CreateRefusal(u, c))
      BY <2>1, <3>1
    <3> QED BY <2>1, <3>1, <3>2, ProceedWrites
  <2>3. CASE Update(q)
    <3>1. PICK u \in Users, d \in Records, c \in Content \cup {None}, call \in Request :
            /\ req' = [req EXCEPT ![q] = Proceed(call, UpdateRefusal(u, d, c))]
            /\ call.pc = "idle" /\ call.op = "update" /\ call.id = d
            /\ call.status = rows[d].status
            /\ UpdateRefusal(u, d, c) = 0 => call.expected \in ExpectedVersions(d)
      BY <2>3, UpdateArrives
    <3>2. req'[q] = Proceed(call, UpdateRefusal(u, d, c))
      BY <2>1, <3>1
    <3> QED BY <2>1, <3>1, <3>2, ProceedWrites
  <2>4. CASE Transition(q)
    <3>1. PICK u \in Users, d \in Records, call \in Request :
            /\ req' = [req EXCEPT ![q] = Proceed(call, TransitionRefusal(u, d, call.status))]
            /\ call.pc = "idle" /\ call.op = "transition" /\ call.id = d
            /\ call.content = rows[d].content /\ call.before = rows[d].status
            /\ TransitionRefusal(u, d, call.status) = 0 => call.expected \in ExpectedVersions(d)
      BY <2>4, TransitionArrives
    <3>2. req'[q] = Proceed(call, TransitionRefusal(u, d, call.status))
      BY <2>1, <3>1
    <3> QED BY <2>1, <3>1, <3>2, ProceedWrites
  <2>5. CASE Delete(q)
    <3>1. PICK u \in Users, d \in Records, call \in Request :
            /\ req' = [req EXCEPT ![q] = Proceed(call, DeleteRefusal(u, d))]
            /\ call.pc = "idle" /\ call.op = "delete" /\ call.id = d
      BY <2>5, DeleteArrives
    <3>2. req'[q] = Proceed(call, DeleteRefusal(u, d))
      BY <2>1, <3>1
    <3> QED BY <2>1, <3>1, <3>2, ProceedWrites
  <2>6. ~Read(q)
    <3>1. ASSUME NEW d \in Records
          PROVE  Fetched(Call("read", None, d)).pc # "write"
      BY CallType, FetchedPc DEF Ops
    <3> QED BY <2>1, <3>1 DEF Read
  <2> QED BY <1>3, <2>2, <2>3, <2>4, <2>5, <2>6 DEF Arrive
<1>4. ~Continue(q) /\ ~Fail(q)
  <2>1. req[q] \in Request /\ Refused(req[q], 500).pc = "done"
    BY RefusedType DEF TypeOK, Codes
  <2>2. \A code \in Codes : Refused(req[q], code).pc = "done"
    BY <2>1, RefusedType
  <2>3. ~Write(q)
    <3>1. CodeTaken(q) \/ Conflict(q) \/ DeleteMissed(q) =>
            \E code \in Codes : req'[q] = Refused(req[q], code)
      BY DEF TypeOK, CodeTaken, Conflict, DeleteMissed, Codes
    <3>2. CommitCreate(q) \/ CommitUpdate(q) \/ CommitDelete(q) =>
            req'[q].pc = "audit" \/ req'[q] = Refused(req[q], 500)
      BY <2>1 DEF TypeOK, CommitCreate, CommitUpdate, CommitDelete, Applied, Request
    <3> QED BY <2>2, <3>1, <3>2 DEF Write, Codes
  <2>4. req[q].pc = "audit" => Audited(req[q]).pc \in {"done", "reread"}
    BY <2>1, AuditedPc
  <2>5. ~AppendAudit(q) /\ ~AuditFails(q)
    BY <2>1, <2>4 DEF TypeOK, AppendAudit, AuditFails, AuditFailed
  <2>6. ~Reread(q)
    <3>1. Reread(q) => req'[q] = Fetched(req[q]) /\ req[q].id \in Records
      BY <2>1 DEF TypeOK, Reread, LocalsOK, InFlight
    <3> QED BY <2>1, <3>1, FetchedPc
  <2>7. ~DatabaseError(q)
    BY <2>1 DEF TypeOK, DatabaseError
  <2>8. ~Crash(q)
    <3>1. Refused(req[q], 0) \in Request
      BY <2>1, RefusedType
    <3>2. [Refused(req[q], 0) EXCEPT !.pc = "gone"].pc = "gone"
      BY <3>1 DEF Request
    <3>3. Crash(q) => req'[q] = [Refused(req[q], 0) EXCEPT !.pc = "gone"]
      BY DEF TypeOK, Crash
    <3> QED BY <3>2, <3>3
  <2> QED BY <2>3, <2>5, <2>6, <2>7, <2>8 DEF Continue, Fail
<1> HIDE DEF Checked
<1>5. req'[q] = req[q] \/ (UNCHANGED rows /\ Checked)
  <2>1. CASE UNCHANGED vars
    BY <1>1, <2>1
  <2>2. CASE Next
    <3>1. PICK r \in Requests : Arrive(r) \/ Continue(r) \/ Fail(r)
      BY <2>2 DEF Next
    <3>2. CASE r = q
      BY <3>1, <3>2, <1>3, <1>4
    <3>3. CASE r # q
      BY <3>1, <3>3, <1>2
    <3> QED BY <3>2, <3>3
  <2> QED BY <2>1, <2>2
<1> QED BY <1>5 DEF Checked

-----------------------------------------------------------------------------
(* Records evolve as the register's entries do *)

\* What a handler about to write knows: the version it names is at most the
\* one stored, and as long as it is the one stored, what it read still holds.
PendingOK(call) ==
  call.pc = "write" =>
    /\ call.op = "create" => call.status = InitialStatusOf[call.id]
    /\ call.op \in {"update", "transition"} =>
         /\ rows[call.id] \in Row
         /\ call.expected <= rows[call.id].version
    /\ call.op = "update" /\ call.expected = rows[call.id].version =>
         call.status = rows[call.id].status
    /\ call.op = "transition" /\ call.expected = rows[call.id].version =>
         /\ CanTransition(GraphOf[call.id], rows[call.id].status, call.status)
         /\ call.content = rows[call.id].content /\ call.before = rows[call.id].status

PendingInv == \A r \in Requests : PendingOK(req[r])

\* A handler that has not moved keeps its knowledge, whatever others write: a
\* write on the same row leaves it with a version that no longer matches.
LEMMA PendingKept ==
  ASSUME TypeOK, [Next]_vars, NEW q \in Requests, PendingOK(req[q]),
         req'[q] = req[q], req[q].pc = "write"
  PROVE  PendingOK(req[q])'
<1>1. req[q].id \in Records /\ req[q].expected \in Nat
  BY WrittenType DEF Request
<1>2. CASE req[q].op \in {"update", "transition"}
  <2>1. /\ rows[req[q].id] \in Row
        /\ req[q].expected <= rows[req[q].id].version
    BY <1>2 DEF PendingOK
  <2>2. rows[req[q].id].version \in Nat
    BY <2>1 DEF Row
  <2>3. rows'[req[q].id] \in Row
    BY <1>1, <2>1, RowKept
  <2>4. CASE rows'[req[q].id].version = rows[req[q].id].version + 1
    BY <1>1, <1>2, <2>1, <2>2, <2>3, <2>4 DEF PendingOK
  <2>5. CASE /\ rows'[req[q].id].version = rows[req[q].id].version
             /\ rows'[req[q].id].status = rows[req[q].id].status
             /\ rows'[req[q].id].content = rows[req[q].id].content
    BY <1>2, <2>1, <2>3, <2>5 DEF PendingOK
  <2> QED BY <1>1, <2>1, <2>4, <2>5, RowKept
<1>3. CASE req[q].op \notin {"update", "transition"}
  BY <1>3 DEF PendingOK
<1> QED BY <1>2, <1>3

\* A handler that has just passed its checks knows the row as it is.
LEMMA PendingChecked ==
  ASSUME TypeOK, Ahead = 0, NEW q \in Requests, UNCHANGED rows,
         NEW u \in Users, NEW d \in Records,
         req'[q].id = d,
         \/ req'[q].op = "delete"
         \/ req'[q].op = "create" /\ req'[q].status = InitialStatusOf[d]
         \/ /\ req'[q].op = "update"
            /\ \E c : UpdateRefusal(u, d, c) = 0
            /\ req'[q].status = rows[d].status
            /\ req'[q].expected \in ExpectedVersions(d)
         \/ /\ req'[q].op = "transition"
            /\ TransitionRefusal(u, d, req'[q].status) = 0
            /\ req'[q].content = rows[d].content /\ req'[q].before = rows[d].status
            /\ req'[q].expected \in ExpectedVersions(d)
  PROVE  PendingOK(req[q])'
<1>1. Live(d) => rows[d] \in Row
  BY NoRefusal
<1>2. rows[d] \in Row => \A v \in ExpectedVersions(d) : v <= rows[d].version
  BY DEF ExpectedVersions, Row
<1>3. CASE req'[q].op = "update"
  BY <1>1, <1>2, <1>3, NoRefusal DEF PendingOK
<1>4. CASE req'[q].op = "transition"
  BY <1>1, <1>2, <1>4, NoRefusal DEF PendingOK
<1>5. CASE req'[q].op \in {"create", "delete"}
  BY <1>5 DEF PendingOK
<1> QED BY <1>3, <1>4, <1>5

\* As long as clients name versions they were shown, no step makes a handler's
\* knowledge wrong.
LEMMA PendingInvariant ==
  ASSUME Ahead = 0
  PROVE  /\ Init => PendingInv
         /\ TypeOK /\ PendingInv /\ [Next]_vars => PendingInv'
<1>1. Init => PendingInv
  BY DEF Init, PendingInv, PendingOK, Idle
<1>2. ASSUME TypeOK, PendingInv, [Next]_vars, NEW q \in Requests
      PROVE  PendingOK(req[q])'
  <2>1. CASE req'[q].pc # "write"
    BY <2>1 DEF PendingOK
  <2>2. CASE req'[q].pc = "write" /\ req'[q] = req[q]
    BY <1>2, <2>2, PendingKept DEF PendingInv
  <2>3. CASE req'[q].pc = "write" /\ req'[q] # req[q]
    BY <1>2, <2>3, PendingStep, PendingChecked
  <2> QED BY <2>1, <2>2, <2>3
<1> QED BY <1>1, <1>2 DEF PendingInv

\* The seeded tables are seeded registers.
LEMMA RegisterInit == Init => Register!Init
<1> SUFFICES ASSUME Init PROVE Register!Init
  OBVIOUS
<1>1. PICK c \in Content : rows = [d \in Records |-> SeedRow(d, c)]
  BY DEF Init
<1>2. ASSUME NEW d \in Records
      PROVE  RegisterOf(d) = Register!SeedEntry(d, c)
  BY <1>1 DEF RegisterOf, SeedRow, NoRow, Register!SeedEntry, Register!Entry
<1> QED BY <1>2 DEF Register!Init

\* Writing one row writes one entry.
LEMMA EntryWritten ==
  ASSUME TypeOK, NEW d \in Records, NEW row, rows' = [rows EXCEPT ![d] = row],
         NEW entry,
         entry = [state   |-> IF row.state = "deleted" THEN "removed" ELSE row.state,
                  status  |-> row.status,
                  content |-> row.content]
  PROVE  Register!Put(d, entry)
<1>1. \A e \in Records : rows'[e] = IF e = d THEN row ELSE rows[e]
  BY DEF TypeOK
<1>2. \A e \in Records : RegisterOf(e)' = IF e = d THEN entry ELSE RegisterOf(e)
  BY <1>1 DEF RegisterOf
<1> QED BY <1>2 DEF Register!Put

\* Every step of the tables is a step of the register, or none.
LEMMA RegisterStep ==
  ASSUME TypeOK, PendingInv, [Next]_vars
  PROVE  [Register!Next]_([d \in Records |-> RegisterOf(d)])
<1>1. UNCHANGED rows => UNCHANGED [d \in Records |-> RegisterOf(d)]
  BY DEF RegisterOf
<1>2. ASSUME NEW r \in Requests, CommitCreate(r)
      PROVE  Register!Step
  <2> DEFINE d == req[r].id
  <2>1. /\ d \in Records /\ req[r].content \in Content
        /\ rows[d] = NoRow
        /\ rows' = [rows EXCEPT ![d] = NewRow(req[r])]
    BY <1>2, CommitEffect
  <2>2. req[r].status = InitialStatusOf[d]
    BY <1>2, CommitEffect DEF PendingInv, PendingOK
  <2>3. Register!Put(d, Register!Entry("live", InitialStatusOf[d], req[r].content))
    <3> DEFINE row == NewRow(req[r])
               entry == Register!Entry("live", InitialStatusOf[d], req[r].content)
    <3>1. /\ row.state = "live" /\ row.status = InitialStatusOf[d]
          /\ row.content = req[r].content
      BY <2>2 DEF NewRow
    <3>2. entry = [state   |-> IF row.state = "deleted" THEN "removed" ELSE row.state,
                   status  |-> row.status,
                   content |-> row.content]
      BY <3>1 DEF Register!Entry
    <3> HIDE DEF row, entry
    <3>3. rows' = [rows EXCEPT ![d] = row] /\ d \in Records
      BY <2>1 DEF row
    <3>4. Register!Put(d, entry)
      BY <3>2, <3>3, EntryWritten
    <3> QED BY <3>4 DEF entry
  <2>4. RegisterOf(d).state = "absent"
    BY <2>1 DEF RegisterOf, NoRow
  <2>5. Register!Open(d, req[r].content)
    BY <2>1, <2>3, <2>4 DEF Register!Open
  <2> QED BY <2>1, <2>5 DEF Register!Step
<1>3. ASSUME NEW r \in Requests, CommitUpdate(r)
      PROVE  Register!Step
  <2> DEFINE d == req[r].id
             entry == [state |-> "live", status |-> req[r].status,
                       content |-> req[r].content]
  <2>1. /\ d \in Records /\ req[r].content \in Content
        /\ req[r].status \in StatusesOf(d)
        /\ rows[d].state = "live"
        /\ rows[d].version = req[r].expected
        /\ rows' = [rows EXCEPT ![d] = Overwritten(req[r])]
        /\ req[r].pc = "write" /\ req[r].op \in {"update", "transition"}
    BY <1>3, CommitEffect
  <2>2. Register!Put(d, entry)
    BY <1>3, <2>1, OverwrittenEffect, EntryWritten
  <2>3. RegisterOf(d) = [state |-> "live", status |-> rows[d].status,
                         content |-> rows[d].content]
    BY <2>1 DEF RegisterOf
  <2>4. CASE req[r].op = "update"
    <3>1. req[r].status = rows[d].status
      BY <2>1, <2>4 DEF PendingInv, PendingOK
    <3>2. entry = [RegisterOf(d) EXCEPT !.content = req[r].content]
      BY <2>3, <3>1
    <3>3. Register!Edit(d, req[r].content)
      BY <2>1, <2>2, <2>3, <3>2 DEF Register!Edit
    <3> QED BY <2>1, <3>3 DEF Register!Step
  <2>5. CASE req[r].op = "transition"
    <3>1. /\ CanTransition(GraphOf[d], rows[d].status, req[r].status)
          /\ req[r].content = rows[d].content
      BY <2>1, <2>5 DEF PendingInv, PendingOK
    <3>2. entry = [RegisterOf(d) EXCEPT !.status = req[r].status]
      BY SMTT(60), <2>3, <3>1
    <3>3. Register!Move(d, req[r].status)
      BY <2>1, <2>2, <2>3, <3>1, <3>2 DEF Register!Move, Register!CanTransition, CanTransition
    <3> QED BY <2>1, <3>3 DEF Register!Step, StatusesOf
  <2> QED BY <2>1, <2>4, <2>5
<1>4. ASSUME NEW r \in Requests, CommitDelete(r)
      PROVE  Register!Step
  <2> DEFINE d == req[r].id
             row == [rows[d] EXCEPT !.state = "deleted"]
  <2>1. d \in Records /\ rows[d] \in Row /\ rows[d].state = "live"
    BY <1>4, CommitEffect
  <2>2. rows' = [rows EXCEPT ![d] = row]
    BY <1>4, CommitEffect
  <2>3. /\ row.state = "deleted" /\ row.status = rows[d].status
        /\ row.content = rows[d].content
    BY <2>1, DeletedEffect
  <2> HIDE DEF row
  <2>4. RegisterOf(d) = [state |-> "live", status |-> rows[d].status,
                         content |-> rows[d].content]
    BY <2>1 DEF RegisterOf
  <2>5. Register!Put(d, [RegisterOf(d) EXCEPT !.state = "removed"])
    <3> DEFINE entry == [RegisterOf(d) EXCEPT !.state = "removed"]
    <3>1. entry = [state   |-> IF row.state = "deleted" THEN "removed" ELSE row.state,
                   status  |-> row.status,
                   content |-> row.content]
      BY <2>3, <2>4
    <3> HIDE DEF entry
    <3>2. Register!Put(d, entry)
      BY <2>1, <2>2, <3>1, EntryWritten
    <3> QED BY <3>2 DEF entry
  <2>6. Register!Remove(d)
    BY <2>1, <2>4, <2>5 DEF Register!Remove
  <2> QED BY <2>1, <2>6 DEF Register!Step
<1>5. UNCHANGED [d \in Records |-> RegisterOf(d)] \/ Register!Step
  BY <1>1, <1>2, <1>3, <1>4, RowsStep
<1> QED BY <1>5 DEF Register!Next

\* As long as clients name versions they were shown, the tables implement the
\* register, whatever the interleaving of requests: nothing is moved off its
\* graph, moved while edited or edited while moved, or reopened.
THEOREM RegisterImplemented == Ahead = 0 => (Spec => ImplementsRegister)
<1> SUFFICES ASSUME Ahead = 0 PROVE Spec => ImplementsRegister
  OBVIOUS
<1>1. Init => Register!Init
  BY RegisterInit
<1>2. Init => PendingInv
  BY PendingInvariant
<1>3. TypeOK /\ PendingInv /\ [Next]_vars => PendingInv'
  BY PendingInvariant
<1>4. TypeOK /\ PendingInv /\ [Next]_vars
        => [Register!Next]_([d \in Records |-> RegisterOf(d)])
  BY RegisterStep
<1> QED BY <1>1, <1>2, <1>3, <1>4, TypeCorrect, PTL
        DEF Spec, ImplementsRegister, Register!Spec

-----------------------------------------------------------------------------
(* What clients in front of the tables can rely on *)

\* A row that was read stays a past of the stored row: versions only grow, a row
\* changes only with its version, and a deleted row stays deleted.
LEMMA RowsAdvance ==
  TypeOK /\ [Next]_vars =>
    \A d \in Records : rows[d] \in Row =>
      /\ rows'[d] \in Row
      /\ rows[d].state = "deleted" => rows'[d].state = "deleted"
      /\ \/ rows'[d].version = rows[d].version + 1
         \/ /\ rows'[d].version = rows[d].version
            /\ rows'[d].status = rows[d].status
            /\ rows'[d].content = rows[d].content
  BY RowKept, DeletedForGood

\* A handler under way keeps to its record and never gets back to its write; it
\* refuses nothing any more; and it changes a row it found at its version.
LEMMA CallGoesOn ==
  TypeOK => \A q \in Requests : Continue(q) \/ Fail(q) =>
    /\ req' = [req EXCEPT ![q] = req'[q]]
    /\ req'[q].pc \notin {"idle", "write"} /\ req'[q].id = req[q].id
    /\ req'[q].code \in {403, 422} => req[q].code = req'[q].code
    /\ rows' # rows /\ req[q].op \in {"update", "transition"} =>
         /\ req[q].pc = "write"
         /\ rows[req[q].id] \in Row /\ rows[req[q].id].state = "live"
         /\ rows[req[q].id].version = req[q].expected
<1> SUFFICES ASSUME TypeOK, NEW q \in Requests, Continue(q) \/ Fail(q)
             PROVE  /\ req' = [req EXCEPT ![q] = req'[q]]
                    /\ req'[q].pc \notin {"idle", "write"} /\ req'[q].id = req[q].id
                    /\ req'[q].code \in {403, 422} => req[q].code = req'[q].code
                    /\ rows' # rows /\ req[q].op \in {"update", "transition"} =>
                         /\ req[q].pc = "write"
                         /\ rows[req[q].id] \in Row /\ rows[req[q].id].state = "live"
                         /\ rows[req[q].id].version = req[q].expected
  OBVIOUS
<1> DEFINE Onward(call) ==
             /\ call.pc \notin {"idle", "write"} /\ call.id = req[q].id
             /\ call.code \in {403, 422} => req[q].code = call.code
<1>1. req[q] \in Request /\ req \in [Requests -> Request]
  BY DEF TypeOK
<1>2. \A code \in Codes \ {403, 422} : Onward(Refused(req[q], code))
  BY <1>1 DEF Refused, Answer, Request, Codes
<1>3. \A code \in Codes \ {403, 422}, seen \in Row \cup {NoRow} : Onward(Answer(req[q], code, seen))
  BY <1>1 DEF Answer, Request, Codes
<1>4. \A pc \in {"audit", "reread"} : Onward([req[q] EXCEPT !.pc = pc])
  BY <1>1 DEF Request
<1>5. Onward([Refused(req[q], 0) EXCEPT !.pc = "gone"])
  BY <1>1 DEF Refused, Answer, Request
<1>6. \A code \in {201, 204, 404, 409, 500} : code \in Codes \ {403, 422}
  BY DEF Codes
<1> HIDE DEF Onward
<1>7. Applied(q) => \E call : req' = [req EXCEPT ![q] = call] /\ Onward(call)
  <2>1. [req EXCEPT ![q].pc = "audit"] = [req EXCEPT ![q] = [req[q] EXCEPT !.pc = "audit"]]
    OBVIOUS
  <2> DEFINE call == [req[q] EXCEPT !.pc = "audit"]
  <2>2. Onward(call) /\ Onward(Refused(req[q], 500))
    BY <1>2, <1>4, <1>6
  <2> HIDE DEF call
  <2> QED BY <2>1, <2>2, ZenonT(30) DEF Applied, call
<1>8. req[q].pc = "audit" => Onward(Audited(req[q])) /\ Onward(AuditFailed(req[q]))
  <2> SUFFICES ASSUME req[q].pc = "audit"
               PROVE  Onward(Audited(req[q])) /\ Onward(AuditFailed(req[q]))
    OBVIOUS
  <2>1. NewRow(req[q]) \in Row \/ req[q].op = "delete"
    BY WrittenType
  <2>2. req[q].op = "create" => Audited(req[q]) = Answer(req[q], 201, NewRow(req[q]))
    BY DEF Audited
  <2>3. req[q].op = "delete" => Audited(req[q]) = Refused(req[q], 204)
    BY DEF Audited
  <2>4. req[q].op \notin {"create", "delete"} => Audited(req[q]) = [req[q] EXCEPT !.pc = "reread"]
    BY DEF Audited
  <2>5. AuditFailed(req[q]) \in {Audited(req[q]), Refused(req[q], 500)}
    BY DEF AuditFailed
  <2>6. CASE req[q].op = "create"
    BY <1>2, <1>3, <1>6, <2>1, <2>2, <2>5, <2>6
  <2>7. CASE req[q].op = "delete"
    BY <1>2, <1>6, <2>3, <2>5, <2>7
  <2>8. CASE req[q].op \notin {"create", "delete"}
    BY <1>2, <1>4, <1>6, <2>4, <2>5, <2>8
  <2> QED BY <2>6, <2>7, <2>8
<1>9. \E call : req' = [req EXCEPT ![q] = call] /\ Onward(call)
  <2>1. CASE CommitCreate(q) \/ CommitUpdate(q) \/ CommitDelete(q)
    BY <1>7, <2>1 DEF CommitCreate, CommitUpdate, CommitDelete
  <2>2. CASE CodeTaken(q) \/ Conflict(q) \/ DeleteMissed(q)
    BY <1>2, <1>6, <2>2 DEF CodeTaken, Conflict, DeleteMissed
  <2>3. CASE AppendAudit(q) \/ AuditFails(q)
    BY <1>8, <2>3 DEF AppendAudit, AuditFails
  <2>4. CASE Reread(q)
    <3>1. rows[req[q].id] \in Row \cup {NoRow}
      BY <2>4 DEF Reread, TypeOK, LocalsOK, InFlight
    <3>2. Onward(Fetched(req[q]))
      BY <1>2, <1>3, <1>6, <3>1 DEF Fetched, Codes
    <3> QED BY <2>4, <3>2 DEF Reread
  <2>5. CASE DatabaseError(q) \/ Crash(q)
    BY <1>2, <1>5, <1>6, <2>5 DEF DatabaseError, Crash
  <2> QED BY <2>1, <2>2, <2>3, <2>4, <2>5 DEF Continue, Write, Fail
<1>10. PICK call : req' = [req EXCEPT ![q] = call] /\ Onward(call)
  BY <1>9
<1>11. req'[q] = call
  BY <1>1, <1>10
<1>12. ASSUME rows' # rows, req[q].op \in {"update", "transition"}
       PROVE  CommitUpdate(q)
  BY <1>12
  DEF Continue, Write, CommitCreate, CodeTaken, Conflict, CommitDelete, DeleteMissed,
      AppendAudit, Reread, Fail, AuditFails, DatabaseError, Crash
<1> QED BY ZenonT(60), <1>10, <1>11, <1>12, CommitEffect DEF Onward

-----------------------------------------------------------------------------
(* What a step does to one request *)

\* An answer keeps what the client knows of its own request.
LEMMA AnswerKeeps ==
  ASSUME NEW call \in Request, NEW code, NEW seen
  PROVE  /\ Answer(call, code, seen).pc = "done"
         /\ Answer(call, code, seen).code = code
         /\ Answer(call, code, seen).seen = seen
         /\ Answer(call, code, seen).op = call.op
         /\ Answer(call, code, seen).id = call.id
         /\ Answer(call, code, seen).expected = call.expected
         /\ Answer(call, code, seen).status = call.status
         /\ Answer(call, code, seen).content = call.content
  BY DEF Answer, Request

\* A refusal carries its code.
LEMMA RefusedCode ==
  ASSUME NEW call \in Request, NEW code \in Codes \cup {0}
  PROVE  Refused(call, code).pc = "done" /\ Refused(call, code).code = code
<1>1. Answer(call, code, NoRow) \in Request /\ Answer(call, code, NoRow).code = code
  BY AnswerType, AnswerKeeps
<1>2. Refused(call, code).code = code
  BY <1>1 DEF Refused, Request
<1> QED BY <1>2, RefusedType

\* A call over without success, and without a conflict.
Failed(call) ==
  \/ call.pc = "done" /\ call.code \notin {200, 409}
  \/ call.pc = "gone" /\ call.code = 0

\* A request answered with a conflict.
Lost(q) == Conflict(q) /\ req'[q] = Refused(req[q], 409)

\* A call that has just been checked.
Checked(call) == call.pc = "write" /\ call.code = 0

\* A handler that has made its checks waits to write or has refused.
LEMMA ProceedOutcome ==
  ASSUME NEW call \in Request, NEW refusal \in Codes \cup {0}, call.code = 0,
         refusal \notin {200, 409}
  PROVE  Checked(Proceed(call, refusal)) \/ Failed(Proceed(call, refusal))
<1>1. CASE refusal = 0
  BY <1>1 DEF Proceed, Checked, Request
<1>2. CASE refusal # 0
  BY <1>2, RefusedCode DEF Proceed, Failed
<1> QED BY <1>1, <1>2

\* No check refuses with 200 or 409.
LEMMA RefusalCode ==
  ASSUME NEW u, NEW d, NEW x
  PROVE  /\ CreateRefusal(u, x) \notin {200, 409}
         /\ UpdateRefusal(u, d, x) \notin {200, 409}
         /\ TransitionRefusal(u, d, x) \notin {200, 409}
         /\ DeleteRefusal(u, d) \notin {200, 409}
  BY DEF CreateRefusal, UpdateRefusal, TransitionRefusal, DeleteRefusal

\* How a request arrives.
LEMMA ArriveOutcome ==
  ASSUME TypeOK, NEW q \in Requests, Arrive(q)
  PROVE  \/ Checked(req'[q])
         \/ Failed(req'[q])
         \/ req'[q].pc = "done" /\ req'[q].op = "read" /\ req'[q].code # 409
<1> USE RefusalType, RefusalCode
<1>1. req \in [Requests -> Request]
  BY DEF TypeOK
<1>2. CASE Create(q)
  <2>1. PICK u \in Users, d \in Records, c \in Content \cup {None}, call \in Request :
          req' = [req EXCEPT ![q] = Proceed(call, CreateRefusal(u, c))] /\ call.code = 0
    BY <1>2, CreateArrives
  <2> QED BY <1>1, <2>1, ProceedOutcome
<1>3. CASE Update(q)
  <2>1. PICK u \in Users, d \in Records, c \in Content \cup {None}, call \in Request :
          req' = [req EXCEPT ![q] = Proceed(call, UpdateRefusal(u, d, c))] /\ call.code = 0
    BY <1>3, UpdateArrives
  <2> QED BY <1>1, <2>1, ProceedOutcome
<1>4. CASE Transition(q)
  <2>1. PICK u \in Users, d \in Records, call \in Request :
          /\ req' = [req EXCEPT ![q] = Proceed(call, TransitionRefusal(u, d, call.status))]
          /\ call.code = 0
    BY <1>4, TransitionArrives
  <2> QED BY <1>1, <2>1, ProceedOutcome
<1>5. CASE Delete(q)
  <2>1. PICK u \in Users, d \in Records, call \in Request :
          req' = [req EXCEPT ![q] = Proceed(call, DeleteRefusal(u, d))] /\ call.code = 0
    BY <1>5, DeleteArrives
  <2> QED BY <1>1, <2>1, ProceedOutcome
<1>6. CASE Read(q)
  <2>1. PICK d \in Records : req' = [req EXCEPT ![q] = Fetched(Call("read", None, d))]
    BY <1>6 DEF Read
  <2> DEFINE call == Call("read", None, d)
  <2>2. call \in Request /\ call.op = "read"
    BY CallType DEF Ops
  <2> HIDE DEF call
  <2>3. Fetched(call) = Answer(call, 200, rows[call.id]) \/ Fetched(call) = Refused(call, 404)
    BY DEF Fetched
  <2>4. req'[q] = Fetched(call)
    BY <1>1, <2>1 DEF call
  <2>5. Refused(call, 404).pc = "done" /\ Refused(call, 404).code = 404
    BY <2>2, RefusedCode DEF Codes
  <2> QED BY <2>2, <2>3, <2>4, <2>5, AnswerKeeps DEF Failed
<1> QED BY <1>2, <1>3, <1>4, <1>5, <1>6, <1>1 DEF Arrive

\* How a request ends badly.
LEMMA FailOutcome ==
  ASSUME TypeOK, NEW q \in Requests, DatabaseError(q) \/ Crash(q)
  PROVE  Failed(req'[q])
<1>1. req \in [Requests -> Request] /\ req[q] \in Request
  BY DEF TypeOK
<1>2. CASE DatabaseError(q)
  <2>1. req'[q] = Refused(req[q], 500)
    BY <1>1, <1>2 DEF DatabaseError
  <2> QED BY <1>1, <2>1, RefusedCode DEF Failed, Codes
<1>3. CASE Crash(q)
  <2>1. Refused(req[q], 0) \in Request /\ Refused(req[q], 0).code = 0
    BY <1>1, RefusedType, RefusedCode
  <2>2. req'[q] = [Refused(req[q], 0) EXCEPT !.pc = "gone"]
    BY <1>1, <1>3 DEF Crash
  <2> QED BY <2>1, <2>2 DEF Failed, Request
<1> QED BY <1>2, <1>3

\* What becomes of a request in a step: only a commit leads to the audit, only
\* an audit to the second Get, and only that answers a writer with 200.
LEMMA CallStep ==
  ASSUME TypeOK, [Next]_vars, NEW q \in Requests
  PROVE  \/ req'[q] = req[q]
         \/ Checked(req'[q])
         \/ Failed(req'[q]) \/ Lost(q)
         \/ req'[q].pc = "done" /\ req'[q].op = "read" /\ req'[q].code # 409
         \/ /\ CommitCreate(q) \/ CommitUpdate(q) \/ CommitDelete(q)
            /\ req'[q] = [req[q] EXCEPT !.pc = "audit"]
         \/ /\ req[q].pc = "audit"
            /\ req'[q] = [req[q] EXCEPT !.pc = "reread"]
         \/ /\ req[q].pc = "reread" /\ Live(req[q].id)
            /\ req'[q] = Answer(req[q], 200, rows[req[q].id])
            /\ UNCHANGED rows
<1>1. req \in [Requests -> Request] /\ req[q] \in Request
  BY DEF TypeOK
<1>2. \A code \in Codes \ {200, 409} : Failed(Refused(req[q], code))
  BY <1>1, RefusedCode DEF Failed
<1>3. CASE Arrive(q)
  BY <1>3, ArriveOutcome
<1>4. CASE CommitCreate(q) \/ CommitUpdate(q) \/ CommitDelete(q)
  <2>1. req'[q] = [req[q] EXCEPT !.pc = "audit"] \/ req'[q] = Refused(req[q], 500)
    BY <1>1, <1>4 DEF CommitCreate, CommitUpdate, CommitDelete, Applied
  <2> QED BY <1>2, <1>4, <2>1 DEF Codes
<1>5. CASE CodeTaken(q) \/ Conflict(q) \/ DeleteMissed(q)
  <2>1. CodeTaken(q) \/ DeleteMissed(q) =>
          \E code \in {404, 500} : req'[q] = Refused(req[q], code)
    BY <1>1 DEF CodeTaken, DeleteMissed
  <2>2. Conflict(q) => Lost(q)
    BY <1>1 DEF Conflict, Lost
  <2> QED BY <1>2, <1>5, <2>1, <2>2 DEF Codes
<1>6. CASE AppendAudit(q) \/ AuditFails(q)
  <2>1. req[q].pc = "audit"
    BY <1>6 DEF AppendAudit, AuditFails
  <2>2. req'[q] = Audited(req[q]) \/ req'[q] = Refused(req[q], 500)
    BY <1>1, <1>6 DEF AppendAudit, AuditFails, AuditFailed
  <2>3. \/ Audited(req[q]) = Answer(req[q], 201, NewRow(req[q]))
        \/ Audited(req[q]) = Refused(req[q], 204)
        \/ Audited(req[q]) = [req[q] EXCEPT !.pc = "reread"]
    BY DEF Audited
  <2>4. Failed(Answer(req[q], 201, NewRow(req[q])))
    BY <1>1, AnswerKeeps DEF Failed
  <2> QED BY <1>2, <2>1, <2>2, <2>3, <2>4 DEF Codes
<1>7. CASE Reread(q)
  <2>1. req[q].pc = "reread" /\ req'[q] = Fetched(req[q]) /\ UNCHANGED rows
    BY <1>1, <1>7 DEF Reread
  <2> QED BY <1>2, <2>1 DEF Fetched, Codes
<1>8. CASE DatabaseError(q) \/ Crash(q)
  BY <1>8, FailOutcome
<1>9. CASE Arrive(q) \/ Continue(q) \/ Fail(q)
  BY <1>3, <1>4, <1>5, <1>6, <1>7, <1>8, <1>9 DEF Continue, Write, Fail
<1>10. CASE req'[q] = req[q]
  BY <1>10
<1>11. req'[q] = req[q] \/ Arrive(q) \/ Continue(q) \/ Fail(q)
  <2>1. CASE UNCHANGED vars
    BY <2>1 DEF vars
  <2>2. CASE Next
    <3>1. PICK r \in Requests : Arrive(r) \/ Continue(r) \/ Fail(r)
      BY <2>2 DEF Next
    <3> QED BY <3>1, OthersKept
  <2> QED BY <2>1, <2>2
<1> QED BY <1>9, <1>10, <1>11

-----------------------------------------------------------------------------
(* Writes that are in the table *)

\* An update or transition past its commit that has not failed since.
Committed(call) ==
  /\ call.op \in {"update", "transition"}
  /\ call.pc = "done" => call.code = 200
  /\ call.pc \in {"audit", "reread", "done"}

\* It is the same write after a step.
SameWrite(after, before) ==
  /\ after.op = before.op /\ after.id = before.id /\ after.expected = before.expected
  /\ after.status = before.status /\ after.content = before.content

\* What a row shows of a write: all of it, or a later version.
Shows(row, call) ==
  /\ row.version > call.expected
  /\ row.version = call.expected + 1 => row.status = call.status /\ row.content = call.content

\* Handlers under way have no code yet; a committed write shows in its row; two of
\* them on one row named different versions; and so does what writers were shown.
WonInv ==
  /\ \A r \in Requests : req[r].pc # "done" => req[r].code = 0
  /\ \A r \in Requests : Committed(req[r]) =>
       req[r].id \in Records /\ rows[req[r].id] \in Row /\ Shows(rows[req[r].id], req[r])
  /\ \A r, q \in Requests :
       r # q /\ Committed(req[r]) /\ Committed(req[q]) /\ req[r].id = req[q].id =>
         req[r].expected # req[q].expected
  /\ \A r \in Requests :
       Committed(req[r]) /\ req[r].pc = "done" => Shows(req[r].seen, req[r])

\* A write is committed by its own commit, and stays so.
LEMMA CommittedStep ==
  ASSUME TypeOK, [Next]_vars, NEW q \in Requests, Committed(req'[q])
  PROVE  /\ SameWrite(req'[q], req[q])
         /\ Committed(req[q]) \/ CommitUpdate(q)
<1>1. req[q] \in Request /\ LocalsOK(req[q])
  BY DEF TypeOK
<1>2. CASE req'[q] = req[q]
  BY <1>2 DEF SameWrite
<1>3. CASE /\ CommitCreate(q) \/ CommitUpdate(q) \/ CommitDelete(q)
           /\ req'[q] = [req[q] EXCEPT !.pc = "audit"]
  <2>1. SameWrite(req'[q], req[q])
    BY <1>1, <1>3 DEF SameWrite, Request
  <2> QED BY <1>3, <2>1 DEF Committed, SameWrite, CommitCreate, CommitDelete
<1>4. CASE req[q].pc = "audit" /\ req'[q] = [req[q] EXCEPT !.pc = "reread"]
  <2>1. SameWrite(req'[q], req[q])
    BY <1>1, <1>4 DEF SameWrite, Request
  <2> QED BY <1>4, <2>1 DEF Committed, SameWrite
<1>5. CASE req[q].pc = "reread" /\ req'[q] = Answer(req[q], 200, rows[req[q].id])
  <2>1. SameWrite(req'[q], req[q])
    BY <1>1, <1>5, AnswerKeeps DEF SameWrite
  <2> QED BY <1>5, <2>1 DEF Committed, SameWrite
<1>6. ~Checked(req'[q]) /\ ~Failed(req'[q]) /\ ~Lost(q) /\ req'[q].op # "read"
  <2>1. Lost(q) => req'[q].pc = "done" /\ req'[q].code = 409
    BY <1>1, RefusedCode DEF Lost, Codes
  <2> QED BY <2>1 DEF Committed, Checked, Failed
<1>7. \/ req'[q] = req[q]
      \/ /\ CommitCreate(q) \/ CommitUpdate(q) \/ CommitDelete(q)
         /\ req'[q] = [req[q] EXCEPT !.pc = "audit"]
      \/ req[q].pc = "audit" /\ req'[q] = [req[q] EXCEPT !.pc = "reread"]
      \/ req[q].pc = "reread" /\ req'[q] = Answer(req[q], 200, rows[req[q].id])
  BY <1>6, CallStep
<1> QED BY <1>2, <1>3, <1>4, <1>5, <1>7

\* A committed write goes on showing in its row, whoever writes next.
LEMMA ShowsKept ==
  ASSUME TypeOK, [Next]_vars, NEW q \in Requests,
         req[q].id \in Records, rows[req[q].id] \in Row, Shows(rows[req[q].id], req[q])
  PROVE  rows'[req[q].id] \in Row /\ Shows(rows'[req[q].id], req[q])
<1>1. req[q].expected \in Nat /\ rows[req[q].id].version \in Nat
  BY DEF TypeOK, Request, Row
<1> QED BY <1>1, RowKept DEF Shows

\* The row just written shows the write, and its version is the one it named.
LEMMA ShowsWritten ==
  ASSUME TypeOK, NEW q \in Requests, CommitUpdate(q)
  PROVE  /\ req[q].id \in Records /\ rows[req[q].id].version = req[q].expected
         /\ rows'[req[q].id] \in Row /\ Shows(rows'[req[q].id], req[q])
<1>1. /\ req[q].id \in Records /\ rows[req[q].id].version = req[q].expected
      /\ Overwritten(req[q]) \in Row
      /\ rows' = [rows EXCEPT ![req[q].id] = Overwritten(req[q])]
  BY CommitEffect
<1>2. rows'[req[q].id] = Overwritten(req[q])
  BY <1>1 DEF TypeOK
<1>3. req[q].expected \in Nat
  BY DEF TypeOK, Request
<1> QED BY <1>1, <1>2, <1>3, OverwrittenEffect DEF Shows

\* Shows looks at nothing but the write.
LEMMA ShowsSame ==
  ASSUME NEW row, NEW after, NEW before, SameWrite(after, before), Shows(row, before)
  PROVE  Shows(row, after)
  BY DEF Shows, SameWrite

\* No write is committed before the first request.
LEMMA WonInit == Init => WonInv
  BY DEF Init, WonInv, Committed, Idle

\* A code is set by the answer.
LEMMA CodeStep ==
  ASSUME TypeOK, WonInv, [Next]_vars, NEW q \in Requests, req'[q].pc # "done"
  PROVE  req'[q].code = 0
<1>1. req[q] \in Request /\ (req[q].pc # "done" => req[q].code = 0)
  BY DEF TypeOK, WonInv
<1>2. Checked(req'[q]) \/ Failed(req'[q]) => req'[q].code = 0
  BY DEF Checked, Failed
<1>3. CASE /\ CommitCreate(q) \/ CommitUpdate(q) \/ CommitDelete(q)
           /\ req'[q] = [req[q] EXCEPT !.pc = "audit"]
  BY <1>1, <1>3 DEF CommitCreate, CommitUpdate, CommitDelete, Request
<1>4. CASE req[q].pc = "audit" /\ req'[q] = [req[q] EXCEPT !.pc = "reread"]
  BY <1>1, <1>4 DEF Request
<1>5. CASE req'[q] = Answer(req[q], 200, rows[req[q].id])
  BY <1>1, <1>5, AnswerKeeps
<1>6. ~Lost(q)
  BY <1>1, RefusedCode DEF Lost, Codes
<1> QED BY <1>1, <1>2, <1>3, <1>4, <1>5, <1>6, CallStep

\* Every step keeps committed writes apart and visible.
LEMMA WonStep == TypeOK /\ WonInv /\ [Next]_vars => WonInv'
<1> SUFFICES ASSUME TypeOK, WonInv, [Next]_vars PROVE WonInv'
  OBVIOUS
<1>1. ASSUME NEW r \in Requests, Committed(req'[r])
      PROVE  /\ req'[r].id \in Records /\ rows'[req'[r].id] \in Row
             /\ Shows(rows'[req'[r].id], req'[r])
  <2>1. SameWrite(req'[r], req[r]) /\ (Committed(req[r]) \/ CommitUpdate(r))
    BY <1>1, CommittedStep
  <2>2. /\ req[r].id \in Records /\ rows'[req[r].id] \in Row
        /\ Shows(rows'[req[r].id], req[r])
    BY <2>1, ShowsKept, ShowsWritten DEF WonInv
  <2>3. req'[r].id = req[r].id
    BY <2>1 DEF SameWrite
  <2> QED BY <2>1, <2>2, <2>3, ShowsSame
<1>2. ASSUME NEW r \in Requests, NEW q \in Requests, r # q,
             CommitUpdate(r), Committed(req[q]), req[q].id = req[r].id
      PROVE  req[r].expected # req[q].expected
  <2>1. rows[req[r].id].version = req[r].expected
    BY <1>2, ShowsWritten
  <2>2. rows[req[q].id].version > req[q].expected /\ req[q].expected \in Nat
    BY <1>2 DEF WonInv, Shows, TypeOK, Request
  <2> QED BY <1>2, <2>1, <2>2
<1>3. ASSUME NEW r \in Requests, NEW q \in Requests, r # q,
             Committed(req'[r]), Committed(req'[q]), req'[r].id = req'[q].id
      PROVE  req'[r].expected # req'[q].expected
  <2>1. /\ SameWrite(req'[r], req[r]) /\ (Committed(req[r]) \/ CommitUpdate(r))
        /\ SameWrite(req'[q], req[q]) /\ (Committed(req[q]) \/ CommitUpdate(q))
    BY <1>3, CommittedStep
  <2>2. ~(CommitUpdate(r) /\ CommitUpdate(q))
    <3>1. CommitUpdate(r) /\ CommitUpdate(q) => req'[q] = req[q] /\ req[q].pc = "write"
      BY <1>3, OthersKept DEF Continue, Write, CommitUpdate
    <3> QED BY <1>3, <3>1 DEF Committed
  <2>3. req[r].id = req[q].id
    BY <1>3, <2>1 DEF SameWrite
  <2>4. req[r].expected # req[q].expected
    BY <1>2, <1>3, <2>1, <2>2, <2>3 DEF WonInv
  <2> QED BY <2>1, <2>4 DEF SameWrite
<1>4. ASSUME NEW r \in Requests, Committed(req'[r]), req'[r].pc = "done"
      PROVE  Shows(req'[r].seen, req'[r])
  <2>1. req[r] \in Request /\ LocalsOK(req[r])
    BY DEF TypeOK
  <2>2. CASE req'[r] = req[r]
    BY <1>4, <2>2 DEF WonInv
  <2>3. CASE req[r].pc = "reread" /\ req'[r] = Answer(req[r], 200, rows[req[r].id])
    <3>1. Committed(req[r]) /\ SameWrite(req'[r], req[r])
      BY <1>4, <2>3, CommittedStep DEF CommitUpdate
    <3>2. Shows(rows[req[r].id], req[r])
      BY <3>1 DEF WonInv
    <3>3. req'[r].seen = rows[req[r].id]
      BY <2>1, <2>3, AnswerKeeps
    <3> QED BY <3>1, <3>2, <3>3, ShowsSame
  <2>4. ~Checked(req'[r]) /\ ~Failed(req'[r]) /\ ~Lost(r) /\ req'[r].op # "read"
    <3>1. Lost(r) => req'[r].code = 409
      BY <2>1, RefusedCode DEF Lost, Codes
    <3> QED BY <1>4, <3>1 DEF Committed, Checked, Failed
  <2>5. /\ req'[r] # [req[r] EXCEPT !.pc = "audit"]
        /\ req'[r] # [req[r] EXCEPT !.pc = "reread"]
    BY <1>4, <2>1 DEF Request
  <2> QED BY <2>2, <2>3, <2>4, <2>5, CallStep
<1>5. \A r \in Requests : req'[r].pc # "done" => req'[r].code = 0
  BY CodeStep
<1> QED BY <1>1, <1>3, <1>4, <1>5 DEF WonInv, Committed, Shows

\* Holds in every reachable state.
LEMMA WonAlways == Spec => []WonInv
<1>1. Init => WonInv
  BY WonInit
<1>2. TypeOK /\ WonInv /\ [Next]_vars => WonInv'
  BY WonStep
<1> QED BY <1>1, <1>2, TypeCorrect, PTL DEF Spec

\* No lost update: of the requests that named the same version of a record, at
\* most one is told that it succeeded, whatever versions are named.
THEOREM WinnerUnique == Spec => []OneWinner
<1>1. WonInv => OneWinner
  BY DEF WonInv, OneWinner, Committed
<1> QED BY <1>1, WonAlways, PTL

\* The record a writer is shown is its own version, as it wrote it, or a newer
\* one, whatever versions are named.
THEOREM WriteShown == Spec => []OwnWriteShown
<1>1. WonInv => OwnWriteShown
  BY DEF WonInv, OwnWriteShown, Committed, Shows
<1> QED BY <1>1, WonAlways, PTL

-----------------------------------------------------------------------------
(* Conflicts *)

\* ConflictHasWinner, of one request, with the record it lost.
Beaten(r) ==
  req[r].code = 409 =>
    /\ req[r].id \in Records
    /\ rows[req[r].id] \in Row
    /\ \/ rows[req[r].id].state = "deleted"
       \/ rows[req[r].id].version > req[r].expected

\* A conflict is answered to a request that has lost, and the loss is for good.
LEMMA BeatenStep ==
  ASSUME TypeOK, PendingInv, WonInv, [Next]_vars, NEW q \in Requests, Beaten(q)
  PROVE  Beaten(q)'
<1> SUFFICES ASSUME req'[q].code = 409
             PROVE  /\ req'[q].id \in Records
                    /\ rows'[req'[q].id] \in Row
                    /\ \/ rows'[req'[q].id].state = "deleted"
                       \/ rows'[req'[q].id].version > req'[q].expected
  BY DEF Beaten
<1>1. req[q] \in Request /\ LocalsOK(req[q]) /\ (req[q].pc # "done" => req[q].code = 0)
  BY DEF TypeOK, WonInv
<1> DEFINE d == req[q].id
<1>2. CASE req'[q] = req[q]
  <2>1. /\ d \in Records /\ rows[d] \in Row
        /\ rows[d].state = "deleted" \/ rows[d].version > req[q].expected
    BY <1>2 DEF Beaten
  <2>2. req[q].expected \in Nat /\ rows[d].version \in Nat
    BY <1>1, <2>1 DEF Request, Row
  <2> HIDE DEF d
  <2>3. /\ rows'[d] \in Row
        /\ rows[d].state = "deleted" => rows'[d].state = "deleted"
        /\ rows'[d].version >= rows[d].version
    <3>1. /\ rows'[d] \in Row
          /\ rows'[d].version = rows[d].version \/ rows'[d].version = rows[d].version + 1
      BY <2>1, RowKept
    <3> QED BY <2>1, <2>2, <3>1, DeletedForGood
  <2>4. rows'[d].state = "deleted" \/ rows'[d].version > req[q].expected
    BY <2>1, <2>2, <2>3 DEF Row
  <2> QED BY <1>2, <2>1, <2>3, <2>4 DEF d
<1>3. CASE Lost(q)
  <2>1. /\ req[q].pc = "write" /\ req[q].op \in {"update", "transition"}
        /\ ~Matches(req[q]) /\ UNCHANGED rows
        /\ req'[q] = Refused(req[q], 409)
    BY <1>3 DEF Lost, Conflict
  <2>2. req'[q].id = d /\ req'[q].expected = req[q].expected
    BY <1>1, <2>1 DEF Refused, Answer, Request
  <2>3. rows[d] \in Row /\ req[q].expected <= rows[d].version
    BY <2>1 DEF PendingInv, PendingOK
  <2>4. d \in Records /\ req[q].expected \in Nat
    BY <1>1, <2>1 DEF LocalsOK, InFlight, Request
  <2>5. rows[d].state = "deleted" \/ rows[d].version # req[q].expected
    BY <2>1, <2>3 DEF Matches, Live, Row
  <2> QED BY <2>1, <2>2, <2>3, <2>4, <2>5 DEF Row
<1>4. ~Checked(req'[q]) /\ ~Failed(req'[q])
  BY DEF Checked, Failed
<1>5. CASE /\ CommitCreate(q) \/ CommitUpdate(q) \/ CommitDelete(q)
           /\ req'[q] = [req[q] EXCEPT !.pc = "audit"]
  BY <1>1, <1>5 DEF CommitCreate, CommitUpdate, CommitDelete, Request
<1>6. CASE req[q].pc = "audit" /\ req'[q] = [req[q] EXCEPT !.pc = "reread"]
  BY <1>1, <1>6 DEF Request
<1>7. CASE req'[q] = Answer(req[q], 200, rows[req[q].id])
  BY <1>1, <1>7, AnswerKeeps
<1> QED BY <1>2, <1>3, <1>4, <1>5, <1>6, <1>7, CallStep

\* 409 is answered only to a request that lost to another, as long as clients
\* name versions they were shown.
THEOREM ConflictWon ==
  ASSUME Ahead = 0
  PROVE  Spec => []ConflictHasWinner
<1> DEFINE BeatenInv == \A r \in Requests : Beaten(r)
<1>1. Init => BeatenInv
  BY DEF Init, Idle, Beaten
<1>2. Init => PendingInv
  BY PendingInvariant
<1>3. TypeOK /\ PendingInv /\ [Next]_vars => PendingInv'
  BY PendingInvariant
<1>4. TypeOK /\ PendingInv /\ WonInv /\ BeatenInv /\ [Next]_vars => BeatenInv'
  BY BeatenStep
<1>5. BeatenInv => ConflictHasWinner
  BY DEF Beaten, ConflictHasWinner
<1> HIDE DEF BeatenInv
<1> QED BY <1>1, <1>2, <1>3, <1>4, <1>5, TypeCorrect, WonAlways, PTL DEF Spec

-----------------------------------------------------------------------------
(* What the log tells of a record *)

\* Each status is entered as often as it is left, but for the first and the last.
Balanced(entries, d, status) ==
  \A s \in StatusesOf(d) :
    Cardinality({a \in entries : a.after = s}) + (IF s = FirstStatus(d) THEN 1 ELSE 0)
      = Cardinality({a \in entries : a.before = s}) + (IF s = status THEN 1 ELSE 0)

\* No entries balance the first status.
LEMMA BalanceNone ==
  ASSUME NEW d \in Records
  PROVE  Balanced({}, d, FirstStatus(d))
<1>1. \A s : {a \in {} : a.after = s} = {} /\ {a \in {} : a.before = s} = {}
  OBVIOUS
<1> QED BY <1>1 DEF Balanced

\* A subset counts one element more exactly if the new one is in it.
LEMMA CountMore ==
  ASSUME NEW entries, IsFiniteSet(entries), NEW e, e \notin entries, NEW S, NEW T,
         S \subseteq entries, T = S \/ T = S \cup {e}
  PROVE  /\ Cardinality(S) \in Nat
         /\ Cardinality(T) = Cardinality(S) + (IF T = S THEN 0 ELSE 1)
<1>1. IsFiniteSet(S) /\ e \notin S
  BY FS_Subset
<1>2. Cardinality(S) \in Nat
  BY <1>1, FS_CardinalityType
<1>3. Cardinality(S \cup {e}) = Cardinality(S) + 1
  BY <1>1, FS_AddElement
<1>4. e \in S \cup {e}
  OBVIOUS
<1>5. S \cup {e} # S
  BY <1>1, <1>4
<1>6. CASE T = S
  BY <1>2, <1>6
<1>7. CASE T = S \cup {e}
  BY <1>2, <1>3, <1>5, <1>7
<1> QED BY <1>2, <1>6, <1>7

\* An entry that leads on from the last status keeps the balance.
LEMMA BalanceMore ==
  ASSUME NEW d \in Records, NEW entries, IsFiniteSet(entries), NEW e, e \notin entries,
         Balanced(entries, d, e.before)
  PROVE  IsFiniteSet(entries \cup {e}) /\ Balanced(entries \cup {e}, d, e.after)
<1>1. IsFiniteSet(entries \cup {e})
  BY FS_AddElement
<1>2. ASSUME NEW s \in StatusesOf(d)
      PROVE  Cardinality({a \in entries \cup {e} : a.after = s})
               + (IF s = FirstStatus(d) THEN 1 ELSE 0)
             = Cardinality({a \in entries \cup {e} : a.before = s})
               + (IF s = e.after THEN 1 ELSE 0)
  <2> DEFINE In == {a \in entries : a.after = s}
             Out == {a \in entries : a.before = s}
             NextIn == {a \in entries \cup {e} : a.after = s}
             NextOut == {a \in entries \cup {e} : a.before = s}
             first == IF s = FirstStatus(d) THEN 1 ELSE 0
             was == IF s = e.before THEN 1 ELSE 0
             is == IF s = e.after THEN 1 ELSE 0
  <2>1. /\ In \subseteq entries /\ NextIn = IF s = e.after THEN In \cup {e} ELSE In
        /\ Out \subseteq entries /\ NextOut = IF s = e.before THEN Out \cup {e} ELSE Out
        /\ e \notin In /\ e \notin Out
    OBVIOUS
  <2>2. Cardinality(In) + first = Cardinality(Out) + was
    BY DEF Balanced
  <2> HIDE DEF In, Out, NextIn, NextOut
  <2>3. Cardinality(In) \in Nat /\ Cardinality(NextIn) = Cardinality(In) + is
    BY <2>1, CountMore
  <2>4. Cardinality(Out) \in Nat /\ Cardinality(NextOut) = Cardinality(Out) + was
    BY <2>1, CountMore
  <2>5. first \in Nat /\ was \in Nat /\ is \in Nat
    OBVIOUS
  <2> HIDE DEF first, was, is
  <2>6. Cardinality(NextIn) + first = Cardinality(NextOut) + is
    BY <2>2, <2>3, <2>4, <2>5
  <2> QED BY <2>6 DEF NextIn, NextOut, first, is
<1> QED BY <1>1, <1>2 DEF Balanced

\* A transition of the record between its commit and its audit entry.
Awaited(call, d) == call.op = "transition" /\ call.id = d /\ call.pc = "audit"

\* The log of a record as it will be with the entries under way.
Foreseen(d) ==
  Moves(d) \cup {AuditEntry(req[r], r) : r \in {r \in Requests : Awaited(req[r], d)}}

\* A transition of the record may have lost its entry.
Unclear(d) ==
  \E r \in Requests :
    /\ req[r].op = "transition" /\ req[r].id = d
    /\ req[r].pc = "gone" \/ req[r].code = 500

\* The log of a record, with the entries under way, leads to its present status.
Accounted(d) ==
  /\ IsFiniteSet(Foreseen(d))
  /\ rows[d].state = "absent" => Foreseen(d) = {} /\ SeedStatus[d] = "none"
  /\ rows[d].state # "absent" => Balanced(Foreseen(d), d, rows[d].status)

\* A handler past its audit entry.
Past(call) == call.pc \notin {"idle", "write", "audit"}

\* AuditAccountsForStatus follows from this.
AccountInv ==
  /\ \A a \in audits : a.request \in Requests /\ Past(req[a.request])
  /\ \A d \in Records : Unclear(d) \/ Accounted(d)

\* A handler past its audit entry stays so, and one that is over stays as it is.
LEMMA PastKept ==
  ASSUME TypeOK, [Next]_vars, NEW q \in Requests, Past(req[q])
  PROVE  /\ Past(req'[q])
         /\ req[q].pc \in {"done", "gone"} => req'[q] = req[q]
<1>1. req[q] \in Request /\ req \in [Requests -> Request]
  BY DEF TypeOK
<1>2. CASE req'[q] = req[q]
  BY <1>2
<1>3. CASE Reread(q) \/ DatabaseError(q) \/ Crash(q)
  <2>1. req[q].pc = "reread"
    BY <1>3 DEF Past, Reread, DatabaseError, Crash, InFlight
  <2>2. ASSUME Reread(q) PROVE req'[q].pc = "done"
    <3>1. req'[q] = Fetched(req[q]) /\ req[q].id \in Records
      BY <1>1, <2>1, <2>2 DEF TypeOK, Reread, LocalsOK, InFlight
    <3> QED BY <1>1, <3>1, FetchedPc
  <2>3. Failed(req'[q]) \/ req'[q].pc = "done"
    BY <1>3, <2>2, FailOutcome
  <2> QED BY <2>1, <2>3 DEF Failed, Past
<1>4. req'[q] = req[q] \/ Arrive(q) \/ Continue(q) \/ Fail(q)
  <2>1. CASE UNCHANGED vars
    BY <2>1 DEF vars
  <2>2. CASE Next
    <3>1. PICK r \in Requests : Arrive(r) \/ Continue(r) \/ Fail(r)
      BY SMTT(60), <2>2 DEF Next
    <3> QED BY <3>1, OthersKept
  <2> QED BY <2>1, <2>2
<1>5. Arrive(q) \/ Continue(q) \/ Fail(q) => Reread(q) \/ DatabaseError(q) \/ Crash(q)
  BY DEF Past, Arrive, Create, Update, Transition, Delete, Read, Continue, Write, CommitCreate,
         CodeTaken, CommitUpdate, Conflict, CommitDelete, DeleteMissed, AppendAudit, Fail,
         AuditFails
<1> QED BY <1>2, <1>3, <1>4, <1>5

\* What is unclear stays unclear.
LEMMA UnclearKept ==
  ASSUME TypeOK, WonInv, [Next]_vars, NEW d, Unclear(d)
  PROVE  Unclear(d)'
<1>1. PICK q \in Requests :
        /\ req[q].op = "transition" /\ req[q].id = d
        /\ req[q].pc = "gone" \/ req[q].code = 500
  BY DEF Unclear
<1>2. req[q].pc \in {"done", "gone"}
  BY <1>1 DEF WonInv
<1>3. req'[q] = req[q]
  BY <1>2, PastKept DEF Past
<1> QED BY <1>1, <1>3 DEF Unclear

\* What the log tells is foreseen as before, if neither the log of the record nor
\* a transition of it between commit and entry is concerned.
LEMMA ForeseenSame ==
  ASSUME NEW q \in Requests, NEW d \in Records,
         \A r \in Requests \ {q} : req'[r] = req[r],
         \/ req'[q] = req[q]
         \/ ~Awaited(req[q], d) /\ ~Awaited(req'[q], d),
         Moves(d)' = Moves(d)
  PROVE  Foreseen(d)' = Foreseen(d)
<1>1. \A r \in Requests :
        \/ req'[r] = req[r]
        \/ ~Awaited(req[r], d) /\ ~Awaited(req'[r], d)
  OBVIOUS
<1>2. {r \in Requests : Awaited(req'[r], d)} = {r \in Requests : Awaited(req[r], d)}
  BY <1>1
<1>3. \A r \in {r \in Requests : Awaited(req[r], d)} :
        AuditEntry(req'[r], r) = AuditEntry(req[r], r)
  BY <1>1
<1>4. {AuditEntry(req'[r], r) : r \in {r \in Requests : Awaited(req'[r], d)}}
        = {AuditEntry(req[r], r) : r \in {r \in Requests : Awaited(req[r], d)}}
  BY <1>2, <1>3
<1> QED BY <1>4 DEF Foreseen

\* Arrivals, errors and second reads change neither tables nor log, nor what the
\* log foresees, unless a transition is lost between commit and entry.
LEMMA QuietStep ==
  ASSUME TypeOK, NEW q \in Requests, NEW d \in Records, ~Unclear(d)',
         \/ Arrive(q) \/ CodeTaken(q) \/ Conflict(q) \/ DeleteMissed(q)
         \/ Reread(q) \/ DatabaseError(q) \/ Crash(q)
  PROVE  UNCHANGED <<rows, audits>> /\ Foreseen(d)' = Foreseen(d)
<1>1. req[q] \in Request /\ req \in [Requests -> Request]
  BY SMTT(60) DEF TypeOK
<1>2. UNCHANGED <<rows, audits>>
  BY ZenonT(60) DEF Arrive, Create, Update, Transition, Delete, Read, CodeTaken, Conflict,
                    DeleteMissed, Reread, DatabaseError, Crash
<1>3. \A r \in Requests \ {q} : req'[r] = req[r]
  BY OthersKept DEF Continue, Write, Fail
<1>4. ~Awaited(req'[q], d)
  <2>1. \A code \in Codes : Refused(req[q], code).pc = "done"
    BY <1>1, RefusedType
  <2>2. CASE Arrive(q)
    BY <2>2, ArriveOutcome DEF Checked, Failed, Awaited
  <2>3. CASE CodeTaken(q) \/ Conflict(q) \/ DeleteMissed(q)
    <3>1. \E code \in {404, 409, 500} : req'[q] = Refused(req[q], code)
      BY <1>1, <2>3 DEF CodeTaken, Conflict, DeleteMissed
    <3> QED BY <2>1, <3>1 DEF Codes, Awaited
  <2>4. CASE Reread(q)
    <3>1. req'[q] = Fetched(req[q]) /\ req[q].id \in Records
      BY <1>1, <2>4 DEF TypeOK, Reread, LocalsOK, InFlight
    <3> QED BY <1>1, <3>1, FetchedPc DEF Awaited
  <2>5. CASE DatabaseError(q) \/ Crash(q)
    BY <2>5, FailOutcome DEF Failed, Awaited
  <2> QED BY <2>2, <2>3, <2>4, <2>5
<1>5. ~Awaited(req[q], d)
  <2>1. CASE Crash(q)
    <3>1. Refused(req[q], 0) \in Request
      BY <1>1, RefusedType
    <3>2. req'[q] = [Refused(req[q], 0) EXCEPT !.pc = "gone"]
      BY <1>1, <2>1 DEF Crash
    <3>3. req'[q].pc = "gone" /\ req'[q].op = req[q].op /\ req'[q].id = req[q].id
      BY SMTT(60), <1>1, <3>1, <3>2 DEF Refused, Answer, Request
    <3> QED BY <3>3 DEF Unclear, Awaited
  <2>2. CASE ~Crash(q)
    BY <2>2, ZenonT(60)
    DEF Arrive, Create, Update, Transition, Delete, Read, CodeTaken, Conflict, DeleteMissed,
        Reread, DatabaseError, Awaited
  <2> QED BY <2>1, <2>2
<1>6. Moves(d)' = Moves(d)
  BY <1>2 DEF Moves
<1> QED BY <1>2, <1>3, <1>4, <1>5, <1>6, ForeseenSame

\* An answer of a call that was refused or failed is about the same record.
LEMMA RefusedSame ==
  ASSUME NEW call \in Request, NEW code \in Codes
  PROVE  /\ Refused(call, code).op = call.op /\ Refused(call, code).id = call.id
         /\ Refused(call, code).pc = "done" /\ Refused(call, code).code = code
<1>1. Refused(call, code).op = call.op /\ Refused(call, code).id = call.id
  BY DEF Refused, Answer, Request
<1> QED BY <1>1, RefusedCode

\* An entry that is written is one foreseen, or none of a transition of the record.
LEMMA EntryStep ==
  ASSUME TypeOK, NEW q \in Requests, NEW d \in Records, ~Unclear(d)',
         AppendAudit(q) \/ AuditFails(q)
  PROVE  UNCHANGED rows /\ Foreseen(d)' = Foreseen(d)
<1>1. /\ req[q] \in Request /\ req \in [Requests -> Request]
      /\ req[q].pc = "audit" /\ UNCHANGED rows
  BY DEF TypeOK, AppendAudit, AuditFails
<1>2. \A r \in Requests \ {q} : req'[r] = req[r]
  BY OthersKept DEF Continue, Fail
<1>3. req'[q] = Audited(req[q]) \/ req'[q] = Refused(req[q], 500)
  BY <1>1 DEF AppendAudit, AuditFails, AuditFailed
<1>4. ~Awaited(req'[q], d)
  BY <1>1, <1>3, AuditedPc, RefusedSame DEF Awaited, Codes
<1>5. audits' = audits \/ audits' = audits \cup {AuditEntry(req[q], q)}
  BY DEF AppendAudit, AuditFails
<1>6. /\ AuditEntry(req[q], q).action = req[q].op
      /\ AuditEntry(req[q], q).id = req[q].id
  BY DEF AuditEntry
<1>7. CASE ~Awaited(req[q], d)
  <2>1. ~(AuditEntry(req[q], q).action = "transition" /\ AuditEntry(req[q], q).id = d)
    BY <1>1, <1>6, <1>7 DEF Awaited
  <2>2. Moves(d)' = Moves(d)
    BY <1>5, <2>1 DEF Moves
  <2> QED BY <1>1, <1>2, <1>4, <1>7, <2>2, ForeseenSame
<1>8. CASE Awaited(req[q], d)
  <2>1. ~AuditFails(q)
    <3>1. AuditFails(q) => req'[q] = Refused(req[q], 500)
      BY <1>1, <1>8 DEF AuditFails, AuditFailed, Awaited
    <3>2. req'[q] = Refused(req[q], 500) => Unclear(d)'
      BY <1>1, <1>8, RefusedSame DEF Unclear, Awaited, Codes
    <3> QED BY <3>1, <3>2
  <2>2. audits' = audits \cup {AuditEntry(req[q], q)}
    BY <2>1 DEF AppendAudit
  <2>3. Moves(d)' = Moves(d) \cup {AuditEntry(req[q], q)}
    BY <1>6, <1>8, <2>2 DEF Moves, Awaited
  <2>4. {r \in Requests : Awaited(req[r], d)} = {r \in Requests : Awaited(req'[r], d)} \cup {q}
    BY <1>2, <1>4, <1>8
  <2>5. \A r \in {r \in Requests : Awaited(req'[r], d)} : req'[r] = req[r]
    BY <1>2, <1>4
  <2>6. {AuditEntry(req[r], r) : r \in {r \in Requests : Awaited(req[r], d)}}
          = {AuditEntry(req'[r], r) : r \in {r \in Requests : Awaited(req'[r], d)}}
            \cup {AuditEntry(req[q], q)}
    BY <2>4, <2>5
  <2> QED BY <1>1, <2>3, <2>6 DEF Foreseen
<1> QED BY <1>7, <1>8

\* A commit that was reported as an error, or is no transition of the record,
\* foresees nothing new.
LEMMA CommitForesees ==
  ASSUME TypeOK, NEW q \in Requests, NEW d \in Records, ~Unclear(d)',
         CommitCreate(q) \/ CommitUpdate(q) \/ CommitDelete(q),
         ~(req[q].op = "transition" /\ req[q].id = d)
  PROVE  Foreseen(d)' = Foreseen(d)
<1>1. /\ req[q] \in Request /\ req \in [Requests -> Request]
      /\ req[q].pc = "write" /\ UNCHANGED audits
  BY DEF TypeOK, CommitCreate, CommitUpdate, CommitDelete
<1>2. \A r \in Requests \ {q} : req'[r] = req[r]
  BY OthersKept DEF Continue, Write
<1>3. req'[q] = [req[q] EXCEPT !.pc = "audit"] \/ req'[q] = Refused(req[q], 500)
  BY <1>1 DEF CommitCreate, CommitUpdate, CommitDelete, Applied
<1>4. req'[q].op = req[q].op /\ req'[q].id = req[q].id
  BY <1>1, <1>3, RefusedSame DEF Request, Codes
<1>5. ~Awaited(req[q], d) /\ ~Awaited(req'[q], d)
  BY <1>1, <1>4 DEF Awaited
<1>6. Moves(d)' = Moves(d)
  BY <1>1 DEF Moves
<1> QED BY <1>2, <1>5, <1>6, ForeseenSame

\* A transition that was applied foresees its entry, which is not there yet.
LEMMA MoveForesees ==
  ASSUME TypeOK, AccountInv, NEW q \in Requests, NEW d \in Records, ~Unclear(d)',
         CommitUpdate(q), req[q].op = "transition", req[q].id = d
  PROVE  /\ AuditEntry(req[q], q) \notin Foreseen(d)
         /\ Foreseen(d)' = Foreseen(d) \cup {AuditEntry(req[q], q)}
<1>1. /\ req[q] \in Request /\ req \in [Requests -> Request]
      /\ req[q].pc = "write" /\ UNCHANGED audits
  BY DEF TypeOK, CommitUpdate
<1>2. \A r \in Requests \ {q} : req'[r] = req[r]
  BY OthersKept DEF Continue, Write
<1>3. req'[q] = [req[q] EXCEPT !.pc = "audit"]
  <2>1. req'[q] = Refused(req[q], 500) => Unclear(d)'
    BY <1>1, RefusedSame DEF Unclear, Codes
  <2> QED BY <1>1, <2>1 DEF CommitUpdate, Applied
<1>4. AuditEntry(req'[q], q) = AuditEntry(req[q], q) /\ Awaited(req'[q], d)
  BY <1>1, <1>3 DEF AuditEntry, Awaited, Request
<1>5. Moves(d)' = Moves(d)
  BY <1>1 DEF Moves
<1>6. {r \in Requests : Awaited(req'[r], d)} = {r \in Requests : Awaited(req[r], d)} \cup {q}
  BY <1>2, <1>4
<1>7. \A r \in {r \in Requests : Awaited(req[r], d)} : req'[r] = req[r]
  BY <1>1, <1>2 DEF Awaited
<1>8. {AuditEntry(req'[r], r) : r \in {r \in Requests : Awaited(req'[r], d)}}
        = {AuditEntry(req[r], r) : r \in {r \in Requests : Awaited(req[r], d)}}
          \cup {AuditEntry(req[q], q)}
  BY <1>4, <1>6, <1>7
<1>9. \A r : AuditEntry(req[r], r).request = r
  BY DEF AuditEntry
<1>10. AuditEntry(req[q], q) \notin Moves(d)
  BY <1>1, <1>9 DEF Moves, AccountInv, Past
<1>11. ~Awaited(req[q], d)
  BY <1>1 DEF Awaited
<1>12. AuditEntry(req[q], q) \notin
         {AuditEntry(req[r], r) : r \in {r \in Requests : Awaited(req[r], d)}}
  BY <1>9, <1>11
<1> QED BY <1>5, <1>8, <1>10, <1>12 DEF Foreseen

\* What is accounted for stays so: a commit of a transition adds an entry that
\* leads on from the status it replaced.
LEMMA AccountStep ==
  ASSUME TypeOK, PendingInv, AccountInv, [Next]_vars, NEW d \in Records,
         Accounted(d), ~Unclear(d)'
  PROVE  Accounted(d)'
<1>1. ASSUME Foreseen(d)' = Foreseen(d), rows'[d].status = rows[d].status,
             rows'[d].state = "absent" <=> rows[d].state = "absent"
      PROVE  Accounted(d)'
  BY <1>1 DEF Accounted
<1>2. rows \in [Records -> Row \cup {NoRow}]
  BY DEF TypeOK
<1>3. CASE UNCHANGED vars
  BY <1>1, <1>3 DEF vars, Foreseen, Moves
<1>4. ASSUME NEW q \in Requests, CommitCreate(q)
      PROVE  Accounted(d)'
  <2>1. Foreseen(d)' = Foreseen(d)
    BY <1>4, CommitForesees DEF CommitCreate
  <2>2. /\ req[q].id \in Records /\ rows[req[q].id] = NoRow
        /\ rows' = [rows EXCEPT ![req[q].id] = NewRow(req[q])]
        /\ req[q].status = InitialStatusOf[req[q].id]
    BY <1>4, CommitEffect DEF PendingInv, PendingOK
  <2>3. CASE req[q].id # d
    BY <1>1, <1>2, <2>1, <2>2, <2>3
  <2>4. CASE req[q].id = d
    <3>1. rows'[d].state = "live" /\ rows'[d].status = InitialStatusOf[d]
      BY <1>2, <2>2, <2>4 DEF NewRow
    <3>2. Foreseen(d) = {} /\ InitialStatusOf[d] = FirstStatus(d)
      BY <2>2, <2>4 DEF Accounted, NoRow, FirstStatus
    <3> QED BY <2>1, <3>1, <3>2, BalanceNone DEF Accounted
  <2> QED BY <2>3, <2>4
<1>5. ASSUME NEW q \in Requests, CommitUpdate(q)
      PROVE  Accounted(d)'
  <2>1. /\ req[q].id \in Records /\ req[q].pc = "write"
        /\ req[q].op \in {"update", "transition"}
        /\ rows[req[q].id].state = "live" /\ rows[req[q].id].version = req[q].expected
        /\ rows' = [rows EXCEPT ![req[q].id] = Overwritten(req[q])]
        /\ Overwritten(req[q]).state = "live" /\ Overwritten(req[q]).status = req[q].status
    BY <1>5, CommitEffect, OverwrittenEffect
  <2>2. CASE req[q].id # d
    BY <1>1, <1>2, <1>5, <2>1, <2>2, CommitForesees
  <2>3. CASE req[q].id = d /\ req[q].op = "update"
    <3>1. req[q].status = rows[d].status
      BY <2>1, <2>3 DEF PendingInv, PendingOK
    <3> QED BY <1>1, <1>2, <1>5, <2>1, <2>3, <3>1, CommitForesees
  <2>4. CASE req[q].id = d /\ req[q].op = "transition"
    <3> DEFINE e == AuditEntry(req[q], q)
    <3>1. req[q].before = rows[d].status
      BY <2>1, <2>4 DEF PendingInv, PendingOK
    <3>2. e.before = rows[d].status /\ e.after = req[q].status
      BY <2>4, <3>1 DEF AuditEntry
    <3>3. e \notin Foreseen(d) /\ Foreseen(d)' = Foreseen(d) \cup {e}
      BY <1>5, <2>4, MoveForesees
    <3> HIDE DEF e
    <3>4. IsFiniteSet(Foreseen(d)) /\ Balanced(Foreseen(d), d, e.before)
      BY <2>1, <2>4, <3>2 DEF Accounted
    <3>5. IsFiniteSet(Foreseen(d) \cup {e}) /\ Balanced(Foreseen(d) \cup {e}, d, e.after)
      BY <3>3, <3>4, BalanceMore
    <3>6. rows'[d].state = "live" /\ rows'[d].status = e.after
      BY <1>2, <2>1, <2>4, <3>2
    <3> QED BY <3>3, <3>5, <3>6 DEF Accounted
  <2> QED BY <2>1, <2>2, <2>3, <2>4
<1>6. ASSUME NEW q \in Requests, CommitDelete(q)
      PROVE  Accounted(d)'
  <2>1. Foreseen(d)' = Foreseen(d)
    BY <1>6, CommitForesees DEF CommitDelete
  <2>2. /\ req[q].id \in Records /\ rows[req[q].id] \in Row
        /\ rows[req[q].id].state = "live"
        /\ rows' = [rows EXCEPT ![req[q].id] = [rows[req[q].id] EXCEPT !.state = "deleted"]]
    BY <1>6, CommitEffect
  <2>3. /\ rows'[d].status = rows[d].status
        /\ rows'[d].state = "absent" <=> rows[d].state = "absent"
    BY <1>2, <2>2, DeletedEffect
  <2> QED BY <1>1, <2>1, <2>3
<1>7. ASSUME NEW q \in Requests, Arrive(q) \/ Continue(q) \/ Fail(q)
      PROVE  Accounted(d)'
  <2>1. CASE AppendAudit(q) \/ AuditFails(q)
    BY <1>1, <2>1, EntryStep
  <2>2. CASE \/ Arrive(q) \/ CodeTaken(q) \/ Conflict(q) \/ DeleteMissed(q)
             \/ Reread(q) \/ DatabaseError(q) \/ Crash(q)
    BY <1>1, <2>2, QuietStep
  <2> QED BY <1>4, <1>5, <1>6, <1>7, <2>1, <2>2 DEF Continue, Write, Fail
<1> QED BY <1>3, <1>7 DEF Next

\* The entries of the log belong to requests past them.
LEMMA LogStep ==
  ASSUME TypeOK, AccountInv, [Next]_vars, NEW a \in audits'
  PROVE  a.request \in Requests /\ Past(req'[a.request])
<1>1. CASE a \in audits
  BY <1>1, PastKept DEF AccountInv
<1>2. CASE a \notin audits
  <2>1. PICK q \in Requests : AppendAudit(q) \/ AuditFails(q)
    BY <1>2, ZenonT(60)
    DEF Next, vars, Arrive, Create, Update, Transition, Delete, Read, Continue, Write,
        CommitCreate, CodeTaken, CommitUpdate, Conflict, CommitDelete, DeleteMissed,
        Reread, Fail, DatabaseError, Crash
  <2>2. /\ req[q] \in Request /\ req[q].pc = "audit" /\ a = AuditEntry(req[q], q)
        /\ req'[q] = Audited(req[q]) \/ req'[q] = Refused(req[q], 500)
    BY <1>2, <2>1 DEF TypeOK, AppendAudit, AuditFails, AuditFailed
  <2>3. req'[q].pc \in {"done", "reread"}
    BY <2>2, AuditedPc, RefusedSame DEF Codes
  <2> QED BY <2>2, <2>3 DEF AuditEntry, Past
<1> QED BY <1>1, <1>2

\* The log of a new table is empty and foresees nothing.
LEMMA AccountInit == Init => AccountInv
<1> SUFFICES ASSUME Init, NEW d \in Records PROVE Accounted(d)
  BY DEF Init, AccountInv
<1>1. PICK c \in Content : rows[d] = SeedRow(d, c)
  BY DEF Init
<1>2. Foreseen(d) = {}
  BY DEF Init, Foreseen, Moves, Awaited, Idle
<1>3. rows[d].state # "absent" => rows[d].status = FirstStatus(d)
  BY <1>1 DEF SeedRow, NoRow, FirstStatus
<1>4. rows[d].state = "absent" => SeedStatus[d] = "none"
  BY <1>1 DEF SeedRow
<1> QED BY <1>2, <1>3, <1>4, BalanceNone, FS_EmptySet DEF Accounted

\* Where no transition lost its entry, the log accounts for the status: whatever
\* overlaps and fails, it tells of as many ways into each status as out of it, but
\* for the first status and the present one, as long as clients name versions they
\* were shown.
THEOREM LogAccounts ==
  ASSUME Ahead = 0
  PROVE  Spec => []AuditAccountsForStatus
<1>1. Init => PendingInv
  BY PendingInvariant
<1>2. TypeOK /\ PendingInv /\ [Next]_vars => PendingInv'
  BY PendingInvariant
<1>3. TypeOK /\ WonInv /\ PendingInv /\ AccountInv /\ [Next]_vars => AccountInv'
  <2>1. ASSUME TypeOK, WonInv, PendingInv, AccountInv, [Next]_vars, NEW d \in Records
        PROVE  Unclear(d)' \/ Accounted(d)'
    BY <2>1, UnclearKept, AccountStep DEF AccountInv
  <2> QED BY <2>1, LogStep DEF AccountInv
<1>4. AccountInv => AuditAccountsForStatus
  <2> SUFFICES ASSUME AccountInv, NEW d \in Records, rows[d].state # "absent", Settled(d)
               PROVE  Balanced(Moves(d), d, rows[d].status)
    BY DEF AuditAccountsForStatus, Balanced
  <2>1. ~Unclear(d) /\ Foreseen(d) = Moves(d)
    BY DEF Settled, Unclear, Foreseen, Awaited
  <2> QED BY <2>1 DEF AccountInv, Accounted
<1> QED BY <1>1, <1>2, <1>3, <1>4, AccountInit, TypeCorrect, WonAlways, PTL DEF Spec

=============================================================================
