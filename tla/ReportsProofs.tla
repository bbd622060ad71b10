----------------------------- MODULE ReportsProofs -----------------------------
(***************************************************************************)
(* Theorems about Reports: what the pages of a list and the parts of a     *)
(* summary can be trusted for while requests write.                        *)
(***************************************************************************)
EXTENDS Reports, FiniteSetTheorems, TLAPS

-----------------------------------------------------------------------------
(* Items and their order *)

Item == [id : Nat, at : Time]

IdsOf(items) == {i.id : i \in items}

\* No two items share an id.
Numbered(items) == \A a, b \in items : a.id = b.id => a = b

\* A finite list of items with ids of their own.
IsList(items) == items \subseteq Item /\ IsFiniteSet(items) /\ Numbered(items)

Preceding(list, items, i) == {j \in items : Precedes(list, j, i)}

\* The order leaves the database no choice about the place of this item.
Placed(list, items, i) ==
  \A j \in items : j # i => Precedes(list, j, i) \/ Precedes(list, i, j)

Parts == [id : Nat, at : Nat]

LEMMA TimesAreNumbers == Item \subseteq Parts /\ Time \subseteq Nat
  BY ReportsAssumption DEF Item, Parts, Time

\* A part of a list is a list.
LEMMA PartOfList ==
  ASSUME NEW items, IsList(items), NEW part \in SUBSET items
  PROVE  IsList(part) /\ Cardinality(part) \in Nat /\ Cardinality(part) <= Cardinality(items)
<1>1. IsFiniteSet(part) /\ Cardinality(part) <= Cardinality(items)
  BY FS_Subset DEF IsList
<1>2. Cardinality(part) \in Nat
  BY <1>1, FS_CardinalityType
<1> QED BY <1>1, <1>2 DEF IsList, Numbered

\* A list has as many ids as items.
LEMMA CountOfIds ==
  ASSUME NEW items, IsList(items)
  PROVE  IsFiniteSet(IdsOf(items)) /\ Cardinality(IdsOf(items)) = Cardinality(items)
<1> DEFINE f == [i \in items |-> i.id]
<1>1. f \in [items -> IdsOf(items)]
  BY DEF IdsOf
<1>2. \A i \in items : f[i] = i.id
  OBVIOUS
<1> HIDE DEF f
<1>3. \A i, j \in items : f[i] = f[j] => i = j
  BY <1>2 DEF IsList, Numbered
<1>4. \A d \in IdsOf(items) : \E i \in items : f[i] = d
  BY <1>2 DEF IdsOf
<1>5. f \in Bijection(items, IdsOf(items))
  BY <1>1, <1>3, <1>4 DEF Bijection, Injection, Surjection, IsInjective
<1>6. ExistsBijection(items, IdsOf(items))
  BY <1>5 DEF ExistsBijection
<1> QED BY <1>6, FS_Bijection DEF IsList

\* A list whose ids are all in another is no longer than that.
LEMMA CompareByIds ==
  ASSUME NEW a, NEW b, IsList(a), IsList(b), IdsOf(a) \subseteq IdsOf(b)
  PROVE  Cardinality(a) <= Cardinality(b)
<1>1. Cardinality(IdsOf(a)) <= Cardinality(IdsOf(b))
  BY CountOfIds, FS_Subset
<1> QED BY <1>1, CountOfIds

LEMMA MinOfTwo ==
  ASSUME NEW n \in Nat, NEW m \in Nat
  PROVE  Min({n, m}) = IF n <= m THEN n ELSE m
<1> DEFINE least == IF n <= m THEN n ELSE m
<1>1. least \in {n, m} /\ \A y \in {n, m} : least =< y
  OBVIOUS
<1>2. \A x \in {n, m} : (\A y \in {n, m} : x =< y) => x = least
  OBVIOUS
<1> QED BY <1>1, <1>2 DEF Min

-----------------------------------------------------------------------------
(* The first items of a list *)

\* Heads are as long as asked for, or all of the list.
LEMMA HeadsCount ==
  ASSUME NEW list, NEW items, IsList(items), NEW n \in Nat, NEW head \in Heads(list, items, n)
  PROVE  /\ head \subseteq items /\ IsList(head)
         /\ Cardinality(head) \in Nat /\ Cardinality(head) <= n
         /\ head = items \/ Cardinality(head) = n
<1>1. head \subseteq items /\ Cardinality(head) = Min({n, Cardinality(items)})
  BY DEF Heads, kSubset
<1>2. Cardinality(items) \in Nat
  BY FS_CardinalityType DEF IsList
<1>3. Cardinality(head) = IF n <= Cardinality(items) THEN n ELSE Cardinality(items)
  BY <1>1, <1>2, MinOfTwo
<1>4. Cardinality(head) = Cardinality(items) => head = items
  BY <1>1, FS_Subset DEF IsList
<1> QED BY <1>1, <1>2, <1>3, <1>4, PartOfList

\* What precedes an item of a head is in the head, which is longer than that.
LEMMA HeadsClosed ==
  ASSUME NEW list, NEW items, IsList(items), NEW n \in Nat, NEW head \in Heads(list, items, n),
         NEW i \in head
  PROVE  Cardinality(Preceding(list, items, i)) < n
<1> DEFINE before == Preceding(list, items, i)
<1>1. before \subseteq head
  BY DEF Preceding, Heads
<1>2. i \notin before
  BY HeadsCount, TimesAreNumbers DEF Preceding, Precedes, IsList, Parts
<1>3. IsFiniteSet(head) /\ Cardinality(head) \in Nat /\ Cardinality(head) <= n
  BY HeadsCount DEF IsList
<1>4. Cardinality(head \ {i}) = Cardinality(head) - 1 /\ IsFiniteSet(head \ {i})
  BY <1>3, FS_RemoveElement
<1>5. Cardinality(before) <= Cardinality(head \ {i})
  BY <1>1, <1>2, <1>4, FS_Subset
<1>6. Cardinality(before) \in Nat
  BY <1>1, <1>3, FS_Subset, FS_CardinalityType
<1> QED BY <1>3, <1>4, <1>5, <1>6

\* A placed item beyond a head is preceded by all of the head.
LEMMA HeadsPassed ==
  ASSUME NEW list, NEW items, IsList(items), NEW n \in Nat, NEW head \in Heads(list, items, n),
         NEW i \in items \ head, Placed(list, items, i)
  PROVE  n <= Cardinality(Preceding(list, items, i))
<1> DEFINE before == Preceding(list, items, i)
<1>1. head \subseteq items /\ Cardinality(head) = n
  BY HeadsCount
<1>2. head \subseteq before
  BY <1>1 DEF Placed, Preceding, Heads
<1>3. IsFiniteSet(before)
  BY FS_Subset DEF Preceding, IsList
<1> QED BY <1>1, <1>2, <1>3, FS_Subset, FS_CardinalityType

\* If every item is placed there is one head of a length.
LEMMA HeadsUnique ==
  ASSUME NEW list, NEW items, IsList(items), \A i \in items : Placed(list, items, i),
         NEW n \in Nat, NEW a \in Heads(list, items, n), NEW b \in Heads(list, items, n)
  PROVE  a = b
<1>1. /\ a \subseteq items /\ b \subseteq items
      /\ IsFiniteSet(a) /\ IsFiniteSet(b) /\ Cardinality(a) = Cardinality(b)
  BY HeadsCount DEF Heads, kSubset, IsList
<1>2. SUFFICES ASSUME a # b PROVE FALSE
  OBVIOUS
<1>3. ~(a \subseteq b)
  BY <1>1, <1>2, FS_Subset
<1>4. ~(b \subseteq a)
  BY <1>1, <1>2, FS_Subset
<1>5. PICK x \in a \ b : TRUE
  BY <1>3
<1>6. PICK y \in b \ a : TRUE
  BY <1>4
<1>7. ~Precedes(list, y, x) /\ ~Precedes(list, x, y)
  BY <1>1, <1>5, <1>6 DEF Heads
<1>8. x \in items /\ y \in items /\ x # y
  BY <1>1, <1>5, <1>6
<1> QED BY <1>7, <1>8 DEF Placed

\* A page that does not reach the end of the list is full.
LEMMA PageIsFull ==
  ASSUME NEW list, NEW items, IsList(items), NEW n \in Nat, NEW m \in Nat,
         NEW skipped \in Heads(list, items, n), NEW reached \in Heads(list, items, m),
         skipped \subseteq reached, reached # items
  PROVE  Cardinality(reached \ skipped) = m - n
<1>1. reached \subseteq items /\ IsFiniteSet(reached) /\ Cardinality(reached) = m
  BY HeadsCount DEF IsList
<1>2. Cardinality(skipped) = n
  BY <1>1, HeadsCount
<1>3. reached \cap skipped = skipped
  OBVIOUS
<1>4. Cardinality(reached \ skipped) = Cardinality(reached) - Cardinality(skipped)
  BY <1>1, <1>3, FS_Difference
<1> QED BY <1>1, <1>2, <1>4

\* The size applied is the size told, of either list, and never zero.
LEMMA SizeTold ==
  ASSUME NEW list, NEW asked \in Nat
  PROVE  /\ NormalSize(BoundSize(asked)) \in Nat \ {0}
         /\ ToldSize(list, asked) = NormalSize(BoundSize(asked))
  BY ReportsAssumption DEF NormalSize, BoundSize, ToldSize

LEMMA Offsets ==
  ASSUME NEW page \in Nat \ {0}, NEW size \in Nat
  PROVE  /\ Offset(page, size) \in Nat
         /\ Offset(page + 1, size) = Offset(page, size) + size
         /\ Offset(1, size) = 0
<1> DEFINE k == page - 1
<1>1. k \in Nat /\ page + 1 - 1 = k + 1
  OBVIOUS
<1>2. k * size \in Nat /\ (k + 1) * size = k * size + size
  BY <1>1
<1>3. (1 - 1) * size = 0
  OBVIOUS
<1> QED BY <1>1, <1>2, <1>3 DEF Offset

-----------------------------------------------------------------------------
(* What is stored: rows, entries, and the writes under way *)

Meant(w) == writer[w].pc \in {"stamp", "write", "audit", "insert"} => writer[w].op \in Actions

\* A write that stores a row has a status for it.
Filled(w) ==
  writer[w].pc \in {"stamp", "write"} /\ writer[w].op # "delete" => writer[w].status \in Statuses

StoreType ==
  /\ now \in Time
  /\ table \in [Ids -> Row]
  /\ \A d \in Ids : table[d].status = "none" <=> table[d].state = "absent"
  /\ writer \in [Writers -> Writer]

StoreInv ==
  /\ StoreType
  /\ \A w \in Writers : Meant(w) /\ Filled(w)

LogInv ==
  /\ log \subseteq LogEntry /\ IsFiniteSet(log)
  /\ \A a, b \in log : a.id = b.id => a = b
  /\ \A e \in log : e.id <= Cardinality(log)

BaseInv == StoreInv /\ LogInv /\ reader \in Reader

\* The row a write leaves.
LEMMA WrittenRow ==
  ASSUME NEW call \in Writer, NEW row \in Row, row.status = "none" <=> row.state = "absent",
         call.op = "delete" => row.state = "live",
         call.op # "delete" => call.status \in Statuses
  PROVE  LET next == Written(call, row)
         IN  /\ next \in Row /\ next.status # "none" /\ next.state # "absent"
             /\ call.op = "delete" => next.version = row.version /\ next.at = row.at
             /\ call.op # "delete" => next.version = call.expected + 1 /\ next.at = call.at
<1> DEFINE next == Written(call, row)
<1>1. CASE call.op = "delete"
  <2>1. next = [row EXCEPT !.state = "deleted"]
    BY <1>1 DEF Written
  <2>2. /\ next \in Row /\ next.state = "deleted" /\ next.status = row.status
        /\ next.version = row.version /\ next.at = row.at
    BY <2>1 DEF Row
  <2> QED BY <1>1, <2>2
<1>2. CASE call.op # "delete"
  <2>1. next = [state |-> "live", status |-> call.status,
                version |-> call.expected + 1, at |-> call.at]
    BY <1>2 DEF Written
  <2>2. call.expected + 1 \in Nat /\ call.at \in Time /\ call.status # "none"
    BY <1>2, ReportsAssumption DEF Writer
  <2>3. /\ next \in Row /\ next.state = "live" /\ next.status = call.status
        /\ next.version = call.expected + 1 /\ next.at = call.at
    BY <1>2, <2>1, <2>2 DEF Row
  <2> QED BY <1>2, <2>2, <2>3
<1> QED BY <1>1, <1>2

\* A write that commits changes one row, which it matches.
LEMMA CommitWrites ==
  ASSUME StoreInv, NEW w \in Writers, CommitRow(w)
  PROVE  \E d \in Ids, next \in Row :
           /\ table' = [table EXCEPT ![d] = next] /\ Matches(writer[w], d)
           /\ writer[w].pc = "write" /\ writer[w].op \in Actions
           /\ next.status # "none" /\ next.state # "absent"
           /\ writer[w].op = "delete" => next.version = table[d].version /\ next.at = table[d].at
           /\ writer[w].op # "delete" =>
                next.version = writer[w].expected + 1 /\ next.at = writer[w].at
<1> DEFINE call == writer[w]
<1>1. /\ call \in Writer /\ call.pc = "write" /\ call.op \in Actions
      /\ call.op # "delete" => call.status \in Statuses
  BY DEF StoreInv, StoreType, Meant, Filled, CommitRow
<1>2. PICK d \in Ids : Matches(call, d) /\ table' = [table EXCEPT ![d] = Written(call, table[d])]
  BY DEF CommitRow, StoreInv, StoreType
<1> DEFINE row == table[d]
           next == Written(call, row)
<1>3. row \in Row /\ (row.status = "none" <=> row.state = "absent")
  BY DEF StoreInv, StoreType
<1>4. call.op = "delete" => row.state = "live"
  BY <1>2 DEF Matches
<1>5. /\ next \in Row /\ next.status # "none" /\ next.state # "absent"
      /\ call.op = "delete" => next.version = row.version /\ next.at = row.at
      /\ call.op # "delete" => next.version = call.expected + 1 /\ next.at = call.at
  <2> HIDE DEF call, row
  <2> QED BY <1>1, <1>3, <1>4, WrittenRow
<1> HIDE DEF next
<1> QED BY <1>1, <1>2, <1>5 DEF next

\* The tables and the writers, while the clock or a report goes on.
LEMMA StoreKept ==
  ASSUME StoreInv, UNCHANGED <<table, writer>>, now' \in Time
  PROVE  StoreInv'
  BY DEF StoreInv, StoreType, Meant, Filled

\* A step of one writer that leaves the table alone.
LEMMA StoreQuiet ==
  ASSUME StoreInv, UNCHANGED <<now, table>>, NEW w \in Writers, NEW call \in Writer,
         writer' = [writer EXCEPT ![w] = call],
         call.pc \in {"stamp", "write", "audit", "insert"} => call.op \in Actions,
         call.pc \in {"stamp", "write"} /\ call.op # "delete" => call.status \in Statuses
  PROVE  StoreInv'
<1>1. /\ writer' \in [Writers -> Writer] /\ writer'[w] = call
      /\ \A v \in Writers \ {w} : writer'[v] = writer[v]
  BY DEF StoreInv, StoreType
<1>2. StoreType'
  BY <1>1 DEF StoreInv, StoreType
<1>3. \A v \in Writers : Meant(v)' /\ Filled(v)'
  BY <1>1 DEF StoreInv, Meant, Filled
<1> QED BY <1>2, <1>3 DEF StoreInv

LEMMA NoWriterTyped == NoWriter \in Writer
  BY ReportsAssumption DEF NoWriter, Writer, Time

\* What a handler takes up.
LEMMA RowRead ==
  ASSUME StoreType, NEW w \in Writers, ReadRow(w)
  PROVE  \E op \in Actions, d \in Ids \cup {0}, version \in Nat, ahead \in Nat,
            status \in Statuses \cup {"none"} :
           /\ Begin(w, op, d, version, ahead, status)
           /\ op # "delete" => status \in Statuses
           /\ op \in {"update", "transition"} => d \in Ids /\ version = table[d].version
<1>1. CASE Begin(w, "create", 0, 0, 0, InitialStatus)
  BY <1>1, ReportsAssumption DEF Actions
<1>2. ASSUME NEW d \in Ids, Begin(w, "delete", d, 0, 0, "none")
      PROVE  \E status \in Statuses \cup {"none"} : Begin(w, "delete", d, 0, 0, status)
  BY <1>2
<1>3. \A d \in Ids : table[d].version \in Nat
  BY DEF StoreType, Row
<1>4. \A ahead \in 0 .. Ahead : ahead \in Nat
  BY ReportsAssumption
<1> QED BY <1>1, <1>2, <1>3, <1>4, ReportsAssumption DEF ReadRow, Actions

\* What a handler holds that has begun.
LEMMA BeginTyped ==
  ASSUME NEW op \in Actions, NEW d \in Ids \cup {0}, NEW version \in Nat, NEW ahead \in Nat,
         NEW status \in Statuses \cup {"none"}
  PROVE  LET call == Begun(op, d, version, ahead, status)
         IN  /\ call \in Writer /\ call.op = op /\ call.id = d /\ call.status = status
             /\ call.pc = (IF op = "delete" THEN "write" ELSE "stamp")
             /\ call.expected = version + ahead /\ call.ahead = ahead /\ call.at = 0
<1> DEFINE pc == IF op = "delete" THEN "write" ELSE "stamp"
           expected == version + ahead
           call == [pc |-> pc, op |-> op, id |-> d, expected |-> expected, ahead |-> ahead,
                    status |-> status, at |-> 0]
<1>1. pc \in {"stamp", "write"} /\ expected \in Nat
  OBVIOUS
<1>2. Begun(op, d, version, ahead, status) = call
  BY DEF Begun
<1>3. 0 \in Time
  BY ReportsAssumption DEF Time
<1> HIDE DEF pc, expected
<1>4. /\ call \in Writer /\ call.pc = pc /\ call.op = op /\ call.id = d
      /\ call.expected = expected /\ call.ahead = ahead
      /\ call.status = status /\ call.at = 0
  BY <1>1, <1>3 DEF Writer
<1> HIDE DEF call
<1> QED BY <1>2, <1>4 DEF pc, expected

LEMMA StoreStep ==
  ASSUME StoreInv, NEW w \in Writers, Write(w)
  PROVE  StoreInv'
<1> USE DEF StoreInv
<1>1. CASE ReadRow(w)
  <2>1. PICK op \in Actions, d \in Ids \cup {0}, version \in Nat, ahead \in Nat,
             status \in Statuses \cup {"none"} :
          /\ Begin(w, op, d, version, ahead, status)
          /\ op # "delete" => status \in Statuses
    BY <1>1, RowRead
  <2> DEFINE call == Begun(op, d, version, ahead, status)
  <2>2. writer' = [writer EXCEPT ![w] = call] /\ UNCHANGED <<now, table>>
    BY <1>1, <2>1 DEF Begin, ReadRow
  <2>3. /\ call \in Writer /\ call.op = op /\ call.status = status
        /\ call.pc = (IF op = "delete" THEN "write" ELSE "stamp")
    BY BeginTyped
  <2> HIDE DEF call
  <2> QED BY <2>1, <2>2, <2>3, StoreQuiet
<1>2. CASE StampRow(w)
  <2> DEFINE call == [writer[w] EXCEPT !.pc = "write", !.at = now]
  <2>1. /\ call \in Writer /\ call.pc = "write" /\ call.op \in Actions
        /\ call.op # "delete" => call.status \in Statuses
    BY <1>2 DEF StampRow, Writer, StoreType, Meant, Filled
  <2>2. writer' = [writer EXCEPT ![w] = call] /\ UNCHANGED <<now, table>>
    BY <1>2 DEF StampRow, StoreType
  <2> HIDE DEF call
  <2> QED BY <2>1, <2>2, StoreQuiet
<1>3. CASE CommitRow(w)
  <2> DEFINE call == [NoWriter EXCEPT !.pc = "audit", !.op = writer[w].op]
  <2>1. PICK d \in Ids, next \in Row :
          /\ table' = [table EXCEPT ![d] = next]
          /\ writer[w].pc = "write" /\ writer[w].op \in Actions
          /\ next.status # "none" /\ next.state # "absent"
    BY <1>3, CommitWrites
  <2>2. now' = now /\ writer' = [writer EXCEPT ![w] = call]
    BY <1>3 DEF CommitRow
  <2>3. call \in Writer /\ call.pc = "audit" /\ call.op \in Actions
    BY <2>1, NoWriterTyped DEF Writer
  <2> HIDE DEF call
  <2>4. StoreType'
    BY <2>1, <2>2, <2>3 DEF StoreType
  <2>5. \A v \in Writers : Meant(v)' /\ Filled(v)'
    BY <2>2, <2>3 DEF StoreType, Meant, Filled
  <2> QED BY <2>4, <2>5
<1>4. CASE WriteFails(w)
  <2> DEFINE call == [NoWriter EXCEPT !.pc = "done"]
  <2>1. call \in Writer /\ call.pc = "done"
    BY NoWriterTyped DEF Writer
  <2>2. writer' = [writer EXCEPT ![w] = call] /\ UNCHANGED <<now, table>>
    BY <1>4 DEF WriteFails
  <2> HIDE DEF call
  <2> QED BY <2>1, <2>2, StoreQuiet
<1>5. CASE StampEntry(w)
  <2> DEFINE call == [writer[w] EXCEPT !.pc = "insert", !.at = now]
  <2>1. call \in Writer /\ call.pc = "insert" /\ call.op \in Actions
    BY <1>5 DEF StampEntry, Writer, StoreType, Meant
  <2>2. writer' = [writer EXCEPT ![w] = call] /\ UNCHANGED <<now, table>>
    BY <1>5 DEF StampEntry, StoreType
  <2> HIDE DEF call
  <2> QED BY <2>1, <2>2, StoreQuiet
<1>6. CASE InsertEntry(w)
  <2> DEFINE call == [NoWriter EXCEPT !.pc = "done"]
  <2>1. call \in Writer /\ call.pc = "done"
    BY NoWriterTyped DEF Writer
  <2>2. writer' = [writer EXCEPT ![w] = call] /\ UNCHANGED <<now, table>>
    BY <1>6 DEF InsertEntry
  <2> HIDE DEF call
  <2> QED BY <2>1, <2>2, StoreQuiet
<1> QED BY <1>1, <1>2, <1>3, <1>4, <1>5, <1>6 DEF Write

\* An entry is inserted under a number of its own.
LEMMA LogGrows ==
  ASSUME LogInv, StoreInv, NEW w \in Writers, InsertEntry(w)
  PROVE  LogInv' /\ log \subseteq log'
<1> DEFINE n == Cardinality(log)
           e == [id |-> n + 1, action |-> writer[w].op, entity |-> RecordType,
                 actor |-> ActorOf[w], at |-> writer[w].at]
<1>1. log' = log \cup {e}
  BY DEF InsertEntry
<1>2. n \in Nat
  BY FS_CardinalityType DEF LogInv
<1>3. /\ writer[w].op \in Actions /\ ActorOf[w] \in Users /\ RecordType \in EntityTypes
      /\ writer[w].at \in Time
  BY ReportsAssumption DEF InsertEntry, StoreInv, StoreType, Meant, Writer
<1>4. e \in LogEntry /\ e.id = n + 1
  BY <1>2, <1>3 DEF LogEntry
<1> HIDE DEF e
<1>5. \A f \in log : f.id \in Nat /\ f.id <= n
  BY DEF LogInv, LogEntry
<1>6. e \notin log
  BY <1>2, <1>4, <1>5
<1>7. IsFiniteSet(log') /\ Cardinality(log') = n + 1
  BY <1>1, <1>6, FS_AddElement DEF LogInv
<1> HIDE DEF n
<1>8. \A f \in log' : f.id <= n + 1
  BY <1>1, <1>2, <1>4, <1>5
<1>9. \A a, b \in log' : a.id = b.id => a = b
  BY <1>1, <1>2, <1>4, <1>5 DEF LogInv
<1> QED BY <1>1, <1>4, <1>7, <1>8, <1>9 DEF LogInv

-----------------------------------------------------------------------------
(* What a step does to a list *)

LEMMA FiniteImage ==
  ASSUME NEW S, IsFiniteSet(S), NEW f, DOMAIN f = S, f = [x \in S |-> f[x]]
  PROVE  LET image == {f[x] : x \in S}
         IN  IsFiniteSet(image) /\ Cardinality(image) <= Cardinality(S)
<1>1. f \in Surjection(S, {f[x] : x \in S})
  BY DEF Surjection
<1> QED BY <1>1, FS_Surjection

LEMMA ListedIsList ==
  ASSUME StoreInv, LogInv, NEW list, NEW filter
  PROVE  IsList(Listed(list, filter))
<1>1. CASE list = "records"
  <2> DEFINE live == {d \in Ids : table[d].state = "live" /\ filter \in {"any", table[d].status}}
             f == [d \in live |-> [id |-> d, at |-> table[d].at]]
  <2>1. IsFiniteSet(live)
    BY ReportsAssumption, FS_Subset
  <2>2. Listed(list, filter) = {f[d] : d \in live}
    BY <1>1 DEF Listed
  <2>3. IsFiniteSet({f[d] : d \in live})
    <3>1. DOMAIN f = live /\ f = [d \in live |-> f[d]]
      OBVIOUS
    <3> HIDE DEF f, live
    <3> QED BY <2>1, <3>1, FiniteImage
  <2>4. \A d \in live : f[d] \in Item /\ f[d].id = d
    BY ReportsAssumption DEF StoreInv, StoreType, Row, Item
  <2> HIDE DEF f, live
  <2> QED BY <2>2, <2>3, <2>4 DEF IsList, Numbered
<1>2. CASE list # "records"
  <2> DEFINE f == [e \in log |-> [id |-> e.id, at |-> e.at]]
  <2>1. Listed(list, filter) = {f[e] : e \in log}
    BY <1>2 DEF Listed
  <2>2. IsFiniteSet({f[e] : e \in log})
    <3>1. DOMAIN f = log /\ f = [e \in log |-> f[e]]
      OBVIOUS
    <3> HIDE DEF f
    <3> QED BY <3>1, FiniteImage DEF LogInv
  <2>3. \A e \in log : f[e] \in Item /\ f[e].id = e.id
    BY DEF LogInv, LogEntry, Item
  <2>4. \A d, e \in log : d.id = e.id => d = e
    BY DEF LogInv
  <2> HIDE DEF f
  <2> QED BY <2>1, <2>2, <2>3, <2>4 DEF IsList, Numbered
<1> QED BY <1>1, <1>2

\* No item leaves the list or is stored under an older time.
NoneSinks(before, after) == \A a \in before : \E b \in after : b.id = a.id /\ a.at <= b.at

\* Entries stay as they are.
LEMMA EntriesStay ==
  ASSUME StoreInv, LogInv, NEW w \in Writers, Write(w), NEW list, NEW filter, list # "records"
  PROVE  Listed(list, filter) \subseteq Listed(list, filter)'
<1>1. log \subseteq log'
  BY LogGrows
  DEF Write, ReadRow, StampRow, CommitRow, WriteFails, StampEntry
<1>2. /\ Listed(list, filter) = {[id |-> e.id, at |-> e.at] : e \in log}
      /\ Listed(list, filter)' = {[id |-> e.id, at |-> e.at] : e \in log'}
  BY DEF Listed
<1> QED BY <1>1, <1>2

\* No item of a list moves up while none sinks.
LEMMA NoneMovesUp ==
  ASSUME NEW list, NEW before, NEW after, IsList(before), IsList(after),
         NoneSinks(before, after), list # "records" => before \subseteq after,
         NEW i \in before \cap after
  PROVE  Cardinality(Preceding(list, before, i)) <= Cardinality(Preceding(list, after, i))
<1>1. IsList(Preceding(list, before, i)) /\ IsList(Preceding(list, after, i))
  BY PartOfList DEF Preceding
<1>2. ASSUME NEW j \in before, Precedes(list, j, i)
      PROVE  \E k \in after : k.id = j.id /\ Precedes(list, k, i)
  <2>1. PICK k \in after : k.id = j.id /\ j.at <= k.at
    BY <1>2 DEF NoneSinks
  <2>2. k.at \in Nat /\ j.at \in Nat /\ i.at \in Nat /\ i.id \in Nat
    BY TimesAreNumbers DEF IsList, Parts
  <2>3. CASE list = "records"
    BY <1>2, <2>1, <2>2, <2>3 DEF Precedes
  <2>4. CASE list # "records"
    BY <1>2, <2>4
  <2> QED BY <2>3, <2>4
<1>3. IdsOf(Preceding(list, before, i)) \subseteq IdsOf(Preceding(list, after, i))
  BY <1>2 DEF IdsOf, Preceding
<1> QED BY <1>1, <1>3, CompareByIds

-----------------------------------------------------------------------------
(* The steps of the client *)

\* What the report under way is about.
About == Listed(reader.list, reader.filter)

LEMMA AboutIsList ==
  ASSUME BaseInv
  PROVE  IsList(About) /\ Cardinality(About) \in Nat
<1>1. IsList(About)
  BY ListedIsList DEF BaseInv, About
<1> QED BY <1>1, PartOfList

LEMMA AboutStaysList == (StoreInv /\ LogInv => IsList(About))'
<1>1. StoreInv /\ LogInv => IsList(About)
  BY ListedIsList DEF About
<1> QED BY <1>1, PTL

LEMMA NoReaderTyped == NoReader \in Reader
  BY ReportsAssumption DEF NoReader, Reader, Time

\* A report stays one when one of its fields takes a value it may have.
LEMMA ReaderField ==
  ASSUME NEW r \in Reader
  PROVE  /\ \A v \in {"idle", "count", "find", "total", "transitions", "actors", "actions",
                       "entities", "over", "failed"} : [r EXCEPT !.pc = v] \in Reader
         /\ \A v \in {"none", "records", "audits", "summary"} : [r EXCEPT !.list = v] \in Reader
         /\ \A v \in Statuses \cup {"any"} : [r EXCEPT !.filter = v] \in Reader
         /\ \A v \in Nat : [r EXCEPT !.asked = v] \in Reader
         /\ \A v \in Nat \ {0} : [r EXCEPT !.page = v] \in Reader
         /\ \A v \in Nat : [r EXCEPT !.total = v] \in Reader
         /\ \A v \in SUBSET Nat : [r EXCEPT !.seen = v] \in Reader
         /\ \A v \in BOOLEAN : [r EXCEPT !.repeated = v] \in Reader
         /\ \A v \in Time : [r EXCEPT !.since = v] \in Reader
         /\ \A v \in Nat : [r EXCEPT !.transitions = v] \in Reader
         /\ \A v \in Nat : [r EXCEPT !.actors = v] \in Reader
         /\ \A v \in SUBSET [of : Actions, count : Nat] : [r EXCEPT !.actions = v] \in Reader
         /\ \A v \in SUBSET [of : EntityTypes, count : Nat] : [r EXCEPT !.entities = v] \in Reader
         /\ \A v \in SUBSET [id : Nat, at : Time] : [r EXCEPT !.started = v] \in Reader
         /\ \A v \in SUBSET Nat : [r EXCEPT !.touched = v] \in Reader
         /\ \A v \in BOOLEAN : [r EXCEPT !.sunk = v] \in Reader
         /\ \A v \in BOOLEAN : [r EXCEPT !.quiet = v] \in Reader
<1>1. \A v \in {"idle", "count", "find", "total", "transitions", "actors", "actions",
                       "entities", "over", "failed"} : [r EXCEPT !.pc = v] \in Reader
  BY DEF Reader
<1>2. \A v \in {"none", "records", "audits", "summary"} : [r EXCEPT !.list = v] \in Reader
  BY DEF Reader
<1>3. \A v \in Statuses \cup {"any"} : [r EXCEPT !.filter = v] \in Reader
  BY DEF Reader
<1>4. \A v \in Nat : [r EXCEPT !.asked = v] \in Reader
  BY DEF Reader
<1>5. \A v \in Nat \ {0} : [r EXCEPT !.page = v] \in Reader
  BY DEF Reader
<1>6. \A v \in Nat : [r EXCEPT !.total = v] \in Reader
  BY DEF Reader
<1>7. \A v \in SUBSET Nat : [r EXCEPT !.seen = v] \in Reader
  BY DEF Reader
<1>8. \A v \in BOOLEAN : [r EXCEPT !.repeated = v] \in Reader
  BY DEF Reader
<1>9. \A v \in Time : [r EXCEPT !.since = v] \in Reader
  BY DEF Reader
<1>10. \A v \in Nat : [r EXCEPT !.transitions = v] \in Reader
  BY DEF Reader
<1>11. \A v \in Nat : [r EXCEPT !.actors = v] \in Reader
  BY DEF Reader
<1>12. \A v \in SUBSET [of : Actions, count : Nat] : [r EXCEPT !.actions = v] \in Reader
  BY DEF Reader
<1>13. \A v \in SUBSET [of : EntityTypes, count : Nat] : [r EXCEPT !.entities = v] \in Reader
  BY DEF Reader
<1>14. \A v \in SUBSET [id : Nat, at : Time] : [r EXCEPT !.started = v] \in Reader
  BY DEF Reader
<1>15. \A v \in SUBSET Nat : [r EXCEPT !.touched = v] \in Reader
  BY DEF Reader
<1>16. \A v \in BOOLEAN : [r EXCEPT !.sunk = v] \in Reader
  BY DEF Reader
<1>17. \A v \in BOOLEAN : [r EXCEPT !.quiet = v] \in Reader
  BY DEF Reader
<1> QED BY <1>1, <1>2, <1>3, <1>4, <1>5, <1>6, <1>7, <1>8, <1>9, <1>10,
       <1>11, <1>12, <1>13, <1>14, <1>15, <1>16, <1>17

\* Where the client stands, apart from what it noticed.
SamePlace ==
  /\ reader'.pc = reader.pc /\ reader'.list = reader.list /\ reader'.filter = reader.filter
  /\ reader'.asked = reader.asked /\ reader'.page = reader.page
  /\ reader'.total = reader.total /\ reader'.seen = reader.seen
  /\ reader'.repeated = reader.repeated /\ reader'.since = reader.since
  /\ reader'.transitions = reader.transitions /\ reader'.actors = reader.actors
  /\ reader'.actions = reader.actions /\ reader'.entities = reader.entities
  /\ reader'.started = reader.started

\* What a write makes of a report under way.
LEMMA NoticedStep ==
  ASSUME reader \in Reader, Noticed, reader.pc \notin {"idle", "over", "failed"},
         IsList(About), IsList(About')
  PROVE  /\ reader' \in Reader /\ SamePlace
         /\ reader'.touched = reader.touched \cup IdsOf(About' \ About)
         /\ reader'.sunk = (reader.sunk \/ ~NoneSinks(About, About'))
         /\ reader'.quiet = (reader.quiet /\ About' = About)
<1>1. PICK list \in {reader.list}, filter \in {reader.filter} :
        LET before == Listed(list, filter)
            after  == Listed(list, filter)'
        IN  reader' = [reader EXCEPT
                         !.touched = @ \cup {i.id : i \in after \ before},
                         !.sunk = @ \/ \E i \in before : \A j \in after : j.id # i.id \/ j.at < i.at,
                         !.quiet = @ /\ after = before]
  BY DEF Noticed
<1> DEFINE before == Listed(list, filter)
           after == Listed(list, filter)'
           touched == reader.touched \cup {i.id : i \in after \ before}
           sunk == reader.sunk \/ \E i \in before : \A j \in after : j.id # i.id \/ j.at < i.at
           quiet == reader.quiet /\ after = before
<1>2. reader' = [reader EXCEPT !.touched = touched, !.sunk = sunk, !.quiet = quiet]
  BY <1>1
<1> HIDE DEF before, after, touched, sunk, quiet
<1>3. SamePlace
  BY <1>2 DEF SamePlace, Reader
<1>4. reader'.touched = touched /\ reader'.sunk = sunk /\ reader'.quiet = quiet
  BY <1>2 DEF Reader
<1>5. before = About
  BY DEF before, About
<1>6. after = About'
  BY <1>3 DEF after, About, SamePlace
<1>7. touched = reader.touched \cup IdsOf(About' \ About)
  BY <1>5, <1>6 DEF touched, IdsOf
<1>8. sunk = (reader.sunk \/ ~NoneSinks(About, About'))
  <2>1. \A i \in About, j \in About' : i.at \in Nat /\ j.at \in Nat
    BY TimesAreNumbers DEF IsList, Parts
  <2> QED BY <1>5, <1>6, <2>1 DEF sunk, NoneSinks
<1>9. quiet = (reader.quiet /\ About' = About)
  BY <1>5, <1>6 DEF quiet
<1>10. touched \subseteq Nat /\ sunk \in BOOLEAN /\ quiet \in BOOLEAN
  <2>1. IdsOf(About' \ About) \subseteq Nat
    BY DEF IsList, Item, IdsOf
  <2>2. reader.touched \subseteq Nat
    BY DEF Reader
  <2> QED BY <1>7, <2>1, <2>2 DEF sunk, quiet
<1>11. reader' \in Reader
  <2>1. [reader EXCEPT !.touched = touched] \in Reader
    BY <1>10, ReaderField
  <2>2. [reader EXCEPT !.touched = touched, !.sunk = sunk] \in Reader
    BY <1>10, <2>1, ReaderField
  <2>3. [reader EXCEPT !.touched = touched, !.sunk = sunk, !.quiet = quiet] \in Reader
    BY <1>10, <2>2, ReaderField
  <2> QED BY <1>2, <2>3
<1> QED BY <1>3, <1>4, <1>7, <1>8, <1>9, <1>11

\* What a write leaves of the rest: it is noticed, or the lists are as they were.
LEMMA WriteNoticed ==
  ASSUME BaseInv, NEW w \in Writers, Write(w)
  PROVE  /\ StoreInv' /\ LogInv' /\ now' = now /\ log \subseteq log'
         /\ \/ reader' = reader /\ About' = About /\ log' = log
            \/ reader' = reader /\ reader.pc \in {"idle", "over", "failed"}
            \/ Noticed /\ reader.pc \notin {"idle", "over", "failed"}
<1>1. StoreInv'
  BY StoreStep DEF BaseInv
<1>2. LogInv' /\ log \subseteq log'
  <2>1. CASE InsertEntry(w)
    BY <2>1, LogGrows DEF BaseInv
  <2>2. CASE log' = log
    BY <2>2 DEF BaseInv, LogInv
  <2> QED BY <2>1, <2>2 DEF Write, ReadRow, StampRow, CommitRow, WriteFails, StampEntry
<1>3. Noticed /\ reader.pc \in {"idle", "over", "failed"} => reader' = reader
  BY DEF Noticed
<1>4. UNCHANGED <<table, log, reader>> => About' = About
  BY DEF About, Listed
<1>5. Noticed \/ UNCHANGED <<table, log, reader>>
  BY DEF Write, ReadRow, StampRow, CommitRow, WriteFails, StampEntry, InsertEntry
<1>6. now' = now
  BY DEF Write, ReadRow, StampRow, CommitRow, WriteFails, StampEntry, InsertEntry
<1> QED BY <1>1, <1>2, <1>3, <1>4, <1>5, <1>6

\* Where the first page is asked for.
LEMMA WalkBegins ==
  ASSUME BaseInv, BeginWalk
  PROVE  \E list \in {"records", "audits"}, filter \in Statuses \cup {"any"}, asked \in AskedSizes :
           /\ reader' \in Reader
           /\ reader'.pc = "count" /\ reader'.list = list /\ reader'.filter = filter
           /\ reader'.asked = asked /\ reader'.page = 1 /\ reader'.seen = {}
           /\ reader'.repeated = FALSE /\ reader'.sunk = FALSE /\ reader'.quiet = TRUE
           /\ reader'.touched = {} /\ reader'.started = About'
<1>1. PICK list \in {"records", "audits"}, filter \in Statuses \cup {"any"}, asked \in AskedSizes :
        reader' = [NoReader EXCEPT
                     !.pc = "count", !.list = list, !.filter = filter, !.asked = asked,
                     !.started = Listed(list, filter)]
  BY DEF BeginWalk
<1> DEFINE items == Listed(list, filter)
<1>2. IsList(items)
  BY ListedIsList DEF BaseInv
<1>3. items \subseteq [id : Nat, at : Time] /\ asked \in Nat
  BY <1>2, ReportsAssumption DEF IsList, Item
<1> HIDE DEF items
<1>4. reader' = [NoReader EXCEPT !.pc = "count", !.list = list, !.filter = filter,
                                 !.asked = asked, !.started = items]
  BY <1>1 DEF items
<1>5. reader' \in Reader
  <2>1. [NoReader EXCEPT !.pc = "count"] \in Reader
    BY NoReaderTyped, ReaderField
  <2>2. [NoReader EXCEPT !.pc = "count", !.list = list] \in Reader
    BY <2>1, ReaderField
  <2>3. [NoReader EXCEPT !.pc = "count", !.list = list, !.filter = filter] \in Reader
    BY <2>2, ReaderField
  <2>4. [NoReader EXCEPT !.pc = "count", !.list = list, !.filter = filter,
                         !.asked = asked] \in Reader
    BY <1>3, <2>3, ReaderField
  <2>5. [NoReader EXCEPT !.pc = "count", !.list = list, !.filter = filter,
                         !.asked = asked, !.started = items] \in Reader
    BY <1>3, <2>4, ReaderField
  <2> QED BY <1>4, <2>5
<1>6. /\ reader'.pc = "count" /\ reader'.list = list /\ reader'.filter = filter
      /\ reader'.asked = asked /\ reader'.page = 1 /\ reader'.seen = {}
      /\ reader'.repeated = FALSE /\ reader'.sunk = FALSE /\ reader'.quiet = TRUE
      /\ reader'.touched = {} /\ reader'.started = items
  BY <1>4 DEF NoReader
<1>7. About' = items
  BY <1>6 DEF About, items, Listed, BeginWalk
<1> QED BY <1>5, <1>6, <1>7

\* The page size of the walk.
Size == NormalSize(BoundSize(reader.asked))

LEMMA SizeAndOffset ==
  ASSUME reader \in Reader
  PROVE  /\ Size \in Nat \ {0} /\ ToldSize(reader.list, reader.asked) = Size
         /\ reader.page \in Nat \ {0} /\ Offset(reader.page, Size) \in Nat
         /\ Offset(reader.page + 1, Size) = Offset(reader.page, Size) + Size
<1>1. reader.asked \in Nat /\ reader.page \in Nat \ {0}
  BY DEF Reader
<1>2. Size \in Nat \ {0} /\ ToldSize(reader.list, reader.asked) = Size
  BY <1>1, SizeTold DEF Size
<1> QED BY <1>1, <1>2, Offsets

\* The same walk over the same items, of which as much has changed meanwhile.
SameWalk ==
  /\ reader'.list = reader.list /\ reader'.filter = reader.filter
  /\ reader'.asked = reader.asked /\ reader'.started = reader.started
  /\ reader'.touched = reader.touched /\ reader'.sunk = reader.sunk
  /\ reader'.quiet = reader.quiet

LEMMA SameItems ==
  ASSUME SameWalk, UNCHANGED <<table, log>>
  PROVE  About' = About /\ Size' = Size
  BY DEF SameWalk, About, Listed, Size

\* The items are counted.
LEMMA ItemsCounted ==
  ASSUME BaseInv, CountItems
  PROVE  /\ reader.pc = "count" /\ reader' \in Reader /\ SameWalk
         /\ reader'.pc = "find" /\ reader'.total = Cardinality(About)
         /\ reader'.page = reader.page /\ reader'.seen = reader.seen
         /\ reader'.repeated = reader.repeated
<1>1. Cardinality(About) \in Nat
  BY AboutIsList
<1>2. reader' = [reader EXCEPT !.pc = "find", !.total = Cardinality(About)]
  BY DEF CountItems, About
<1>3. reader' \in Reader
  <2>1. [reader EXCEPT !.pc = "find"] \in Reader
    BY ReaderField DEF BaseInv
  <2>2. [reader EXCEPT !.pc = "find", !.total = Cardinality(About)] \in Reader
    BY <1>1, <2>1, ReaderField
  <2> QED BY <1>2, <2>2
<1> QED BY ZenonT(60), <1>2, <1>3 DEF CountItems, SameWalk, BaseInv, Reader

\* A page is what one head of the list has beyond another.
LEMMA PageRead ==
  ASSUME BaseInv, FindItems
  PROVE  \E skipped \in Heads(reader.list, About, Offset(reader.page, Size)),
            reached \in Heads(reader.list, About, Offset(reader.page, Size) + Size) :
           /\ skipped \subseteq reached
           /\ reader.pc = "find" /\ reader' \in Reader /\ SameWalk
           /\ reader'.pc = IF Cardinality(reached \ skipped) >= Size THEN "count" ELSE "over"
           /\ reader'.page = reader.page + 1 /\ reader'.total = reader.total
           /\ reader'.seen = reader.seen \cup IdsOf(reached \ skipped)
           /\ reader'.repeated = (reader.repeated \/ IdsOf(reached \ skipped) \cap reader.seen # {})
<1>1. PICK page \in PagesOf(reader.list, About, reader.page, Size) :
        LET ids  == {i.id : i \in page}
            full == Cardinality(page) >= ToldSize(reader.list, reader.asked)
        IN  reader' = [reader EXCEPT !.pc = IF full THEN "count" ELSE "over",
                                     !.page = @ + 1,
                                     !.seen = @ \cup ids,
                                     !.repeated = @ \/ ids \cap reader.seen # {}]
  BY DEF FindItems, About, Size
<1>2. PICK skipped \in Heads(reader.list, About, Offset(reader.page, Size)),
           reached \in Heads(reader.list, About, Offset(reader.page, Size) + Size) :
        skipped \subseteq reached /\ page = reached \ skipped
  BY DEF PagesOf
<1> DEFINE pc == IF Cardinality(page) >= Size THEN "count" ELSE "over"
           number == reader.page + 1
           seen == reader.seen \cup IdsOf(page)
           repeated == reader.repeated \/ IdsOf(page) \cap reader.seen # {}
<1>3. reader \in Reader
  BY DEF BaseInv
<1>4. reader' = [reader EXCEPT !.pc = pc, !.page = number, !.seen = seen, !.repeated = repeated]
  BY <1>1, <1>3, SizeAndOffset DEF IdsOf
<1>5. IdsOf(page) \subseteq Nat
  <2>1. page \subseteq About
    BY <1>2 DEF Heads, kSubset
  <2> QED BY <2>1, AboutIsList DEF IsList, Item, IdsOf
<1>6. /\ pc \in {"count", "over"} /\ number \in Nat \ {0} /\ seen \in SUBSET Nat
      /\ repeated \in BOOLEAN
  BY <1>3, <1>5 DEF Reader
<1> HIDE DEF pc, number, seen, repeated
<1>7. reader' \in Reader
  <2>1. [reader EXCEPT !.pc = pc] \in Reader
    BY <1>3, <1>6, ReaderField
  <2>2. [reader EXCEPT !.pc = pc, !.page = number] \in Reader
    BY <1>6, <2>1, ReaderField
  <2>3. [reader EXCEPT !.pc = pc, !.page = number, !.seen = seen] \in Reader
    BY <1>6, <2>2, ReaderField
  <2>4. [reader EXCEPT !.pc = pc, !.page = number, !.seen = seen,
                       !.repeated = repeated] \in Reader
    BY <1>6, <2>3, ReaderField
  <2> QED BY <1>4, <2>4
<1>8. /\ reader'.pc = pc /\ reader'.page = number /\ reader'.seen = seen
      /\ reader'.repeated = repeated /\ reader'.total = reader.total /\ SameWalk
  BY <1>3, <1>4 DEF Reader, SameWalk
<1>9. reader.pc = "find"
  BY DEF FindItems
<1> QED BY <1>2, <1>7, <1>8, <1>9 DEF pc, number, seen, repeated

\* The entries grouped by a column.
Groups(entries, column) ==
  {[of |-> v, count |-> Cardinality({e \in entries : e[column] = v})] :
     v \in {e[column] : e \in entries}}

LEMMA RecentEntries ==
  ASSUME BaseInv
  PROVE  /\ Recent \subseteq LogEntry /\ IsFiniteSet(Recent) /\ Cardinality(Recent) \in Nat
         /\ \A column : Grouped(column) = Groups(Recent, column)
<1>1. Recent \subseteq LogEntry /\ IsFiniteSet(Recent)
  BY FS_Subset DEF BaseInv, LogInv, Recent
<1> QED BY <1>1, FS_CardinalityType DEF Grouped, Groups, Quantify

LEMMA GroupsTyped ==
  ASSUME NEW entries, IsFiniteSet(entries), NEW column, NEW values,
         \A e \in entries : e[column] \in values
  PROVE  Groups(entries, column) \subseteq [of : values, count : Nat]
<1> SUFFICES ASSUME NEW g \in Groups(entries, column)
             PROVE  g \in [of : values, count : Nat]
  OBVIOUS
<1>1. PICK v \in {e[column] : e \in entries} :
        g = [of |-> v, count |-> Cardinality({e \in entries : e[column] = v})]
  BY DEF Groups
<1> DEFINE count == Cardinality({e \in entries : e[column] = v})
<1>2. count \in Nat
  BY FS_Subset, FS_CardinalityType
<1>3. v \in values
  BY <1>1
<1> HIDE DEF count
<1>4. g = [of |-> v, count |-> count]
  BY <1>1 DEF count
<1> QED BY <1>2, <1>3, <1>4

\* The counts of a summary are numbers.
LEMMA CountsTyped ==
  ASSUME BaseInv
  PROVE  /\ Cardinality({e \in Recent : e.action = "transition"}) \in Nat
         /\ Cardinality({e.actor : e \in Recent}) \in Nat
         /\ Cardinality({e.actor : e \in Recent}) <= Cardinality(Recent)
<1>1. IsFiniteSet(Recent) /\ Cardinality(Recent) \in Nat
  BY RecentEntries
<1>2. IsFiniteSet({e \in Recent : e.action = "transition"})
  BY <1>1, FS_Subset
<1> DEFINE f == [e \in Recent |-> e.actor]
<1>3. DOMAIN f = Recent /\ f = [e \in Recent |-> f[e]] /\ {f[e] : e \in Recent} = {e.actor : e \in Recent}
  OBVIOUS
<1> HIDE DEF f
<1>4. IsFiniteSet({e.actor : e \in Recent}) /\ Cardinality({e.actor : e \in Recent}) <= Cardinality(Recent)
  BY <1>1, <1>3, FiniteImage
<1> QED BY <1>2, <1>4, FS_CardinalityType

\* What the steps of a summary leave alone.
SameSummary ==
  /\ reader'.list = reader.list /\ reader'.filter = reader.filter
  /\ reader'.since = reader.since /\ reader'.quiet = reader.quiet

LEMMA SummaryBegins ==
  ASSUME BaseInv, BeginSummary
  PROVE  /\ reader' \in Reader /\ reader'.pc = "total" /\ reader'.list = "summary"
         /\ reader'.quiet = TRUE
<1> DEFINE since == IF now > Window THEN now - Window ELSE 0
<1>1. since \in Time
  BY ReportsAssumption DEF BaseInv, StoreInv, StoreType, Time
<1>2. reader' = [NoReader EXCEPT !.pc = "total", !.list = "summary", !.since = since]
  BY DEF BeginSummary
<1> HIDE DEF since
<1>3. reader' \in Reader
  <2>1. [NoReader EXCEPT !.pc = "total"] \in Reader
    BY NoReaderTyped, ReaderField
  <2>2. [NoReader EXCEPT !.pc = "total", !.list = "summary"] \in Reader
    BY <2>1, ReaderField
  <2>3. [NoReader EXCEPT !.pc = "total", !.list = "summary", !.since = since] \in Reader
    BY <1>1, <2>2, ReaderField
  <2> QED BY <1>2, <2>3
<1> QED BY <1>2, <1>3 DEF NoReader

LEMMA TotalCounted ==
  ASSUME BaseInv, CountTotal
  PROVE  /\ reader.pc = "total" /\ reader'.pc = "transitions" /\ reader' \in Reader
         /\ SameSummary /\ reader'.total = Cardinality(Recent)
<1>1. Cardinality(Recent) \in Nat
  BY RecentEntries
<1>2. reader.pc = "total" /\ reader' = [reader EXCEPT !.total = Cardinality(Recent), !.pc = "transitions"]
  BY DEF CountTotal, Query
<1>3. reader \in Reader
  BY DEF BaseInv
<1>4. reader' \in Reader
  <2>1. [reader EXCEPT !.total = Cardinality(Recent)] \in Reader
    BY <1>1, <1>3, ReaderField
  <2> QED BY <1>2, <2>1, ReaderField
<1> QED BY <1>2, <1>3, <1>4 DEF SameSummary, Reader

LEMMA TransitionsCounted ==
  ASSUME BaseInv, CountTransitions
  PROVE  /\ reader.pc = "transitions" /\ reader'.pc = "actors" /\ reader' \in Reader
         /\ SameSummary /\ reader'.total = reader.total
         /\ reader'.transitions = Cardinality({e \in Recent : e.action = "transition"})
<1> DEFINE count == Cardinality({e \in Recent : e.action = "transition"})
<1>1. count \in Nat
  BY CountsTyped
<1>2. reader.pc = "transitions" /\ reader' = [reader EXCEPT !.transitions = count, !.pc = "actors"]
  BY DEF CountTransitions, Query
<1>3. reader \in Reader
  BY DEF BaseInv
<1> HIDE DEF count
<1>4. reader' \in Reader
  <2>1. [reader EXCEPT !.transitions = count] \in Reader
    BY <1>1, <1>3, ReaderField
  <2> QED BY <1>2, <2>1, ReaderField
<1>5. SameSummary /\ reader'.total = reader.total /\ reader'.transitions = count /\ reader'.pc = "actors"
  BY <1>2, <1>3 DEF SameSummary, Reader
<1> QED BY <1>2, <1>4, <1>5 DEF count

LEMMA ActorsCounted ==
  ASSUME BaseInv, CountActors
  PROVE  /\ reader.pc = "actors" /\ reader'.pc = "actions" /\ reader' \in Reader
         /\ SameSummary /\ reader'.total = reader.total
         /\ reader'.transitions = reader.transitions
         /\ reader'.actors = Cardinality({e.actor : e \in Recent})
<1> DEFINE count == Cardinality({e.actor : e \in Recent})
<1>1. count \in Nat
  BY CountsTyped
<1>2. reader.pc = "actors" /\ reader' = [reader EXCEPT !.actors = count, !.pc = "actions"]
  BY DEF CountActors, Query
<1>3. reader \in Reader
  BY DEF BaseInv
<1> HIDE DEF count
<1>4. reader' \in Reader
  <2>1. [reader EXCEPT !.actors = count] \in Reader
    BY <1>1, <1>3, ReaderField
  <2> QED BY <1>2, <2>1, ReaderField
<1>5. /\ SameSummary /\ reader'.total = reader.total /\ reader'.transitions = reader.transitions
      /\ reader'.actors = count /\ reader'.pc = "actions"
  BY <1>2, <1>3 DEF SameSummary, Reader
<1> QED BY <1>2, <1>4, <1>5 DEF count

LEMMA ActionsGrouped ==
  ASSUME BaseInv, GroupActions
  PROVE  /\ reader.pc = "actions" /\ reader'.pc = "entities" /\ reader' \in Reader
         /\ SameSummary /\ reader'.total = reader.total
         /\ reader'.transitions = reader.transitions /\ reader'.actors = reader.actors
         /\ reader'.actions = Groups(Recent, "action")
<1> DEFINE groups == Groups(Recent, "action")
<1>1. groups \subseteq [of : Actions, count : Nat]
  <2>1. \A e \in Recent : e["action"] \in Actions
    BY RecentEntries DEF LogEntry
  <2> QED BY <2>1, RecentEntries, GroupsTyped
<1>2. reader.pc = "actions" /\ reader' = [reader EXCEPT !.actions = groups, !.pc = "entities"]
  BY RecentEntries DEF GroupActions, Query
<1>3. reader \in Reader
  BY DEF BaseInv
<1> HIDE DEF groups
<1>4. reader' \in Reader
  <2>1. [reader EXCEPT !.actions = groups] \in Reader
    BY <1>1, <1>3, ReaderField
  <2> QED BY <1>2, <2>1, ReaderField
<1>5. /\ SameSummary /\ reader'.total = reader.total /\ reader'.transitions = reader.transitions
      /\ reader'.actors = reader.actors /\ reader'.actions = groups /\ reader'.pc = "entities"
  BY <1>2, <1>3 DEF SameSummary, Reader
<1> QED BY <1>2, <1>4, <1>5 DEF groups

LEMMA EntitiesGrouped ==
  ASSUME BaseInv, GroupEntities
  PROVE  /\ reader.pc = "entities" /\ reader'.pc = "over" /\ reader' \in Reader
         /\ SameSummary /\ reader'.total = reader.total
         /\ reader'.transitions = reader.transitions /\ reader'.actors = reader.actors
         /\ reader'.actions = reader.actions
         /\ reader'.entities = Groups(Recent, "entity")
<1> DEFINE groups == Groups(Recent, "entity")
<1>1. groups \subseteq [of : EntityTypes, count : Nat]
  <2>1. \A e \in Recent : e["entity"] \in EntityTypes
    BY RecentEntries DEF LogEntry
  <2> QED BY <2>1, RecentEntries, GroupsTyped
<1>2. reader.pc = "entities" /\ reader' = [reader EXCEPT !.entities = groups, !.pc = "over"]
  BY RecentEntries DEF GroupEntities, Query
<1>3. reader \in Reader
  BY DEF BaseInv
<1> HIDE DEF groups
<1>4. reader' \in Reader
  <2>1. [reader EXCEPT !.entities = groups] \in Reader
    BY <1>1, <1>3, ReaderField
  <2> QED BY <1>2, <2>1, ReaderField
<1>5. /\ SameSummary /\ reader'.total = reader.total /\ reader'.transitions = reader.transitions
      /\ reader'.actors = reader.actors /\ reader'.actions = reader.actions
      /\ reader'.entities = groups /\ reader'.pc = "over"
  BY <1>2, <1>3 DEF SameSummary, Reader
<1> QED BY <1>2, <1>4, <1>5 DEF groups

LEMMA SelectFailed ==
  ASSUME SelectFails
  PROVE  reader' \in Reader /\ reader'.pc = "failed"
<1>1. reader' = [NoReader EXCEPT !.pc = "failed"]
  BY DEF SelectFails
<1> QED BY <1>1, NoReaderTyped, ReaderField DEF NoReader

-----------------------------------------------------------------------------
(* Types *)

\* A step of the client leaves the tables and the clock alone.
ClientStep ==
  BeginWalk \/ CountItems \/ FindItems \/ Summarise \/ SelectFails

LEMMA ClientReads ==
  ASSUME ClientStep
  PROVE  UNCHANGED <<now, table, log, writer>>
  BY DEF ClientStep, BeginWalk, CountItems, FindItems, Summarise, BeginSummary, CountTotal,
         CountTransitions, CountActors, GroupActions, GroupEntities, Query, SelectFails

LEMMA BaseInit == Init => BaseInv
<1> SUFFICES ASSUME Init PROVE BaseInv
  OBVIOUS
<1>1. 1 \in Time /\ 0 \in Time
  BY ReportsAssumption DEF Time
<1>2. /\ NoRow \in Row /\ NoRow.at = 0
      /\ \A d \in Seeded : SeedRow(SeedStatus[d]) \in Row /\ SeedRow(SeedStatus[d]).status # "none"
                           /\ SeedRow(SeedStatus[d]).at = 1 /\ SeedRow(SeedStatus[d]).state = "live"
  BY <1>1, ReportsAssumption DEF NoRow, SeedRow, Row
<1>3. StoreType
  BY <1>1, <1>2, NoWriterTyped DEF Init, StoreType, NoRow
<1>4. StoreInv
  BY <1>2, <1>3 DEF Init, StoreInv, Meant, Filled, NoWriter
<1>5. LogInv
  BY LogsAssumption DEF Init, LogInv
<1> QED BY <1>4, <1>5, NoReaderTyped DEF Init, BaseInv

LEMMA BaseStep == BaseInv /\ [Next]_vars => BaseInv'
<1> SUFFICES ASSUME BaseInv, [Next]_vars PROVE BaseInv'
  OBVIOUS
<1>1. CASE Tick
  <2>1. now \in Nat /\ now' \in Time /\ now <= now'
    BY <1>1, ReportsAssumption DEF Tick, BaseInv, StoreInv, StoreType, Time
  <2>2. StoreInv'
    BY <1>1, <2>1, StoreKept DEF Tick, BaseInv
  <2> QED BY <1>1, <2>2 DEF Tick, BaseInv, LogInv
<1>2. ASSUME NEW w \in Writers, Write(w) PROVE BaseInv'
  <2>1. StoreInv' /\ LogInv'
    BY <1>2, WriteNoticed
  <2>2. IsList(About')
    BY <2>1, AboutStaysList
  <2>3. reader' \in Reader
    BY <1>2, <2>2, AboutIsList, WriteNoticed, NoticedStep DEF BaseInv
  <2> QED BY <2>1, <2>3 DEF BaseInv
<1>3. CASE ClientStep
  <2>1. UNCHANGED <<now, table, log, writer>>
    BY <1>3, ClientReads
  <2>2. reader' \in Reader
    BY <1>3, WalkBegins, ItemsCounted, PageRead, SummaryBegins, TotalCounted, TransitionsCounted,
       ActorsCounted, ActionsGrouped, EntitiesGrouped, SelectFailed DEF ClientStep, Summarise
  <2>3. StoreInv' /\ LogInv'
    BY <2>1 DEF BaseInv, StoreInv, StoreType, Meant, Filled, LogInv
  <2> QED BY <2>2, <2>3 DEF BaseInv
<1>4. CASE UNCHANGED vars
  BY <1>4 DEF vars, BaseInv, StoreInv, StoreType, Meant, Filled, LogInv
<1> QED BY <1>1, <1>2, <1>3, <1>4 DEF Next, ClientStep

LEMMA BaseAlways == Spec => []BaseInv
  BY BaseInit, BaseStep, PTL DEF Spec

\* Every variable keeps its type, and every stored record has a status, for any
\* number of writers and records and any interleaving of them with a report.
THEOREM TypeCorrect == Spec => []TypeOK
<1>1. BaseInv => TypeOK
  BY DEF BaseInv, StoreInv, StoreType, LogInv, TypeOK
<1> QED BY <1>1, BaseAlways, PTL

-----------------------------------------------------------------------------
(* Walks: no item is passed by *)

Ongoing == reader.pc \in {"count", "find"}

SummaryPlaces == {"total", "transitions", "actors", "actions", "entities"}

\* What began the walk is still listed, and as it was if untouched.
Kept ==
  ~reader.sunk =>
    \A i \in reader.started :
      i.id \in IdsOf(About) /\ (i.id \notin reader.touched => i \in About)

\* An item the walk owes is on a page to come: as many items precede it as the
\* pages read could hold.
Due(i) ==
  \/ i.id \in reader.seen
  \/ reader.sunk \/ i.id \in reader.touched \/ ~Unshared(reader.list, i)
  \/ Ongoing /\ Offset(reader.page, Size) <= Cardinality(Preceding(reader.list, About, i))

WalkInv ==
  /\ Ongoing => reader.list \in {"records", "audits"} /\ Kept
  /\ reader.pc \in SummaryPlaces => reader.list = "summary"
  /\ Ongoing \/ Walked => \A i \in reader.started : Due(i)

\* The database has no choice about an item that shares its time with no other.
LEMMA UnsharedPlaced ==
  ASSUME BaseInv, reader.list \in {"records", "audits"}, NEW i \in About,
         Unshared(reader.list, i)
  PROVE  Placed(reader.list, About, i)
<1> SUFFICES ASSUME NEW j \in About, j # i
             PROVE  Precedes(reader.list, j, i) \/ Precedes(reader.list, i, j)
  BY DEF Placed
<1>1. /\ i.at \in Nat /\ j.at \in Nat /\ i.id \in Nat /\ j.id \in Nat
      /\ i.id # j.id
  BY AboutIsList, TimesAreNumbers DEF IsList, Numbered, Parts
<1>2. CASE reader.list = "records"
  BY <1>1, <1>2 DEF Precedes
<1>3. CASE reader.list = "audits"
  <2>1. PICK e \in log : e.id = j.id /\ e.at = j.at
    BY <1>3 DEF About, Listed
  <2>2. i.at # j.at
    BY <1>1, <1>3, <2>1 DEF Unshared
  <2> QED BY <1>1, <2>2 DEF Precedes
<1> QED BY <1>2, <1>3

\* An item the walk owes is on this page or on a later one.
LEMMA PageProgress ==
  ASSUME BaseInv, WalkInv, FindItems, NEW i \in reader.started,
         ~reader.sunk, i.id \notin reader.touched, Unshared(reader.list, i),
         i.id \notin reader'.seen
  PROVE  /\ reader'.pc = "count"
         /\ Offset(reader.page + 1, Size) <= Cardinality(Preceding(reader.list, About, i))
<1>1. PICK skipped \in Heads(reader.list, About, Offset(reader.page, Size)),
           reached \in Heads(reader.list, About, Offset(reader.page, Size) + Size) :
        /\ skipped \subseteq reached
        /\ reader.pc = "find" /\ SameWalk
        /\ reader'.pc = IF Cardinality(reached \ skipped) >= Size THEN "count" ELSE "over"
        /\ reader'.seen = reader.seen \cup IdsOf(reached \ skipped)
  BY PageRead
<1> DEFINE n == Offset(reader.page, Size)
           rank == Cardinality(Preceding(reader.list, About, i))
<1>2. /\ n \in Nat /\ Size \in Nat \ {0} /\ n + Size \in Nat
      /\ Offset(reader.page + 1, Size) = n + Size
  BY SizeAndOffset DEF BaseInv
<1>3. IsList(About)
  BY AboutIsList
<1>4. i \in About /\ reader.list \in {"records", "audits"}
  BY <1>1 DEF WalkInv, Ongoing, Kept
<1>5. Due(i)
  BY <1>1 DEF WalkInv, Ongoing
<1>6. i.id \notin reader.seen /\ i \notin reached \ skipped
  BY <1>1 DEF IdsOf
<1>7. n <= rank /\ rank \in Nat
  BY <1>3, <1>5, <1>6, PartOfList DEF Due, Preceding
<1> HIDE DEF n, rank
<1>8. i \notin skipped
  <2>1. SUFFICES ASSUME i \in skipped PROVE FALSE
    OBVIOUS
  <2>2. rank < n
    BY <1>1, <1>2, <1>3, <2>1, HeadsClosed DEF n, rank
  <2> QED BY <1>2, <1>7, <2>2
<1>9. i \notin reached
  BY <1>6, <1>8
<1>10. n + Size <= rank
  BY <1>1, <1>2, <1>3, <1>4, <1>9, HeadsPassed, UnsharedPlaced DEF n, rank
<1>11. Cardinality(reached \ skipped) = Size
  <2>1. reached # About /\ Size \in Nat
    BY <1>2, <1>4, <1>9
  <2>2. skipped \in Heads(reader.list, About, n) /\ reached \in Heads(reader.list, About, n + Size)
    BY <1>1 DEF n
  <2>3. n \in Nat /\ skipped \subseteq reached
    BY <1>1, <1>2
  <2>4. Cardinality(reached \ skipped) = (n + Size) - n
    BY <1>2, <1>3, <2>1, <2>2, <2>3, PageIsFull
  <2> QED BY <1>2, <2>4
<1> QED BY <1>1, <1>2, <1>10, <1>11 DEF rank

LEMMA WalkInit == Init => WalkInv
  BY DEF Init, NoReader, WalkInv, Ongoing, Walked, SummaryPlaces

\* A walk with the same places in the same lists.
LEMMA WalkKept ==
  ASSUME WalkInv, reader' = reader, About' = About, log' = log
  PROVE  WalkInv'
<1>1. Size' = Size
  BY DEF Size
<1>2. \A i : Due(i)' <=> Due(i)
  BY <1>1 DEF Due, Unshared, Ongoing
<1> QED BY <1>2 DEF WalkInv, Ongoing, Kept, Walked

\* Writes move the items that a walk owes only towards its later pages.
LEMMA WalkThroughWrite ==
  ASSUME BaseInv, BaseInv', WalkInv, NEW w \in Writers, Write(w), Noticed,
         reader.pc \notin {"idle", "over", "failed"}
  PROVE  WalkInv'
<1>1. IsList(About) /\ IsList(About')
  BY AboutIsList, AboutStaysList DEF BaseInv
<1>2. /\ reader' \in Reader /\ SamePlace
      /\ reader'.touched = reader.touched \cup IdsOf(About' \ About)
      /\ reader'.sunk = (reader.sunk \/ ~NoneSinks(About, About'))
  BY <1>1, NoticedStep DEF BaseInv
<1>3. Size' = Size /\ log \subseteq log' /\ Ongoing' = Ongoing /\ Walked' = Walked
  BY <1>2, WriteNoticed DEF Size, SamePlace, Ongoing, Walked
<1>4. reader.list # "records" => About \subseteq About'
  <2>1. About' = Listed(reader.list, reader.filter)'
    BY DEF About
  <2>2. \E list \in {reader.list}, filter \in {reader.filter} :
          About = Listed(list, filter) /\ About' = Listed(list, filter)'
    BY <1>2 DEF About, Listed, SamePlace
  <2> QED BY <2>2, EntriesStay DEF BaseInv
<1>5. ASSUME Ongoing, ~reader'.sunk, NEW i \in reader.started
      PROVE  /\ i.id \in IdsOf(About')
             /\ i.id \notin reader'.touched => i \in About /\ i \in About'
  <2>1. ~reader.sunk /\ NoneSinks(About, About') /\ IdsOf(About) \subseteq IdsOf(About')
    BY <1>2, <1>5 DEF NoneSinks, IdsOf
  <2>2. i.id \in IdsOf(About) /\ (i.id \notin reader.touched => i \in About)
    BY <1>5, <2>1 DEF WalkInv, Kept
  <2>3. PICK j \in About' : j.id = i.id
    BY <2>1, <2>2 DEF IdsOf
  <2>4. ASSUME i.id \notin reader'.touched PROVE i \in About /\ i \in About'
    <3>1. i \in About
      BY <1>2, <2>2, <2>4
    <3>2. j \in About
      BY <1>2, <2>3, <2>4 DEF IdsOf
    <3> QED BY <1>1, <2>3, <3>1, <3>2 DEF IsList, Numbered
  <2> QED BY <2>1, <2>2, <2>4
<1>6. Ongoing => Kept' /\ reader'.list \in {"records", "audits"}
  BY <1>2, <1>5 DEF Kept, SamePlace, WalkInv
<1>7. ASSUME Ongoing, NEW i \in reader.started PROVE Due(i)'
  <2>1. CASE reader'.sunk \/ i.id \in reader'.touched \/ i.id \in reader'.seen
    BY <2>1 DEF Due
  <2>2. CASE ~Unshared(reader.list, i)
    <3>1. PICK e \in log : e.at = i.at /\ e.id # i.id
      BY <2>2 DEF Unshared
    <3>2. e \in log' /\ reader'.list = "audits"
      BY <1>2, <1>3, <2>2 DEF Unshared, SamePlace
    <3>3. ~Unshared(reader.list, i)'
      BY <3>1, <3>2 DEF Unshared
    <3> QED BY <3>3 DEF Due
  <2>3. CASE ~reader'.sunk /\ i.id \notin reader'.touched /\ i.id \notin reader'.seen
             /\ Unshared(reader.list, i)
    <3>1. ~reader.sunk /\ i.id \notin reader.touched /\ i.id \notin reader.seen
      BY <1>2, <2>3 DEF SamePlace
    <3>2. Offset(reader.page, Size) <= Cardinality(Preceding(reader.list, About, i))
      BY <1>7, <2>3, <3>1 DEF WalkInv, Due
    <3>3. i \in About \cap About' /\ NoneSinks(About, About')
      BY <1>2, <1>5, <1>7, <2>3
    <3>4. Cardinality(Preceding(reader.list, About, i))
            <= Cardinality(Preceding(reader.list, About', i))
      BY <1>1, <1>4, <3>3, NoneMovesUp
    <3>5. /\ Cardinality(Preceding(reader.list, About, i)) \in Nat
          /\ Cardinality(Preceding(reader.list, About', i)) \in Nat
          /\ Offset(reader.page, Size) \in Nat
      BY <1>1, PartOfList, SizeAndOffset DEF Preceding, BaseInv
    <3>6. Offset(reader.page, Size) <= Cardinality(Preceding(reader.list, About', i))
      BY <3>2, <3>4, <3>5
    <3> QED BY <1>2, <1>3, <1>7, <3>6 DEF Due, SamePlace
  <2> QED BY <2>1, <2>2, <2>3
<1>8. ~Walked
  BY DEF Walked
<1> QED BY <1>2, <1>3, <1>6, <1>7, <1>8 DEF WalkInv, SamePlace

\* The first page begins at the head of the list.
LEMMA WalkFromBegin ==
  ASSUME BaseInv, BaseInv', BeginWalk
  PROVE  WalkInv'
<1>1. /\ reader'.pc = "count" /\ reader'.list \in {"records", "audits"}
      /\ reader'.asked \in Nat /\ reader'.page = 1 /\ reader'.started = About'
  BY ZenonT(60), WalkBegins DEF BaseInv, Reader
<1>2. Size' \in Nat /\ Offset(reader'.page, Size') = 0
  <2>1. Size' = NormalSize(BoundSize(reader'.asked))
    BY DEF Size
  <2>2. Size' \in Nat
    BY <1>1, <2>1, SizeTold
  <2>3. Offset(1, Size') = 0
    BY <2>2, Offsets
  <2> QED BY <1>1, <2>2, <2>3
<1>3. \A i \in reader'.started : Cardinality(Preceding(reader'.list, About', i)) \in Nat
  <2>1. IsList(About) /\ IsList(About')
    BY AboutIsList, AboutStaysList DEF BaseInv
  <2> QED BY <2>1, PartOfList DEF Preceding
<1>4. \A i \in reader'.started : Due(i)'
  BY <1>1, <1>2, <1>3 DEF Due, Ongoing
<1>5. Kept'
  BY <1>1 DEF Kept, IdsOf
<1> QED BY <1>1, <1>4, <1>5 DEF WalkInv, Ongoing, Walked, SummaryPlaces

LEMMA WalkThroughCount ==
  ASSUME BaseInv, WalkInv, CountItems
  PROVE  WalkInv'
<1>1. /\ reader.pc = "count" /\ SameWalk /\ reader'.pc = "find"
      /\ reader'.page = reader.page /\ reader'.seen = reader.seen
  BY ItemsCounted
<1>2. About' = About /\ Size' = Size /\ log' = log
  BY <1>1, SameItems DEF CountItems
<1>3. \A i \in reader.started : Due(i)'
  BY <1>1, <1>2 DEF Due, Ongoing, SameWalk, WalkInv, Unshared
<1> QED BY <1>1, <1>2, <1>3 DEF WalkInv, Ongoing, Walked, Kept, SameWalk, SummaryPlaces

LEMMA WalkThroughPage ==
  ASSUME BaseInv, WalkInv, FindItems
  PROVE  WalkInv'
<1>1. /\ reader.pc = "find" /\ SameWalk /\ reader'.pc \in {"count", "over"}
      /\ reader'.page = reader.page + 1 /\ reader.seen \subseteq reader'.seen
  BY PageRead
<1>2. About' = About /\ Size' = Size /\ log' = log
  BY <1>1, SameItems DEF FindItems
<1>3. ASSUME NEW i \in reader.started PROVE Due(i)'
  <2>1. CASE \/ reader.sunk \/ i.id \in reader.touched \/ ~Unshared(reader.list, i)
             \/ i.id \in reader'.seen
    BY <1>1, <1>2, <2>1 DEF Due, SameWalk, Unshared
  <2>2. CASE /\ ~reader.sunk /\ i.id \notin reader.touched /\ Unshared(reader.list, i)
             /\ i.id \notin reader'.seen
    <3>1. /\ reader'.pc = "count"
          /\ Offset(reader.page + 1, Size) <= Cardinality(Preceding(reader.list, About, i))
      BY <2>2, PageProgress
    <3> QED BY <1>1, <1>2, <3>1 DEF Due, Ongoing, SameWalk
  <2> QED BY <2>1, <2>2
<1> QED BY <1>1, <1>2, <1>3 DEF WalkInv, Ongoing, Walked, Kept, SameWalk, SummaryPlaces

\* The parts of a summary are no walk.
LEMMA WalkThroughSummary ==
  ASSUME BaseInv, WalkInv, Summarise \/ SelectFails
  PROVE  WalkInv'
<1>1. CASE SelectFails
  BY <1>1, SelectFailed DEF WalkInv, Ongoing, Walked, SummaryPlaces
<1>2. CASE BeginSummary
  BY <1>2, SummaryBegins DEF WalkInv, Ongoing, Walked, SummaryPlaces
<1>3. CASE CountTotal
  BY <1>3, TotalCounted DEF WalkInv, Ongoing, Walked, SummaryPlaces, SameSummary
<1>4. CASE CountTransitions
  BY <1>4, TransitionsCounted DEF WalkInv, Ongoing, Walked, SummaryPlaces, SameSummary
<1>5. CASE CountActors
  BY <1>5, ActorsCounted DEF WalkInv, Ongoing, Walked, SummaryPlaces, SameSummary
<1>6. CASE GroupActions
  BY <1>6, ActionsGrouped DEF WalkInv, Ongoing, Walked, SummaryPlaces, SameSummary
<1>7. CASE GroupEntities
  BY <1>7, EntitiesGrouped DEF WalkInv, Ongoing, Walked, SummaryPlaces, SameSummary
<1> QED BY <1>1, <1>2, <1>3, <1>4, <1>5, <1>6, <1>7 DEF Summarise

LEMMA WalkStep == BaseInv /\ BaseInv' /\ WalkInv /\ [Next]_vars => WalkInv'
<1> SUFFICES ASSUME BaseInv, BaseInv', WalkInv, [Next]_vars PROVE WalkInv'
  OBVIOUS
<1>1. CASE Tick \/ UNCHANGED vars
  <2>1. UNCHANGED <<table, log, reader>>
    BY <1>1 DEF Tick, vars
  <2> QED BY <2>1, WalkKept DEF About, Listed
<1>2. ASSUME NEW w \in Writers, Write(w) PROVE WalkInv'
  <2>1. CASE reader' = reader /\ About' = About /\ log' = log
    BY <2>1, WalkKept
  <2>2. CASE reader' = reader /\ reader.pc \in {"idle", "over", "failed"}
    <3>1. log \subseteq log'
      BY <1>2, WriteNoticed
    <3>2. ASSUME NEW i \in reader.started, Due(i) PROVE Due(i)'
      BY <2>2, <3>1, <3>2 DEF Due, Unshared, Ongoing
    <3> QED BY <2>2, <3>2 DEF WalkInv, Ongoing, Walked, SummaryPlaces
  <2>3. CASE Noticed /\ reader.pc \notin {"idle", "over", "failed"}
    BY <1>2, <2>3, WalkThroughWrite
  <2> QED BY <1>2, <2>1, <2>2, <2>3, WriteNoticed
<1> QED BY <1>1, <1>2, WalkFromBegin, WalkThroughCount, WalkThroughPage, WalkThroughSummary
        DEF Next

LEMMA WalkAlways == Spec => [](BaseInv /\ WalkInv)
<1>1. Init => BaseInv /\ WalkInv
  BY BaseInit, WalkInit
<1>2. BaseInv /\ WalkInv /\ [Next]_vars => (BaseInv /\ WalkInv)'
  BY BaseStep, WalkStep
<1> QED BY <1>1, <1>2, PTL DEF Spec

\* Pages shift while they are read, but only downwards: a walk to the first page
\* that is not full misses no item that was listed when it began and is as it
\* was, if none left the list or sank in it and the item shares its time with no
\* other entry.  However many rows, writers and pages there are, and whatever
\* versions the writers name.
THEOREM WalksComplete == Spec => []WalkComplete
<1>1. WalkInv => WalkComplete
  BY DEF WalkInv, WalkComplete, Walked, Due, Ongoing
<1> QED BY <1>1, WalkAlways, PTL

-----------------------------------------------------------------------------
(* Walks: undisturbed, they are exact *)

\* No two items of the walk share a time, where times alone order them.
Distinct == \A i \in reader.started : Unshared(reader.list, i)

\* Undisturbed, the pages read so far are a head of the list.
HeadRead ==
  /\ \E head \in Heads(reader.list, reader.started, Offset(reader.page, Size)) :
       reader.seen = IdsOf(head)
  /\ ~reader.repeated
  /\ reader.pc = "find" \/ reader.page > 1 => reader.total = Cardinality(reader.started)

ExactInv ==
  /\ Ongoing /\ reader.quiet => reader.started = About
  /\ Ongoing /\ reader.quiet /\ Distinct => HeadRead
  /\ WalkExact

LEMMA ExactInit == Init => ExactInv
  BY DEF Init, NoReader, ExactInv, Ongoing, Walked, WalkExact

\* Items that a longer log tells apart, a shorter one does.
LEMMA DistinctBefore ==
  ASSUME log \subseteq log', reader'.list = reader.list, reader'.started = reader.started,
         Distinct'
  PROVE  Distinct
  BY DEF Distinct, Unshared

LEMMA ExactKept ==
  ASSUME ExactInv, reader' = reader, About' = About, log' = log
  PROVE  ExactInv'
<1>1. Size' = Size /\ Distinct' = Distinct
  BY DEF Size, Distinct, Unshared
<1>2. HeadRead' = HeadRead
  BY <1>1 DEF HeadRead
<1>3. WalkExact' = WalkExact
  BY DEF WalkExact, Walked, Unshared
<1> QED BY <1>1, <1>2, <1>3 DEF ExactInv, Ongoing

LEMMA ExactThroughWrite ==
  ASSUME BaseInv, BaseInv', ExactInv, NEW w \in Writers, Write(w), Noticed,
         reader.pc \notin {"idle", "over", "failed"}
  PROVE  ExactInv'
<1>1. /\ SamePlace /\ (reader'.quiet => reader.quiet /\ About' = About)
  <2>1. IsList(About) /\ IsList(About')
    BY AboutIsList, AboutStaysList DEF BaseInv
  <2> QED BY <2>1, NoticedStep DEF BaseInv
<1>2. Size' = Size /\ Ongoing' = Ongoing /\ log \subseteq log'
  BY <1>1, WriteNoticed DEF Size, SamePlace, Ongoing
<1>3. HeadRead' = HeadRead
  BY <1>1, <1>2 DEF HeadRead, SamePlace
<1>4. Distinct' => Distinct
  BY <1>1, <1>2, DistinctBefore DEF SamePlace
<1>5. WalkExact'
  BY <1>1 DEF WalkExact, Walked, SamePlace
<1>6. Ongoing /\ reader'.quiet => reader'.started = About'
  BY <1>1 DEF ExactInv, SamePlace
<1>7. Ongoing /\ reader'.quiet /\ Distinct' => HeadRead
  BY <1>1, <1>4 DEF ExactInv
<1> QED BY <1>2, <1>3, <1>5, <1>6, <1>7 DEF ExactInv

LEMMA ExactFromBegin ==
  ASSUME BaseInv, BaseInv', BeginWalk
  PROVE  ExactInv'
<1>1. /\ reader'.pc = "count" /\ reader'.asked \in Nat /\ reader'.page = 1
      /\ reader'.started = About' /\ reader'.seen = {} /\ ~reader'.repeated
  BY WalkBegins DEF BaseInv, Reader
<1>2. Offset(reader'.page, Size') = 0
  <2>1. Size' = NormalSize(BoundSize(reader'.asked))
    BY DEF Size
  <2>2. Size' \in Nat
    BY <1>1, <2>1, SizeTold
  <2> QED BY <1>1, <2>2, Offsets
<1>3. {} \in Heads(reader'.list, About', 0)
  <2>1. IsList(About') /\ Cardinality(About') \in Nat
    BY AboutStaysList, FS_CardinalityType DEF BaseInv, IsList
  <2>2. Cardinality({}) = Min({0, Cardinality(About')})
    BY <2>1, MinOfTwo, FS_EmptySet
  <2> QED BY <2>2 DEF Heads, kSubset
<1>4. HeadRead'
  BY <1>1, <1>2, <1>3 DEF HeadRead, IdsOf
<1> QED BY <1>1, <1>4 DEF ExactInv, Ongoing, WalkExact, Walked

LEMMA ExactThroughCount ==
  ASSUME BaseInv, ExactInv, CountItems
  PROVE  ExactInv'
<1>1. /\ reader.pc = "count" /\ SameWalk /\ reader'.pc = "find"
      /\ reader'.page = reader.page /\ reader'.seen = reader.seen
      /\ reader'.repeated = reader.repeated /\ reader'.total = Cardinality(About)
  BY ItemsCounted
<1>2. About' = About /\ Size' = Size /\ log' = log
  BY <1>1, SameItems DEF CountItems
<1>3. Distinct' = Distinct
  BY <1>1, <1>2 DEF Distinct, Unshared, SameWalk
<1>4. reader.quiet => reader.started = About
  BY <1>1 DEF ExactInv, Ongoing
<1>5. reader.quiet /\ HeadRead => HeadRead'
  BY <1>1, <1>2, <1>4 DEF HeadRead, SameWalk
<1> QED BY <1>1, <1>2, <1>3, <1>4, <1>5 DEF ExactInv, Ongoing, WalkExact, Walked, SameWalk

\* The page follows the head read, and the last one ends the list.
LEMMA ExactThroughPage ==
  ASSUME BaseInv, WalkInv, ExactInv, FindItems
  PROVE  ExactInv'
<1>1. PICK skipped \in Heads(reader.list, About, Offset(reader.page, Size)),
           reached \in Heads(reader.list, About, Offset(reader.page, Size) + Size) :
        /\ skipped \subseteq reached
        /\ reader.pc = "find" /\ reader' \in Reader /\ SameWalk
        /\ reader'.pc = IF Cardinality(reached \ skipped) >= Size THEN "count" ELSE "over"
        /\ reader'.page = reader.page + 1 /\ reader'.total = reader.total
        /\ reader'.seen = reader.seen \cup IdsOf(reached \ skipped)
        /\ reader'.repeated = (reader.repeated \/ IdsOf(reached \ skipped) \cap reader.seen # {})
  BY PageRead
<1>2. About' = About /\ Size' = Size /\ log' = log
  BY <1>1, SameItems DEF FindItems
<1>3. Distinct' = Distinct
  BY <1>1, <1>2 DEF Distinct, Unshared, SameWalk
<1>4. reader.quiet => reader.started = About
  BY <1>1 DEF ExactInv, Ongoing
<1> DEFINE n == Offset(reader.page, Size)
<1>5. /\ n \in Nat /\ Size \in Nat \ {0} /\ n + Size \in Nat
      /\ Offset(reader.page + 1, Size) = n + Size
  BY SizeAndOffset DEF BaseInv
<1>6. IsList(About)
  BY AboutIsList
<1>7. ASSUME reader.quiet, Distinct
      PROVE  /\ reader'.seen = IdsOf(reached) /\ ~reader'.repeated
             /\ reader'.total = Cardinality(reader.started)
             /\ reader'.pc = "over" => reached = reader.started
  <2>1. HeadRead
    BY <1>1, <1>7 DEF ExactInv, Ongoing
  <2>2. PICK head \in Heads(reader.list, About, n) : reader.seen = IdsOf(head)
    BY <1>4, <1>7, <2>1 DEF HeadRead, n
  <2>3. \A i \in About : Placed(reader.list, About, i)
    BY <1>1, <1>4, <1>7, UnsharedPlaced DEF Distinct, WalkInv, Ongoing
  <2>4. skipped \in Heads(reader.list, About, n) /\ reached \in Heads(reader.list, About, n + Size)
    BY <1>1 DEF n
  <2> HIDE DEF n
  <2>5. head = skipped
    BY <1>5, <1>6, <2>2, <2>3, <2>4, HeadsUnique
  <2>6. reached \subseteq About
    BY <2>4 DEF Heads, kSubset
  <2>7. reader'.seen = IdsOf(reached)
    BY <1>1, <2>2, <2>5 DEF IdsOf
  <2>8. IdsOf(reached \ skipped) \cap IdsOf(skipped) = {}
    BY <1>1, <1>6, <2>6 DEF IdsOf, IsList, Numbered
  <2>9. ~reader'.repeated /\ reader'.total = Cardinality(reader.started)
    BY <1>1, <2>1, <2>2, <2>5, <2>8 DEF HeadRead
  <2>10. ASSUME reached # About PROVE reader'.pc = "count"
    <3>1. Cardinality(reached \ skipped) = (n + Size) - n
      BY <1>1, <1>5, <1>6, <2>4, <2>10, PageIsFull
    <3>2. Cardinality(reached \ skipped) >= Size
      BY <1>5, <3>1
    <3> QED BY <1>1, <3>2
  <2> QED BY <1>4, <1>7, <2>7, <2>9, <2>10
<1>8. ASSUME reader.quiet, Distinct PROVE HeadRead'
  <2>1. reached \in Heads(reader'.list, reader'.started, Offset(reader'.page, Size'))
    BY <1>1, <1>2, <1>4, <1>5, <1>8 DEF SameWalk, n
  <2>2. reader'.total = Cardinality(reader'.started)
    BY <1>1, <1>7, <1>8 DEF SameWalk
  <2> QED BY <1>7, <1>8, <2>1, <2>2 DEF HeadRead
<1>9. WalkExact'
  <2>1. SUFFICES ASSUME Walked', reader.quiet, Distinct
                 PROVE  /\ reader'.seen = IdsOf(reader'.started) /\ ~reader'.repeated
                        /\ reader'.total = Cardinality(reader'.started)
    BY <1>1, <1>3 DEF WalkExact, Distinct, SameWalk, IdsOf
  <2> QED BY <1>1, <1>7, <2>1 DEF Walked, SameWalk
<1> QED BY <1>1, <1>2, <1>3, <1>4, <1>8, <1>9 DEF ExactInv, SameWalk

LEMMA ExactThroughSummary ==
  ASSUME BaseInv, WalkInv, ExactInv, Summarise \/ SelectFails
  PROVE  ExactInv'
<1> USE DEF ExactInv, WalkExact, Ongoing, Walked
<1>1. CASE SelectFails
  BY <1>1, SelectFailed
<1>2. CASE BeginSummary
  BY <1>2, SummaryBegins
<1>3. CASE CountTotal
  BY <1>3, TotalCounted
<1>4. CASE CountTransitions
  BY <1>4, TransitionsCounted
<1>5. CASE CountActors
  BY <1>5, ActorsCounted
<1>6. CASE GroupActions
  BY <1>6, ActionsGrouped
<1>7. CASE GroupEntities
  BY <1>7, EntitiesGrouped DEF SameSummary, WalkInv, SummaryPlaces
<1> QED BY <1>1, <1>2, <1>3, <1>4, <1>5, <1>6, <1>7 DEF Summarise

LEMMA ExactStep == BaseInv /\ BaseInv' /\ WalkInv /\ ExactInv /\ [Next]_vars => ExactInv'
<1> SUFFICES ASSUME BaseInv, BaseInv', WalkInv, ExactInv, [Next]_vars PROVE ExactInv'
  OBVIOUS
<1>1. CASE Tick \/ UNCHANGED vars
  <2>1. UNCHANGED <<table, log, reader>>
    BY <1>1 DEF Tick, vars
  <2> QED BY <2>1, ExactKept DEF About, Listed
<1>2. ASSUME NEW w \in Writers, Write(w) PROVE ExactInv'
  <2>1. CASE reader' = reader /\ About' = About /\ log' = log
    BY <2>1, ExactKept
  <2>2. CASE reader' = reader /\ reader.pc \in {"idle", "over", "failed"}
    <3>1. log \subseteq log'
      BY <1>2, WriteNoticed
    <3>2. Distinct' => Distinct
      BY <2>2, <3>1, DistinctBefore
    <3>3. WalkExact'
      BY <2>2, <3>2 DEF ExactInv, WalkExact, Walked, Distinct
    <3> QED BY <2>2, <3>3 DEF ExactInv, Ongoing
  <2>3. CASE Noticed /\ reader.pc \notin {"idle", "over", "failed"}
    BY <1>2, <2>3, ExactThroughWrite
  <2> QED BY <1>2, <2>1, <2>2, <2>3, WriteNoticed
<1> QED BY <1>1, <1>2, ExactFromBegin, ExactThroughCount, ExactThroughPage, ExactThroughSummary
        DEF Next

LEMMA ExactAlways == Spec => []ExactInv
<1>1. Init => ExactInv
  BY ExactInit
<1>2. BaseInv /\ BaseInv' /\ WalkInv /\ ExactInv /\ [Next]_vars => ExactInv'
  BY ExactStep
<1> QED BY <1>1, <1>2, WalkAlways, PTL DEF Spec

\* If nothing was written meanwhile, a walk meets every item once, as many as it
\* was told there are.  The page sizes applied and told are the same, however
\* odd the size asked for.
THEOREM WalksExact == Spec => []WalkExact
<1>1. ExactInv => WalkExact
  BY DEF ExactInv
<1> QED BY <1>1, ExactAlways, PTL

-----------------------------------------------------------------------------
(* Sums of groups *)

\* The entries of one group.
Members(entries, column, v) == {e \in entries : e[column] = v}

\* The groups by a column add up to the entries: number the entries of each.
LEMMA GroupsAddUp ==
  ASSUME NEW entries, IsFiniteSet(entries), NEW column
  PROVE  Sum(Groups(entries, column)) = Cardinality(entries)
<1> DEFINE values == {e[column] : e \in entries}
           count(v) == Cardinality(Members(entries, column, v))
           pairs == UNION {{v} \X (1 .. count(v)) : v \in values}
           number == [v \in values |->
                        CHOOSE f : f \in Bijection(Members(entries, column, v), 1 .. count(v))]
           place == [e \in entries |-> <<e[column], number[e[column]][e]>>]
<1>1. ASSUME NEW v
      PROVE  /\ IsFiniteSet(Members(entries, column, v)) /\ count(v) \in Nat
             /\ ExistsBijection(Members(entries, column, v), 1 .. count(v))
  <2>1. IsFiniteSet(Members(entries, column, v))
    BY FS_Subset DEF Members
  <2>2. count(v) \in Nat
    BY <2>1, FS_CardinalityType
  <2>3. IsFiniteSet(1 .. count(v)) /\ Cardinality(1 .. count(v)) = count(v)
    BY <2>2, FS_Interval
  <2>4. ExistsBijection(Members(entries, column, v), 1 .. count(v))
    BY <2>1, <2>3, FS_SameCardinalityBij
  <2> QED BY <2>1, <2>2, <2>4
<1>2. \A v \in values : number[v] \in Bijection(Members(entries, column, v), 1 .. count(v))
  BY <1>1 DEF ExistsBijection
<1>3. \A e \in entries : place[e] = <<e[column], number[e[column]][e]>>
  OBVIOUS
<1> HIDE DEF number, place, count
<1>4. ASSUME NEW v \in values
      PROVE  /\ number[v] \in [Members(entries, column, v) -> 1 .. count(v)]
             /\ \A a, b \in Members(entries, column, v) : number[v][a] = number[v][b] => a = b
             /\ \A n \in 1 .. count(v) : \E a \in Members(entries, column, v) : number[v][a] = n
  BY <1>2 DEF Bijection, Injection, Surjection, IsInjective
<1>5. \A e \in entries : e[column] \in values /\ e \in Members(entries, column, e[column])
  BY DEF Members
<1>6. place \in [entries -> pairs]
  BY <1>4, <1>5 DEF place
<1> HIDE DEF values
<1>7. ASSUME NEW a \in entries, NEW b \in entries, place[a] = place[b] PROVE a = b
  <2>1. a[column] = b[column] /\ number[a[column]][a] = number[a[column]][b]
    BY <1>3, <1>7
  <2> QED BY <1>4, <1>5, <2>1
<1>8. ASSUME NEW p \in pairs PROVE \E e \in entries : place[e] = p
  <2>1. PICK v \in values : p \in {v} \X (1 .. count(v))
    OBVIOUS
  <2>2. PICK n \in 1 .. count(v) : p = <<v, n>>
    BY <2>1
  <2>3. PICK e \in Members(entries, column, v) : number[v][e] = n
    BY <1>4
  <2>4. e \in entries /\ e[column] = v
    BY DEF Members
  <2> QED BY <1>3, <2>2, <2>3, <2>4
<1>9. place \in Bijection(entries, pairs)
  BY <1>6, <1>7, <1>8 DEF Bijection, Injection, Surjection, IsInjective
<1>10. Cardinality(pairs) = Cardinality(entries)
  BY <1>9, FS_Bijection DEF ExistsBijection
<1>11. UNION {{g.of} \X (1 .. g.count) : g \in Groups(entries, column)} = pairs
  <2>1. Groups(entries, column) = {[of |-> v, count |-> count(v)] : v \in values}
    BY DEF Groups, values, count, Members
  <2>2. ASSUME NEW p, NEW g \in Groups(entries, column), p \in {g.of} \X (1 .. g.count)
        PROVE  p \in pairs
    <3>1. PICK v \in values : g = [of |-> v, count |-> count(v)]
      BY <2>1
    <3>2. p \in {v} \X (1 .. count(v))
      BY <2>2, <3>1
    <3> QED BY <3>2
  <2>3. ASSUME NEW p, NEW v \in values, p \in {v} \X (1 .. count(v))
        PROVE  \E g \in Groups(entries, column) : p \in {g.of} \X (1 .. g.count)
    <3> DEFINE g == [of |-> v, count |-> count(v)]
    <3>1. g \in Groups(entries, column) /\ g.of = v /\ g.count = count(v)
      BY <2>1
    <3> HIDE DEF g
    <3> QED BY <2>3, <3>1
  <2> QED BY <2>2, <2>3
<1> QED BY <1>10, <1>11 DEF Sum

\* The one group of a value adds up to its entries.
LEMMA GroupAddsUp ==
  ASSUME NEW entries, IsFiniteSet(entries), NEW column, NEW v
  PROVE  Sum({g \in Groups(entries, column) : g.of = v})
           = Cardinality(Members(entries, column, v))
<1> DEFINE part == Members(entries, column, v)
<1>1. IsFiniteSet(part)
  BY FS_Subset DEF Members
<1>2. \A u : {e \in part : e[column] = u} = IF u = v THEN part ELSE {}
  BY DEF Members
<1>3. Groups(part, column) = {g \in Groups(entries, column) : g.of = v}
  <2>1. ASSUME NEW g \in Groups(part, column)
        PROVE  g \in Groups(entries, column) /\ g.of = v
    <3>1. PICK e \in part : g = [of |-> e[column],
                                 count |-> Cardinality({f \in part : f[column] = e[column]})]
      BY DEF Groups
    <3>2. e \in entries /\ e[column] = v
      BY DEF Members
    <3>3. {f \in part : f[column] = v} = {f \in entries : f[column] = v}
      BY DEF Members
    <3>4. g = [of |-> v, count |-> Cardinality({f \in entries : f[column] = v})]
      BY <3>1, <3>2, <3>3
    <3>5. v \in {f[column] : f \in entries}
      BY <3>2
    <3>6. g \in Groups(entries, column)
      BY <3>4, <3>5 DEF Groups
    <3> QED BY <3>4, <3>6
  <2>2. ASSUME NEW g \in Groups(entries, column), g.of = v
        PROVE  g \in Groups(part, column)
    <3>1. PICK e \in entries : g = [of |-> e[column],
                                    count |-> Cardinality({f \in entries : f[column] = e[column]})]
      BY DEF Groups
    <3>2. e[column] = v
      BY <2>2, <3>1
    <3>3. e \in part
      BY <3>2 DEF Members
    <3>4. {f \in part : f[column] = v} = {f \in entries : f[column] = v}
      BY DEF Members
    <3> QED BY ZenonT(60), <3>1, <3>2, <3>3, <3>4 DEF Groups
  <2> QED BY <2>1, <2>2
<1> QED BY <1>1, <1>3, GroupsAddUp

-----------------------------------------------------------------------------
(* Summaries *)

RecentTransitions == {e \in Recent : e.action = "transition"}

Transitions(groups) == {g \in groups : g.of = "transition"}

\* A count of the summary, of entries that only grow, with as many now.
Counts(count, entries) ==
  /\ count <= Cardinality(entries)
  /\ reader.quiet => count = Cardinality(entries)

\* The actions grouped, between the counts before and the entries now.
ActionsCounted ==
  /\ reader.total <= Sum(reader.actions) /\ Sum(reader.actions) <= Cardinality(Recent)
  /\ Sum(reader.actions) \in Nat
  /\ reader.transitions <= Sum(Transitions(reader.actions))
  /\ reader.quiet => reader.transitions = Sum(Transitions(reader.actions))
  /\ reader.actors <= Sum(reader.actions)

SummaryInv ==
  /\ reader.pc \in {"transitions", "actors", "actions", "entities"} =>
       Counts(reader.total, Recent)
  /\ reader.pc \in {"actors", "actions"} => Counts(reader.transitions, RecentTransitions)
  /\ reader.pc = "actions" => reader.actors <= Cardinality(Recent)
  /\ reader.pc = "entities" => ActionsCounted
  /\ SummaryConsistent

LEMMA SummaryInit == Init => SummaryInv
  BY DEF Init, NoReader, SummaryInv, SummaryConsistent

\* Sums of the groups of what is recent.
LEMMA RecentAddUp ==
  ASSUME BaseInv
  PROVE  /\ Sum(Groups(Recent, "action")) = Cardinality(Recent)
         /\ Sum(Groups(Recent, "entity")) = Cardinality(Recent)
         /\ Sum(Transitions(Groups(Recent, "action"))) = Cardinality(RecentTransitions)
         /\ Cardinality(Recent) \in Nat /\ Cardinality(RecentTransitions) \in Nat
<1>1. IsFiniteSet(Recent) /\ Cardinality(Recent) \in Nat
  BY RecentEntries
<1>2. RecentTransitions = Members(Recent, "action", "transition")
  BY DEF RecentTransitions, Members
<1>3. Cardinality(RecentTransitions) \in Nat
  BY CountsTyped DEF RecentTransitions
<1> QED BY <1>1, <1>2, <1>3, GroupsAddUp, GroupAddsUp DEF Transitions

\* If a report on the log has seen nothing happen, no entry was inserted.
LEMMA QuietLog ==
  ASSUME LogInv', log \subseteq log', reader.list # "records", reader'.list = reader.list,
         About' = About
  PROVE  log' = log
<1>1. /\ About = {[id |-> e.id, at |-> e.at] : e \in log}
      /\ About' = {[id |-> e.id, at |-> e.at] : e \in log'}
  BY DEF About, Listed
<1>2. ASSUME NEW e \in log' PROVE e \in log
  <2>1. [id |-> e.id, at |-> e.at] \in About
    BY <1>1, <1>2
  <2>2. PICK f \in log : [id |-> e.id, at |-> e.at] = [id |-> f.id, at |-> f.at]
    BY <1>1, <2>1
  <2>3. f.id = e.id
    BY <2>2
  <2> QED BY <2>3 DEF LogInv
<1> QED BY <1>2

LEMMA SummaryThroughWrite ==
  ASSUME BaseInv, BaseInv', WalkInv, SummaryInv, NEW w \in Writers, Write(w), Noticed,
         reader.pc \notin {"idle", "over", "failed"}
  PROVE  SummaryInv'
<1>1. SamePlace /\ (reader'.quiet => reader.quiet /\ About' = About)
  <2>1. IsList(About) /\ IsList(About')
    BY AboutIsList, AboutStaysList DEF BaseInv
  <2> QED BY <2>1, NoticedStep DEF BaseInv
<1>2. log \subseteq log' /\ LogInv'
  BY WriteNoticed
<1>3. reader'.pc = reader.pc /\ (reader.pc \in SummaryPlaces => reader.list = "summary")
  BY <1>1 DEF SamePlace, WalkInv
<1>4. /\ Recent \subseteq Recent' /\ RecentTransitions \subseteq RecentTransitions'
      /\ IsFiniteSet(Recent') /\ IsFiniteSet(RecentTransitions')
  <2>1. Recent \subseteq Recent' /\ RecentTransitions \subseteq RecentTransitions'
    BY <1>1, <1>2 DEF Recent, RecentTransitions, Since, SamePlace
  <2>2. IsFiniteSet(Recent')
    BY <1>2, FS_Subset DEF LogInv, Recent
  <2>3. RecentTransitions' \subseteq Recent'
    BY DEF RecentTransitions
  <2> QED BY <2>1, <2>2, <2>3, FS_Subset
<1>5. /\ Cardinality(Recent) <= Cardinality(Recent')
      /\ Cardinality(RecentTransitions) <= Cardinality(RecentTransitions')
      /\ Cardinality(Recent) \in Nat /\ Cardinality(Recent') \in Nat
      /\ Cardinality(RecentTransitions) \in Nat /\ Cardinality(RecentTransitions') \in Nat
  BY <1>4, RecentAddUp, FS_Subset, FS_CardinalityType
<1>6. reader.pc \in SummaryPlaces /\ reader'.quiet =>
        reader.quiet /\ Recent' = Recent /\ RecentTransitions' = RecentTransitions
  BY <1>1, <1>2, <1>3, QuietLog DEF Recent, RecentTransitions, Since, SamePlace
<1>7. reader.total \in Nat /\ reader.transitions \in Nat /\ reader.actors \in Nat
  BY DEF BaseInv, Reader
<1>8. ASSUME reader.pc \in {"transitions", "actors", "actions", "entities"}
      PROVE  Counts(reader.total, Recent)'
  BY <1>1, <1>5, <1>6, <1>7, <1>8 DEF SummaryInv, Counts, SummaryPlaces, SamePlace
<1>9. ASSUME reader.pc \in {"actors", "actions"}
      PROVE  Counts(reader.transitions, RecentTransitions)'
  BY <1>1, <1>5, <1>6, <1>7, <1>9 DEF SummaryInv, Counts, SummaryPlaces, SamePlace
<1>10. reader.pc = "actions" => reader'.actors <= Cardinality(Recent')
  BY <1>1, <1>5, <1>7 DEF SummaryInv, SamePlace
<1>11. reader.pc = "entities" => ActionsCounted'
  BY <1>1, <1>5, <1>6 DEF SummaryInv, ActionsCounted, SummaryPlaces, SamePlace
<1>12. SummaryConsistent'
  BY <1>1 DEF SummaryConsistent, SamePlace
<1> QED BY <1>3, <1>8, <1>9, <1>10, <1>11, <1>12 DEF SummaryInv

LEMMA SummaryKept ==
  ASSUME SummaryInv, reader' = reader, log' = log
  PROVE  SummaryInv'
<1>1. Recent' = Recent /\ RecentTransitions' = RecentTransitions
  BY DEF Recent, RecentTransitions, Since
<1> QED BY <1>1 DEF SummaryInv, Counts, ActionsCounted, SummaryConsistent

\* A walk is no summary.
LEMMA SummaryThroughWalk ==
  ASSUME BaseInv, WalkInv, BeginWalk \/ CountItems \/ FindItems \/ SelectFails
  PROVE  SummaryInv'
<1>1. CASE BeginWalk
  BY <1>1, WalkBegins DEF SummaryInv, SummaryConsistent
<1>2. CASE CountItems
  BY <1>2, ItemsCounted DEF SummaryInv, SummaryConsistent
<1>3. CASE FindItems
  <2>1. /\ reader'.pc \in {"count", "over"} /\ reader'.list = reader.list
        /\ reader.pc = "find"
    BY <1>3, PageRead DEF SameWalk
  <2> QED BY <2>1 DEF SummaryInv, SummaryConsistent, WalkInv, Ongoing
<1>4. CASE SelectFails
  BY <1>4, SelectFailed DEF SummaryInv, SummaryConsistent
<1> QED BY <1>1, <1>2, <1>3, <1>4

LEMMA SummaryThroughQuery ==
  ASSUME BaseInv, SummaryInv, Summarise
  PROVE  SummaryInv'
<1>1. (Recent' = Recent /\ RecentTransitions' = RecentTransitions) \/ BeginSummary
  <2>1. log' = log
    BY ClientReads DEF ClientStep
  <2>2. reader'.since = reader.since \/ BeginSummary
    BY TotalCounted, TransitionsCounted, ActorsCounted, ActionsGrouped, EntitiesGrouped
       DEF Summarise, SameSummary
  <2> QED BY <2>1, <2>2 DEF Recent, RecentTransitions, Since
<1>2. /\ Cardinality(Recent) \in Nat /\ Cardinality(RecentTransitions) \in Nat
      /\ reader.total \in Nat /\ reader.transitions \in Nat /\ reader.actors \in Nat
  BY RecentAddUp DEF BaseInv, Reader
<1>3. CASE BeginSummary
  BY <1>3, SummaryBegins DEF SummaryInv, SummaryConsistent
<1>4. CASE CountTotal /\ ~BeginSummary
  BY <1>1, <1>2, <1>4, TotalCounted DEF SummaryInv, SummaryConsistent, Counts
<1>5. CASE CountTransitions /\ ~BeginSummary
  BY <1>1, <1>2, <1>5, TransitionsCounted
     DEF SummaryInv, SummaryConsistent, Counts, SameSummary, RecentTransitions
<1>6. CASE CountActors /\ ~BeginSummary
  BY <1>1, <1>2, <1>6, ActorsCounted, CountsTyped
     DEF SummaryInv, SummaryConsistent, Counts, SameSummary
<1>7. CASE GroupActions /\ ~BeginSummary
  <2>1. /\ reader.pc = "actions" /\ reader'.pc = "entities" /\ SameSummary
        /\ reader'.total = reader.total /\ reader'.transitions = reader.transitions
        /\ reader'.actors = reader.actors /\ reader'.actions = Groups(Recent, "action")
    BY <1>7, ActionsGrouped
  <2>2. /\ Sum(reader'.actions) = Cardinality(Recent)
        /\ Sum(Transitions(reader'.actions)) = Cardinality(RecentTransitions)
    BY <2>1, RecentAddUp
  <2>3. /\ Counts(reader.total, Recent) /\ Counts(reader.transitions, RecentTransitions)
        /\ reader.actors <= Cardinality(Recent)
    BY <2>1 DEF SummaryInv
  <2>4. Counts(reader.total, Recent)'
    BY <1>1, <1>7, <2>1, <2>3 DEF Counts, SameSummary
  <2>5. ActionsCounted'
    BY <1>1, <1>2, <1>7, <2>1, <2>2, <2>3 DEF ActionsCounted, Counts, SameSummary
  <2> QED BY <2>1, <2>4, <2>5 DEF SummaryInv, SummaryConsistent
<1>8. CASE GroupEntities /\ ~BeginSummary
  <2>1. /\ reader.pc = "entities" /\ reader'.pc = "over" /\ SameSummary
        /\ reader'.total = reader.total /\ reader'.transitions = reader.transitions
        /\ reader'.actors = reader.actors /\ reader'.actions = reader.actions
        /\ reader'.entities = Groups(Recent, "entity")
    BY <1>8, EntitiesGrouped
  <2>2. Sum(reader'.entities) = Cardinality(Recent)
    BY <2>1, RecentAddUp
  <2>3. Counts(reader.total, Recent) /\ ActionsCounted
    BY <2>1 DEF SummaryInv
  <2>4. SummaryConsistent'
    BY <2>1, <2>2, <2>3 DEF SummaryConsistent, Counts, ActionsCounted, SameSummary, Transitions
  <2> QED BY <2>1, <2>4 DEF SummaryInv
<1> QED BY <1>3, <1>4, <1>5, <1>6, <1>7, <1>8 DEF Summarise

LEMMA SummaryStep == BaseInv /\ BaseInv' /\ WalkInv /\ SummaryInv /\ [Next]_vars => SummaryInv'
<1> SUFFICES ASSUME BaseInv, BaseInv', WalkInv, SummaryInv, [Next]_vars PROVE SummaryInv'
  OBVIOUS
<1>1. CASE Tick \/ UNCHANGED vars
  <2>1. UNCHANGED <<log, reader>>
    BY <1>1 DEF Tick, vars
  <2> QED BY <2>1, SummaryKept
<1>2. ASSUME NEW w \in Writers, Write(w) PROVE SummaryInv'
  <2>1. CASE reader' = reader /\ About' = About /\ log' = log
    BY <2>1, SummaryKept
  <2>2. CASE reader' = reader /\ reader.pc \in {"idle", "over", "failed"}
    BY <2>2 DEF SummaryInv, SummaryConsistent
  <2>3. CASE Noticed /\ reader.pc \notin {"idle", "over", "failed"}
    BY <1>2, <2>3, SummaryThroughWrite
  <2> QED BY <1>2, <2>1, <2>2, <2>3, WriteNoticed
<1> QED BY <1>1, <1>2, SummaryThroughWalk, SummaryThroughQuery DEF Next

LEMMA SummaryAlways == Spec => []SummaryInv
<1>1. Init => SummaryInv
  BY SummaryInit
<1>2. BaseInv /\ BaseInv' /\ WalkInv /\ SummaryInv /\ [Next]_vars => SummaryInv'
  BY SummaryStep
<1> QED BY <1>1, <1>2, WalkAlways, PTL DEF Spec

\* The parts of a summary agree as far as they can: entries inserted between two
\* of its queries are in the later parts only, and nothing inserted, all agree.
THEOREM SummaryAgrees == Spec => []SummaryConsistent
<1>1. SummaryInv => SummaryConsistent
  BY DEF SummaryInv
<1> QED BY <1>1, SummaryAlways, PTL

-----------------------------------------------------------------------------
(* Stamps *)

\* An informed write names a version no later than the stored one.  If it is the
\* stored one, the row is as it was read, hence stamped no later than the write.
Timely(w) ==
  /\ writer[w].op \in {"update", "transition"} /\ writer[w].pc \in {"stamp", "write"}
  /\ writer[w].ahead = 0
  =>
    /\ writer[w].id \in Ids
    /\ writer[w].expected <= table[writer[w].id].version
    /\ writer[w].pc = "write" /\ writer[w].expected = table[writer[w].id].version =>
         table[writer[w].id].at <= writer[w].at

StampInv ==
  /\ \A d \in Ids :
       /\ table[d].at <= now
       /\ table[d].state = "absent" => table[d].at = 0 /\ table[d].version = 0
  /\ \A w \in Writers : Timely(w) /\ writer[w].at <= now

LEMMA StampNumbers ==
  ASSUME StoreInv
  PROVE  /\ now \in Nat
         /\ \A d \in Ids : table[d].at \in Nat /\ table[d].version \in Nat
         /\ \A w \in Writers : writer[w].at \in Nat /\ writer[w].expected \in Nat
  BY TimesAreNumbers DEF StoreInv, StoreType, Row, Writer

LEMMA StampInit == Init => StampInv
<1> SUFFICES ASSUME Init PROVE StampInv
  OBVIOUS
<1>1. \A d \in Ids : table[d] \in {NoRow} \cup {SeedRow(status) : status \in Statuses}
  BY ReportsAssumption DEF Init
<1>2. \A d \in Ids :
        /\ table[d].at <= 1
        /\ table[d].state = "absent" => table[d].at = 0 /\ table[d].version = 0
  BY <1>1 DEF NoRow, SeedRow
<1> QED BY <1>2 DEF Init, StampInv, Timely, NoWriter

\* A step of one writer that leaves the table alone.
LEMMA StampQuiet ==
  ASSUME StoreInv, StampInv, UNCHANGED <<now, table>>, NEW w \in Writers, NEW call,
         writer' = [writer EXCEPT ![w] = call], call.at <= now,
         /\ call.op \in {"update", "transition"} /\ call.pc \in {"stamp", "write"}
         /\ call.ahead = 0
         =>
           /\ call.id \in Ids /\ call.expected <= table[call.id].version
           /\ call.pc = "write" /\ call.expected = table[call.id].version =>
                table[call.id].at <= call.at
  PROVE  StampInv'
<1>1. writer'[w] = call /\ \A v \in Writers \ {w} : writer'[v] = writer[v]
  BY DEF StoreInv, StoreType
<1> QED BY <1>1 DEF StampInv, Timely

\* The row that is written gets another version, unless it is deleted, and by an
\* informed client it is not stamped back: a create finds no row, a deletion stamps
\* none, and the others match the row they read.
LEMMA CommitRises ==
  ASSUME StoreInv, StampInv, NEW w \in Writers, CommitRow(w)
  PROVE  \E d \in Ids, next \in Row :
           /\ table' = [table EXCEPT ![d] = next]
           /\ next.state # "absent" /\ next.at <= now
           /\ writer[w].ahead = 0 => table[d].at <= next.at
           /\ \/ next.version = table[d].version /\ next.at = table[d].at
              \/ table[d].version < next.version
<1> DEFINE call == writer[w]
<1>1. PICK d \in Ids, next \in Row :
        /\ table' = [table EXCEPT ![d] = next] /\ Matches(call, d)
        /\ call.pc = "write" /\ call.op \in Actions /\ next.state # "absent"
        /\ call.op = "delete" => next.version = table[d].version /\ next.at = table[d].at
        /\ call.op # "delete" => next.version = call.expected + 1 /\ next.at = call.at
  BY CommitWrites
<1>2. /\ now \in Nat /\ table[d].at \in Nat /\ table[d].version \in Nat
      /\ call.at \in Nat /\ call.expected \in Nat /\ call.at <= now
      /\ table[d].at <= now
  BY StampNumbers DEF StampInv
<1> HIDE DEF call
<1>3. ASSUME call.op = "create"
      PROVE  table[d].at <= next.at /\ next.at <= now /\ table[d].version < next.version
  <2>1. table[d].at = 0 /\ table[d].version = 0
    BY <1>1, <1>3 DEF Matches, StampInv
  <2>2. next.version = call.expected + 1 /\ next.at = call.at
    BY <1>1, <1>3
  <2> QED BY <1>2, <2>1, <2>2
<1>4. ASSUME call.op = "delete"
      PROVE  /\ table[d].at <= next.at /\ next.at <= now
             /\ next.version = table[d].version /\ next.at = table[d].at
  BY <1>1, <1>2, <1>4
<1>5. ASSUME call.op \in {"update", "transition"}
      PROVE  /\ call.ahead = 0 => table[d].at <= next.at
             /\ next.at <= now /\ table[d].version < next.version
  <2>1. d = call.id /\ table[d].version = call.expected
    BY <1>1, <1>5 DEF Matches
  <2>2. call.ahead = 0 => table[d].at <= call.at
    BY <1>1, <1>5, <2>1 DEF StampInv, Timely, call
  <2>3. next.version = call.expected + 1 /\ next.at = call.at
    BY <1>1, <1>5
  <2> QED BY <1>2, <2>1, <2>2, <2>3
<1>6. /\ call.ahead = 0 => table[d].at <= next.at
      /\ next.at <= now
      /\ \/ next.version = table[d].version /\ next.at = table[d].at
         \/ table[d].version < next.version
  BY <1>1, <1>3, <1>4, <1>5 DEF Actions
<1>7. table' = [table EXCEPT ![d] = next] /\ next.state # "absent"
  BY <1>1
<1> QED BY <1>6, <1>7 DEF call

LEMMA StampThroughWrite ==
  ASSUME StoreInv, StampInv, NEW w \in Writers, Write(w)
  PROVE  StampInv'
<1>1. CASE ReadRow(w)
  <2>1. PICK op \in Actions, d \in Ids \cup {0}, version \in Nat, ahead \in Nat,
             status \in Statuses \cup {"none"} :
          /\ Begin(w, op, d, version, ahead, status)
          /\ op \in {"update", "transition"} => d \in Ids /\ version = table[d].version
    BY <1>1, RowRead DEF StoreInv
  <2> DEFINE call == Begun(op, d, version, ahead, status)
  <2>2. writer' = [writer EXCEPT ![w] = call] /\ UNCHANGED <<now, table>>
    BY <1>1, <2>1 DEF Begin, ReadRow
  <2>3. /\ call.op = op /\ call.id = d /\ call.expected = version + ahead
        /\ call.ahead = ahead /\ call.at = 0
        /\ call.pc = (IF op = "delete" THEN "write" ELSE "stamp")
    BY BeginTyped
  <2>4. op \in {"update", "transition"} => call.pc = "stamp"
    BY <2>3
  <2> HIDE DEF call
  <2>5. 0 <= now
    BY StampNumbers
  <2>6. op \in {"update", "transition"} /\ ahead = 0 => call.expected <= table[d].version
    BY <2>1, <2>3
  <2> QED BY <2>1, <2>2, <2>3, <2>4, <2>5, <2>6, StampQuiet
<1>2. CASE StampRow(w)
  <2> DEFINE call == [writer[w] EXCEPT !.pc = "write", !.at = now]
  <2>1. /\ writer[w].pc = "stamp" /\ UNCHANGED <<now, table>>
        /\ writer' = [writer EXCEPT ![w] = call]
    BY <1>2 DEF StampRow, StoreInv, StoreType
  <2>2. /\ call.op = writer[w].op /\ call.id = writer[w].id
        /\ call.expected = writer[w].expected /\ call.ahead = writer[w].ahead
        /\ call.at = now
    BY DEF StoreInv, StoreType, Writer
  <2> HIDE DEF call
  <2>3. now <= now
    BY StampNumbers
  <2> QED BY <2>1, <2>2, <2>3, StampQuiet DEF StampInv, Timely
<1>3. CASE CommitRow(w)
  <2> DEFINE call == [NoWriter EXCEPT !.pc = "audit", !.op = writer[w].op]
  <2>1. PICK d \in Ids, next \in Row :
          /\ table' = [table EXCEPT ![d] = next]
          /\ next.state # "absent" /\ next.at <= now
          /\ \/ next.version = table[d].version /\ next.at = table[d].at
             \/ table[d].version < next.version
    BY <1>3, CommitRises
  <2>2. now' = now /\ writer' = [writer EXCEPT ![w] = call]
    BY <1>3 DEF CommitRow
  <2>3. call.pc = "audit" /\ call.at = 0
    BY DEF NoWriter
  <2> HIDE DEF call
  <2>4. table'[d] = next /\ \A c \in Ids \ {d} : table'[c] = table[c]
    BY <2>1 DEF StoreInv, StoreType
  <2>5. writer'[w] = call /\ \A v \in Writers \ {w} : writer'[v] = writer[v]
    BY <2>2 DEF StoreInv, StoreType
  <2>6. \A c \in Ids :
          /\ table'[c].at <= now'
          /\ table'[c].state = "absent" => table'[c].at = 0 /\ table'[c].version = 0
    BY <2>1, <2>2, <2>4 DEF StampInv
  <2>7. ASSUME NEW v \in Writers PROVE Timely(v)' /\ writer'[v].at <= now'
    <3>1. CASE v = w
      BY <2>2, <2>3, <2>5, <3>1, StampNumbers DEF Timely
    <3>2. CASE v # w /\ writer[v].id # d
      BY <2>2, <2>4, <2>5, <3>2 DEF Timely, StampInv
    <3>3. CASE v # w /\ writer[v].id = d
      <4>1. Timely(v) /\ writer[v].at <= now /\ writer'[v] = writer[v]
        BY <2>5, <3>3 DEF StampInv
      <4>2. /\ writer[v].expected \in Nat /\ table[d].version \in Nat /\ next.version \in Nat
            /\ writer[v].at \in Nat
        BY StampNumbers DEF Row
      <4> QED BY <2>1, <2>2, <2>4, <3>3, <4>1, <4>2 DEF Timely
    <3> QED BY <3>1, <3>2, <3>3
  <2> QED BY <2>6, <2>7 DEF StampInv
<1>4. CASE WriteFails(w) \/ InsertEntry(w)
  <2> DEFINE call == [NoWriter EXCEPT !.pc = "done"]
  <2>1. call.pc = "done" /\ call.at = 0
    BY DEF NoWriter
  <2>2. writer' = [writer EXCEPT ![w] = call] /\ UNCHANGED <<now, table>>
    BY <1>4 DEF WriteFails, InsertEntry
  <2> HIDE DEF call
  <2>3. 0 <= now
    BY StampNumbers
  <2> QED BY <2>1, <2>2, <2>3, StampQuiet
<1>5. CASE StampEntry(w)
  <2> DEFINE call == [writer[w] EXCEPT !.pc = "insert", !.at = now]
  <2>1. writer' = [writer EXCEPT ![w] = call] /\ UNCHANGED <<now, table>>
    BY <1>5 DEF StampEntry, StoreInv, StoreType
  <2>2. call.pc = "insert" /\ call.at = now
    BY DEF StoreInv, StoreType, Writer
  <2> HIDE DEF call
  <2>3. now <= now
    BY StampNumbers
  <2> QED BY <2>1, <2>2, <2>3, StampQuiet
<1> QED BY <1>1, <1>2, <1>3, <1>4, <1>5 DEF Write

LEMMA StampStep ==
  ASSUME StoreInv, StampInv, [Next]_vars
  PROVE  StampInv'
<1>1. CASE Tick
  <2>1. now' = now + 1 /\ UNCHANGED <<table, writer>>
    BY <1>1 DEF Tick
  <2>2. /\ now \in Nat /\ \A d \in Ids : table[d].at \in Nat
        /\ \A w \in Writers : writer[w].at \in Nat
    BY StampNumbers
  <2> QED BY <2>1, <2>2 DEF StampInv, Timely
<1>2. CASE UNCHANGED <<now, table, writer>>
  BY <1>2 DEF StampInv, Timely
<1>3. CASE ClientStep
  BY <1>2, <1>3, ClientReads
<1> QED BY <1>1, <1>2, <1>3, StampThroughWrite DEF Next, ClientStep, vars

\* A client that names the version it was shown never takes updated_at back, however
\* long its request is on its way between its stamp and its statement, and whatever
\* versions others name.
THEOREM StampsRise == Spec => UpdatedAtRises
<1>1. StampInv /\ BaseInv /\ [Next]_vars => StampInv'
  BY StampStep DEF BaseInv
<1>2. ASSUME BaseInv, StampInv, [Next]_vars, NEW w \in Writers, NEW d \in Ids,
             writer[w].pc = "write", writer'[w].pc = "audit", writer[w].ahead = 0
      PROVE  table'[d].at >= table[d].at
  <2>1. \A c \in Ids : table[c].at \in Nat
    BY <1>2, StampNumbers DEF BaseInv
  <2>2. CASE table' = table
    BY <2>1, <2>2
  <2>3. ASSUME NEW v \in Writers, CommitRow(v) PROVE table'[d].at >= table[d].at
    <3>1. v = w
      BY <1>2, <2>3 DEF CommitRow, BaseInv, StoreInv, StoreType
    <3>2. PICK c \in Ids, next \in Row :
            table' = [table EXCEPT ![c] = next] /\ table[c].at <= next.at
      BY <1>2, <2>3, <3>1, CommitRises DEF BaseInv
    <3>3. next.at \in Nat
      BY TimesAreNumbers DEF Row
    <3> QED BY <1>2, <2>1, <3>2, <3>3 DEF BaseInv, StoreInv, StoreType
  <2>4. CASE ClientStep
    BY <2>2, <2>4, ClientReads
  <2> QED BY <1>2, <2>2, <2>3, <2>4
       DEF Next, ClientStep, vars, Tick, Write, ReadRow, StampRow, WriteFails, StampEntry,
           InsertEntry
<1>3. BaseInv /\ StampInv /\ [Next]_vars =>
        [\A w \in Writers, d \in Ids :
           writer[w].pc = "write" /\ writer'[w].pc = "audit" /\ writer[w].ahead = 0 =>
             table'[d].at >= table[d].at]_vars
  BY <1>2
<1> QED BY <1>1, <1>3, StampInit, BaseAlways, PTL DEF Spec, UpdatedAtRises

=============================================================================
