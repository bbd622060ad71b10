--------------------------- MODULE DecisionLedger ---------------------------
(***************************************************************************)
(* What the decision register promises its users, with no requests, no     *)
(* versions and no database: each decision is a ledger to which entries    *)
(* are only ever appended.  It is opened by a draft, the draft is revised  *)
(* by its preparer or an administrator, and somebody else, a reviewer or   *)
(* an administrator, closes it with a priority level that attests exactly  *)
(* the last draft.  (README.md of the repository, "priority decisions";    *)
(* the rules are those of service/priority_decision.go.)                   *)
(***************************************************************************)
EXTENDS Naturals, Sequences, StatusGraphs, AccessControl

CONSTANTS Decisions, Users, RoleOf, Evidence, SeedStatus, Preparer, Reviewer

VARIABLE ledger

Entry(status, evidence, actor) ==
  [status |-> status, evidence |-> evidence, actor |-> actor]

Last(d) == ledger[d][Len(ledger[d])]

Open(d) == ledger[d] # <<>> /\ Last(d).status = "draft"

Append1(d, entry) == ledger' = [ledger EXCEPT ![d] = Append(@, entry)]

SeedLedger(status, e) ==
  LET draft == Entry("draft", e, Preparer)
      review == Entry(status, e, Reviewer)
  IN  CASE status = "none"  -> <<>>
        [] status = "draft" -> <<draft>>
        [] OTHER            -> <<draft, review>>

Init ==
  \E e \in Evidence, seed \in [Decisions -> {"none"} \cup PriorityStatus] :
    /\ \A d \in Decisions : seed[d] \in SeedStatus[d]
    /\ ledger = [d \in Decisions |-> SeedLedger(seed[d], e)]

\* Anyone above viewer opens a decision, once.
Prepare(d, u, e) ==
  /\ ledger[d] = <<>>
  /\ HasMinimumRole(RoleOf[u], "operator")
  /\ Append1(d, Entry("draft", e, u))

Revise(d, u, e) ==
  /\ Open(d)
  /\ u = ledger[d][1].actor \/ RoleOf[u] = "admin"
  /\ Append1(d, Entry("draft", e, u))

Finalise(d, u, level) ==
  /\ Open(d)
  /\ RoleOf[u] \in {"reviewer", "admin"}
  /\ u # ledger[d][1].actor
  /\ Append1(d, Entry(level, Last(d).evidence, u))

\* Every step appends an entry, which spares TLC the search on a stutter.
Next ==
  /\ ledger' # ledger
  /\ \E d \in Decisions, u \in Users :
       \/ \E e \in Evidence : Prepare(d, u, e) \/ Revise(d, u, e)
       \/ \E level \in PriorityLevel : Finalise(d, u, level)

Spec == Init /\ [][Next]_ledger

=============================================================================
