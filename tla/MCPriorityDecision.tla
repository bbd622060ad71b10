------------------------ MODULE MCPriorityDecision ------------------------
(***************************************************************************)
(* Small instances of PriorityDecision.                                    *)
(***************************************************************************)
EXTENDS PriorityDecision, TLC

CONSTANTS pd1, pd2, pd3, r1, r2, r3, e1, e2,
          viewer, operator, reviewer, admin

MCRoleOf ==
  [u \in Users |->
     CASE u = viewer   -> "viewer"
       [] u = reviewer -> "reviewer"
       [] u = admin    -> "admin"
       [] OTHER        -> "operator"]

\* A seeded draft.
MCDraftSeed == [d \in Decisions |-> {"draft"}]

\* A seeded draft, or a code not used yet.
MCOpenSeed == [d \in Decisions |-> {"draft", "none"}]

\* A seeded draft, a seeded final decision and a code not used yet.
MCMixedSeed ==
  [d \in Decisions |->
     CASE d = pd1 -> {"draft"} [] d = pd2 -> {"observe"} [] OTHER -> {"none"}]

Symmetry == Permutations(Requests) \cup Permutations(Evidence)

=============================================================================
