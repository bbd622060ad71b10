---------------------------- MODULE StatusGraphs ----------------------------
(***************************************************************************)
(* The status vocabularies and transition graphs of the four record types  *)
(* (src/backend/internal/constants/status.go).  A graph maps a status to   *)
(* the set of statuses that may follow it.                                 *)
(***************************************************************************)

BridgeAssetTransitions ==
  [active     |-> {"restricted", "closed"},
   restricted |-> {"closed", "retired", "active"},
   closed     |-> {"retired", "restricted"},
   retired    |-> {"closed"}]

InspectionRoundTransitions ==
  [planned   |-> {"running", "review"},
   running   |-> {"review", "completed", "planned"},
   review    |-> {"completed", "running"},
   completed |-> {"review"}]

DefectFindingTransitions ==
  [new        |-> {"verified", "monitoring"},
   verified   |-> {"monitoring", "mitigated", "new"},
   monitoring |-> {"mitigated", "closed", "verified"},
   mitigated  |-> {"closed", "monitoring"},
   closed     |-> {"mitigated"}]

PriorityLevel == {"observe", "restrict", "urgent"}

PriorityStatus == {"draft"} \cup PriorityLevel

\* Mutant: an observed defect may be escalated.
PriorityDecisionTransitions_Escalating ==
  [s \in PriorityStatus |->
     CASE s = "draft" -> PriorityLevel [] s = "observe" -> {"urgent"} [] OTHER -> {}]

PriorityDecisionTransitions ==
  [s \in PriorityStatus |-> IF s = "draft" THEN PriorityLevel ELSE {}]

\* An unknown source status has no successors.
CanTransition(graph, from, to) ==
  /\ from \in DOMAIN graph
  /\ to \in graph[from]

=============================================================================
