---------------------------- MODULE MCRecordStore ----------------------------
(***************************************************************************)
(* Small instances of RecordStore: one record of each table.               *)
(***************************************************************************)
EXTENDS RecordStore, TLC

CONSTANTS ba1, ir1, df1, r1, r2, r3, c1, c2, viewer, operator, admin

MCGraphOf ==
  [d \in Records |->
     CASE d = ba1 -> BridgeAssetTransitions
       [] d = ir1 -> InspectionRoundTransitions
       [] OTHER   -> DefectFindingTransitions]

MCInitialStatusOf ==
  [d \in Records |->
     CASE d = ba1 -> "active" [] d = ir1 -> "planned" [] OTHER -> "new"]

MCRoleOf ==
  [u \in Users |->
     CASE u = viewer -> "viewer" [] u = admin -> "admin" [] OTHER -> "operator"]

\* A restricted bridge, a new code for an inspection round, a verified finding.
MCSeed ==
  [d \in Records |->
     CASE d = ba1 -> "restricted" [] d = df1 -> "verified" [] OTHER -> "none"]

Symmetry == Permutations(Requests) \cup Permutations(Content)

=============================================================================
