----------------------------- MODULE MCWorkbench -----------------------------
(***************************************************************************)
(* A small instance of Workbench: one tab of an administrator that shows   *)
(* one closed finding, with two clicks and one load, and one call of       *)
(* another client.                                                         *)
(***************************************************************************)
EXTENDS Workbench, TLC

CONSTANTS df1, t1, r1, r2, q1, x1, c1, admin

MCGraphOf == [d \in Records |-> DefectFindingTransitions]

MCInitialStatusOf == [d \in Records |-> "new"]

MCRoleOf == [u \in Users |-> "admin"]

MCUserOf == [t \in Tabs |-> admin]

MCSeed == [d \in Records |-> "closed"]

Symmetry == Permutations(Clicks)

=============================================================================
