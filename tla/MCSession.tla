------------------------------ MODULE MCSession ------------------------------
(***************************************************************************)
(* Small instances of Session: one user, two tabs, one request.            *)
(***************************************************************************)
EXTENDS Session, TLC

CONSTANTS u1, t1, t2, c1

Symmetry == Permutations(Tabs)

=============================================================================
