------------------------------ MODULE MCStartup ------------------------------
(***************************************************************************)
(* Small instances of Startup.                                             *)
(***************************************************************************)
EXTENDS Startup, TLC

Symmetry == Permutations(Servers)

=============================================================================
