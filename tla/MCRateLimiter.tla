--------------------------- MODULE MCRateLimiter ---------------------------
(***************************************************************************)
(* Small instances of RateLimiter.                                         *)
(***************************************************************************)
EXTENDS RateLimiter, TLC

Symmetry ==
  Permutations(Requests) \cup Permutations(Servers) \cup Permutations(Keys)

=============================================================================
