--------------------------- MODULE AccessControl ---------------------------
(***************************************************************************)
(* The four roles and the two route guards of middleware/auth.go.          *)
(***************************************************************************)
EXTENDS Naturals

RoleRank == [viewer |-> 1, operator |-> 2, reviewer |-> 3, admin |-> 4]

Roles == DOMAIN RoleRank

\* RequireMinimumRole(minimum)
HasMinimumRole(role, minimum) == RoleRank[role] >= RoleRank[minimum]

\* RequireRoles(allowed...)
HasOneOf(role, allowed) == role \in allowed

=============================================================================
