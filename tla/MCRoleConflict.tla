--------------------------- MODULE MCRoleConflict ---------------------------
(***************************************************************************)
(* Two agents a1 and a2 with distinct tie-breakers and one pair p1.        *)
(***************************************************************************)
EXTENDS RoleConflict

CONSTANTS a1, a2, p1

Distinct == [x \in Agents |-> IF x = a1 THEN 1 ELSE 2]
=============================================================================
