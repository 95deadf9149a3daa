--------------------------- MODULE MCPrdLifecycle ---------------------------
(* A small instance of the PRD life cycle for TLC.                         *)
EXTENDS PrdLifecycle, FiniteSets

CONSTANTS owner, editor, admin

MCRoleOf == [a \in Actors |-> CASE a = owner -> "owner"
                                [] a = editor -> "editor"
                                [] a = admin -> "admin"]

(* Two of the three are at work at a time: the third has no page and no    *)
(* request under way.                                                      *)
TwoAtATime ==
    Cardinality({a \in Actors : access[a] # NoAccess \/ page[a].version > 0}) <= 2
=============================================================================
