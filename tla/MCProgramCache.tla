--------------------------- MODULE MCProgramCache ---------------------------
(* A small instance of ProgramCache for TLC. *)
EXTENDS ProgramCache

CONSTANTS builtin, p1, p2, d0, d1, d2

MCProgramData == [p \in {builtin, p1, p2} |-> CASE p = builtin -> d0 [] p = p1 -> d1 [] p = p2 -> d2]
=============================================================================
