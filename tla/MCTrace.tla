------------------------------ MODULE MCTrace ------------------------------
(* Lines of programs for Trace: an ordinary one. A line that contains the   *)
(* text of a runtime line, as "Program log: transfer success" does, would   *)
(* be [kind |-> "success", n |-> 0, bytes |-> 2].                           *)
EXTENDS Trace

PlainLines == {[kind |-> "other", n |-> 0, bytes |-> 1]}
=============================================================================
