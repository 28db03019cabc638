--------------------------- MODULE MCToolDispatch ---------------------------
(* Small instances of ToolDispatch for TLC. *)
EXTENDS ToolDispatch, TLC

CONSTANTS shell, file

Call(safe, key) == [tool |-> shell, safe |-> safe, key |-> key]

\* One tool whose commands may run with others, on a resource or not, or may not.
Commands == {Call(TRUE, file), Call(TRUE, NoKey), Call(FALSE, NoKey)}

UpToTwo == UNION {[1..n -> Commands] : n \in 1..2}
=============================================================================
