--------------------------- MODULE MCLoopMachine ---------------------------
(* Small instances of LoopMachine for TLC. *)
EXTENDS LoopMachine, TLC

\* With a window of 20 and a threshold of 80% the threshold line is 16 and the
\* emergency line 19.
Policy(window) == [max_turns |-> 2, context_window |-> window,
                   compact_threshold |-> 80, auto_compact |-> TRUE]
TwoPolicies == {Policy(20), Policy(0)}

ThreeTokens == {5, 17, 19}

SomeKnown == {CallId, {}}

CallSymmetry == Permutations(CallId)
=============================================================================
