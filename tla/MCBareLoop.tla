----------------------------- MODULE MCBareLoop -----------------------------
(* Small instances of BareLoop for TLC.  With a window of 20 and a threshold *)
(* of 80% the threshold line is 16 and the emergency line 19.                *)
EXTENDS BareLoop, TLC

CONSTANTS t, u   \* what a user or the model says; what a host steers with

Tight == [max_turns |-> 2, context_window |-> 20, compact_threshold |-> 80, auto_compact |-> TRUE]
OneTurn == [Tight EXCEPT !.max_turns = 1]

NoTokens     == {}
TightOnly    == {Tight}
OneTurnOnly  == {OneTurn}
Known        == {CallId}
KnownOrNot   == {CallId, {}}
Says         == {t}
SaysAndSteer == {t, u}
Steer        == {u}
NoSteer      == {}
=============================================================================
