---------------------------- MODULE AgentSession ----------------------------
(***************************************************************************)
(* What a loop promises whoever keeps a session with it, runs seen from    *)
(* outside: there is a transcript, it can be sent to a provider at every   *)
(* moment, and a run takes nothing from it but by condensing it as a whole.*)
(***************************************************************************)
EXTENDS Transcript

VARIABLES running,     \* a run is under way
          transcript   \* the committed conversation

session == <<running, transcript>>

Extends(s, t) == Len(t) <= Len(s) /\ SubSeq(s, 1, Len(t)) = t
Sendable(s)   == s \in Conversation /\ Coherent(s)

Init == running = FALSE /\ transcript = <<>>

Begin == ~running /\ running' = TRUE /\ UNCHANGED transcript

\* Starting and ending a run, however it ends, only adds to the transcript.
Commit == /\ running /\ running' \in BOOLEAN
          /\ Sendable(transcript') /\ Extends(transcript', transcript)

\* Compaction, or the reclaiming of tool outputs; asked for between runs, it
\* leaves no more messages than there were.
Condense == /\ Sendable(transcript') /\ UNCHANGED running
            /\ running \/ Len(transcript') <= Len(transcript)

Rewind == /\ ~running /\ UNCHANGED running
          /\ Sendable(transcript') /\ Extends(transcript, transcript')

Next == Begin \/ Commit \/ Condense \/ Rewind

Spec == Init /\ [][Next]_session
=============================================================================
