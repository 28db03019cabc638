------------------------------- MODULE Lanes -------------------------------
(***************************************************************************)
(* From a provider's stream to a message: the emitters that turn chunks    *)
(* into part events (src/provider/openai.rs, gemini.rs, anthropic.rs and   *)
(* bedrock.rs) and the accumulator that makes parts of them (stream.rs).   *)
(* A fragment is a number, in the order of the wire, and a part a sequence *)
(* of them.  A chunk with several fields is several steps: they are taken  *)
(* one after another.  Usage, stop reasons and pings are left out.         *)
(***************************************************************************)
EXTENDS Naturals, Sequences

CONSTANTS Dialects,      \* the wire formats
          Resumes,       \* whether content may come between the fragments of a call
          NoIndex,
          MaxFragments,  \* bound: what the wire carries
          MaxBlocks      \* bound: calls of a chunked wire, blocks of the others

Chunked == {"openai", "gemini"}
Blocked == {"anthropic", "converse"}
ASSUME DialectAssumption == Dialects \subseteq Chunked \cup Blocked /\ Resumes \in BOOLEAN
ASSUME LaneAssumption == NoIndex \notin Nat /\ MaxFragments \in Nat /\ MaxBlocks \in Nat

VARIABLES
  dialect,
  emitter,  \* the indices of the open lanes, the calls, and whether the end was announced
  slots,    \* the accumulator's open parts
  parts,    \* and the completed ones
  outcome,  \* how the stream ended
  wire      \* what the provider has said so far; no code reads it

laneVars == <<dialect, emitter, slots, parts, outcome, wire>>

Narrative == {"text", "thinking"}
Lane      == Narrative \cup {"call"}
Part      == [kind : Lane, id : Nat, got : Seq(Nat)]
Emitter   == [at : [Lane -> Nat \cup {NoIndex}], calls : Nat, finished : BOOLEAN]
Endings   == {"none", "stopped", "truncated", "failed", "broken"}

NewPart(k, id) == [kind |-> k, id |-> id, got |-> <<>>]
Empty(p) == p.kind # "call" /\ p.got = <<>>
PartsOf(s) == {s[i] : i \in DOMAIN s}
Calls(s)   == {p \in PartsOf(s) : p.kind = "call"}

-----------------------------------------------------------------------------
(* The accumulator. *)

Starts(i, k, id) == [type |-> "start", index |-> i, part |-> NewPart(k, id)]
Brings(i, k, f)  == [type |-> "delta", index |-> i, kind |-> k, fragment |-> f]
Halts(i)         == [type |-> "stop", index |-> i]   \* NoIndex: the oldest

\* JSON is read from all the fragments of a call or from none.
Parses(p, whole) == p.kind # "call" \/ p.got = <<>> \/ p \in whole

\* A fragment goes to the oldest slot of its index and its kind.
Receives_any(slot, ev) == slot.index = ev.index   \* mutant: of whatever kind
Receives(slot, ev) == slot.index = ev.index /\ slot.part.kind = ev.kind
Closes(slot, ev) == ev.index \in {slot.index, NoIndex}

Oldest(places) == IF places = {} THEN 0 ELSE CHOOSE i \in places : \A j \in places : i <= j
Removed(s, i)  == [j \in 1..Len(s)-1 |-> IF j < i THEN s[j] ELSE s[j+1]]

\* StreamAccumulator::process
Process(a, ev, whole) ==
  LET to  == Oldest({i \in DOMAIN a.slots : Receives(a.slots[i], ev)})
      out == Oldest({i \in DOMAIN a.slots : Closes(a.slots[i], ev)})
  IN  CASE ev.type = "start" ->
             [a EXCEPT !.slots = Append(@, [index |-> ev.index, part |-> ev.part])]
        [] ev.type = "delta" ->
             IF to = 0 THEN a ELSE [a EXCEPT !.slots[to].part.got = Append(@, ev.fragment)]
        [] ev.type = "stop" ->
             IF out = 0 THEN a
             ELSE LET p == a.slots[out].part IN
                  [slots |-> Removed(a.slots, out), broken |-> ~Parses(p, whole),
                   parts |-> IF Empty(p) \/ ~Parses(p, whole) THEN a.parts
                             ELSE Append(a.parts, p)]

\* Events are taken in their order, up to one that the accumulator rejects.
Taken(a, events, whole) ==
  LET taken[i \in 0..Len(events)] ==
        IF i = 0 THEN a
        ELSE IF taken[i-1].broken THEN taken[i-1] ELSE Process(taken[i-1], events[i], whole)
  IN taken[Len(events)]

Emit(events, ending) ==
  LET a == Taken([slots |-> slots, parts |-> parts, broken |-> FALSE], events, wire'.whole)
  IN  /\ slots' = a.slots /\ parts' = a.parts
      /\ outcome' = IF a.broken THEN "broken" ELSE ending
      /\ UNCHANGED dialect

-----------------------------------------------------------------------------
(* The wire. *)

Room == wire.sent < MaxFragments
Coming == wire.sent + 1   \* the fragment that comes
Incomplete(w) == Calls(w.told) \ w.whole
Latest(w) == w.told[Len(w.told)]
Grown(k, p) == IF p.kind = k THEN [p EXCEPT !.got = Append(@, Coming)] ELSE p

Announced(w) == [w EXCEPT !.ended = TRUE, !.cut = Incomplete(w) # {}]

-----------------------------------------------------------------------------
(* The emitters of chunked wires: text at index 0, reasoning at 1, and calls at *)
(* the indices of the wire, which begin at 0 again.                             *)

IndexOf(k) == IF k = "text" THEN 0 ELSE 1
Other(k)   == IF k = "text" THEN "thinking" ELSE "text"
IsOpen(k)  == emitter.at[k] # NoIndex
Shut(k)    == IF IsOpen(k) THEN <<Halts(emitter.at[k])>> ELSE <<>>

\* process_delta, extract_parts_with_tools: one narrative lane at a time
Speaks(k) ==
  LET f == Coming
      told == IF wire.told # <<>> /\ Latest(wire).kind = k
              THEN [wire.told EXCEPT ![Len(wire.told)] = Grown(k, @)]
              ELSE Append(wire.told, Grown(k, NewPart(k, 0)))
  IN  /\ dialect \in Chunked /\ outcome = "none" /\ ~wire.ended /\ Room
      /\ Resumes \/ Incomplete(wire) = {}
      /\ wire' = [wire EXCEPT !.sent = f, !.told = told,
                              !.resumed = @ \/ (dialect = "openai" /\ Calls(wire.told) # {})]
      /\ emitter' = [emitter EXCEPT !.at[Other(k)] = NoIndex, !.at[k] = IndexOf(k)]
      /\ Emit(Shut(Other(k))
              \o (IF IsOpen(k) THEN <<>> ELSE <<Starts(IndexOf(k), k, 0)>>)
              \o <<Brings(IndexOf(k), k, f)>>, "none")

\* close_content_lanes, before a call and at the end
ShutNarrative_not == <<>>   \* mutant: a lane stays open beside a call
ShutNarrative == IF dialect = "openai" THEN Shut("text") \o Shut("thinking")
                 ELSE Shut("thinking") \o Shut("text")
WithoutNarrative(e) == [e EXCEPT !.at = [k \in Lane |-> NoIndex]]

\* process_tool_call: the first chunk of a call, with some of its arguments or none,
\* and all of them or not.
CallBegins(some, all) ==
  LET id == emitter.calls + 1
      p  == [kind |-> "call", id |-> id, got |-> IF some THEN <<Coming>> ELSE <<>>]
  IN  /\ dialect = "openai" /\ outcome = "none" /\ ~wire.ended
      /\ id <= MaxBlocks /\ (some => Room)
      /\ wire' = [wire EXCEPT !.sent = IF some THEN Coming ELSE @, !.told = Append(@, p),
                              !.whole = IF all THEN @ \cup {p} ELSE @]
      /\ emitter' = [WithoutNarrative(emitter) EXCEPT !.calls = id]
      /\ Emit(ShutNarrative \o <<Starts(id - 1, "call", id)>>
              \o (IF some THEN <<Brings(id - 1, "call", Coming)>> ELSE <<>>), "none")

CallGoesOn(p, all) ==
  LET q == Grown("call", p) IN
  /\ dialect = "openai" /\ outcome = "none" /\ ~wire.ended /\ Room
  /\ p \in Incomplete(wire)
  /\ wire' = [wire EXCEPT !.sent = Coming, !.whole = IF all THEN @ \cup {q} ELSE @,
                          !.told = [i \in DOMAIN @ |-> IF @[i] = p THEN q ELSE @[i]]]
  /\ emitter' = WithoutNarrative(emitter)
  /\ Emit(ShutNarrative \o <<Brings(p.id - 1, "call", Coming)>>, "none")

\* handle_function_call: a call comes in one piece
WholeCall ==
  LET id == emitter.calls + 1
      p  == [kind |-> "call", id |-> id, got |-> <<Coming>>]
  IN  /\ dialect = "gemini" /\ outcome = "none" /\ ~wire.ended /\ Room /\ id <= MaxBlocks
      /\ wire' = [wire EXCEPT !.sent = Coming, !.told = Append(@, p), !.whole = @ \cup {p}]
      /\ emitter' = [WithoutNarrative(emitter) EXCEPT !.calls = id]
      /\ Emit(ShutNarrative \o <<Starts(id - 1, "call", id), Brings(id - 1, "call", Coming),
                                 Halts(id - 1)>>, "none")

\* process_finish, extract_finish_reason
Closing == ShutNarrative \o
           (IF dialect = "openai" THEN [i \in 1..emitter.calls |-> Halts(i - 1)] ELSE <<>>)
Closed(e) == [WithoutNarrative(e) EXCEPT !.finished = TRUE]
Announces == /\ dialect \in Chunked /\ outcome = "none" /\ ~emitter.finished
             /\ wire' = Announced(wire) /\ emitter' = Closed(emitter)
             /\ Emit(Closing, "none")

\* finish, after [DONE]: an end that was not announced is made up for, if a
\* chunk came before it.
Done(started) ==
  /\ dialect = "openai" /\ outcome = "none" /\ wire' = Announced(wire)
  /\ wire.told # <<>> \/ emitter.finished => started
  /\ IF emitter.finished THEN UNCHANGED emitter /\ Emit(<<>>, "stopped")
     ELSE /\ emitter' = Closed(emitter)
          /\ Emit(Closing, IF started THEN "stopped" ELSE "truncated")

-----------------------------------------------------------------------------
(* The emitters of block wires: one block after another, at the server's index. *)

At(k) == IF IsOpen(k) THEN emitter.at[k] ELSE 0
BlockOpened(w, k) == [w EXCEPT !.block = k, !.blocks = @ + 1,
                         !.told = IF k \in Lane THEN Append(@, NewPart(k, w.blocks + 1)) ELSE @]

\* contentBlockStart, contentBlockDelta: to Converse a block of another kind is a
\* text that stays empty.
ConverseStart(i, k) == <<Starts(i, IF k \in Lane THEN k ELSE "text", i + 1)>>
ConverseDelta(i, k) == IF k \in Lane THEN <<Brings(i, k, Coming)>> ELSE <<>>

\* on_block_start
BlockBegins(k) ==
  LET i == wire.blocks IN
  /\ dialect \in Blocked /\ outcome = "none" /\ wire.block = "none" /\ i < MaxBlocks
  /\ wire' = BlockOpened(wire, k)
  /\ emitter' = IF dialect = "converse" \/ k \notin Lane THEN emitter
                ELSE [emitter EXCEPT !.at[k] = i, !.calls = IF k = "call" THEN @ + 1 ELSE @]
  /\ Emit(IF dialect = "converse" THEN ConverseStart(i, k)
          ELSE IF k \in Lane THEN <<Starts(i, k, i + 1)>> ELSE <<>>, "none")

\* on_block_delta: the input of another kind of block looks like a call's
BlockGoesOn(all) ==
  LET k == wire.block
      lane == IF k \in Lane THEN k ELSE "call"
      q == Grown(k, Latest(wire))
  IN  /\ dialect \in Blocked /\ outcome = "none" /\ k # "none" /\ Room
      /\ k = "call" => Latest(wire) \in Incomplete(wire)
      /\ all => k = "call"
      /\ wire' = [wire EXCEPT !.sent = Coming,
                    !.told = IF k \in Lane THEN [@ EXCEPT ![Len(@)] = q] ELSE @,
                    !.whole = IF all THEN @ \cup {q} ELSE @]
      /\ UNCHANGED emitter
      /\ Emit(IF dialect = "converse" THEN ConverseDelta(wire.blocks - 1, k)
              ELSE <<Brings(At(lane), lane, Coming)>>, "none")

\* on_block_stop does not read which block: the text block, the reasoning, a call.
LaneThatEnds ==
  IF IsOpen("text") THEN "text" ELSE IF IsOpen("thinking") THEN "thinking"
  ELSE IF emitter.calls > 0 THEN "call" ELSE "other"
BlockEnds ==
  /\ dialect \in Blocked /\ outcome = "none" /\ wire.block # "none"
  /\ wire' = [wire EXCEPT !.block = "none", !.cut = @ \/ Incomplete(wire) # {}]
  /\ IF dialect = "converse"
     THEN UNCHANGED emitter /\ Emit(<<Halts(wire.blocks - 1)>>, "none")
     ELSE IF LaneThatEnds = "other" THEN UNCHANGED emitter /\ Emit(<<>>, "none")
     ELSE /\ emitter' = [emitter EXCEPT !.at[LaneThatEnds] = NoIndex,
                                        !.calls = IF LaneThatEnds = "call" THEN @ - 1 ELSE @]
          /\ Emit(<<Halts(emitter.at[LaneThatEnds])>>, "none")

\* on_message_stop closes what is open; metadata ends a Converse stream.
MessageStops ==
  /\ dialect \in Blocked /\ outcome = "none" /\ (dialect = "converse" => wire.block = "none")
  /\ wire' = Announced(wire)
  /\ IF dialect = "converse"
     THEN emitter' = [emitter EXCEPT !.finished = TRUE] /\ Emit(<<>>, "stopped")
     ELSE /\ emitter' = [emitter EXCEPT !.at["text"] = NoIndex, !.at["thinking"] = NoIndex,
                                        !.calls = 0, !.finished = TRUE]
          /\ Emit(Shut("thinking") \o Shut("text")
                  \o [i \in 1..emitter.calls |-> Halts(NoIndex)], "stopped")

-----------------------------------------------------------------------------

\* The body ends: only an announced end is one.
EndsUnannounced_stopped == "stopped"   \* mutant: a cut connection passes for an end
EndsUnannounced == "truncated"
BodyEnds == /\ outcome = "none" /\ UNCHANGED <<emitter, wire>>
            /\ Emit(<<>>, IF emitter.finished THEN "stopped" ELSE EndsUnannounced)
\* An error the provider reports is the stream's end, whatever else it said.
Errs == outcome = "none" /\ UNCHANGED <<emitter, wire>> /\ Emit(<<>>, "failed")

LaneInit ==
  /\ dialect \in Dialects /\ slots = <<>> /\ parts = <<>> /\ outcome = "none"
  /\ emitter = [at |-> [k \in Lane |-> NoIndex], calls |-> 0, finished |-> FALSE]
  /\ wire = [sent |-> 0, told |-> <<>>, whole |-> {}, ended |-> FALSE, cut |-> FALSE,
             resumed |-> FALSE, block |-> "none", blocks |-> 0]

LaneNext ==
  \/ \E k \in Narrative : Speaks(k)
  \/ \E some, all \in BOOLEAN : CallBegins(some, all)
  \/ \E p \in Calls(wire.told), all \in BOOLEAN : CallGoesOn(p, all)
  \/ WholeCall \/ Announces
  \/ \E started \in BOOLEAN : Done(started)
  \/ \E k \in Lane \cup {"other"} : BlockBegins(k)
  \/ \E all \in BOOLEAN : BlockGoesOn(all)
  \/ BlockEnds \/ MessageStops \/ BodyEnds \/ Errs

LaneSpec == LaneInit /\ [][LaneNext]_laneVars

-----------------------------------------------------------------------------

LaneTypeOK ==
  /\ dialect \in Dialects /\ outcome \in Endings
  /\ emitter \in Emitter
  /\ \A i \in DOMAIN slots : slots[i] \in [index : Nat, part : Part]
  /\ \A i \in DOMAIN parts : parts[i] \in Part

\* All that the parts of a kind got; and the parts that are not empty.
AllOf(k, s) ==
  LET all[i \in 0..Len(s)] ==
        IF i = 0 THEN <<>> ELSE IF s[i].kind = k THEN all[i-1] \o s[i].got ELSE all[i-1]
  IN all[Len(s)]
Filled(s) ==
  LET filled[i \in 0..Len(s)] ==
        IF i = 0 THEN <<>> ELSE IF Empty(s[i]) THEN filled[i-1] ELSE Append(filled[i-1], s[i])
  IN filled[Len(s)]
Once(s) == \A i, j \in DOMAIN s : s[i].kind = "call" /\ s[j].kind = "call" /\ s[i].id = s[j].id => i = j

\* A stream that its provider ended is the message it told: every fragment of
\* text and of reasoning, in order, and every call with just its own arguments,
\* however the lanes share their indices; the parts stand in the order in which
\* they began, unless text went on behind a call.  A stream is rejected only
\* if its provider cut a call short, and taken for whole only if it was ended.
PartsAreWhole ==
  /\ LaneTypeOK
  /\ outcome = "broken" => wire.cut
  /\ outcome = "stopped" =>
       /\ wire.ended
       /\ \A k \in Narrative : AllOf(k, parts) = AllOf(k, wire.told)
       /\ Calls(parts) = Calls(wire.told) /\ Once(parts)
       /\ ~wire.resumed => parts = Filled(wire.told)
=============================================================================
