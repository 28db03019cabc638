------------------------------ MODULE BareLoop ------------------------------
(***************************************************************************)
(* The driver of the agent loop (src/engine/bare.rs).  A run is a future:  *)
(* it takes the machine's steps one after another, awaiting a provider,    *)
(* tools, a compactor or a memory store in between.  Other tasks act while *)
(* it waits: they cancel the run, steer it, or drop its future.  Between   *)
(* two awaits the driver runs alone, so an action is what happens from one *)
(* await to the next.                                                      *)
(***************************************************************************)
EXTENDS LoopMachine

CONSTANTS
  None,         \* no value: the None of the driver's Options
  Steers,       \* the texts hosts steer a run with, each pushed at most once
  RunPolicy,    \* the policy of every run
  Ratio,        \* the settled calibration, in thousandths
  Skews,        \* by how much a usage report may exceed the count it is for
  Overhead,     \* raw tokens of the system prompt and the tool schemas
  Transients,   \* raw tokens of what contributors and memory add to a turn
  Light, Heavy, \* raw tokens of a message, and of a tool output besides
  PruneLine,    \* the context figure at which tool outputs are reclaimed
  Switches,     \* whether the model or the tool surface may change: of BOOLEAN
  Features,     \* what the host uses: see FeaturesAssumption
  MaxRuns       \* bound: the runs a loop is given

ASSUME SteersAssumption    == Steers \subseteq Text /\ Text # Steers
ASSUME RunPolicyAssumption == RunPolicy \in Policies
ASSUME RatioAssumption     == Ratio \in 250..4000
ASSUME SizesAssumption     == /\ {Overhead, Light, Heavy, PruneLine, MaxRuns} \subseteq Nat
                              /\ Skews \subseteq Nat /\ Transients \subseteq Nat
ASSUME SwitchesAssumption  == Switches \subseteq BOOLEAN /\ Switches # {}
ASSUME FeaturesAssumption  ==
  Features \subseteq {"prune", "followup", "drop", "manual", "rewind", "leftovers"}

VARIABLES
  pc,        \* the await the run is at
  driver,    \* the BareLoop fields that outlive an await
  signal,    \* the CancelSignal
  steering,  \* the Steering slot the host shares with the driver
  trace      \* what observers saw: no code reads it

vars == <<machine, pc, driver, signal, steering, trace>>

Awaits == {"idle", "resolve", "arm", "step", "assemble", "model", "tools", "compact",
           "followup", "finalize", "consolidate"}
Errors == {"None", "Cancelled", "MaxTurns", "CannotFit", "Failed"}

Window    == RunPolicy.context_window
RawWindow == (Window * 1000) \div Ratio     \* what sync_manager_window installs
Speech    == Text \ Steers

-----------------------------------------------------------------------------
(* Figures.  The raw count of a feed is what the token counter makes of it; *)
(* a context figure is in the provider's tokens.                            *)

Apply(n) == (n * Ratio) \div 1000

Outputs(s) == {i \in 1..Len(s) : s[i].results # {} /\ s[i].text # {}}
Raw(s)     == Light * Len(s) + Heavy * Cardinality(Outputs(s))

Above(n, k) == IF n > k THEN n - k ELSE 0
Figure(anchor, raw) ==
  IF anchor = None THEN Apply(raw) ELSE anchor.input + Apply(Above(raw, anchor.raw))

Payload(m, tokens) == Raw(FullHistory(m)) + Overhead + tokens

\* A usage report, 0 when there is none, and the anchor it arms: the report is
\* paired with the count of the request it is about.
Reports(raw) == {0} \cup {raw + k : k \in Skews}
Anchored(d, m, input) ==
  IF input = 0 THEN d
  ELSE [d EXCEPT !.anchor = [input |-> input, raw |-> Payload(m, d.request.tokens),
                             feed |-> FullHistory(m), run |-> trace.run]]

-----------------------------------------------------------------------------
(* Steering: a mutex-held slot, each method one critical section. *)

\* mutant: a run picks up the guidance that came too late for the one before
OpenRun_keepsWaiting(s) == [s EXCEPT !.running = TRUE]
OpenRun(s)  == [running |-> TRUE, waiting |-> <<>>, leftovers |-> s.leftovers \o s.waiting]
CloseRun(s) == [s EXCEPT !.running = FALSE]
Drained_peeks(s) == s   \* mutant: the drain copies
Drained(s)  == [s EXCEPT !.waiting = <<>>]
Said(ms)    == UNION {ms[i].text : i \in 1..Len(ms)}

InjectAll(m, ms) == IF IsTerminal(m) THEN m ELSE [m EXCEPT !.pending = @ \o ms]

-----------------------------------------------------------------------------
(* The driver's helpers. *)

\* set_error_state, and the error that drive_steps returns.
Broken(m, e) == IF e = "Cancelled" THEN NextStep(Cancel(m), RunPolicy) ELSE Fail(m, "Failed")
FailRun(m, d, e) == /\ machine' = Broken(m, e)
                    /\ driver' = [d EXCEPT !.error = e, !.request = None]
                    /\ pc' = "finalize"

\* prepare_turn: what the turn will carry besides the conversation, put together
\* from the conversation as it is (basis).  A changed tool surface ends the anchor.
Preparations(m, turn) == [turn : {turn}, basis : {FullHistory(m)}, tokens : Transients]
Unanchored(d, changed) == IF changed THEN [d EXCEPT !.anchor = None] ELSE d

\* mutant: the estimate leaves out what every request carries
Measured_feedOnly(m, d, tokens) == SetContextTokens(m, Figure(d.anchor, Raw(FullHistory(m))))
Measured(m, d, tokens) == SetContextTokens(m, Figure(d.anchor, Payload(m, tokens)))

\* arm_first_turn, arm_followup_turn and the end of handle_call_tools.
ArmTurn(m, turn) ==
  \E p \in Preparations(m, turn), changed \in Switches :
    LET d == Unanchored(driver, changed) IN
    /\ machine' = Measured(m, d, p.tokens)
    /\ driver' = [d EXCEPT !.prepared = p, !.request = None]
    /\ pc' = "step"

\* take_prepared_turn: the stash when it is for this turn, else a fresh one.
Taken(m, d) ==
  IF d.prepared # None /\ d.prepared.turn = m.turn
  THEN {[d |-> [d EXCEPT !.prepared = None], p |-> d.prepared]}
  ELSE {[d |-> Unanchored([d EXCEPT !.prepared = None], changed), p |-> p] :
          p \in Preparations(m, m.turn), changed \in Switches}

\* The tool outputs a reclamation pass may blank: older ones, when enough is freed.
Reclaims(m) ==
  {is \in SUBSET Outputs(FullHistory(m)) :
     is # {} /\ "prune" \in Features /\ Window # 0 /\ m.context_tokens >= PruneLine}

TurnEnds == trace' = [trace EXCEPT !.open = FALSE]

-----------------------------------------------------------------------------
(* A run, await by await. *)

LoopInit == /\ machine = FromHistory(<<>>)
            /\ pc = "idle" /\ signal = FALSE
            /\ driver = [prepared |-> None, anchor |-> None, request |-> None, transients |-> 0,
                         target |-> None, overflow_retry |-> None, truncation_retry |-> None,
                         followed |-> FALSE, error |-> "None"]
            /\ steering = [running |-> FALSE, waiting |-> <<>>, leftovers |-> <<>>]
            /\ trace = [run |-> 0, attempts |-> 0, open |-> FALSE,
                        accepted |-> [s \in Steers |-> 0], handed |-> {}, said |-> {}]

\* mutant: a run starts with what the one before it left staged
ForNewRun_keepsTarget(d) == [d EXCEPT !.transients = 0, !.overflow_retry = None,
                                      !.truncation_retry = None, !.followed = FALSE,
                                      !.error = "None", !.request = None]
ForNewRun(d) == [d EXCEPT !.transients = 0, !.target = None, !.overflow_retry = None,
                          !.truncation_retry = None, !.followed = FALSE,
                          !.error = "None", !.request = None]

StartRun ==
  /\ pc = "idle" /\ trace.run < MaxRuns /\ Len(machine.history) < MaxMessages
  /\ \E t \in Speech : machine' = AcceptInput(machine, UserText({t}))
  /\ pc' = "resolve"
  /\ driver' = ForNewRun(driver)
  /\ steering' = OpenRun(steering)
  /\ trace' = [trace EXCEPT !.run = @ + 1, !.attempts = 0, !.open = FALSE]
  /\ UNCHANGED signal

\* Every select that races an await with the signal polls the signal first.
ResolveWindow == /\ pc = "resolve" /\ ~signal /\ pc' = "arm"
                 /\ UNCHANGED <<machine, driver, signal, steering, trace>>
ResolveCancelled == /\ pc = "resolve" /\ signal
                    /\ FailRun(machine, driver, "Cancelled")
                    /\ UNCHANGED <<signal, steering, trace>>

Arm == /\ pc = "arm" /\ ArmTurn(machine, machine.turns_taken)
       /\ UNCHANGED <<signal, steering, trace>>

\* drive_steps, to the head of the handler of the step it gets.
ErrorOf(outcome) == CASE outcome = "Cancelled" -> "Cancelled"
                      [] outcome = "MaxTurnsExceeded" -> "MaxTurns"
                      [] outcome = "CompactionStalled" -> "CannotFit"
                      [] OTHER -> "Failed"
\* mutant: a compaction leaves the anchor on the wire it replaces
Forgetful_keepsAnchor(d) == [d EXCEPT !.prepared = None]
Forgetful(d) == [d EXCEPT !.prepared = None, !.anchor = None]

Step ==
  LET m == NextStep(machine, RunPolicy) IN
  /\ pc = "step" /\ machine' = m
  /\ \/ m.state = "AwaitingModel" /\ pc' = "assemble" /\ UNCHANGED driver
     \/ m.state = "AwaitingTools" /\ pc' = "tools" /\ UNCHANGED driver
     \/ /\ m.state = "AwaitingCompaction" /\ pc' = "compact"
        /\ driver' = Forgetful(driver)
     \/ m.outcome = "Completed" /\ pc' = "followup" /\ UNCHANGED driver
     \/ /\ IsTerminal(m) /\ m.outcome # "Completed" /\ pc' = "finalize"
        /\ driver' = [driver EXCEPT !.error = ErrorOf(m.outcome)]
  /\ UNCHANGED <<signal, steering, trace>>

Counted(n) == IF n < 4 THEN n + 1 ELSE n   \* bound: four are counted
Heard == [trace EXCEPT !.said = @ \cup Said(steering.waiting)]

\* The rest of handle_call_llm up to the provider: the last word on compaction,
\* then the request, unless the run is cancelled by now.
Submit(m, d, p) ==
  LET n == NextStep(m, RunPolicy) IN
  \/ /\ n.state = "AwaitingCompaction" /\ machine' = n /\ pc' = "step"
     /\ driver' = [d EXCEPT !.transients = p.tokens, !.anchor = None]
     /\ trace' = Heard
  \/ /\ n.state # "AwaitingCompaction" /\ signal
     /\ FailRun(n, d, "Cancelled") /\ trace' = Heard
  \/ /\ n.state # "AwaitingCompaction" /\ ~signal /\ machine' = n /\ pc' = "model"
     /\ \E changed \in Switches :
          driver' = [Unanchored(d, changed) EXCEPT
                       !.request = [basis |-> p.basis, tokens |-> p.tokens,
                                    counted |-> d.anchor = None]]
     /\ trace' = [Heard EXCEPT !.open = TRUE, !.attempts = Counted(@)]

\* mutant: guidance joins the feed behind the turn assembled before it
Steered_keepsStash(d) == [d EXCEPT !.anchor = None]
Steered(d) == [d EXCEPT !.prepared = None, !.anchor = None]

Assemble ==
  /\ pc = "assemble"
  /\ steering' = Drained(steering)
  /\ LET m0 == InjectAll(machine, steering.waiting)
         d0 == IF steering.waiting = <<>> THEN driver ELSE Steered(driver)
     IN \E t \in Taken(m0, d0) :
          LET m1 == Measured(m0, t.d, t.p.tokens) IN
          \/ Submit(m1, t.d, t.p)
          \/ \E is \in Reclaims(m1) :
               LET d2 == [t.d EXCEPT !.anchor = None]
                   m2 == AdoptPruned(m1, Pruned(FullHistory(m1), is), Len(m1.history))
               IN IF signal THEN FailRun(m1, t.d, "Cancelled") /\ trace' = Heard
                  ELSE Submit(Measured(m2, d2, t.p.tokens), d2, t.p)
  /\ UNCHANGED signal

FallbackExhausted == /\ pc = "assemble" /\ FailRun(machine, driver, "Failed")
                     /\ UNCHANGED <<signal, steering, trace>>

\* A served turn with tool calls ends when they are answered.
StillOpen_never(cs) == FALSE   \* mutant: it ends before they run
StillOpen(cs) == cs # {}

\* The provider's answer.  The streaming select is not biased: an answer may win
\* over a signal that is already up.
ModelServes ==
  /\ pc = "model" /\ Len(FullHistory(machine)) < MaxMessages
  /\ \E t \in Speech, cs \in SUBSET CallId, known \in Registries,
        input \in Reports(Payload(machine, driver.request.tokens)) :
       LET msg == Assistant({t}, cs)
           d   == Anchored(driver, machine, input)
           now == Raw(Append(FullHistory(machine), msg)) + Overhead + driver.request.tokens
       IN /\ machine' = ModelResponse(machine, msg, known, Figure(d.anchor, now))
          /\ driver' = [d EXCEPT !.request = None]
          /\ trace' = [trace EXCEPT !.attempts = 0, !.open = StillOpen(cs)]
  /\ pc' = "step" /\ UNCHANGED <<signal, steering>>

\* Both salvages tell the machine the window is exceeded and ask it to compact.
Overfull(m) == NextStep(SetContextTokens(m, Window + 1), RunPolicy)
Shrinkable(m) == Len(FullHistory(m)) > 1

\* truncation_salvage, of an answer cut short with no text.
TruncationRetry_unmarked(d, turn) == d   \* mutant: the spent retry is not noted
TruncationRetry(d, turn) == [d EXCEPT !.truncation_retry = turn]
ModelTruncates ==
  /\ pc = "model"
  /\ \E input \in Reports(Payload(machine, driver.request.tokens)) :
       LET d == TruncationRetry(Anchored(driver, machine, input), machine.turn)
           m == Overfull(machine)
       IN \/ /\ driver.truncation_retry = machine.turn
             /\ FailRun(machine, Anchored(driver, machine, input), "CannotFit")
          \/ /\ driver.truncation_retry # machine.turn /\ ~Shrinkable(machine)
             /\ FailRun(machine, d, "CannotFit")
          \/ /\ driver.truncation_retry # machine.turn /\ Shrinkable(machine)
             /\ m.state # "AwaitingCompaction"
             /\ FailRun(m, [d EXCEPT !.target = trace.run], "CannotFit")
          \/ /\ driver.truncation_retry # machine.turn /\ Shrinkable(machine)
             /\ m.state = "AwaitingCompaction"
             /\ machine' = m /\ pc' = "step"
             /\ driver' = [d EXCEPT !.target = trace.run, !.anchor = None, !.request = None]
  /\ TurnEnds /\ UNCHANGED <<signal, steering>>

OverflowRetry_unmarked(d, turn) == d   \* mutant: the spent retry is not noted
OverflowRetry(d, turn) == [d EXCEPT !.overflow_retry = turn]

\* overflow_salvage, of a rejection that reads as an oversized prompt.
ModelRejects ==
  /\ pc = "model"
  /\ LET d == OverflowRetry(driver, machine.turn)
         m == Overfull(machine)
         figure == Figure(driver.anchor, Payload(machine, 0))
     IN \/ /\ driver.overflow_retry = machine.turn
           /\ FailRun(machine, driver, "CannotFit")
        \/ /\ driver.overflow_retry # machine.turn /\ Shrinkable(machine)
           /\ m.state # "AwaitingCompaction"
           /\ FailRun(m, [d EXCEPT !.target = trace.run], "CannotFit")
        \/ /\ driver.overflow_retry # machine.turn /\ Shrinkable(machine)
           /\ m.state = "AwaitingCompaction"
           /\ machine' = m /\ pc' = "step"
           /\ driver' = [d EXCEPT !.target = trace.run, !.anchor = None, !.request = None]
        \/ /\ driver.overflow_retry # machine.turn /\ ~Shrinkable(machine)
           /\ machine' = SetContextTokens(machine, figure) /\ pc' = "step"
           /\ driver' = [d EXCEPT !.anchor = None, !.request = None]
  /\ TurnEnds /\ UNCHANGED <<signal, steering>>

\* A provider error, a timeout, a spent budget, or an answer the loop detector
\* stops the run at; only the last comes with a report.
ModelFails ==
  /\ pc = "model"
  /\ \E input \in Reports(Payload(machine, driver.request.tokens)) :
       FailRun(machine, Anchored(driver, machine, input), "Failed")
  /\ TurnEnds /\ UNCHANGED <<signal, steering>>
ModelCancelled ==
  /\ pc = "model" /\ signal /\ FailRun(machine, driver, "Cancelled")
  /\ TurnEnds /\ UNCHANGED <<signal, steering>>

\* handle_call_tools.  Calls to unknown tools are answered without being
\* dispatched, so that only a dispatch notices the signal.
Dispatched(m) == {p \in m.pending_tools : ~p.preresolved}
ToolsAnswer ==
  /\ pc = "tools" /\ (signal => Dispatched(machine) = {})
  /\ \E t \in Speech :
       ArmTurn(ReceiveResults(machine, Answers({t}, CallsInFlight(machine))), machine.turn + 1)
  /\ TurnEnds /\ UNCHANGED <<signal, steering>>
ToolsFail ==
  /\ pc = "tools" /\ Dispatched(machine) # {} /\ FailRun(machine, driver, "Failed")
  /\ TurnEnds /\ UNCHANGED <<signal, steering>>
ToolsCancelled ==
  /\ pc = "tools" /\ signal /\ Dispatched(machine) # {} /\ FailRun(machine, driver, "Cancelled")
  /\ TurnEnds /\ UNCHANGED <<signal, steering>>

-----------------------------------------------------------------------------
(* A compaction pass over a feed, and what the driver makes of it. *)

\* A pass that reaches the compactor takes what salvages and assembly staged.
Consumed(d)  == [d EXCEPT !.transients = 0, !.target = None]

FitsWindow(d, c) == Raw(c) <= Above(RawWindow, Overhead + d.transients)
Idles(feed, c)   == Len(c) = Len(feed) /\ Raw(c) >= Raw(feed)
Shrinks(d, feed, c) == Figure(d.anchor, Raw(c) + Overhead) < Figure(d.anchor, Raw(feed) + Overhead)

\* Nothing to give back: a threshold pass steps aside while the feed fits.
StepAside(m, figure) ==
  IF m.reason = "ThresholdExceeded" /\ figure < Window
  THEN CompactionDeferred(m, figure) ELSE CompactionNoop(m, figure, figure)

PassDeclines ==   \* no manager, a hook's veto: what is staged stays staged
  /\ pc = "compact" /\ ~signal
  /\ machine' = StepAside(machine, Figure(driver.anchor, Payload(machine, 0)))
  /\ pc' = "step" /\ UNCHANGED <<driver, signal, steering, trace>>

PassReturns ==
  /\ pc = "compact" /\ ~signal
  /\ LET feed == FullHistory(machine)
         before == Figure(driver.anchor, Payload(machine, 0))
     IN \E c \in Compactions(feed) :
          LET after == Figure(driver.anchor, Raw(c) + Overhead) IN
          \/ /\ ~FitsWindow(driver, c) /\ FailRun(machine, Consumed(driver), "CannotFit")
          \/ /\ FitsWindow(driver, c) /\ Idles(feed, c)
             /\ machine' = StepAside(machine, before)
             /\ driver' = Consumed(driver) /\ pc' = "step"
          \/ /\ FitsWindow(driver, c) /\ ~Idles(feed, c) /\ ~Shrinks(driver, feed, c)
             /\ FailRun(machine, Consumed(driver), "CannotFit")
          \/ /\ FitsWindow(driver, c) /\ ~Idles(feed, c) /\ Shrinks(driver, feed, c)
             /\ machine' = CompactionResult(machine, c, before, after)
             /\ driver' = Consumed(driver) /\ pc' = "step"
  /\ UNCHANGED <<signal, steering, trace>>

PassFails ==   \* the compactor itself fails
  /\ pc = "compact" /\ ~signal
  /\ LET used == Payload(machine, driver.transients) IN
     IF machine.reason = "ThresholdExceeded" /\ used < RawWindow
     THEN /\ machine' = CompactionDeferred(machine, Figure(driver.anchor, used))
          /\ driver' = Consumed(driver) /\ pc' = "step"
     ELSE FailRun(machine, Consumed(driver), "Failed")
  /\ UNCHANGED <<signal, steering, trace>>

PassCancelled_never == FALSE   \* mutant: nothing races the pass with the signal
PassCancelled ==   \* before the pass was first polled, or while it ran
  /\ pc = "compact" /\ signal
  /\ \E d \in {driver, Consumed(driver)} : FailRun(machine, d, "Cancelled")
  /\ UNCHANGED <<signal, steering, trace>>

-----------------------------------------------------------------------------
(* The end of a run. *)

Followup ==
  /\ pc = "followup" /\ "followup" \in Features /\ ~driver.followed
  /\ machine.turns_taken < RunPolicy.max_turns /\ Len(FullHistory(machine)) < MaxMessages
  /\ \E t \in Speech : machine' = AcceptFollowup(machine, UserText({t}))
  /\ driver' = [driver EXCEPT !.followed = TRUE] /\ pc' = "arm"
  /\ UNCHANGED <<signal, steering, trace>>
NoFollowup == /\ pc = "followup" /\ pc' = "finalize"
              /\ UNCHANGED <<machine, driver, signal, steering, trace>>

Close == pc' = "idle" /\ signal' = FALSE /\ steering' = CloseRun(steering)

\* finalize: a finished run is committed, and memory consolidated; one whose
\* conversation cannot fit is thrown away; any other keeps its whole turns.
Finalize ==
  /\ pc = "finalize"
  /\ \/ /\ driver.error = "None" /\ machine' = CommitPending(machine)
        /\ pc' = "consolidate" /\ UNCHANGED <<signal, steering>>
     \/ driver.error = "CannotFit" /\ machine' = DiscardPending(machine) /\ Close
     \/ /\ driver.error \in {"Cancelled", "MaxTurns", "Failed"}
        /\ machine' = SalvagePending(machine) /\ Close
  /\ UNCHANGED <<driver, trace>>
Consolidated == pc = "consolidate" /\ Close /\ UNCHANGED <<machine, driver, trace>>

-----------------------------------------------------------------------------
(* What other tasks do, at any await of the run. *)

HostCancels == signal' = TRUE /\ UNCHANGED <<machine, pc, driver, steering, trace>>

\* A dropped future runs nothing but the guard that closes the slot.
DropFuture == /\ "drop" \in Features /\ pc # "idle"
              /\ pc' = "idle" /\ steering' = CloseRun(steering)
              /\ UNCHANGED <<machine, driver, signal, trace>>

HostSteers == \E s \in Steers :
  /\ trace.accepted[s] = 0 /\ steering.running
  /\ steering' = [steering EXCEPT !.waiting = Append(@, UserText({s}))]
  /\ trace' = [trace EXCEPT !.accepted[s] = trace.run]
  /\ UNCHANGED <<machine, pc, driver, signal>>

HostTakes ==
  /\ "leftovers" \in Features
  /\ \/ /\ steering.leftovers # <<>>
        /\ steering' = [steering EXCEPT !.leftovers = <<>>]
        /\ trace' = [trace EXCEPT !.handed = @ \cup Said(steering.leftovers)]
     \/ /\ steering.leftovers \o steering.waiting # <<>>   \* take_all, clear
        /\ steering' = [steering EXCEPT !.leftovers = <<>>, !.waiting = <<>>]
        /\ trace' = [trace EXCEPT !.handed = @ \cup Said(steering.leftovers)
                                                \cup Said(steering.waiting)]
  /\ UNCHANGED <<machine, pc, driver, signal>>

\* Between runs the host may cut the history back, or have it compacted.
HostRewinds ==
  /\ "rewind" \in Features /\ pc = "idle"
  /\ \E len \in 0..Len(machine.history) :
       LET m == RewindTo(machine, len) IN
       /\ machine' = m
       /\ driver' = IF m.history = machine.history THEN driver
                    ELSE Forgetful(driver)
  /\ UNCHANGED <<pc, signal, steering, trace>>

HostCompacts ==
  LET feed == machine.history IN
  /\ "manual" \in Features /\ pc = "idle" /\ ManualCompactionAllowed(machine)
  /\ \E c \in Compactions(feed) :
       LET after   == Figure(driver.anchor, Raw(c) + Overhead)
           accepted == /\ FitsWindow(driver, c) /\ ~Idles(feed, c)
                       /\ Shrinks(driver, feed, c) /\ Len(c) <= Len(feed)
       IN \/ /\ accepted
             /\ machine' = InstallManualCompaction(machine, c, Len(feed), after)
             /\ driver' = Forgetful(Consumed(driver))
          \/ ~accepted /\ driver' = Consumed(driver) /\ UNCHANGED machine
  /\ UNCHANGED <<pc, signal, steering, trace>>

-----------------------------------------------------------------------------
(* Specifications. *)

\* What the driver does without waiting for the world outside the process, a
\* raised signal included.  Memory stores answer: nothing races them.
Driver == \/ ResolveCancelled \/ Arm \/ Step \/ Assemble \/ FallbackExhausted
          \/ ModelCancelled \/ ToolsCancelled \/ PassCancelled
          \/ (ToolsAnswer /\ Dispatched(machine) = {})
          \/ Followup \/ NoFollowup \/ Finalize \/ Consolidated

World == \/ ResolveWindow \/ ModelServes \/ ModelTruncates \/ ModelRejects \/ ModelFails
         \/ ToolsAnswer \/ ToolsFail \/ PassDeclines \/ PassReturns \/ PassFails

Host == \/ StartRun \/ HostCancels \/ DropFuture \/ HostSteers \/ HostTakes
        \/ HostRewinds \/ HostCompacts

LoopNext == Driver \/ World \/ Host
LoopSpec == LoopInit /\ [][LoopNext]_vars

\* The driver runs on; nobody else has to.
FairSpec == LoopSpec /\ WF_vars(Driver)

-----------------------------------------------------------------------------
(* Properties. *)

Prepared  == [turn : Nat, basis : Conversation, tokens : Transients]
Anchor    == [input : Nat, raw : Nat, feed : Conversation, run : Nat]
Request   == [basis : Conversation, tokens : Transients, counted : BOOLEAN]
DriverSet == [prepared : Prepared \cup {None}, anchor : Anchor \cup {None},
              request : Request \cup {None}, transients : Nat, target : Nat \cup {None},
              overflow_retry : Nat \cup {None}, truncation_retry : Nat \cup {None},
              followed : BOOLEAN, error : Errors]
Slots     == [running : BOOLEAN, waiting : Conversation, leftovers : Conversation]

LoopTypeOK == /\ machine \in Machine /\ pc \in Awaits /\ driver \in DriverSet
              /\ signal \in BOOLEAN /\ steering \in Slots

\* What contributors and memory were asked to add to a request, they were asked
\* about the very conversation it carries (but for outputs reclaimed since).
Blanked(s) == Pruned(s, Results(s))
AssembledForWhatIsSent ==
  pc = "model" => Blanked(driver.request.basis) = Blanked(FullHistory(machine))

\* Observers see every turn that starts end, once: none is open when a run
\* settles, compacts or assembles the next, and none ends before its tools did.
TurnsBracketed ==
  pc # "idle" => (trace.open <=> \/ pc = "model"
                                 \/ pc \in {"step", "tools"} /\ machine.state = "AwaitingTools")

\* No request goes out at or over the emergency line, by the count of what it
\* carries, guidance drained and outputs reclaimed at the last moment included.
RequestBelowEmergency ==
  pc = "model" /\ driver.request.counted /\ Window # 0
  => Apply(Payload(machine, driver.request.tokens)) < (Window * 95) \div 100

\* One turn asks the provider at most three times: a rejection and a cut answer
\* earn one retry each, whatever compaction does between them.
AttemptsBounded == trace.attempts <= 3

\* What a turn may cost: neither a request over the line nor one too many.
RequestsBounded == RequestBelowEmergency /\ AttemptsBounded

StandsFirst(s, t) == Len(s) <= Len(t) /\ SubSeq(t, 1, Len(s)) = s

\* While a run lasts, the report its figures build on is about a request whose
\* messages still stand first in the feed.
AnchorFollowsFeed ==
  pc # "idle" /\ driver.anchor # None /\ driver.anchor.run = trace.run
  => StandsFirst(driver.anchor.feed, FullHistory(machine))

\* Guidance a run accepted is in one place and no other: waiting, left over,
\* back with the host, or said to the model.
Copies(s, ms) == Cardinality({i \in 1..Len(ms) : s \in ms[i].text})
SteeredExactlyOnce ==
  \A s \in Steers : trace.accepted[s] # 0 =>
    Copies(s, steering.waiting) + Copies(s, steering.leftovers)
      + Cardinality({s} \cap trace.handed) + Cardinality({s} \cap trace.said) = 1

\* A run is steered by nothing that was meant for another.
SteeredInItsRun ==
  \A s \in Steers : Copies(s, machine.pending) # 0 => trace.accepted[s] = trace.run

\* A host's guidance reaches one run, its own, once: nothing that is dropped,
\* rewound, compacted or collected on the way loses, doubles or misdirects it.
SteeringArrives == SteeredExactlyOnce /\ SteeredInItsRun

\* A pass of a run lands on no target that another run's salvage left.
TargetIsThisRuns == pc # "idle" /\ driver.target # None => driver.target = trace.run

\* Every run ends, if the provider, the tools and the compactor answer, as their
\* timeouts make them.
RunsEnd == WF_vars(Driver \/ World) => (pc # "idle" ~> pc = "idle")

\* A cancelled run ends, even if none of them ever does.
CancelEndsRuns == pc # "idle" /\ signal ~> pc = "idle"

\* Seen from outside, runs keep the session's promise about the transcript.
Session == INSTANCE AgentSession WITH running <- (pc # "idle"), transcript <- machine.history
KeepsSession == Session!Spec

-----------------------------------------------------------------------------
(* What the documentation says and the code does not do. *)

\* The anchor is "cleared whenever the wire changes wholesale".
AnchorStandsForTheWire ==
  pc # "idle" /\ driver.anchor # None => StandsFirst(driver.anchor.feed, FullHistory(machine))
=============================================================================
