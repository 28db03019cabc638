---------------------------- MODULE LoopMachine ----------------------------
(***************************************************************************)
(* The sans-IO core of the agent loop (src/engine/core/machine.rs).  It    *)
(* keeps the conversation and decides the next step; a driver performs the *)
(* step and hands the outcome back.  Every method is an operator on the    *)
(* machine's record, so that a driver's handler which makes several calls  *)
(* in a row is one composition; the actions below call them one at a time, *)
(* in the orders the driver does.                                          *)
(***************************************************************************)
EXTENDS Transcript

CONSTANTS Tokens,       \* context figures the driver may measure
          Policies,     \* the policies next_step may be called with
          Registries,   \* the sets of calls whose tool a registry advertises
          MaxMessages   \* bound: the conversation grows only below this length

ASSUME TokensAssumption == Tokens \subseteq Nat
ASSUME PoliciesAssumption ==
  Policies \subseteq [max_turns : Nat, context_window : Nat,
                      compact_threshold : 0..100, auto_compact : BOOLEAN]
ASSUME RegistriesAssumption == Registries \subseteq SUBSET CallId
ASSUME MaxMessagesAssumption == MaxMessages \in Nat

VARIABLE machine   \* the LoopMachine value

States   == {"Start", "AwaitingModel", "AwaitingTools", "AwaitingCompaction", "Terminal"}
Reasons  == {"None", "ThresholdExceeded", "Emergency"}
Outcomes == {"None", "Completed", "MaxTurnsExceeded", "Cancelled", "Failed", "CompactionStalled"}

PendingCall == [call : CallId, preresolved : BOOLEAN]

Machine == [history : Conversation, pending : Conversation,
            state : States, turn : Nat, reason : Reasons, outcome : Outcomes,
            turns_taken : Nat, context_tokens : Nat, cancelled : BOOLEAN,
            pending_tools : SUBSET PendingCall, deferred_compaction : BOOLEAN]

-----------------------------------------------------------------------------
(* Reading the machine. *)

IsTerminal(m)     == m.state = "Terminal"
FullHistory(m)    == m.history \o m.pending
CallsInFlight(m)  == {p.call : p \in m.pending_tools}
BetweenSteps(m)   == m.state \in {"Start", "Terminal"}

Enter(m, s)       == [m EXCEPT !.state = s, !.turn = 0, !.reason = "None", !.outcome = "None"]
Terminate(m, o)   == [Enter(m, "Terminal") EXCEPT !.outcome = o]
AwaitCompaction(m, r) == [Enter(m, "AwaitingCompaction") EXCEPT !.reason = r]

-----------------------------------------------------------------------------
(* The machine's methods. *)

FromHistory(h) ==
  [history |-> h, pending |-> <<>>, state |-> "Start", turn |-> 0, reason |-> "None",
   outcome |-> "None", turns_taken |-> 0, context_tokens |-> 0, cancelled |-> FALSE,
   pending_tools |-> {}, deferred_compaction |-> FALSE]

\* mutant: a run dropped mid-flight leaves its messages to the next
AcceptInput_keepsPending(m, msg) == [FromHistory(m.history) EXCEPT !.pending = Append(m.pending, msg)]
AcceptInput(m, msg)    == [FromHistory(m.history) EXCEPT !.pending = <<msg>>]
AcceptFollowup(m, msg) == [Enter(m, "Start") EXCEPT !.pending = Append(@, msg)]

SetContextTokens(m, n) == IF IsTerminal(m) THEN m ELSE [m EXCEPT !.context_tokens = n]

ShouldCompact(m, p) ==
  /\ p.context_window # 0 /\ p.compact_threshold # 0
  /\ m.context_tokens > (p.context_window * p.compact_threshold) \div 100
IsEmergency(m, p) ==
  /\ p.context_window # 0
  /\ m.context_tokens >= (p.context_window * 95) \div 100

RequestModel(m, p) ==
  CASE m.turns_taken >= p.max_turns -> Terminate(m, "MaxTurnsExceeded")
    [] m.turns_taken < p.max_turns /\ IsEmergency(m, p) -> AwaitCompaction(m, "Emergency")
    [] /\ m.turns_taken < p.max_turns /\ ~IsEmergency(m, p)
       /\ p.auto_compact /\ ~m.deferred_compaction /\ ShouldCompact(m, p)
         -> AwaitCompaction(m, "ThresholdExceeded")
    [] OTHER -> [Enter(m, "AwaitingModel") EXCEPT
                   !.turn = IF m.state = "AwaitingModel" THEN m.turn ELSE m.turns_taken]

AsksModel_anytime(m) == m.state # "AwaitingCompaction"   \* mutant: asks over open calls
AsksModel(m)         == m.state \in {"Start", "AwaitingModel"}

\* The step handed out is a function of the state entered: AwaitingModel is
\* CallLLM, AwaitingTools CallTools, AwaitingCompaction Compact, Terminal Done.
NextStep(m, p) ==
  CASE IsTerminal(m) -> m
    [] ~IsTerminal(m) /\ m.cancelled -> Terminate(m, "Cancelled")
    [] ~IsTerminal(m) /\ ~m.cancelled /\ AsksModel(m) -> RequestModel(m, p)
    [] OTHER -> m

\* known: the ids whose tool the registry advertises.
Classify(cs, known) == {[call |-> c, preresolved |-> c \notin known] : c \in cs}

Answered(m, msg, n) ==
  [m EXCEPT !.deferred_compaction = FALSE, !.pending = Append(@, msg),
            !.context_tokens = n, !.turns_taken = @ + 1]

ModelResponse(m, msg, known, n) ==
  CASE IsTerminal(m) -> m
    [] ~IsTerminal(m) /\ msg.calls = {} -> Terminate(Answered(m, msg, n), "Completed")
    [] OTHER -> [Enter(Answered(m, msg, n), "AwaitingTools") EXCEPT
                   !.turn = m.turns_taken, !.pending_tools = Classify(msg.calls, known)]

ReceiveResults(m, msg) ==
  IF IsTerminal(m) THEN m
  ELSE [Enter(m, "Start") EXCEPT !.pending = Append(@, msg), !.pending_tools = {}]

Inject(m, msg) == IF IsTerminal(m) THEN m ELSE [m EXCEPT !.pending = Append(@, msg)]

AdoptPruned(m, messages, n) ==
  IF IsTerminal(m) THEN m
  ELSE [m EXCEPT !.history = Take(messages, n), !.pending = Drop(messages, n)]

CompactionResult(m, compacted, before, after) ==
  CASE IsTerminal(m) -> m
    [] ~IsTerminal(m) /\ after >= before -> Terminate(m, "CompactionStalled")
    [] OTHER -> [Enter(m, "Start") EXCEPT !.history = Coalesce(compacted), !.pending = <<>>,
                                          !.context_tokens = after]
CompactionNoop(m, before, after) ==
  CASE IsTerminal(m) -> m
    [] ~IsTerminal(m) /\ after >= before -> Terminate(m, "CompactionStalled")
    [] OTHER -> [Enter(m, "Start") EXCEPT !.context_tokens = after]
CompactionDeferred(m, after) ==
  IF IsTerminal(m) THEN m
  ELSE [Enter(m, "Start") EXCEPT !.context_tokens = after, !.deferred_compaction = TRUE]

Cancel(m)  == [m EXCEPT !.cancelled = TRUE]
Fail(m, o) == IF IsTerminal(m) THEN m ELSE Terminate(m, o)

CommitPending(m)  == [m EXCEPT !.history = @ \o m.pending, !.pending = <<>>]
\* mutants: salvage keeps the open turn; salvage keeps nothing
SalvagePending_all(m)  == [m EXCEPT !.history = @ \o m.pending, !.pending = <<>>]
SalvagePending_none(m) == [m EXCEPT !.pending = <<>>]
SalvagePending(m) ==
  LET keep == CoherentCut(m.pending, Len(m.pending))
  IN  [m EXCEPT !.history = @ \o Take(m.pending, keep), !.pending = <<>>]
DiscardPending_all(m) == [m EXCEPT !.history = <<>>, !.pending = <<>>]   \* mutant: so goes the rest
DiscardPending(m) == [m EXCEPT !.pending = <<>>]

RewindTo(m, len) ==
  LET cut == CoherentCut(m.history, Within(m.history, len))
  IN  IF ~BetweenSteps(m) \/ cut = Len(m.history) THEN m
      ELSE [m EXCEPT !.history = Take(@, cut), !.deferred_compaction = FALSE]

ManualCompactionAllowed(m) == BetweenSteps(m) /\ m.pending = <<>>
InstallManualCompaction(m, messages, n, after) ==
  IF ~ManualCompactionAllowed(m) THEN m
  ELSE [m EXCEPT !.history = Coalesce(Take(messages, n)), !.pending = Drop(messages, n),
                 !.context_tokens = after, !.deferred_compaction = FALSE]

-----------------------------------------------------------------------------
(* What a driver may hand in. *)

Room == Len(FullHistory(machine)) < MaxMessages

Prompts == {UserText({t}) : t \in Text}
Replies == {Assistant({t}, cs) : t \in Text, cs \in SUBSET CallId}

\* A compaction pass returns a summary, which repeats no message, or none, and a
\* tail of the feed it was given, cut where no call loses its result.  (Bound: no
\* longer than the feed.)
Summaries == {<<>>, <<UserText({})>>, <<Assistant({}, {})>>}
Compactions(feed) ==
  {c \in {s \o Drop(feed, n) : s \in Summaries, n \in 0..Len(feed)} :
     Coherent(c) /\ Len(c) <= Len(feed)}

\* Pruning blanks the output of earlier tool results and leaves the rest.
Pruned(feed, is) == [i \in 1..Len(feed) |->
                       IF i \in is THEN [feed[i] EXCEPT !.text = {}] ELSE feed[i]]
Results(feed)    == {i \in 1..Len(feed) : feed[i].results # {}}

-----------------------------------------------------------------------------
(* Actions: one call of one method. *)

Init == \E p \in Prompts : machine \in {FromHistory(<<>>), FromHistory(<<p>>)}

\* A run may begin in any state: the future of the one before it may have been
\* dropped at any await.
DoAcceptInput == Room /\ \E msg \in Prompts : machine' = AcceptInput(machine, msg)

DoAcceptFollowup == /\ machine.outcome = "Completed" /\ Room
                    /\ \E msg \in Prompts : machine' = AcceptFollowup(machine, msg)

DoSetContextTokens == \E n \in Tokens : machine' = SetContextTokens(machine, n)

DoNextStep == \E p \in Policies : machine' = NextStep(machine, p)

DoModelResponse == /\ machine.state = "AwaitingModel" /\ Room
                   /\ \E msg \in Replies, known \in Registries, n \in Tokens :
                         machine' = ModelResponse(machine, msg, known, n)

DoReceiveResults == /\ machine.state = "AwaitingTools"
                    /\ \E t \in Text : machine' =
                          ReceiveResults(machine, Answers({t}, CallsInFlight(machine)))

DoInject == /\ machine.state \in {"Start", "AwaitingModel"} /\ Room
            /\ \E msg \in Prompts : machine' = Inject(machine, msg)

DoAdoptPruned == /\ machine.state = "AwaitingModel"
                 /\ \E is \in SUBSET Results(FullHistory(machine)) :
                       machine' = AdoptPruned(machine, Pruned(FullHistory(machine), is),
                                              Len(machine.history))

DoCompactionResult == /\ machine.state = "AwaitingCompaction"
                      /\ \E c \in Compactions(FullHistory(machine)), before, after \in Tokens :
                            machine' = CompactionResult(machine, c, before, after)
DoCompactionNoop == /\ machine.state = "AwaitingCompaction"
                    /\ \E before, after \in Tokens :
                          machine' = CompactionNoop(machine, before, after)
DoCompactionDeferred == /\ machine.state = "AwaitingCompaction"
                        /\ machine.reason = "ThresholdExceeded"
                        /\ \E n \in Tokens : machine' = CompactionDeferred(machine, n)

DoCancel == machine' = Cancel(machine)
DoFail   == machine' = Fail(machine, "Failed")

\* How a driver closes a run depends on how the run ended.
DoCommit  == machine.outcome = "Completed" /\ machine' = CommitPending(machine)
DoSalvage == /\ machine.outcome \in {"MaxTurnsExceeded", "Cancelled", "Failed"}
             /\ machine' = SalvagePending(machine)
DoDiscard == /\ machine.outcome \in {"CompactionStalled", "Failed"}
             /\ machine' = DiscardPending(machine)

DoRewind == \E len \in 0..MaxMessages : machine' = RewindTo(machine, len)

DoManualCompaction ==
  \E c \in Compactions(machine.history), n \in Tokens :
     /\ ManualCompactionAllowed(machine)
     /\ machine' = InstallManualCompaction(machine, c, Len(machine.history), n)

Next == \/ DoAcceptInput \/ DoAcceptFollowup \/ DoSetContextTokens \/ DoNextStep
        \/ DoModelResponse \/ DoReceiveResults \/ DoInject \/ DoAdoptPruned
        \/ DoCompactionResult \/ DoCompactionNoop \/ DoCompactionDeferred
        \/ DoCancel \/ DoFail \/ DoCommit \/ DoSalvage \/ DoDiscard
        \/ DoRewind \/ DoManualCompaction

Spec == Init /\ [][Next]_machine

-----------------------------------------------------------------------------
(* Properties. *)

\* The machine's fields keep their types, and every message keeps to its role.
TypeOK == machine \in Machine

\* However runs are cancelled, dropped, failed, compacted or rewound, the
\* committed conversation never holds a call without its result or a result
\* without its call: any later run can send it.
HistoryCoherent == Coherent(machine.history)

\* What goes to the model is coherent as a whole, steering and pruning included.
RequestCoherent == machine.state = "AwaitingModel" => Coherent(FullHistory(machine))

CallsMatch(m) ==
  /\ NoOrphans(m.pending)
  /\ m.state = "AwaitingTools" => Unanswered(m.pending) = CallsInFlight(m)
  /\ m.state \in {"Start", "AwaitingModel", "AwaitingCompaction"} \/
     m.outcome \in {"Completed", "MaxTurnsExceeded"} => Unanswered(m.pending) = {}

\* The calls the run's buffer leaves open are exactly those out for dispatch;
\* only a run that ended abnormally may leave others.
OpenCallsAreInFlight == CallsMatch(machine)

LatchScoped(m) ==
  m.deferred_compaction =>
    /\ m.state # "AwaitingTools" /\ m.outcome # "Completed"
    /\ m.state = "AwaitingCompaction" => m.reason = "Emergency"

\* A deferred threshold pass excuses the one request it was deferred for: the
\* latch is gone once the model has answered, and an emergency ignores it.
DeferralIsForOneRequest == LatchScoped(machine)

\* Cancelling or failing a run costs its unfinished turn: closing it with a
\* salvage drops at most the one message whose calls were never answered.
SalvageCostsOneTurn ==
  [][machine.outcome \in {"MaxTurnsExceeded", "Cancelled"} /\ machine'.outcome = machine.outcome
     /\ machine.pending # <<>> /\ machine'.pending = <<>>
     => Len(machine'.history) + 1 >= Len(FullHistory(machine))]_machine
=============================================================================
