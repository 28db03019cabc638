------------------------------- MODULE Budget -------------------------------
(***************************************************************************)
(* The gate on what a run may spend (src/budget.rs), as the driver asks    *)
(* and feeds it: before each request, after each answer and at the end of  *)
(* each turn that succeeds.                                                *)
(***************************************************************************)
EXTENDS Integers, Sequences

CONSTANTS Limits,    \* the configurations: a limit or none for each dimension
          NoLimit,
          SoftPart,  \* the soft fraction in parts of 10000
          Answers,   \* what an answer may cost, in tokens and in money
          MaxCount,  \* the largest value of a counter
          MaxTicks, MaxTurns, MaxRuns   \* bounds

Priority  == <<"tokens", "turns", "clock", "usd">>
Dimension == {"tokens", "turns", "clock", "usd"}

ASSUME BudgetAssumption ==
  /\ MaxCount \in Nat
  /\ Limits \subseteq [Dimension -> 0..MaxCount \cup {NoLimit}]
  /\ SoftPart \in Nat
  /\ Answers \subseteq [tokens : 0..MaxCount, usd : 0..MaxCount]

VARIABLES
  limit,    \* BudgetLimits
  spent,    \* GateState, and the time since the run began
  warned,   \* WarnLatches
  warns,    \* how often observers heard of each dimension in this run
  request,  \* where the run is with its request
  refusal,  \* the dimension BudgetExhausted names
  budgetRuns

budgetVars == <<limit, spent, warned, warns, request, refusal, budgetRuns>>

Nothing == [d \in Dimension |-> 0]

\* begin(): a run starts from nothing.
Begun_warned == warned   \* mutant: the latches stay
Begun == {}
Begin ==
  /\ request \in {"none", "over"} /\ budgetRuns < MaxRuns /\ budgetRuns' = budgetRuns + 1
  /\ spent' = Nothing /\ warned' = Begun /\ warns' = Nothing
  /\ request' = "due" /\ refusal' = "none" /\ UNCHANGED limit

Tick == /\ request # "none" /\ spent.clock < MaxTicks
        /\ spent' = [spent EXCEPT !.clock = @ + 1]
        /\ UNCHANGED <<limit, warned, warns, request, refusal, budgetRuns>>

\* soft_line: rounded down, so that a limit of 1 warns before anything is spent
Soft(l)    == (l * SoftPart) \div 10000
Limited    == {d \in Dimension : limit[d] # NoLimit}
Crossed    == {d \in Limited : spent[d] >= limit[d]}
Approached == {d \in Limited : spent[d] >= Soft(limit[d])} \cup Crossed

\* pre_request: all dimensions are looked at, the first one crossed refuses
Check ==
  /\ request = "due"
  /\ warned' = warned \cup Approached
  /\ warns' = [d \in Dimension |-> IF d \in Approached \ warned THEN warns[d] + 1 ELSE warns[d]]
  /\ IF Crossed = {} THEN request' = "out" /\ UNCHANGED refusal
     ELSE /\ request' = "over"
          /\ \E i \in 1..4 : /\ Priority[i] \in Crossed
                             /\ \A j \in 1..(i - 1) : Priority[j] \notin Crossed
                             /\ refusal' = Priority[i]
  /\ UNCHANGED <<limit, spent, budgetRuns>>

Plus(a, b) == IF a + b > MaxCount THEN MaxCount ELSE a + b   \* saturating_add

\* record_turn_success: observe_usage and observe_cost
Answered(a) ==
  /\ request = "out" /\ request' = "answered"
  /\ spent' = [spent EXCEPT !.tokens = Plus(@, a.tokens), !.usd = Plus(@, a.usd)]
  /\ UNCHANGED <<limit, warned, warns, refusal, budgetRuns>>

\* A cut answer or a rejected request is asked for again within its turn.
AskAgain == /\ request \in {"out", "answered"} /\ request' = "due"
            /\ UNCHANGED <<limit, spent, warned, warns, refusal, budgetRuns>>

TurnEndsWell ==
  /\ request = "answered" /\ request' \in {"due", "over"} /\ spent.turns < MaxTurns
  /\ spent' = [spent EXCEPT !.turns = Plus(@, 1)]
  /\ UNCHANGED <<limit, warned, warns, refusal, budgetRuns>>

\* An error or a cancellation ends the run with the turn.
RunFails == /\ request \in {"due", "out", "answered"} /\ request' = "over"
            /\ UNCHANGED <<limit, spent, warned, warns, refusal, budgetRuns>>

BudgetInit ==
  /\ limit \in Limits /\ spent = Nothing /\ warned = {} /\ warns = Nothing
  /\ request = "none" /\ refusal = "none" /\ budgetRuns = 0

BudgetNext == \/ Begin \/ Tick \/ Check \/ AskAgain \/ TurnEndsWell \/ RunFails
              \/ \E a \in Answers : Answered(a)

BudgetSpec == BudgetInit /\ [][BudgetNext]_budgetVars

-----------------------------------------------------------------------------

BudgetTypeOK ==
  /\ limit \in Limits /\ spent \in [Dimension -> Nat] /\ warned \subseteq Dimension
  /\ warns \in [Dimension -> Nat] /\ budgetRuns \in Nat
  /\ request \in {"none", "due", "out", "answered", "over"}
  /\ refusal \in Dimension \cup {"none"}

\* Within a run each dimension is warned of once, by the first request that
\* finds it past its soft line, whichever line refuses that request; the next
\* run starts afresh.
WarnedOnce ==
  /\ \A d \in Dimension : warns[d] <= 1 /\ (warns[d] = 1 => d \in Approached)
  /\ request = "out" \/ refusal # "none" =>
       \A d \in Approached \ {"clock"} : warns[d] = 1   \* time goes on

\* What a run spends goes over a limit by less than one answer, and over the
\* limit of turns not at all.
OverrunIsOneAnswer ==
  /\ "turns" \in Limited => spent.turns <= limit.turns
  /\ \A d \in {"tokens", "usd"} \cap Crossed :
        limit[d] = spent[d] \/ \E a \in Answers : spent[d] < limit[d] + a[d]

\* Each line of a budget is told of once and stops the next request.
BudgetHolds == WarnedOnce /\ OverrunIsOneAnswer
=============================================================================
