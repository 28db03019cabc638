---------------------------- MODULE ToolDispatch ----------------------------
(***************************************************************************)
(* Dispatching batches of tool calls (src/engine/bare/dispatch.rs): the    *)
(* waves of a plan, under a semaphore, each call going through gates, the  *)
(* tool's circuit breaker, execution and recovery.  All calls of a batch   *)
(* are futures of one task, joined; an action takes one of them from one   *)
(* await to the next.                                                      *)
(***************************************************************************)
EXTENDS ToolPlan, ToolHealth

CONSTANTS MaxConcurrency,  \* permits of the semaphore
          MaxRecovery,     \* MAX_RECOVERY_ATTEMPTS
          Setup            \* what the host installed: see SetupAssumption

ASSUME LimitsAssumption == /\ MaxConcurrency \in Nat \ {0} /\ MaxRecovery \in Nat
ASSUME SetupAssumption ==
  Setup \subseteq {"sequential", "blocks", "asks", "resolver", "detector", "memory", "reflector"}

VARIABLES
  phase,     \* of the batch
  wave,      \* the wave that runs
  call,      \* the futures of the batch
  outcome,   \* how the batch ended
  health,    \* the breakers of the health registry
  looping,   \* whether the detector's window holds a pattern to stop at
  signal     \* the CancelSignal

plan == <<calls, waves, placed>>
vars == <<calls, waves, placed, phase, wave, call, outcome, health, looping, signal>>

Stops  == {"Cancelled", "LoopDetected", "Exhausted"}   \* the hard errors of a call
Awaits == {"permit", "ask", "tool", "memory", "reflector", "backoff", "settled"}

Future == [at : Awaits, tc : Requests, attempt : 0..MaxRecovery,
           approved : BOOLEAN,                  \* park_approval holds a record
           result : {"None", "Ok", "Soft"} \cup Stops,
           unpaired : Int, undecided : Int]     \* pre less post events; asks less decisions

NewFuture(c) == [at |-> "permit", tc |-> c, attempt |-> 0, approved |-> FALSE,
                 result |-> "None", unpaired |-> 0, undecided |-> 0]

Executing == {i \in DOMAIN call : call[i].at = "tool"}
Permits   == {i \in DOMAIN call : call[i].at \notin {"permit", "settled"}}
Waiting   == {i \in waves[wave].members : call[i].at = "permit"}

-----------------------------------------------------------------------------
(* What a future does between awaits.  A decision on an ask and a post event *)
(* are told to observers where the code notifies them.                       *)

Settled(f, r) == [f EXCEPT !.at = "settled", !.result = r, !.approved = FALSE]
Posted_not(f) == f   \* mutant: a call that ends early is not told to observers
Posted(f)  == [f EXCEPT !.unpaired = @ - 1]
Decided(f) == [f EXCEPT !.undecided = @ - 1]

\* The record of an approval is told where the call ends before its dispatch
\* returns, or with the result of the dispatch.
Released_twice(f) == Decided(f)   \* mutant: told whether or not there is one
Released(f) == IF f.approved THEN [Decided(f) EXCEPT !.approved = FALSE] ELSE f

\* The detector's window after an operation was recorded.
Patterns == IF "detector" \in Setup THEN BOOLEAN ELSE {FALSE}

Becomes(i, f) == call' = [call EXCEPT ![i] = f]
HealthOf(f)   == health[f.tc.tool]

\* From the detector to the tool: f has passed its hooks.  A stop clears the
\* detector's window, so that the calls beside it go on.
Admit(i, f) ==
  \/ /\ looping /\ looping' = FALSE /\ UNCHANGED health
     /\ Becomes(i, Posted(Settled(Released(f), "LoopDetected")))
  \/ /\ ~looping /\ health' = [health EXCEPT ![f.tc.tool] = AfterRequest(@)]
     /\ \/ /\ ~Allows(HealthOf(f)) /\ Becomes(i, Posted(Settled(Released(f), "Soft")))
           /\ looping' \in Patterns
        \/ /\ Allows(HealthOf(f)) /\ UNCHANGED looping
           /\ Becomes(i, IF signal THEN Settled(Released(f), "Cancelled")
                         ELSE [f EXCEPT !.at = "tool"])

\* One attempt, up to its first await.
Attempt(i, f) ==
  LET g == [f EXCEPT !.unpaired = @ + 1] IN
  \/ Admit(i, g)
  \/ /\ "blocks" \in Setup /\ Becomes(i, Posted(Settled(g, "Soft")))
     /\ UNCHANGED <<health, looping>>
  \/ /\ "asks" \in Setup /\ UNCHANGED <<health, looping>>
     /\ LET h == [g EXCEPT !.undecided = @ + 1] IN
        Becomes(i, IF "resolver" \in Setup THEN [h EXCEPT !.at = "ask"]
                   ELSE Posted(Settled(Decided(h), "Soft")))

Runs(i) == phase = "waves" /\ i \in waves[wave].members
BatchStays == UNCHANGED <<calls, waves, placed, phase, wave, outcome, signal>>

\* The semaphore is fair: permits are taken in the order of the calls.
TakePermit(i) ==
  /\ Runs(i) /\ i \in Waiting /\ \A j \in Waiting : i <= j
  /\ Cardinality(Permits) < (IF "sequential" \in Setup THEN 1 ELSE MaxConcurrency)
  /\ Attempt(i, call[i]) /\ BatchStays

\* park_hook_ask, which polls the signal first
AskCancelled(i) ==
  /\ Runs(i) /\ call[i].at = "ask" /\ signal
  /\ Becomes(i, Settled(Decided(call[i]), "Cancelled"))
  /\ BatchStays /\ UNCHANGED <<health, looping>>
Approved(i) == /\ Runs(i) /\ call[i].at = "ask" /\ ~signal
               /\ Admit(i, [call[i] EXCEPT !.approved = TRUE]) /\ BatchStays
Denied(i) ==   \* refused, or not answered in time
  /\ Runs(i) /\ call[i].at = "ask" /\ ~signal
  /\ Becomes(i, Posted(Settled(Decided(call[i]), "Soft")))
  /\ BatchStays /\ UNCHANGED <<health, looping>>

\* The select around dispatch_tool, which polls the signal first.
Uninterrupted == FALSE   \* mutant: nothing races the tool
Interrupted == signal
ToolCancelled(i) ==
  /\ Runs(i) /\ call[i].at = "tool" /\ Interrupted
  /\ Becomes(i, Settled(Released(call[i]), "Cancelled"))
  /\ BatchStays /\ UNCHANGED <<health, looping>>

\* A tool that is not known, or panics, is a tool that fails.
ToolReturns(i) ==
  /\ Runs(i) /\ call[i].at = "tool" /\ ~Interrupted
  /\ LET f == Posted(Released(call[i])) IN
     \E ok \in IF f.tc.tool \in Registered THEN BOOLEAN ELSE {FALSE} :
       /\ health' = [health EXCEPT ![f.tc.tool] = Recorded(@, ok)]
       /\ looping' \in Patterns
       /\ Becomes(i, IF ~ok THEN [f EXCEPT !.at = "reflector"]
                     ELSE IF "memory" \in Setup THEN [f EXCEPT !.at = "memory"]
                     ELSE Settled(f, "Ok"))
  /\ BatchStays

\* record_tool_memory and recover_tool_error, which nothing races.
Remembered(i) == /\ Runs(i) /\ call[i].at = "memory" /\ Becomes(i, Settled(call[i], "Ok"))
                 /\ BatchStays /\ UNCHANGED <<health, looping>>
GivesUp(i) == /\ Runs(i) /\ call[i].at = "reflector" /\ Becomes(i, Settled(call[i], "Soft"))
              /\ BatchStays /\ UNCHANGED <<health, looping>>
Retries(i) == /\ Runs(i) /\ call[i].at = "reflector"
              /\ Becomes(i, [call[i] EXCEPT !.at = "backoff"])
              /\ BatchStays /\ UNCHANGED <<health, looping>>

BackoffCancelled(i) ==
  /\ Runs(i) /\ call[i].at = "backoff" /\ signal
  /\ Becomes(i, Settled(call[i], "Cancelled"))
  /\ BatchStays /\ UNCHANGED <<health, looping>>

\* A correction may change the call, its tool included; the plan stands.
Spent(f) == f.attempt = MaxRecovery
Again_uncounted(f) == f   \* mutant: the retry is not counted
Again(f) == [f EXCEPT !.attempt = @ + 1]
Corrected(c) == IF "reflector" \in Setup THEN Requests ELSE {c}
BackoffOver(i) ==
  /\ Runs(i) /\ call[i].at = "backoff" /\ ~signal
  /\ \/ /\ Spent(call[i]) /\ Becomes(i, Settled(call[i], "Exhausted"))
        /\ UNCHANGED <<health, looping>>
     \/ /\ ~Spent(call[i])
        /\ \E c \in Corrected(call[i].tc) : Attempt(i, [Again(call[i]) EXCEPT !.tc = c])
  /\ BatchStays

-----------------------------------------------------------------------------
(* The batch. *)

Init == /\ calls = <<>> /\ waves = <<>> /\ placed = 0
        /\ phase = "idle" /\ wave = 0 /\ call = <<>> /\ outcome = "None"
        /\ health = [t \in Tool |-> Healthy] /\ looping = FALSE
        /\ signal = FALSE

Rest == UNCHANGED <<health, looping>>

\* A batch of the same run, of one that follows a run whose future was dropped,
\* or of one that follows a finished run, which leaves neither signal nor pattern.
Begin ==
  /\ phase = "idle"
  /\ calls' \in Batches
  /\ call' = [i \in 1..Len(calls') |-> NewFuture(calls'[i])]
  /\ IF "sequential" \in Setup \/ Len(calls') < 2
     THEN placed' = Len(calls') /\ waves' = OneByOne(calls')
     ELSE placed' = 0 /\ waves' = <<>>
  /\ phase' = "planning" /\ wave' = 0 /\ outcome' = "None"
  /\ \/ outcome \in {"None", "Ok"} /\ UNCHANGED <<signal, looping>>
     \/ signal' = FALSE /\ looping' = FALSE
  /\ UNCHANGED health

Plan == phase = "planning" /\ PlaceNext /\ UNCHANGED <<phase, wave, call, outcome, signal>> /\ Rest

\* The head of the loop over the waves, where the signal is looked at.
Ended(r) == phase' = "done" /\ outcome' = r /\ UNCHANGED wave
NextWave == \/ wave = Len(waves) /\ Ended("Ok")
            \/ wave < Len(waves) /\ signal /\ Ended("Cancelled")
            \/ /\ wave < Len(waves) /\ ~signal /\ wave' = wave + 1 /\ phase' = "waves"
               /\ UNCHANGED outcome

FirstWave == /\ phase = "planning" /\ placed = Len(calls) /\ NextWave
             /\ UNCHANGED <<plan, call, signal>> /\ Rest

\* join_all waits for every future; the first error in the order of the calls wins.
Joined_any(is) == \E i \in is : call[i].at = "settled"   \* mutant: one is enough
AllJoined(is) == \A i \in is : call[i].at = "settled"
Errors(is) == {i \in is : call[i].result \in Stops}
WaveJoined ==
  /\ phase = "waves" /\ AllJoined(waves[wave].members)
  /\ LET es == Errors(waves[wave].members) IN
     \/ es # {} /\ Ended(call[Chosen(es)].result)
     \/ es = {} /\ NextWave
  /\ UNCHANGED <<plan, call, signal>> /\ Rest

\* The results are taken, or the future of the run is dropped.
Leave == /\ phase' = "idle" /\ calls' = <<>> /\ waves' = <<>> /\ placed' = 0 /\ call' = <<>>
         /\ wave' = 0 /\ UNCHANGED <<outcome, signal>> /\ Rest
Taken   == phase = "done" /\ Leave
Dropped == phase = "waves" /\ Leave

HostCancels == /\ ~signal /\ signal' = TRUE
               /\ UNCHANGED <<plan, phase, wave, call, outcome>> /\ Rest

Tick(t) == /\ \/ LeaseRuns(health[t]) /\ health' = [health EXCEPT ![t] = LeaseEnds(@)]
              \/ Cooling(health[t])   /\ health' = [health EXCEPT ![t] = Recovers(@)]
           /\ UNCHANGED <<plan, phase, wave, call, outcome, looping, signal>>

-----------------------------------------------------------------------------
(* Specifications. *)

\* What the task does by itself, what it waits for with nothing racing it included.
Engine == \/ Plan \/ FirstWave \/ WaveJoined
          \/ \E i \in DOMAIN call :
               \/ TakePermit(i) \/ AskCancelled(i) \/ ToolCancelled(i) \/ BackoffCancelled(i)
               \/ Remembered(i) \/ GivesUp(i) \/ Retries(i)
World  == \E i \in DOMAIN call : Approved(i) \/ Denied(i) \/ ToolReturns(i) \/ BackoffOver(i)
Host   == Begin \/ Taken \/ Dropped \/ HostCancels
Clock  == \E t \in Tool : Tick(t)

Next == Engine \/ World \/ Host \/ Clock
Spec == Init /\ [][Next]_vars

\* The executor polls the task, stores and reflectors answer, time passes.
FairSpec == Spec /\ WF_vars(Engine) /\ \A t \in Tool : WF_vars(Tick(t))

-----------------------------------------------------------------------------
(* Properties. *)

TypeOK == /\ PlanTypeOK
          /\ phase \in {"idle", "planning", "waves", "done"} /\ wave \in 0..Len(waves)
          /\ call \in [1..Len(calls) -> Future]
          /\ outcome \in {"None", "Ok"} \cup Stops
          /\ health \in [Tool -> Health] /\ looping \in BOOLEAN /\ signal \in BOOLEAN

\* Calls that execute together were found compatible by the planner, through
\* every retry of theirs.
PlannedTogether ==
  \A i, j \in Executing : i # j => ~Clash(calls[i], calls[j])

\* Whatever is asked of the user is answered once in the audit trail: by the
\* approver, an expiry, a cancellation, or the exit that stopped an approved call.
AsksDecidedOnce ==
  \A i \in DOMAIN call :
    call[i].undecided = IF call[i].at = "ask" \/ call[i].approved THEN 1 ELSE 0

\* Observers see every attempt begin and end, but for one that was cancelled.
PairedUnlessCancelled ==
  \A i \in DOMAIN call :
    \/ call[i].unpaired = IF call[i].at \in {"ask", "tool"} THEN 1 ELSE 0
    \/ call[i].unpaired = 1 /\ call[i].result = "Cancelled"

\* Each of a call's exits settles its accounts by itself, and none is forgotten.
ExitsAreAccounted == AsksDecidedOnce /\ PairedUnlessCancelled

\* After a hard error no later wave begins, and what ends a batch is the error
\* of its first call that has one.
FirstErrorEndsBatch ==
  phase = "done" =>
    IF outcome = "Ok" THEN \A i \in DOMAIN call : call[i].result \in {"Ok", "Soft"}
    ELSE /\ \A i \in DOMAIN call : call[i].result = "None" =>
              \A w \in WavesOf(i) : w > wave
         /\ \A i \in Errors(DOMAIN call) : \E j \in Errors(DOMAIN call) :
              j <= i /\ call[j].result = outcome

\* Asking whether a tool is available and asking for it give one answer, in
\* every state of its breaker.
OracleAgrees == \A t \in Tool : WouldAllow(health[t]) <=> Allows(health[t])

\* A breaker that refuses will allow again: a probe that was cancelled or
\* dropped does not keep it.
BreakersRecover == \A t \in Tool : ~WouldAllow(health[t]) ~> WouldAllow(health[t])

\* A cancelled batch ends though no tool and no approver ever answers.
CancelEndsBatch == phase = "waves" /\ signal ~> phase # "waves"

\* A batch ends when tools and approvers answer: retries do not go on for ever.
BatchEnds == WF_vars(Engine \/ World) => (phase = "waves" ~> phase # "waves")

-----------------------------------------------------------------------------
(* What the documentation says and the code does not do. *)

\* A call that is not safe to run concurrently "never runs alongside any other".
UnsafeRunAlone ==
  \A i, j \in Executing : i # j => Parallelizable(call[i].tc)
=============================================================================
