----------------------------- MODULE StreamTurn -----------------------------
(***************************************************************************)
(* One streamed turn: the handler's generator (src/stream/handler.rs),     *)
(* which opens stream after stream until one completes, and the driver     *)
(* that consumes its events (src/engine/bare/llm_turn.rs).  The two        *)
(* alternate in one task; the provider, the clock and whoever cancels the  *)
(* run act in between.                                                     *)
(***************************************************************************)
EXTENDS Integers, Sequences

CONSTANTS MaxRetries,      \* streams reopened after a transport failure
          RateRetries,     \* max_retries of the rate-limit ladder
          MaxTimeouts,     \* max_consecutive_timeouts
          Paced,           \* whether a rate limiter is attached
          MaxPieces        \* bound: the pieces a stream brings

ASSUME RetriesAssumption  == MaxRetries \in Nat /\ MaxPieces \in Nat
ASSUME LadderAssumption   == RateRetries \in Nat \ {0}
ASSUME TimeoutsAssumption == MaxTimeouts \in Nat \ {0}
ASSUME ModesAssumption    == Paced \in BOOLEAN

VARIABLES
  phase,    \* where the generator is
  spent,    \* the two retry counts
  stream,   \* the stream that is open: what next_event keeps about it
  shadow,   \* the handler's accumulator: for each piece, the stream it came in
  got,      \* the driver's accumulator
  result,   \* how the turn ended
  expired,  \* the total deadline has passed
  signal,   \* the run is cancelled
  config,   \* fallback_after_retries of the ladder, and fallback_to_non_streaming
  trace     \* what no code reads: streams opened, and events that came late

turnVars == <<phase, spent, stream, shadow, got, result, expired, signal, config, trace>>

Configs == [escalate : 0..RateRetries, plain : BOOLEAN]
Phases  == {"gate", "poll", "wait", "sleep", "fallback", "done"}
Results == {"None", "Served", "Fallback", "Cancelled", "Failed", "Escalated", "Poisoned"}

Silent == [heard |-> FALSE, terminal |-> FALSE, timeouts |-> 0]

Finish(r) == phase' = "done" /\ result' = r
NothingRead   == UNCHANGED <<shadow, got>>
Still     == UNCHANGED <<expired, signal, config>>

-----------------------------------------------------------------------------
(* What a failed poll leads to. *)

TryFallback ==
  /\ IF config.plain THEN phase' = "fallback" /\ UNCHANGED result ELSE Finish("Failed")
  /\ UNCHANGED spent
Sleep(counts) == phase' = "sleep" /\ spent' = counts /\ UNCHANGED result

\* rate_limit_retry: the hard ceiling first, then the escalation.
Climbed(n) == n + 1
Escalates_late(n) == n > config.escalate + 1   \* mutant: one retry too many
Escalates(n) == n > config.escalate
RateLimited ==
  LET n == Climbed(spent.rate) IN
  \/ n > RateRetries /\ TryFallback
  \/ n <= RateRetries /\ Escalates(n) /\ Finish("Escalated") /\ UNCHANGED spent
  \/ n <= RateRetries /\ ~Escalates(n) /\ Sleep([spent EXCEPT !.rate = n])

\* decide_transport_error
Exhausted(n) == n >= MaxRetries
Transport ==
  \/ Exhausted(spent.transport) /\ TryFallback
  \/ ~Exhausted(spent.transport) /\ Sleep([spent EXCEPT !.transport = @ + 1])

-----------------------------------------------------------------------------
(* The generator, await by await. *)

TurnInit == /\ phase = "gate" /\ result = "None"
            /\ spent = [transport |-> 0, rate |-> 0]
            /\ stream = Silent /\ shadow = <<>> /\ got = <<>>
            /\ expired = FALSE /\ signal \in BOOLEAN /\ config \in Configs
            /\ trace = [opened |-> 0, openedLate |-> FALSE, afterDeadline |-> 0, afterSignal |-> 0]

\* gate_on_rate_limit: a token, or the wait for one is over or capped to nothing.
Open == /\ phase = "gate" /\ phase' = "poll" /\ stream' = Silent
        /\ trace' = [trace EXCEPT !.opened = @ + 1, !.openedLate = expired]
        /\ UNCHANGED <<spent, result>> /\ NothingRead /\ Still
GateCancelled == /\ phase = "gate" /\ Paced /\ signal /\ Finish("Cancelled")
                 /\ UNCHANGED <<spent, stream, trace>> /\ NothingRead /\ Still
GatePoisoned  == /\ phase = "gate" /\ Paced /\ Finish("Poisoned")
                 /\ UNCHANGED <<spent, stream, trace>> /\ NothingRead /\ Still

\* The head of next_event's loop: deadline, then signal, then the select.
Unchecked == FALSE   \* mutants: the deadline goes unchecked; so does the signal
PastDeadline == expired
Interrupted == signal
Poll ==
  /\ phase = "poll"
  /\ \/ PastDeadline /\ TryFallback
     \/ ~PastDeadline /\ Interrupted /\ Finish("Cancelled") /\ UNCHANGED spent
     \/ ~PastDeadline /\ ~Interrupted /\ phase' = "wait" /\ UNCHANGED <<result, spent>>
  /\ UNCHANGED <<stream, trace>> /\ NothingRead /\ Still

\* The select is not biased: whatever is ready may win it.
WaitCancelled == /\ phase = "wait" /\ signal /\ Finish("Cancelled")
                 /\ UNCHANGED <<spent, stream, trace>> /\ NothingRead /\ Still
WaitExpires == /\ phase = "wait" /\ expired /\ TryFallback
               /\ UNCHANGED <<stream, trace>> /\ NothingRead /\ Still

\* A stream that has brought nothing is given up sooner.
Patience == IF ~stream.heard /\ MaxTimeouts > 2 THEN 2 ELSE MaxTimeouts
WaitTimesOut ==
  /\ phase = "wait" /\ stream' = [stream EXCEPT !.timeouts = @ + 1]
  /\ \/ stream'.timeouts >= Patience /\ Transport
     \/ stream'.timeouts < Patience /\ phase' = "poll" /\ UNCHANGED <<result, spent>>
  /\ UNCHANGED trace /\ NothingRead /\ Still

Late(n, late) == IF late /\ n < 2 THEN n + 1 ELSE n   \* bound: two are counted
Heard == trace' = [trace EXCEPT !.afterSignal = Late(@, signal),
                                !.afterDeadline = Late(@, trace.openedLate)]

\* An event is processed by the handler, yielded, and processed by the driver.
WaitEvent ==
  /\ phase = "wait" /\ phase' = "poll" /\ UNCHANGED <<spent, result>> /\ Heard /\ Still
  /\ \/ /\ Len(shadow) < MaxPieces
        /\ shadow' = Append(shadow, trace.opened) /\ got' = Append(got, trace.opened)
        /\ stream' = [stream EXCEPT !.heard = TRUE, !.timeouts = 0]
     \/ /\ NothingRead   \* a ping, a model name, a usage report
        /\ \E stop \in BOOLEAN :
             stream' = [heard |-> TRUE, terminal |-> stream.terminal \/ stop, timeouts |-> 0]

\* An event that makes no sense is yielded to nobody.
WaitMalformed == /\ phase = "wait" /\ Transport
                 /\ stream' = [stream EXCEPT !.heard = TRUE, !.timeouts = 0]
                 /\ UNCHANGED trace /\ NothingRead /\ Still

\* The provider's error, by class.
WaitFails == /\ phase = "wait"
             /\ RateLimited \/ Transport \/ (Finish("Failed") /\ UNCHANGED spent)
             /\ UNCHANGED <<stream, trace>> /\ NothingRead /\ Still

\* A stream that ends before its terminal event was cut short.
Truncated_never == FALSE   \* mutant: any end is an end
Truncated == ~stream.terminal
WaitEnds == /\ phase = "wait"
            /\ \/ ~Truncated /\ Finish("Served") /\ UNCHANGED spent
               \/ Truncated /\ Transport
            /\ UNCHANGED <<stream, trace>> /\ NothingRead /\ Still

\* The backoff is over: the handler starts afresh, and so, told to, does the driver.
Restarted_keeps(pieces) == pieces   \* mutant: the driver does not
Restarted(pieces) == <<>>
Wake == /\ phase = "sleep" /\ phase' = "gate" /\ shadow' = <<>> /\ got' = Restarted(got)
        /\ UNCHANGED <<spent, stream, result, trace>> /\ Still
SleepCancelled == /\ phase = "sleep" /\ Interrupted /\ Finish("Cancelled")
                  /\ UNCHANGED <<spent, stream, trace>> /\ NothingRead /\ Still

\* fallback_non_streaming: the signal is polled first, and a deadline that has
\* passed is replaced by one more timeout.
FallbackCancelled == /\ phase = "fallback" /\ signal /\ Finish("Cancelled")
                     /\ UNCHANGED <<spent, stream, trace>> /\ NothingRead /\ Still
FallbackAnswers == /\ phase = "fallback" /\ ~signal /\ Finish("Fallback")
                   /\ UNCHANGED <<spent, stream, trace>> /\ NothingRead /\ Still
FallbackTimesOut == /\ phase = "fallback" /\ ~signal /\ Finish("Failed")
                    /\ UNCHANGED <<spent, stream, trace>> /\ NothingRead /\ Still

-----------------------------------------------------------------------------
(* The rest of the world. *)

Expire == /\ ~expired /\ expired' = TRUE
          /\ UNCHANGED <<phase, spent, stream, shadow, got, result, signal, config, trace>>
HostCancels == /\ signal' = TRUE
               /\ UNCHANGED <<phase, spent, stream, shadow, got, result, expired, config, trace>>

Reacts   == Poll \/ GateCancelled \/ WaitCancelled \/ SleepCancelled \/ FallbackCancelled
Provider == WaitEvent \/ WaitMalformed \/ WaitFails \/ WaitEnds \/ FallbackAnswers \/ GatePoisoned
Timers   == WaitTimesOut \/ WaitExpires \/ Wake \/ FallbackTimesOut

TurnNext == Reacts \/ Open \/ Provider \/ Timers \/ Expire \/ HostCancels
TurnSpec == TurnInit /\ [][TurnNext]_turnVars

\* The generator is polled when it can go on, and the limiter's waits are over
\* some time; of the provider nothing is expected, nor of the other timers.
FairTurnSpec == TurnSpec /\ WF_turnVars(Reacts \/ Open)
TimersGoOff == WF_turnVars(Expire) /\ WF_turnVars(Reacts \/ Open \/ Timers)

-----------------------------------------------------------------------------
(* Properties. *)

Streams == 0..(1 + MaxRetries + config.escalate)

TurnTypeOK == /\ phase \in Phases /\ result \in Results
              /\ spent \in [transport : 0..MaxRetries, rate : 0..RateRetries]
              /\ stream \in [heard : BOOLEAN, terminal : BOOLEAN, timeouts : 0..MaxTimeouts]
              /\ {expired, signal} \subseteq BOOLEAN /\ config \in Configs
              /\ shadow \in Seq(Nat) /\ got \in Seq(Nat)

\* A turn's two retry budgets bound the requests it makes, whatever way its
\* failures mix: the ladder escalates before its own ceiling.
RequestsWithinBudget == trace.opened \in Streams

\* The attempt number that failures are reported with is the number of streams
\* that were opened.
ReportedAttempts == spent.transport + spent.rate + 1
AttemptsAreCounted == phase \in {"poll", "wait"} => ReportedAttempts = trace.opened

\* The driver holds what the handler has accepted, piece by piece, and all of
\* it came in the stream that is open: no attempt's words leak into the next.
AnswerIsOneStreams ==
  /\ got = shadow
  /\ phase \in {"poll", "wait"} \/ result = "Served"
     => \A i \in 1..Len(got) : got[i] = trace.opened

\* An answer that is served is a whole one.
ServedIsWhole == result = "Served" => stream.terminal

\* What the driver assembles and serves is one stream's answer, and all of it.
AnswerIsWhole == AnswerIsOneStreams /\ ServedIsWhole

\* Once a run is cancelled the driver is given one event at most, the one the
\* select was about to hand out.
OneEventAfterCancel == trace.afterSignal <= 1

\* A stream opened when the deadline had passed is not listened to.
DeadlineEndsStreaming == trace.afterDeadline = 0

\* Nobody goes on listening: not a cancelled run, not one whose deadline passed
\* while it slept, waited for a token or opened the stream.
StopsListening == OneEventAfterCancel /\ DeadlineEndsStreaming

\* Every turn ends by its timers, however the provider behaves: silent, trickling
\* or failing.
TurnEnds == TimersGoOff => <>(phase = "done")

\* A cancelled turn ends though no timer goes off and the provider is silent.
CancelEndsTurn == signal ~> phase = "done"
=============================================================================
