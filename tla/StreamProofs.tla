---------------------------- MODULE StreamProofs ----------------------------
(***************************************************************************)
(* What holds of a stream, for budgets, patience and answers of any size:  *)
(* first of the turn that opens and reads it (StreamTurn), where one       *)
(* invariant carries all of it; then of the message that is put together   *)
(* from it, for every wire format (Lanes).                                 *)
(***************************************************************************)
EXTENDS StreamTurn, Lanes, SequenceTheorems, WellFoundedInduction, TLAPS

TraceType == trace \in [opened : Nat, openedLate : BOOLEAN,
                        afterDeadline : Nat, afterSignal : Nat]

\* A stream is opened for every retry that was paid for, and one besides.
Counted == /\ spent.rate <= config.escalate
           /\ phase \in {"gate", "sleep"} => trace.opened = spent.transport + spent.rate
           /\ phase \notin {"gate", "sleep"} => trace.opened <= spent.transport + spent.rate + 1
           /\ phase \in {"poll", "wait"} => trace.opened = spent.transport + spent.rate + 1

\* Both accumulators are empty before a stream is opened.
Matched == /\ AnswerIsOneStreams
           /\ phase = "gate" => got = <<>>

\* A poll that goes on to wait found neither deadline nor signal.
Timely == /\ trace.afterDeadline = 0 /\ trace.afterSignal <= 1
          /\ phase = "wait" => trace.afterSignal = 0 /\ ~trace.openedLate
          /\ trace.openedLate => expired
          /\ trace.afterSignal # 0 => signal /\ phase \in {"poll", "fallback", "done"}

\* Only the end of a whole stream is the end of the turn.
Whole == /\ ServedIsWhole
         /\ result # "None" => phase = "done"
         /\ phase \in {"poll", "wait"} => stream.timeouts < MaxTimeouts

IInv == TurnTypeOK /\ TraceType /\ Counted /\ Matched /\ Timely /\ Whole

-----------------------------------------------------------------------------
\* The invariant holds when a turn begins.
LEMMA InvInit == TurnInit => IInv
<1> USE RetriesAssumption, LadderAssumption, TimeoutsAssumption
<1>1. SUFFICES ASSUME TurnInit PROVE IInv
  OBVIOUS
<1>2. TurnTypeOK /\ TraceType
  <2>1. spent \in [transport : 0..MaxRetries, rate : 0..RateRetries]
    BY <1>1 DEF TurnInit
  <2>2. stream \in [heard : BOOLEAN, terminal : BOOLEAN, timeouts : 0..MaxTimeouts]
    BY <1>1 DEF TurnInit, Silent
  <2>3. shadow \in Seq(Nat) /\ got \in Seq(Nat)
    BY <1>1 DEF TurnInit
  <2>4. phase \in Phases /\ result \in Results /\ {expired, signal} \subseteq BOOLEAN /\ config \in Configs
    BY <1>1 DEF TurnInit, Phases, Results
  <2>5. TraceType
    BY <1>1 DEF TurnInit, TraceType
  <2>6. QED
    BY <2>1, <2>2, <2>3, <2>4, <2>5 DEF TurnTypeOK
<1>3. Counted /\ Matched /\ Timely /\ Whole
  <2>1. config.escalate \in 0..RateRetries
    BY <1>1 DEF TurnInit, Configs
  <2>2. QED
    BY <1>1, <2>1 DEF TurnInit, Counted, Matched, AnswerIsOneStreams, Timely, Whole, ServedIsWhole
<1>4. QED
  BY <1>2, <1>3 DEF IInv

\* Where a failed poll may lead.
Aftermath == \/ phase' = "fallback" /\ UNCHANGED <<result, spent>>
             \/ phase' = "done" /\ result' \in {"Failed", "Escalated"} /\ UNCHANGED spent
             \/ /\ phase' = "sleep" /\ UNCHANGED result
                /\ \/ /\ spent.transport < MaxRetries
                      /\ spent' = [spent EXCEPT !.transport = @ + 1]
                   \/ /\ spent.rate < config.escalate
                      /\ spent' = [spent EXCEPT !.rate = @ + 1]

LEMMA FailuresLead ==
  ASSUME TurnTypeOK, RateLimited \/ Transport \/ TryFallback \/ (Finish("Failed") /\ UNCHANGED spent)
  PROVE  Aftermath
<1> USE RetriesAssumption, LadderAssumption
<1>1. /\ spent.transport \in Nat /\ spent.rate \in Nat
      /\ config.escalate \in 0..RateRetries
  BY DEF TurnTypeOK, Configs
<1>2. CASE TryFallback \/ (Finish("Failed") /\ UNCHANGED spent)
  BY <1>2 DEF TryFallback, Finish, Aftermath
<1>3. CASE Transport
  BY <1>1, <1>3 DEF Transport, Exhausted, TryFallback, Finish, Sleep, Aftermath
<1>4. CASE RateLimited
  BY <1>1, <1>4 DEF RateLimited, Climbed, Escalates, TryFallback, Finish, Sleep, Aftermath
<1>5. QED
  BY <1>2, <1>3, <1>4

\* A failed poll keeps the invariant: whatever came is let go of on waking.
LEMMA FailureKeeps ==
  ASSUME IInv, phase \in {"poll", "wait"}, Aftermath,
         stream' \in [heard : BOOLEAN, terminal : BOOLEAN, timeouts : 0..MaxTimeouts],
         UNCHANGED <<shadow, got, expired, signal, config, trace>>,
         phase = "poll" => phase' # "sleep"
  PROVE  IInv'
<1> USE RetriesAssumption, LadderAssumption
<1>1. /\ spent \in [transport : 0..MaxRetries, rate : 0..RateRetries]
      /\ spent.transport \in 0..MaxRetries /\ spent.rate \in 0..RateRetries
      /\ config.escalate \in 0..RateRetries
      /\ result = "None" /\ trace.opened \in Nat
      /\ trace.opened = spent.transport + spent.rate + 1
  BY DEF IInv, TurnTypeOK, Configs, TraceType, Whole, Counted
<1>2. spent' \in [transport : 0..MaxRetries, rate : 0..RateRetries]
  BY <1>1 DEF Aftermath
<1>3. TurnTypeOK'
  BY <1>2 DEF IInv, TurnTypeOK, Aftermath, Phases, Results
<1>4. TraceType'
  BY DEF IInv, TraceType
<1>5. Counted'
  BY <1>1 DEF IInv, Counted, Aftermath
<1>6. Matched' /\ Whole'
  BY <1>1 DEF IInv, Matched, AnswerIsOneStreams, Whole, ServedIsWhole, Aftermath
<1>7. Timely'
  BY DEF IInv, Timely, Aftermath
<1>8. QED
  BY <1>3, <1>4, <1>5, <1>6, <1>7 DEF IInv

\* So does the end of a turn that is not served from a stream.
LEMMA FinishKeeps ==
  ASSUME IInv, NEW r \in {"Cancelled", "Failed", "Poisoned", "Fallback"},
         Finish(r), phase \in {"gate", "poll", "wait", "sleep", "fallback"},
         UNCHANGED <<spent, stream, shadow, got, expired, signal, config, trace>>
  PROVE  IInv'
<1> USE RetriesAssumption, LadderAssumption
<1>1. spent.transport \in Nat /\ spent.rate \in Nat /\ trace.opened \in Nat
  BY DEF IInv, TurnTypeOK, TraceType
<1>2. TurnTypeOK' /\ TraceType'
  BY DEF IInv, TurnTypeOK, TraceType, Finish, Phases, Results
<1>3. Counted'
  BY <1>1 DEF IInv, Counted, Finish
<1>4. Matched' /\ Whole' /\ Timely'
  BY DEF IInv, Matched, AnswerIsOneStreams, Whole, ServedIsWhole, Timely, Finish
<1>5. QED
  BY <1>2, <1>3, <1>4 DEF IInv

\* One step per action.
LEMMA InvNext == IInv /\ [TurnNext]_turnVars => IInv'
<1> USE RetriesAssumption, LadderAssumption, TimeoutsAssumption
<1> SUFFICES ASSUME IInv, [TurnNext]_turnVars PROVE IInv'
  OBVIOUS
<1>a. /\ TurnTypeOK /\ spent.transport \in Nat /\ spent.rate \in Nat
      /\ trace.opened \in Nat /\ stream.timeouts \in 0..MaxTimeouts /\ signal \in BOOLEAN
      /\ expired \in BOOLEAN
      /\ trace \in [opened : Nat, openedLate : BOOLEAN, afterDeadline : Nat, afterSignal : Nat]
      /\ stream \in [heard : BOOLEAN, terminal : BOOLEAN, timeouts : 0..MaxTimeouts]
  BY DEF IInv, TurnTypeOK, TraceType
<1>1. CASE Open
  <2>1. /\ phase = "gate" /\ phase' = "poll" /\ stream' = Silent
        /\ trace' = [trace EXCEPT !.opened = @ + 1, !.openedLate = expired]
        /\ UNCHANGED <<spent, result, shadow, got, expired, signal, config>>
    BY <1>1 DEF Open, NothingRead, Still
  <2>2. stream' \in [heard : BOOLEAN, terminal : BOOLEAN, timeouts : 0..MaxTimeouts]
    BY <2>1 DEF Silent
  <2>3. /\ trace'.opened = trace.opened + 1 /\ trace'.openedLate = expired
        /\ trace'.afterDeadline = trace.afterDeadline /\ trace'.afterSignal = trace.afterSignal
        /\ TraceType'
    <3> DEFINE t == [trace EXCEPT !.opened = @ + 1]
    <3>1. /\ t \in [opened : Nat, openedLate : BOOLEAN, afterDeadline : Nat, afterSignal : Nat]
          /\ t.opened = trace.opened + 1 /\ t.afterDeadline = trace.afterDeadline
          /\ t.afterSignal = trace.afterSignal
      BY <1>a
    <3>2. trace' = [t EXCEPT !.openedLate = expired]
      BY <1>a, <2>1
    <3> HIDE DEF t
    <3>3. QED
      BY <1>a, <3>1, <3>2 DEF TraceType
  <2>4. TurnTypeOK'
    BY <2>1, <2>2 DEF IInv, TurnTypeOK, Phases
  <2>5. Counted'
    BY <1>a, <2>1, <2>3 DEF IInv, Counted
  <2>6. Matched' /\ Whole'
    BY <2>1, <2>3 DEF IInv, Matched, AnswerIsOneStreams, Whole, ServedIsWhole, Silent
  <2>7. Timely'
    BY <2>1, <2>3 DEF IInv, Timely
  <2>8. QED
    BY <2>3, <2>4, <2>5, <2>6, <2>7 DEF IInv
<1>2. CASE GateCancelled \/ GatePoisoned \/ WaitCancelled \/ SleepCancelled
           \/ FallbackCancelled \/ FallbackAnswers \/ FallbackTimesOut
  BY <1>2, FinishKeeps DEF GateCancelled, GatePoisoned, WaitCancelled, SleepCancelled,
       FallbackCancelled, FallbackAnswers, FallbackTimesOut, NothingRead, Still
<1>3. CASE Poll
  <2>0. phase = "poll" /\ UNCHANGED <<stream, trace, shadow, got, expired, signal, config>>
    BY <1>3 DEF Poll, NothingRead, Still
  <2>1. CASE expired /\ TryFallback
    <3>1. Aftermath /\ phase' # "sleep"
      BY <1>a, <2>1, FailuresLead DEF TryFallback, Finish
    <3>2. QED
      BY <1>a, <2>0, <3>1, FailureKeeps
  <2>2. CASE Finish("Cancelled") /\ UNCHANGED spent
    BY <2>0, <2>2, FinishKeeps
  <2>3. CASE ~expired /\ ~signal /\ phase' = "wait" /\ UNCHANGED <<result, spent>>
    <3>1. TurnTypeOK' /\ TraceType'
      BY <2>0, <2>3 DEF IInv, TurnTypeOK, TraceType, Phases
    <3>2. Counted' /\ Matched' /\ Whole' /\ Timely'
      BY <1>a, <2>0, <2>3 DEF IInv, Counted, Matched, AnswerIsOneStreams, Whole, ServedIsWhole, Timely
    <3>3. QED
      BY <3>1, <3>2 DEF IInv
  <2>4. QED
    BY <1>3, <2>1, <2>2, <2>3 DEF Poll, PastDeadline, Interrupted
<1>4. CASE WaitExpires \/ WaitFails \/ WaitMalformed
  <2>1. phase = "wait" /\ UNCHANGED <<shadow, got, expired, signal, config, trace>>
    BY <1>4 DEF WaitExpires, WaitFails, WaitMalformed, NothingRead, Still
  <2>2. stream' \in [heard : BOOLEAN, terminal : BOOLEAN, timeouts : 0..MaxTimeouts]
    <3>1. CASE stream' = stream
      BY <1>a, <3>1
    <3>2. CASE stream' = [stream EXCEPT !.heard = TRUE, !.timeouts = 0]
      <4>1. 0 \in 0..MaxTimeouts
        OBVIOUS
      <4>2. QED
        BY <1>a, <3>2, <4>1
    <3>3. QED
      BY <1>4, <3>1, <3>2 DEF WaitExpires, WaitFails, WaitMalformed
  <2>3. Aftermath
    BY <1>4, <1>a, FailuresLead DEF WaitExpires, WaitFails, WaitMalformed
  <2>4. QED
    BY <2>1, <2>2, <2>3, FailureKeeps
<1>5. CASE WaitTimesOut
  <2>1. /\ phase = "wait" /\ stream' = [stream EXCEPT !.timeouts = @ + 1]
        /\ UNCHANGED <<shadow, got, expired, signal, config, trace>>
    BY <1>5 DEF WaitTimesOut, NothingRead, Still
  <2>2. Patience \in 0..MaxTimeouts
    BY DEF Patience
  <2>3. stream'.timeouts = stream.timeouts + 1
    BY <1>a, <2>1
  <2>4. CASE stream'.timeouts >= Patience /\ Transport
    <3>1. Aftermath
      BY <1>a, <2>4, FailuresLead
    <3>2. stream.timeouts < MaxTimeouts
      BY <2>1 DEF IInv, Whole
    <3>3. stream' \in [heard : BOOLEAN, terminal : BOOLEAN, timeouts : 0..MaxTimeouts]
      BY <1>a, <2>1, <3>2
    <3>4. QED
      BY <2>1, <3>1, <3>3, FailureKeeps
  <2>5. CASE stream'.timeouts < Patience /\ phase' = "poll" /\ UNCHANGED <<result, spent>>
    <3>1. stream.timeouts + 1 \in 0..MaxTimeouts
      BY <1>a, <2>2, <2>3, <2>5
    <3>2. stream' \in [heard : BOOLEAN, terminal : BOOLEAN, timeouts : 0..MaxTimeouts]
      BY <1>a, <2>1, <3>1
    <3>3. TurnTypeOK' /\ TraceType'
      BY <2>1, <2>5, <3>2 DEF IInv, TurnTypeOK, TraceType, Phases
    <3>4. stream'.timeouts < MaxTimeouts
      BY <2>2, <2>3, <2>5, <1>a
    <3>5. stream'.terminal = stream.terminal /\ result = "None"
      BY <1>a, <2>1 DEF IInv, Whole
    <3>6. Counted' /\ Matched' /\ Timely'
      BY <1>a, <2>1, <2>5 DEF IInv, Counted, Matched, AnswerIsOneStreams, Timely
    <3>7. Whole'
      BY <2>5, <3>4, <3>5 DEF Whole, ServedIsWhole
    <3>8. QED
      BY <3>3, <3>6, <3>7 DEF IInv
  <2>6. QED
    BY <1>5, <2>4, <2>5 DEF WaitTimesOut
<1>6. CASE WaitEvent
  <2>1. /\ phase = "wait" /\ phase' = "poll" /\ UNCHANGED <<spent, result, expired, signal, config>>
        /\ trace' = [trace EXCEPT !.afterSignal = Late(@, signal),
                                  !.afterDeadline = Late(@, trace.openedLate)]
    BY <1>6 DEF WaitEvent, Heard, Still
  <2>2. /\ trace.afterDeadline = 0 /\ trace.afterSignal = 0 /\ ~trace.openedLate
        /\ result = "None" /\ trace.opened = spent.transport + spent.rate + 1
    BY <2>1 DEF IInv, Timely, Whole, Counted
  <2>3. /\ trace' \in [opened : Nat, openedLate : BOOLEAN, afterDeadline : Nat, afterSignal : Nat]
        /\ trace'.opened = trace.opened /\ trace'.openedLate = trace.openedLate
        /\ trace'.afterDeadline = 0 /\ trace'.afterSignal = IF signal THEN 1 ELSE 0
    <3> DEFINE t == [trace EXCEPT !.afterSignal = Late(@, signal)]
    <3>1. Late(trace.afterDeadline, trace.openedLate) = 0
          /\ Late(trace.afterSignal, signal) = IF signal THEN 1 ELSE 0
      BY <2>2 DEF Late
    <3>2. /\ t \in [opened : Nat, openedLate : BOOLEAN, afterDeadline : Nat, afterSignal : Nat]
          /\ t.opened = trace.opened /\ t.openedLate = trace.openedLate
          /\ t.afterSignal = IF signal THEN 1 ELSE 0
      BY <1>a, <3>1
    <3>3. trace' = [t EXCEPT !.afterDeadline = 0]
      BY <1>a, <2>1, <3>1
    <3> HIDE DEF t
    <3>4. QED
      BY <3>2, <3>3
  <2>4. /\ stream' \in [heard : BOOLEAN, terminal : BOOLEAN, timeouts : 0..MaxTimeouts]
        /\ stream'.timeouts = 0
    <3>1. 0 \in 0..MaxTimeouts /\ stream.terminal \in BOOLEAN
      BY <1>a
    <3>2. CASE stream' = [stream EXCEPT !.heard = TRUE, !.timeouts = 0]
      BY <1>a, <3>1, <3>2
    <3>3. CASE \E stop \in BOOLEAN :
                 stream' = [heard |-> TRUE, terminal |-> stream.terminal \/ stop, timeouts |-> 0]
      <4>1. PICK stop \in BOOLEAN :
              stream' = [heard |-> TRUE, terminal |-> stream.terminal \/ stop, timeouts |-> 0]
        BY <3>3
      <4>2. (stream.terminal \/ stop) \in BOOLEAN
        OBVIOUS
      <4>3. QED
        BY <3>1, <4>1, <4>2
    <3>4. QED
      BY <1>6, <3>2, <3>3 DEF WaitEvent
  <2>5. \/ UNCHANGED <<shadow, got>>
        \/ shadow' = Append(shadow, trace.opened) /\ got' = Append(got, trace.opened)
    BY <1>6 DEF WaitEvent, NothingRead
  <2>6. shadow \in Seq(Nat) /\ got = shadow /\ \A i \in 1..Len(got) : got[i] = trace.opened
    BY <2>1 DEF IInv, TurnTypeOK, Matched, AnswerIsOneStreams
  <2>7. /\ got' = shadow' /\ shadow' \in Seq(Nat)
        /\ \A i \in 1..Len(got') : got'[i] = trace.opened
    <3>a. CASE UNCHANGED <<shadow, got>>
      BY <2>6, <3>a
    <3>b. CASE shadow' = Append(shadow, trace.opened) /\ got' = Append(got, trace.opened)
      <4>1. /\ Append(shadow, trace.opened) \in Seq(Nat) /\ Len(shadow) \in Nat
            /\ Len(Append(shadow, trace.opened)) = Len(shadow) + 1
        BY <1>a, <2>6
      <4>2. ASSUME NEW i \in 1..(Len(shadow) + 1)
            PROVE  Append(shadow, trace.opened)[i] = trace.opened
        <5>1. CASE i \in 1..Len(shadow)
          BY <2>6, <5>1
        <5>2. CASE i = Len(shadow) + 1
          BY <2>6, <5>2
        <5>3. QED
          BY <4>1, <5>1, <5>2
      <4>3. QED
        BY <2>6, <3>b, <4>1, <4>2
    <3>c. QED
      BY <2>5, <3>a, <3>b
  <2>9. TurnTypeOK' /\ TraceType'
    BY <2>1, <2>3, <2>4, <2>7 DEF IInv, TurnTypeOK, TraceType, Phases
  <2>10. Counted' /\ Matched'
    BY <2>1, <2>2, <2>3, <2>7 DEF IInv, Counted, Matched, AnswerIsOneStreams
  <2>11. Whole' /\ Timely'
    BY <1>a, <2>1, <2>2, <2>3, <2>4 DEF IInv, Whole, ServedIsWhole, Timely
  <2>12. QED
    BY <2>9, <2>10, <2>11 DEF IInv
<1>7. CASE WaitEnds
  <2>1. phase = "wait" /\ UNCHANGED <<stream, trace, shadow, got, expired, signal, config>>
    BY <1>7 DEF WaitEnds, NothingRead, Still
  <2>2. CASE Truncated /\ Transport
    <3>1. Aftermath
      BY <1>a, <2>2, FailuresLead
    <3>2. QED
      BY <1>a, <2>1, <3>1, FailureKeeps
  <2>3. CASE stream.terminal /\ Finish("Served") /\ UNCHANGED spent
    <3>1. TurnTypeOK' /\ TraceType'
      BY <2>1, <2>3 DEF IInv, TurnTypeOK, TraceType, Finish, Phases, Results
    <3>2. Counted' /\ Matched' /\ Whole' /\ Timely'
      BY <1>a, <2>1, <2>3
      DEF IInv, Counted, Matched, AnswerIsOneStreams, Whole, ServedIsWhole, Timely, Finish
    <3>3. QED
      BY <3>1, <3>2 DEF IInv
  <2>4. QED
    BY <1>7, <2>2, <2>3 DEF WaitEnds, Truncated
<1>8. CASE Wake
  <2>1. /\ phase = "sleep" /\ phase' = "gate" /\ shadow' = <<>> /\ got' = <<>>
        /\ UNCHANGED <<spent, stream, result, trace, expired, signal, config>>
    BY <1>8 DEF Wake, Restarted, Still
  <2>2. TurnTypeOK' /\ TraceType'
    BY <2>1 DEF IInv, TurnTypeOK, TraceType, Phases
  <2>3. Counted' /\ Matched' /\ Whole' /\ Timely'
    BY <1>a, <2>1 DEF IInv, Counted, Matched, AnswerIsOneStreams, Whole, ServedIsWhole, Timely
  <2>4. QED
    BY <2>2, <2>3 DEF IInv
<1>9. CASE Expire \/ HostCancels
  <2>1. /\ UNCHANGED <<phase, spent, stream, shadow, got, result, config, trace>>
        /\ signal' \in BOOLEAN /\ expired' \in BOOLEAN
        /\ (signal => signal') /\ (expired => expired')
    BY <1>9, <1>a DEF Expire, HostCancels
  <2>2. TurnTypeOK' /\ TraceType'
    BY <2>1 DEF IInv, TurnTypeOK, TraceType
  <2>3. Counted' /\ Matched' /\ Whole' /\ Timely'
    BY <2>1 DEF IInv, Counted, Matched, AnswerIsOneStreams, Whole, ServedIsWhole, Timely
  <2>4. QED
    BY <2>2, <2>3 DEF IInv
<1>10. CASE UNCHANGED turnVars
  BY <1>10 DEF turnVars, IInv, TurnTypeOK, TraceType, Counted, Matched, AnswerIsOneStreams,
               Whole, ServedIsWhole, Timely
<1>11. QED
  BY <1>1, <1>2, <1>3, <1>4, <1>5, <1>6, <1>7, <1>8, <1>9, <1>10
  DEF TurnNext, Reacts, Provider, Timers

-----------------------------------------------------------------------------
\* The invariant holds throughout the turn.
THEOREM TurnInvariant == TurnSpec => []IInv
<1>1. QED
  BY InvInit, InvNext, PTL DEF TurnSpec

\* The generator's and the driver's variables keep their types and their bounds.
THEOREM TypeCorrect == TurnSpec => []TurnTypeOK
<1>1. IInv => TurnTypeOK
  BY DEF IInv
<1>2. QED
  BY TurnInvariant, <1>1, PTL

\* No mixture of failures makes a turn ask more often than its budgets allow.
THEOREM RequestsAlwaysWithinBudget == TurnSpec => []RequestsWithinBudget
<1>1. IInv => RequestsWithinBudget
  <2> USE RetriesAssumption, LadderAssumption
  <2>1. SUFFICES ASSUME IInv PROVE trace.opened \in 0..(1 + MaxRetries + config.escalate)
    BY DEF RequestsWithinBudget, Streams
  <2>2. /\ spent.transport \in 0..MaxRetries /\ spent.rate \in 0..config.escalate
        /\ trace.opened \in Nat /\ trace.opened <= spent.transport + spent.rate + 1
        /\ config.escalate \in 0..RateRetries
    BY <2>1 DEF IInv, TurnTypeOK, Configs, TraceType, Counted
  <2>3. QED
    BY <2>2
<1>2. QED
  BY TurnInvariant, <1>1, PTL

\* Failures are reported with the number of streams that were opened.
THEOREM AttemptsAlwaysCounted == TurnSpec => []AttemptsAreCounted
<1>1. IInv => AttemptsAreCounted
  BY DEF IInv, Counted, AttemptsAreCounted, ReportedAttempts
<1>2. QED
  BY TurnInvariant, <1>1, PTL

\* The answer the driver assembles is that of one stream, and it is whole.
THEOREM AnswerAlwaysOneStreams == TurnSpec => []AnswerIsWhole
<1>1. IInv => AnswerIsWhole
  BY DEF IInv, Matched, Whole, AnswerIsWhole
<1>2. QED
  BY TurnInvariant, <1>1, PTL

\* Neither a cancelled run nor a spent deadline is followed by more events than
\* the one already at hand.
THEOREM StopsInTime == TurnSpec => []StopsListening
<1>1. IInv => StopsListening
  BY DEF IInv, Timely, OneEventAfterCancel, DeadlineEndsStreaming, StopsListening
<1>2. QED
  BY TurnInvariant, <1>1, PTL

-----------------------------------------------------------------------------
(* The message: sequences that are built step by step. *)

\* A set of numbers has a least one.
LEMMA LeastNumber ==
  ASSUME NEW S \in SUBSET Nat, S # {}
  PROVE  \E m \in S : \A k \in S : m <= k
<1>1. S \subseteq Nat
  OBVIOUS
<1>2. PICK m \in S : \A k \in S : ~(<<k, m>> \in OpToRel(<, Nat))
  BY <1>1, NatLessThanWellFounded, WFMin, Zenon
<1>3. \A k \in S : k \in Nat /\ m \in Nat /\ ~(k < m)
  BY <1>2 DEF OpToRel
<1>4. QED
  BY <1>3

\* A function that is defined step by step exists, and its values have the type
\* that each step keeps.
StepByStep(g, n, start, F) ==
  g = [i \in 0..n |-> IF i = 0 THEN start ELSE F[i][g[i-1]]]

LEMMA StepsExist ==
  ASSUME NEW V, NEW start \in V, NEW n \in Nat, NEW F \in [1..n -> [V -> V]]
  PROVE  \E g \in [0..n -> V] : StepByStep(g, n, start, F)
<1> DEFINE Good(m) == \E g \in [0..m -> V] :
                        g[0] = start /\ \A i \in 1..m : g[i] = F[i][g[i-1]]
           Bad == {m \in 0..n : ~Good(m)}
<1>1. Bad = {}
  <2>1. SUFFICES ASSUME Bad # {} PROVE FALSE
    OBVIOUS
  <2>2. PICK m \in Bad : \A k \in Bad : m <= k
    <3>1. Bad \in SUBSET Nat
      OBVIOUS
    <3> HIDE DEF Bad
    <3>2. QED
      BY <2>1, <3>1, LeastNumber
  <2>3. m \in 0..n /\ ~Good(m)
    OBVIOUS
  <2>4. CASE m = 0
    <3> DEFINE h == [i \in 0..0 |-> start]
    <3>1. h \in [0..0 -> V] /\ h[0] = start /\ 1..0 = {}
      OBVIOUS
    <3> HIDE DEF h
    <3>2. Good(0)
      BY <3>1
    <3>3. QED
      BY <2>3, <2>4, <3>2
  <2>5. CASE m # 0
    <3>1. m - 1 \in 0..n /\ ~(m <= m - 1) /\ m \in 1..n
      BY <2>3, <2>5
    <3>2. Good(m-1)
      BY <2>2, <3>1
    <3>3. PICK g \in [0..(m-1) -> V] : g[0] = start /\ \A i \in 1..(m-1) : g[i] = F[i][g[i-1]]
      BY <3>2
    <3> DEFINE h == [i \in 0..m |-> IF i = m THEN F[m][g[m-1]] ELSE g[i]]
    <3>4. h \in [0..m -> V]
      <4>1. g[m-1] \in V /\ F[m] \in [V -> V]
        BY <3>1
      <4>2. \A i \in 0..m : i # m => i \in 0..(m-1)
        BY <3>1
      <4>3. QED
        BY <4>1, <4>2
    <3>5. h[0] = start
      BY <3>1, <3>3
    <3>6. ASSUME NEW i \in 1..m PROVE h[i] = F[i][h[i-1]]
      <4>1. i - 1 \in 0..m /\ i \in 0..m /\ i - 1 # m
        BY <3>1
      <4>2. h[i-1] = g[i-1]
        BY <4>1
      <4>3. CASE i = m
        BY <4>1, <4>2, <4>3
      <4>4. CASE i # m
        <5>1. i \in 1..(m-1)
          BY <3>1, <4>4
        <5>2. QED
          BY <3>3, <4>1, <4>2, <4>4, <5>1
      <4>5. QED
        BY <4>3, <4>4
    <3>7. Good(m)
      <4> HIDE DEF h
      <4>1. QED
        BY <3>4, <3>5, <3>6
    <3>8. QED
      BY <2>3, <3>7
  <2>6. QED
    BY <2>4, <2>5
<1>2. Good(n)
  <2>1. n \in 0..n
    OBVIOUS
  <2> HIDE DEF Good
  <2>2. QED
    BY <1>1, <2>1
<1>3. PICK g \in [0..n -> V] : g[0] = start /\ \A i \in 1..n : g[i] = F[i][g[i-1]]
  BY <1>2
<1>4. StepByStep(g, n, start, F)
  <2>1. ASSUME NEW i \in 0..n PROVE g[i] = IF i = 0 THEN start ELSE F[i][g[i-1]]
    BY <1>3
  <2>2. QED
    BY <2>1 DEF StepByStep
<1>5. QED
  BY <1>4

-----------------------------------------------------------------------------
(* The invariant. *)

Slot        == [index : Nat, part : Part]
Accumulator == [slots : Seq(Slot), parts : Seq(Part), broken : BOOLEAN]
Wire        == [sent : Nat, told : Seq(Part), whole : SUBSET Part, ended : BOOLEAN,
                cut : BOOLEAN, resumed : BOOLEAN, block : Lane \cup {"none", "other"},
                blocks : Nat]

-----------------------------------------------------------------------------
(* What the accumulator holds of what was told. *)

\* As many slots have an index as there are stops to come for it, two at most.
None(s, i)      == \A j \in 1..Len(s) : s[j].index # i
One(s, i, j)    == j \in 1..Len(s) /\ \A h \in 1..Len(s) : s[h].index = i <=> h = j
Two(s, i, j, g) == /\ j \in 1..Len(s) /\ g \in 1..Len(s) /\ j < g
                   /\ \A h \in 1..Len(s) : s[h].index = i <=> h = j \/ h = g
Has(s, i, n) == \/ n = 0 /\ None(s, i)
                \/ n = 1 /\ \E j \in 1..Len(s) : One(s, i, j)
                \/ n = 2 /\ \E j \in 1..Len(s) : \E g \in 1..Len(s) : Two(s, i, j, g)

\* Of the slots of a kind the first holds what the kind got since, and the others
\* nothing; their index is the kind's.
Mute(s, k) == \A j \in 1..Len(s) : s[j].part.kind = k => s[j].part.got = <<>>
Told(s, k, since, j) ==
  /\ s[j].part.kind = k /\ s[j].part.got = since
  /\ \A g \in 1..Len(s) : s[g].part.kind = k /\ g # j => j < g /\ s[g].part.got = <<>>
Holds(s, k, since) == (since = <<>> /\ Mute(s, k)) \/ \E j \in 1..Len(s) : Told(s, k, since, j)
OneIndex(s, k) == \A j \in 1..Len(s) : s[j].part.kind = k => s[j].index = IndexOf(k)
Sums(a, told, k) ==
  \E since \in Seq(Nat) : Holds(a.slots, k, since) /\ AllOf(k, told) = AllOf(k, a.parts) \o since
Narrated(a, told) == \A k \in Narrative : OneIndex(a.slots, k) /\ Sums(a, told, k)

\* Each call is in one place, and each slot of a call has its index.
IsCall(p, id) == p.kind = "call" /\ p.id = id
Slotted(a, told, j) ==
  /\ a.slots[j].part \in Calls(told) /\ a.slots[j].index + 1 = a.slots[j].part.id
  /\ \A g \in 1..Len(a.slots) : IsCall(a.slots[g].part, a.slots[j].part.id) => g = j
  /\ \A p \in PartsOf(a.parts) : ~IsCall(p, a.slots[j].part.id)
Called(a, told) ==
  /\ Calls(a.parts) \subseteq Calls(told) /\ Once(a.parts)
  /\ \A j \in 1..Len(a.slots) : a.slots[j].part.kind = "call" => Slotted(a, told, j)
  /\ \A p \in Calls(told) : p \in PartsOf(a.parts) \/ \E j \in 1..Len(a.slots) : a.slots[j].part = p

\* The stops to come: of the lanes in O, and of the calls at m up to n.
Owed(O, m, n) == [i \in Nat |-> (IF m <= i /\ i < n THEN 1 ELSE 0)
                                + (IF \E k \in O : IndexOf(k) = i THEN 1 ELSE 0)]
Owes(a, O, m, n) == \A i \in Nat : Has(a.slots, i, Owed(O, m, n)[i])
Standing(a, O)   == \A k \in O : \E j \in 1..Len(a.slots) : a.slots[j].part.kind = k

Good(a, told, O, m, n) ==
  /\ a \in Accumulator /\ ~a.broken
  /\ Owes(a, O, m, n) /\ Standing(a, O) /\ Narrated(a, told) /\ Called(a, told)

\* The open parts are the last that were told, in their order.
InOrder(a, told) ==
  LET n == Len(a.slots)
      m == Len(told) - n IN
  /\ n <= Len(told) /\ a.parts = Filled(SubSeq(told, 1, m))
  /\ \A j \in 1..n : a.slots[j].part = told[m + j]
OnlyCalls(a) == \A j \in 1..Len(a.slots) : a.slots[j].part.kind = "call"

Held == [slots |-> slots, parts |-> parts, broken |-> FALSE]
OpenLanes == {k \in Narrative : IsOpen(k)}

\* The calls that were told are numbered in their order.
Numbered(told, n) ==
  /\ \A t \in 1..Len(told) : told[t].kind = "call" => told[t].id \in 1..n
  /\ \A t, u \in 1..Len(told) :
       told[t].kind = "call" /\ told[u].kind = "call" /\ t < u => told[t].id < told[u].id

Lasts(told, k) == told # <<>> /\ told[Len(told)].kind = k
CallsOwed == IF dialect = "openai" /\ ~emitter.finished THEN emitter.calls ELSE 0

\* Of a chunked wire.  Narrative that is open is what was told last, and every
\* call before it is whole.
ChunkInv ==
  /\ emitter.finished <=> wire.ended
  /\ Good(Held, wire.told, OpenLanes, 0, CallsOwed)
  /\ ~wire.resumed => InOrder(Held, wire.told)
  /\ Numbered(wire.told, emitter.calls)
  /\ emitter.calls > 0 => Calls(wire.told) # {}
  /\ \A k \in Lane : emitter.at[k] = IF k \in OpenLanes THEN IndexOf(k) ELSE NoIndex
  /\ \A k \in Narrative : k \in OpenLanes <=> ~wire.ended /\ Lasts(wire.told, k)
  /\ OpenLanes # {} => Incomplete(wire) = {}
  /\ ~wire.ended => Calls(parts) \subseteq wire.whole
  /\ dialect = "openai" /\ ~wire.resumed /\ emitter.calls > 0 => OpenLanes = {} /\ OnlyCalls(Held)
  /\ dialect = "gemini" => ~wire.resumed /\ Incomplete(wire) = {}

\* Of a wire of blocks.  At most one part is open, the block's: to Converse another
\* kind of block is a text that was not told.
Stands == wire.block \in Lane \/ (wire.block = "other" /\ dialect = "converse")
BlockInv ==
  /\ ~emitter.finished /\ ~wire.resumed /\ Numbered(wire.told, wire.blocks)
  /\ IF Stands THEN /\ Len(slots) = 1 /\ slots[1].index + 1 = wire.blocks
                    /\ slots[1].part.id = wire.blocks
     ELSE slots = <<>>
  /\ IF wire.block = "other"
     THEN parts = Filled(wire.told) /\ (Stands => slots[1].part = NewPart("text", wire.blocks))
     ELSE InOrder(Held, wire.told)
  /\ wire.block \in Lane => slots[1].part.kind = wire.block
  /\ dialect = "anthropic" =>
       /\ emitter.calls = IF wire.block = "call" THEN 1 ELSE 0
       /\ \A k \in Lane : emitter.at[k] = IF wire.block = k THEN wire.blocks - 1 ELSE NoIndex

Typed == /\ dialect \in Dialects /\ outcome \in Endings
         /\ emitter \in Emitter /\ Held \in Accumulator /\ wire \in Wire

LaneInv == /\ Typed
           /\ outcome = "none" => IF dialect \in Chunked THEN ChunkInv ELSE BlockInv
           /\ PartsAreWhole

-----------------------------------------------------------------------------
(* Sequences of parts. *)

SameUpTo(F, G, n) == \A i \in 1..n : F[i] = G[i]

BuiltAlike(n, start, F, G, g, h, l, m) ==
  /\ n \in Nat /\ l \in Nat /\ m \in Nat /\ n <= l /\ n <= m
  /\ StepByStep(g, l, start, F) /\ StepByStep(h, m, start, G) /\ SameUpTo(F, G, n)

\* Values that are built alike up to n are alike.
LEMMA SameSteps ==
  ASSUME NEW n, NEW start, NEW F, NEW G, NEW g, NEW h, NEW l, NEW m,
         BuiltAlike(n, start, F, G, g, h, l, m)
  PROVE  g[n] = h[n]
<1> DEFINE Bad == {i \in 0..n : g[i] # h[i]}
<1>0. n \in Nat /\ l \in Nat /\ m \in Nat /\ n <= l /\ n <= m /\ SameUpTo(F, G, n)
  BY DEF BuiltAlike
<1>1. /\ \A i \in 0..l : g[i] = IF i = 0 THEN start ELSE F[i][g[i-1]]
      /\ \A i \in 0..m : h[i] = IF i = 0 THEN start ELSE G[i][h[i-1]]
  BY DEF BuiltAlike, StepByStep
<1>2. Bad = {}
  <2>1. SUFFICES ASSUME Bad # {} PROVE FALSE
    OBVIOUS
  <2>2. PICK i \in Bad : \A j \in Bad : i <= j
    <3>1. Bad \in SUBSET Nat
      BY <1>0
    <3> HIDE DEF Bad
    <3>2. QED
      BY <2>1, <3>1, LeastNumber
  <2>3. i \in 0..n /\ g[i] # h[i] /\ i \in 0..l /\ i \in 0..m
    BY <1>0
  <2>4. i # 0
    <3>1. 0 \in 0..l /\ 0 \in 0..m
      BY <1>0
    <3>2. g[0] = h[0]
      BY <1>1, <3>1
    <3>3. QED
      BY <2>3, <3>2
  <2>5. i - 1 \in 0..n /\ i \in 1..n /\ ~(i <= i - 1)
    BY <1>0, <2>3, <2>4
  <2>6. g[i-1] = h[i-1]
    BY <2>2, <2>5
  <2>7. g[i] = F[i][g[i-1]] /\ h[i] = G[i][h[i-1]] /\ F[i] = G[i]
    BY <1>0, <1>1, <2>3, <2>4, <2>5 DEF SameUpTo
  <2>8. QED
    BY <2>3, <2>6, <2>7
<1>3. QED
  BY <1>0, <1>2

\* What parts of a kind got, step by step.
Gather(k, p)  == IF p.kind = k THEN [since \in Seq(Nat) |-> since \o p.got] ELSE [since \in Seq(Nat) |-> since]
Gathers(k, s) == [i \in 1..Len(s) |-> Gather(k, s[i])]

LEMMA AllOfSteps ==
  ASSUME NEW k, NEW s \in Seq(Part)
  PROVE  \E g \in [0..Len(s) -> Seq(Nat)] :
           StepByStep(g, Len(s), <<>>, Gathers(k, s)) /\ AllOf(k, s) = g[Len(s)]
<1> DEFINE n == Len(s)
           F == Gathers(k, s)
           Body(g) == [i \in 0..n |-> IF i = 0 THEN <<>>
                                      ELSE IF s[i].kind = k THEN g[i-1] \o s[i].got ELSE g[i-1]]
           all == CHOOSE g : g = Body(g)
<1>1. n \in Nat /\ <<>> \in Seq(Nat)
  OBVIOUS
<1>2. F \in [1..n -> [Seq(Nat) -> Seq(Nat)]]
  <2>1. ASSUME NEW i \in 1..n PROVE Gather(k, s[i]) \in [Seq(Nat) -> Seq(Nat)]
    <3>1. s[i] \in Part
      OBVIOUS
    <3>2. s[i].got \in Seq(Nat)
      BY <3>1 DEF Part
    <3>3. QED
      BY <3>2 DEF Gather
  <2>2. QED
    BY <2>1 DEF Gathers, Gather
<1>3. ASSUME NEW g \in [0..n -> Seq(Nat)], NEW i \in 0..n, i # 0
      PROVE  F[i][g[i-1]] = IF s[i].kind = k THEN g[i-1] \o s[i].got ELSE g[i-1]
  <2>1. i \in 1..n /\ i - 1 \in 0..n
    BY <1>3
  <2>2. QED
    BY <2>1 DEF Gathers, Gather
<1> HIDE DEF F
<1>4. PICK g \in [0..n -> Seq(Nat)] : StepByStep(g, n, <<>>, F)
  <2> HIDE DEF n
  <2>1. QED
    BY <1>1, <1>2, StepsExist
<1>5. g = Body(g)
  <2>1. \A i \in 0..n : (IF i = 0 THEN <<>> ELSE F[i][g[i-1]]) =
          (IF i = 0 THEN <<>> ELSE IF s[i].kind = k THEN g[i-1] \o s[i].got ELSE g[i-1])
    BY <1>3
  <2>2. g = [i \in 0..n |-> IF i = 0 THEN <<>> ELSE F[i][g[i-1]]]
    BY <1>4 DEF StepByStep
  <2>3. QED
    BY <2>1, <2>2
<1>6. all = Body(all)
  BY <1>5
<1>7. \A i \in 0..n : all[i] = IF i = 0 THEN <<>>
                               ELSE IF s[i].kind = k THEN all[i-1] \o s[i].got ELSE all[i-1]
  <2>1. \A i \in 0..n : all[i] = Body(all)[i]
    BY <1>6
  <2> HIDE DEF all
  <2>2. QED
    BY <2>1
<1>8. all = g
  <2> DEFINE Bad == {i \in 0..n : all[i] # g[i]}
  <2>1. Bad = {}
    <3>1. SUFFICES ASSUME Bad # {} PROVE FALSE
      OBVIOUS
    <3> HIDE DEF all
    <3>2. PICK i \in Bad : \A j \in Bad : i <= j
      <4>1. Bad \in SUBSET Nat
        OBVIOUS
      <4> HIDE DEF Bad
      <4>2. QED
        BY <3>1, <4>1, LeastNumber
    <3>3. i \in 0..n /\ all[i] # g[i]
      OBVIOUS
    <3>4. \A j \in 0..n : g[j] = Body(g)[j]
      BY <1>5
    <3>5. i # 0
      BY <1>7, <3>3, <3>4
    <3>6. i - 1 \in 0..n /\ ~(i <= i - 1)
      BY <3>3, <3>5
    <3>7. all[i-1] = g[i-1]
      BY <3>2, <3>6
    <3>8. QED
      BY <1>7, <3>3, <3>4, <3>5, <3>7
  <2>2. DOMAIN all = 0..n /\ all = [i \in 0..n |-> all[i]]
    <3>1. Body(all) = [i \in 0..n |-> Body(all)[i]] /\ DOMAIN Body(all) = 0..n
      OBVIOUS
    <3>2. QED
      BY <1>6, <3>1, Zenon
  <2> HIDE DEF all
  <2>3. \A i \in 0..n : all[i] = g[i]
    BY <2>1
  <2>4. g = [i \in 0..n |-> g[i]]
    OBVIOUS
  <2>5. QED
    BY <2>2, <2>3, <2>4
<1>9. AllOf(k, s) = all[n]
  BY DEF AllOf
<1>10. QED
  BY <1>4, <1>8, <1>9 DEF F

LEMMA AllOfProperties ==
  ASSUME NEW k
  PROVE  /\ AllOf(k, <<>>) = <<>>
         /\ \A s \in Seq(Part) : AllOf(k, s) \in Seq(Nat)
         /\ \A s \in Seq(Part) : \A p \in Part :
              AllOf(k, Append(s, p)) = IF p.kind = k THEN AllOf(k, s) \o p.got ELSE AllOf(k, s)
         /\ \A s, t \in Seq(Part) :
              Len(s) = Len(t) /\ (\A i \in 1..Len(s) : s[i] = t[i] \/ (s[i].kind # k /\ t[i].kind # k)) =>
                AllOf(k, s) = AllOf(k, t)
<1>1. AllOf(k, <<>>) = <<>>
  <2>1. <<>> \in Seq(Part) /\ Len(<<>>) = 0
    OBVIOUS
  <2>2. PICK g \in [0..0 -> Seq(Nat)] : StepByStep(g, 0, <<>>, Gathers(k, <<>>)) /\ AllOf(k, <<>>) = g[0]
    BY <2>1, AllOfSteps
  <2>3. g[0] = <<>>
    BY <2>2 DEF StepByStep
  <2>4. QED
    BY <2>2, <2>3
<1>2. ASSUME NEW s \in Seq(Part) PROVE AllOf(k, s) \in Seq(Nat)
  <2>1. PICK g \in [0..Len(s) -> Seq(Nat)] : AllOf(k, s) = g[Len(s)]
    BY AllOfSteps
  <2>2. Len(s) \in 0..Len(s)
    OBVIOUS
  <2>3. QED
    BY <2>1, <2>2
<1>3. ASSUME NEW s \in Seq(Part), NEW p \in Part
      PROVE  AllOf(k, Append(s, p)) = IF p.kind = k THEN AllOf(k, s) \o p.got ELSE AllOf(k, s)
  <2> DEFINE t == Append(s, p)
             n == Len(s)
  <2>1. t \in Seq(Part) /\ Len(t) = n + 1 /\ n \in Nat /\ t[n+1] = p /\ \A i \in 1..n : t[i] = s[i]
    OBVIOUS
  <2>2. PICK g \in [0..n -> Seq(Nat)] : StepByStep(g, n, <<>>, Gathers(k, s)) /\ AllOf(k, s) = g[n]
    BY AllOfSteps
  <2>3. PICK h \in [0..n+1 -> Seq(Nat)] : StepByStep(h, n+1, <<>>, Gathers(k, t)) /\ AllOf(k, t) = h[n+1]
    BY <2>1, AllOfSteps
  <2> HIDE DEF t
  <2>4. SameUpTo(Gathers(k, s), Gathers(k, t), n)
    BY <2>1 DEF SameUpTo, Gathers
  <2>5. g[n] = h[n]
    <3>1. n <= n /\ n <= n + 1 /\ n + 1 \in Nat
      BY <2>1
    <3> HIDE DEF n
    <3>2. BuiltAlike(n, <<>>, Gathers(k, s), Gathers(k, t), g, h, n, n + 1)
      BY <2>1, <2>2, <2>3, <2>4, <3>1 DEF BuiltAlike
    <3>3. QED
      BY <3>2, SameSteps
  <2>6. h[n+1] = Gathers(k, t)[n+1][h[n]] /\ h[n] \in Seq(Nat)
    <3>1. n + 1 \in 0..n+1 /\ n + 1 # 0 /\ n + 1 - 1 = n /\ n \in 0..n+1
      BY <2>1
    <3>2. h[n+1] = Gathers(k, t)[n+1][h[n+1-1]]
      BY <2>3, <3>1 DEF StepByStep
    <3>3. QED
      BY <2>3, <3>1, <3>2
  <2>7. Gathers(k, t)[n+1][h[n]] = IF p.kind = k THEN h[n] \o p.got ELSE h[n]
    BY <2>1, <2>6 DEF Gathers, Gather
  <2>8. QED
    BY <2>2, <2>3, <2>5, <2>6, <2>7 DEF t
<1>4. ASSUME NEW s \in Seq(Part), NEW t \in Seq(Part), Len(s) = Len(t),
             \A i \in 1..Len(s) : s[i] = t[i] \/ (s[i].kind # k /\ t[i].kind # k)
      PROVE  AllOf(k, s) = AllOf(k, t)
  <2> DEFINE n == Len(s)
  <2>1. PICK g \in [0..n -> Seq(Nat)] : StepByStep(g, n, <<>>, Gathers(k, s)) /\ AllOf(k, s) = g[n]
    BY AllOfSteps
  <2>2. PICK h \in [0..n -> Seq(Nat)] : StepByStep(h, n, <<>>, Gathers(k, t)) /\ AllOf(k, t) = h[n]
    BY <1>4, AllOfSteps
  <2>3. SameUpTo(Gathers(k, s), Gathers(k, t), n)
    BY <1>4 DEF SameUpTo, Gathers, Gather
  <2>4. n \in Nat /\ n <= n
    OBVIOUS
  <2> HIDE DEF n
  <2>5. g[n] = h[n]
    <3>1. BuiltAlike(n, <<>>, Gathers(k, s), Gathers(k, t), g, h, n, n)
      BY <2>1, <2>2, <2>3, <2>4 DEF BuiltAlike
    <3>2. QED
      BY <3>1, SameSteps
  <2>6. QED
    BY <2>1, <2>2, <2>5
<1>5. QED
  BY <1>1, <1>2, <1>3, <1>4

\* The same for the parts that are not empty.
Keep(p)  == [kept \in Seq(Part) |-> IF Empty(p) THEN kept ELSE Append(kept, p)]
Keeps(s) == [i \in 1..Len(s) |-> Keep(s[i])]

LEMMA FilledSteps ==
  ASSUME NEW s \in Seq(Part)
  PROVE  \E g \in [0..Len(s) -> Seq(Part)] :
           StepByStep(g, Len(s), <<>>, Keeps(s)) /\ Filled(s) = g[Len(s)]
<1> DEFINE n == Len(s)
           F == Keeps(s)
           Body(g) == [i \in 0..n |-> IF i = 0 THEN <<>>
                                      ELSE IF Empty(s[i]) THEN g[i-1] ELSE Append(g[i-1], s[i])]
           filled == CHOOSE g : g = Body(g)
<1>1. n \in Nat /\ <<>> \in Seq(Part)
  OBVIOUS
<1>2. F \in [1..n -> [Seq(Part) -> Seq(Part)]]
  BY DEF Keeps, Keep
<1>3. ASSUME NEW g \in [0..n -> Seq(Part)], NEW i \in 0..n, i # 0
      PROVE  F[i][g[i-1]] = IF Empty(s[i]) THEN g[i-1] ELSE Append(g[i-1], s[i])
  <2>1. i \in 1..n /\ i - 1 \in 0..n
    BY <1>3
  <2>2. QED
    BY <2>1 DEF Keeps, Keep
<1> HIDE DEF F
<1>4. PICK g \in [0..n -> Seq(Part)] : StepByStep(g, n, <<>>, F)
  <2> HIDE DEF n
  <2>1. QED
    BY <1>1, <1>2, StepsExist
<1>5. g = Body(g)
  <2>1. \A i \in 0..n : (IF i = 0 THEN <<>> ELSE F[i][g[i-1]]) =
          (IF i = 0 THEN <<>> ELSE IF Empty(s[i]) THEN g[i-1] ELSE Append(g[i-1], s[i]))
    BY <1>3
  <2>2. g = [i \in 0..n |-> IF i = 0 THEN <<>> ELSE F[i][g[i-1]]]
    BY <1>4 DEF StepByStep
  <2>3. QED
    BY <2>1, <2>2
<1>6. filled = Body(filled)
  BY <1>5
<1>7. \A i \in 0..n : filled[i] = IF i = 0 THEN <<>>
                               ELSE IF Empty(s[i]) THEN filled[i-1] ELSE Append(filled[i-1], s[i])
  <2>1. \A i \in 0..n : filled[i] = Body(filled)[i]
    BY <1>6
  <2> HIDE DEF filled
  <2>2. QED
    BY <2>1
<1>8. filled[n] = g[n]
  <2> DEFINE Bad == {i \in 0..n : filled[i] # g[i]}
  <2>1. Bad = {}
    <3>1. SUFFICES ASSUME Bad # {} PROVE FALSE
      OBVIOUS
    <3> HIDE DEF filled
    <3>2. PICK i \in Bad : \A j \in Bad : i <= j
      <4>1. Bad \in SUBSET Nat
        OBVIOUS
      <4> HIDE DEF Bad
      <4>2. QED
        BY <3>1, <4>1, LeastNumber
    <3>3. i \in 0..n /\ filled[i] # g[i]
      OBVIOUS
    <3>4. \A j \in 0..n : g[j] = Body(g)[j]
      BY <1>5
    <3>5. i # 0
      BY <1>7, <3>3, <3>4
    <3>6. i - 1 \in 0..n /\ ~(i <= i - 1)
      BY <3>3, <3>5
    <3>7. filled[i-1] = g[i-1]
      BY <3>2, <3>6
    <3>8. QED
      BY <1>7, <3>3, <3>4, <3>5, <3>7
  <2> HIDE DEF filled
  <2>2. n \in 0..n
    BY <1>1
  <2>3. QED
    BY <2>1, <2>2
<1>9. Filled(s) = filled[n]
  BY DEF Filled
<1>10. QED
  BY <1>4, <1>8, <1>9 DEF F

LEMMA FilledProperties ==
  /\ Filled(<<>>) = <<>>
  /\ \A s \in Seq(Part) : \A p \in Part :
       Filled(Append(s, p)) = IF Empty(p) THEN Filled(s) ELSE Append(Filled(s), p)
<1>1. Filled(<<>>) = <<>>
  <2>1. <<>> \in Seq(Part) /\ Len(<<>>) = 0
    OBVIOUS
  <2>2. PICK g \in [0..0 -> Seq(Part)] : StepByStep(g, 0, <<>>, Keeps(<<>>)) /\ Filled(<<>>) = g[0]
    BY <2>1, FilledSteps
  <2>3. g[0] = <<>>
    BY <2>2 DEF StepByStep
  <2>4. QED
    BY <2>2, <2>3
<1>3. ASSUME NEW s \in Seq(Part), NEW p \in Part
      PROVE  Filled(Append(s, p)) = IF Empty(p) THEN Filled(s) ELSE Append(Filled(s), p)
  <2> DEFINE t == Append(s, p)
             n == Len(s)
  <2>1. t \in Seq(Part) /\ Len(t) = n + 1 /\ n \in Nat /\ t[n+1] = p /\ \A i \in 1..n : t[i] = s[i]
    OBVIOUS
  <2>0. \A g, h : BuiltAlike(n, <<>>, Keeps(s), Keeps(t), g, h, n, n + 1) => g[n] = h[n]
    BY SameSteps
  <2>2. PICK g \in [0..n -> Seq(Part)] : StepByStep(g, n, <<>>, Keeps(s)) /\ Filled(s) = g[n]
    BY FilledSteps
  <2>3. PICK h \in [0..n+1 -> Seq(Part)] : StepByStep(h, n+1, <<>>, Keeps(t)) /\ Filled(t) = h[n+1]
    BY <2>1, FilledSteps
  <2> HIDE DEF t
  <2>4. SameUpTo(Keeps(s), Keeps(t), n)
    BY <2>1 DEF SameUpTo, Keeps
  <2>5. g[n] = h[n]
    <3>1. n <= n /\ n <= n + 1 /\ n + 1 \in Nat
      BY <2>1
    <3> HIDE DEF n
    <3>2. BuiltAlike(n, <<>>, Keeps(s), Keeps(t), g, h, n, n + 1)
      BY <2>1, <2>2, <2>3, <2>4, <3>1 DEF BuiltAlike
    <3>3. QED
      BY <2>0, <3>2, Zenon
  <2>6. h[n+1] = Keeps(t)[n+1][h[n]] /\ h[n] \in Seq(Part)
    <3>1. n + 1 \in 0..n+1 /\ n + 1 # 0 /\ n + 1 - 1 = n /\ n \in 0..n+1
      BY <2>1
    <3>2. h[n+1] = Keeps(t)[n+1][h[n+1-1]]
      BY <2>3, <3>1 DEF StepByStep
    <3>3. QED
      BY <2>3, <3>1, <3>2
  <2>7. Keeps(t)[n+1][h[n]] = IF Empty(p) THEN h[n] ELSE Append(h[n], p)
    BY <2>1, <2>6 DEF Keeps, Keep
  <2>8. QED
    BY <2>2, <2>3, <2>5, <2>6, <2>7 DEF t
<1>4. QED
  BY <1>1, <1>3

-----------------------------------------------------------------------------
(* StreamAccumulator::process. *)

LEMMA OldestProperties ==
  ASSUME NEW S \in SUBSET Nat
  PROVE  /\ S # {} => Oldest(S) \in S /\ \A j \in S : Oldest(S) <= j
         /\ S = {} => Oldest(S) = 0
<1>1. CASE S # {}
  <2>1. \E i \in S : \A j \in S : i <= j
    BY <1>1, LeastNumber
  <2>2. QED
    BY <1>1, <2>1 DEF Oldest
<1>2. CASE S = {}
  BY <1>2 DEF Oldest
<1>3. QED
  BY <1>1, <1>2

LEMMA RemovedProperties ==
  ASSUME NEW T, NEW s \in Seq(T), NEW i \in 1..Len(s)
  PROVE  /\ Removed(s, i) \in Seq(T) /\ Len(Removed(s, i)) = Len(s) - 1
         /\ \A j \in 1..Len(s)-1 : Removed(s, i)[j] = IF j < i THEN s[j] ELSE s[j+1]
<1>1. Len(s) - 1 \in Nat
  OBVIOUS
<1>2. \A j \in 1..Len(s)-1 : j \in 1..Len(s) /\ j + 1 \in 1..Len(s)
  OBVIOUS
<1>3. \A j \in 1..Len(s)-1 : (IF j < i THEN s[j] ELSE s[j+1]) \in T
  BY <1>2
<1>4. QED
  BY <1>1, <1>3 DEF Removed

Grew(p, f) == [p EXCEPT !.got = Append(@, f)]
Event == [type : {"start"}, index : Nat, part : Part]
         \cup [type : {"delta"}, index : Nat, kind : Lane, fragment : Nat]
         \cup [type : {"stop"}, index : Nat \cup {NoIndex}]

LEMMA GrewTyped ==
  ASSUME NEW p \in Part, NEW f \in Nat
  PROVE  /\ Grew(p, f) \in Part /\ Grew(p, f).kind = p.kind /\ Grew(p, f).id = p.id
         /\ Grew(p, f).got = Append(p.got, f)
BY DEF Grew, Part

LEMMA ProcessTyped ==
  ASSUME NEW a \in Accumulator, NEW ev \in Event, NEW whole
  PROVE  Process(a, ev, whole) \in Accumulator
<1>0. a.slots \in Seq(Slot) /\ a.parts \in Seq(Part) /\ a.broken \in BOOLEAN
  BY DEF Accumulator
<1>1. CASE ev.type = "start"
  <2>1. ev.index \in Nat /\ ev.part \in Part
    BY <1>1 DEF Event
  <2>2. [index |-> ev.index, part |-> ev.part] \in Slot
    BY <2>1 DEF Slot
  <2>3. Process(a, ev, whole) = [a EXCEPT !.slots = Append(@, [index |-> ev.index, part |-> ev.part])]
    BY <1>1 DEF Process
  <2> DEFINE new == [index |-> ev.index, part |-> ev.part]
  <2> HIDE DEF new
  <2>4. Append(a.slots, new) \in Seq(Slot)
    BY <1>0, <2>2 DEF new
  <2>5. [a EXCEPT !.slots = Append(a.slots, new)] \in Accumulator
    BY <1>0, <2>4 DEF Accumulator
  <2>6. QED
    BY <2>3, <2>5 DEF new
<1>2. CASE ev.type = "delta"
  <2> DEFINE P == {j \in DOMAIN a.slots : Receives(a.slots[j], ev)}
             to == Oldest(P)
  <2>1. ev.fragment \in Nat
    BY <1>2 DEF Event
  <2>2. Process(a, ev, whole) =
          IF to = 0 THEN a ELSE [a EXCEPT !.slots[to].part.got = Append(@, ev.fragment)]
    BY <1>2 DEF Process
  <2>3. P \in SUBSET Nat
    BY <1>0
  <2>4. to # 0 => to \in DOMAIN a.slots
    <3>1. to # 0 => to \in P
      BY <2>3, OldestProperties
    <3>2. QED
      BY <3>1
  <2> HIDE DEF to
  <2>5. ASSUME to # 0 PROVE [a EXCEPT !.slots[to].part.got = Append(@, ev.fragment)] \in Accumulator
    <3> DEFINE old == a.slots[to]
               new == [old EXCEPT !.part = Grew(old.part, ev.fragment)]
    <3>1. old \in Slot
      BY <1>0, <2>4, <2>5
    <3>2. old.part \in Part /\ old.part.got \in Seq(Nat) /\ old.index \in Nat
      BY <3>1 DEF Slot, Part
    <3>3. Grew(old.part, ev.fragment) \in Part
      BY <2>1, <3>2, GrewTyped
    <3>5. new \in Slot
      BY <3>1, <3>3 DEF Slot
    <3>6. [a.slots EXCEPT ![to] = new] \in Seq(Slot)
      <4> HIDE DEF new
      <4>1. QED
        BY <1>0, <2>4, <2>5, <3>5
    <3>7. [a EXCEPT !.slots[to].part.got = Append(@, ev.fragment)] =
          [a EXCEPT !.slots = [a.slots EXCEPT ![to] = new]]
      BY DEF Grew
    <3> HIDE DEF new
    <3>8. QED
      BY <3>6, <3>7 DEF Accumulator
  <2>6. QED
    BY <2>2, <2>5
<1>3. CASE ev.type = "stop"
  <2> DEFINE P == {j \in DOMAIN a.slots : Closes(a.slots[j], ev)}
             out == Oldest(P)
             p == a.slots[out].part
  <2>1. Process(a, ev, whole) =
          IF out = 0 THEN a
          ELSE [slots |-> Removed(a.slots, out), broken |-> ~Parses(p, whole),
                parts |-> IF Empty(p) \/ ~Parses(p, whole) THEN a.parts ELSE Append(a.parts, p)]
    BY <1>3 DEF Process
  <2>2. P \in SUBSET Nat
    BY <1>0
  <2>3. out # 0 => out \in DOMAIN a.slots
    <3>1. out # 0 => out \in P
      BY <2>2, OldestProperties
    <3>2. QED
      BY <3>1
  <2> HIDE DEF out
  <2>4. ASSUME out # 0 PROVE Removed(a.slots, out) \in Seq(Slot) /\ p \in Part
    <3>1. out \in 1..Len(a.slots) /\ a.slots[out] \in Slot
      BY <1>0, <2>3, <2>4
    <3>2. QED
      BY <1>0, <3>1, RemovedProperties DEF Slot
  <2>5. out # 0 => (IF Empty(p) \/ ~Parses(p, whole) THEN a.parts ELSE Append(a.parts, p)) \in Seq(Part)
    BY <1>0, <2>4
  <2>6. (~Parses(p, whole)) \in BOOLEAN
    OBVIOUS
  <2>7. QED
    BY <2>1, <2>4, <2>5, <2>6 DEF Accumulator
<1>4. QED
  BY <1>1, <1>2, <1>3 DEF Event

\* What an event does to the accumulator, slot by slot.
Begins(a, b, i, p) ==
  /\ b \in Accumulator /\ b.parts = a.parts /\ b.broken = a.broken
  /\ Len(b.slots) = Len(a.slots) + 1
  /\ b.slots[Len(a.slots) + 1] = [index |-> i, part |-> p]
  /\ \A j \in 1..Len(a.slots) : b.slots[j] = a.slots[j]
Gets(a, b, to, f) ==
  /\ b \in Accumulator /\ b.parts = a.parts /\ b.broken = a.broken
  /\ Len(b.slots) = Len(a.slots) /\ to \in 1..Len(a.slots)
  /\ b.slots[to] = [index |-> a.slots[to].index, part |-> Grew(a.slots[to].part, f)]
  /\ \A j \in 1..Len(a.slots) : j # to => b.slots[j] = a.slots[j]
Ends(a, b, out) ==
  /\ b \in Accumulator /\ out \in 1..Len(a.slots) /\ b.broken = FALSE
  /\ b.parts = IF Empty(a.slots[out].part) THEN a.parts ELSE Append(a.parts, a.slots[out].part)
  /\ Len(b.slots) = Len(a.slots) - 1
  /\ \A j \in 1..Len(a.slots)-1 : b.slots[j] = IF j < out THEN a.slots[j] ELSE a.slots[j+1]

LEMMA StartBegins ==
  ASSUME NEW a \in Accumulator, NEW i \in Nat, NEW k \in Lane, NEW id \in Nat, NEW whole
  PROVE  Begins(a, Process(a, Starts(i, k, id), whole), i, NewPart(k, id))
<1> DEFINE ev == Starts(i, k, id)
           new == [index |-> i, part |-> NewPart(k, id)]
           b == Process(a, ev, whole)
<1>1. NewPart(k, id) \in Part
  BY DEF NewPart, Part
<1>2. ev \in Event
  BY <1>1 DEF Starts, Event
<1>3. b \in Accumulator
  BY <1>2, ProcessTyped
<1>4. b = [a EXCEPT !.slots = Append(a.slots, new)]
  BY DEF Process, Starts
<1>5. new \in Slot /\ a.slots \in Seq(Slot)
  BY <1>1 DEF Slot, Accumulator
<1>6. b.slots = Append(a.slots, new) /\ b.parts = a.parts /\ b.broken = a.broken
  BY <1>4 DEF Accumulator
<1> HIDE DEF b, new
<1>7. /\ Len(b.slots) = Len(a.slots) + 1 /\ b.slots[Len(a.slots)+1] = new
      /\ \A j \in 1..Len(a.slots) : b.slots[j] = a.slots[j]
  BY <1>5, <1>6
<1>8. QED
  BY <1>3, <1>6, <1>7 DEF Begins, b, new

LEMMA BringGets ==
  ASSUME NEW a \in Accumulator, NEW i \in Nat, NEW k \in Lane, NEW f \in Nat, NEW whole
  PROVE  LET b == Process(a, Brings(i, k, f), whole)
             S == {j \in 1..Len(a.slots) : a.slots[j].index = i /\ a.slots[j].part.kind = k} IN
         /\ S = {} => b = a
         /\ S # {} => \E to \in S : Gets(a, b, to, f) /\ \A j \in S : to <= j
<1> DEFINE ev == Brings(i, k, f)
           S == {j \in 1..Len(a.slots) : a.slots[j].index = i /\ a.slots[j].part.kind = k}
           b == Process(a, ev, whole)
           to == Oldest(S)
<1>1. /\ ev \in Event /\ ev.type = "delta" /\ ev.index = i /\ ev.kind = k /\ ev.fragment = f
      /\ a.slots \in Seq(Slot)
  BY DEF Brings, Event, Accumulator
<1>2. {j \in DOMAIN a.slots : Receives(a.slots[j], ev)} = S
  BY <1>1 DEF Receives
<1>3. b \in Accumulator
  BY <1>1, ProcessTyped
<1>4. b = IF to = 0 THEN a ELSE [a EXCEPT !.slots[to].part.got = Append(@, f)]
  <2> HIDE DEF ev, S
  <2>1. QED
    BY <1>1, <1>2 DEF Process
<1>5. S \in SUBSET Nat
  OBVIOUS
<1>6. S = {} => b = a
  BY <1>4, <1>5, OldestProperties
<1>7. ASSUME S # {} PROVE to \in S /\ Gets(a, b, to, f) /\ \A j \in S : to <= j
  <2>1. to \in S /\ \A j \in S : to <= j
    <3> HIDE DEF S
    <3>1. QED
      BY <1>5, <1>7, OldestProperties
  <2>2. to \in 1..Len(a.slots) /\ to # 0
    BY <2>1
  <2> HIDE DEF to
  <2> DEFINE old == a.slots[to]
             new == [index |-> old.index, part |-> Grew(old.part, f)]
             all == [a.slots EXCEPT ![to] = new]
  <2>3. old \in Slot /\ old.part \in Part
    <3>1. old \in Slot
      BY <1>1, <2>2
    <3> HIDE DEF old
    <3>2. QED
      BY <3>1 DEF Slot
  <2>4. b = [a EXCEPT !.slots = all]
    <3>1. b = [a EXCEPT !.slots[to].part.got = Append(@, f)]
      BY <1>4, <2>2
    <3>2. [old EXCEPT !.part = Grew(old.part, f)] = new
      <4> HIDE DEF old
      <4>1. QED
        BY <2>3 DEF Slot
    <3>3. [a EXCEPT !.slots[to].part.got = Append(@, f)] =
          [a EXCEPT !.slots = [a.slots EXCEPT ![to] = [old EXCEPT !.part = Grew(old.part, f)]]]
      BY DEF Grew
    <3> HIDE DEF b, new, old
    <3>4. QED
      BY <3>1, <3>2, <3>3
  <2> HIDE DEF new
  <2>5. b.slots = all /\ b.parts = a.parts /\ b.broken = a.broken
    <3> HIDE DEF all, b
    <3>1. QED
      BY <2>4 DEF Accumulator
  <2>6. Len(all) = Len(a.slots) /\ all[to] = new /\ \A j \in 1..Len(a.slots) : j # to => all[j] = a.slots[j]
    BY <1>1, <2>2
  <2> HIDE DEF b, all, S
  <2>7. QED
    BY <1>3, <2>1, <2>2, <2>5, <2>6 DEF Gets, new
<1>8. QED
  <2> HIDE DEF b, S, to
  <2>1. QED
    BY <1>6, <1>7 DEF b, S

LEMMA HaltEnds ==
  ASSUME NEW a \in Accumulator, NEW i \in Nat \cup {NoIndex}, NEW whole
  PROVE  LET b == Process(a, Halts(i), whole)
             S == {j \in 1..Len(a.slots) : i \in {a.slots[j].index, NoIndex}} IN
         /\ S = {} => b = a
         /\ S # {} => \E out \in S : /\ \A j \in S : out <= j
                                     /\ IF Parses(a.slots[out].part, whole) THEN Ends(a, b, out)
                                        ELSE b \in Accumulator /\ b.broken
<1> DEFINE ev == Halts(i)
           S == {j \in 1..Len(a.slots) : i \in {a.slots[j].index, NoIndex}}
           b == Process(a, ev, whole)
           out == Oldest(S)
           p == a.slots[out].part
<1>1. /\ ev \in Event /\ ev.type = "stop" /\ ev.index = i
      /\ a.slots \in Seq(Slot) /\ a.parts \in Seq(Part)
  BY DEF Halts, Event, Accumulator
<1>2. {j \in DOMAIN a.slots : Closes(a.slots[j], ev)} = S
  BY <1>1 DEF Closes
<1>3. b \in Accumulator
  BY <1>1, ProcessTyped
<1>4. b = IF out = 0 THEN a
          ELSE [slots |-> Removed(a.slots, out), broken |-> ~Parses(p, whole),
                parts |-> IF Empty(p) \/ ~Parses(p, whole) THEN a.parts ELSE Append(a.parts, p)]
  <2> HIDE DEF ev, S
  <2>1. QED
    BY <1>1, <1>2 DEF Process
<1>5. S \in SUBSET Nat
  OBVIOUS
<1>6. S = {} => b = a
  BY <1>4, <1>5, OldestProperties
<1>7. ASSUME S # {}
      PROVE  /\ out \in S /\ \A j \in S : out <= j
             /\ IF Parses(p, whole) THEN Ends(a, b, out) ELSE b \in Accumulator /\ b.broken
  <2>1. out \in S /\ \A j \in S : out <= j
    <3> HIDE DEF S
    <3>1. QED
      BY <1>5, <1>7, OldestProperties
  <2>2. out \in 1..Len(a.slots) /\ out # 0
    BY <2>1
  <2> HIDE DEF out
  <2>3. /\ b.slots = Removed(a.slots, out) /\ b.broken = ~Parses(p, whole)
        /\ b.parts = IF Empty(p) \/ ~Parses(p, whole) THEN a.parts ELSE Append(a.parts, p)
    BY <1>4, <2>2
  <2>4. /\ Len(Removed(a.slots, out)) = Len(a.slots) - 1
        /\ \A j \in 1..Len(a.slots)-1 : Removed(a.slots, out)[j] = IF j < out THEN a.slots[j] ELSE a.slots[j+1]
    BY <1>1, <2>2, RemovedProperties
  <2> HIDE DEF b, S
  <2>5. QED
    BY <1>3, <2>1, <2>2, <2>3, <2>4 DEF Ends
<1>8. QED
  <2> HIDE DEF b, S, out
  <2>1. QED
    BY <1>6, <1>7 DEF b, S

\* The events of a chunk are taken one by one, up to one that is rejected.
Advance(b, ev, whole) == IF b.broken THEN b ELSE Process(b, ev, whole)
Follows(g, a, events, whole) ==
  g[0] = a /\ \A i \in 1..Len(events) : g[i] = Advance(g[i-1], events[i], whole)

LEMMA TakenFollows ==
  ASSUME NEW a \in Accumulator, NEW events \in Seq(Event), NEW whole
  PROVE  \E g \in [0..Len(events) -> Accumulator] :
           Follows(g, a, events, whole) /\ Taken(a, events, whole) = g[Len(events)]
<1> DEFINE n == Len(events)
           F == [i \in 1..n |-> [b \in Accumulator |-> Advance(b, events[i], whole)]]
           Body(g) == [i \in 0..n |-> IF i = 0 THEN a
                                      ELSE IF g[i-1].broken THEN g[i-1] ELSE Process(g[i-1], events[i], whole)]
           taken == CHOOSE g : g = Body(g)
<1>1. n \in Nat
  OBVIOUS
<1>2. F \in [1..n -> [Accumulator -> Accumulator]]
  <2>1. ASSUME NEW i \in 1..n, NEW b \in Accumulator PROVE Advance(b, events[i], whole) \in Accumulator
    <3>1. events[i] \in Event
      OBVIOUS
    <3>2. QED
      BY <3>1, ProcessTyped DEF Advance
  <2>2. QED
    BY <2>1
<1>3. ASSUME NEW g \in [0..n -> Accumulator], NEW i \in 0..n, i # 0
      PROVE  F[i][g[i-1]] = IF g[i-1].broken THEN g[i-1] ELSE Process(g[i-1], events[i], whole)
  <2>1. i \in 1..n /\ i - 1 \in 0..n /\ g[i-1] \in Accumulator
    BY <1>3
  <2>2. QED
    BY <2>1 DEF Advance
<1> HIDE DEF F
<1>4. PICK g \in [0..n -> Accumulator] : StepByStep(g, n, a, F)
  <2> HIDE DEF n
  <2>1. QED
    BY <1>1, <1>2, StepsExist
<1>5. g = Body(g)
  <2>1. \A i \in 0..n : (IF i = 0 THEN a ELSE F[i][g[i-1]]) =
          (IF i = 0 THEN a ELSE IF g[i-1].broken THEN g[i-1] ELSE Process(g[i-1], events[i], whole))
    BY <1>3
  <2>2. g = [i \in 0..n |-> IF i = 0 THEN a ELSE F[i][g[i-1]]]
    BY <1>4 DEF StepByStep
  <2>3. QED
    BY <2>1, <2>2
<1>6. taken = Body(taken)
  BY <1>5
<1>7. \A i \in 0..n : taken[i] = IF i = 0 THEN a
                                 ELSE IF taken[i-1].broken THEN taken[i-1]
                                 ELSE Process(taken[i-1], events[i], whole)
  <2>1. \A i \in 0..n : taken[i] = Body(taken)[i]
    BY <1>6
  <2> HIDE DEF taken
  <2>2. QED
    BY <2>1
<1>8. taken[n] = g[n]
  <2> DEFINE Bad == {i \in 0..n : taken[i] # g[i]}
  <2>1. Bad = {}
    <3>1. SUFFICES ASSUME Bad # {} PROVE FALSE
      OBVIOUS
    <3> HIDE DEF taken
    <3>2. PICK i \in Bad : \A j \in Bad : i <= j
      <4>1. Bad \in SUBSET Nat
        OBVIOUS
      <4> HIDE DEF Bad
      <4>2. QED
        BY <3>1, <4>1, LeastNumber
    <3>3. i \in 0..n /\ taken[i] # g[i]
      OBVIOUS
    <3>4. \A j \in 0..n : g[j] = Body(g)[j]
      BY <1>5
    <3>5. i # 0
      BY <1>7, <3>3, <3>4
    <3>6. i - 1 \in 0..n /\ ~(i <= i - 1)
      BY <3>3, <3>5
    <3>7. taken[i-1] = g[i-1]
      BY <3>2, <3>6
    <3>8. QED
      BY <1>7, <3>3, <3>4, <3>5, <3>7
  <2> HIDE DEF taken
  <2>2. n \in 0..n
    BY <1>1
  <2>3. QED
    BY <2>1, <2>2
<1>9. Taken(a, events, whole) = taken[n]
  BY DEF Taken
<1>10. Follows(g, a, events, whole)
  <2>1. \A i \in 0..n : g[i] = Body(g)[i]
    BY <1>5
  <2>2. g[0] = a
    BY <1>1, <2>1
  <2>3. ASSUME NEW i \in 1..n PROVE g[i] = Advance(g[i-1], events[i], whole)
    <3>1. i \in 0..n /\ i # 0
      OBVIOUS
    <3>2. QED
      BY <2>1, <3>1 DEF Advance
  <2>4. QED
    BY <2>2, <2>3 DEF Follows
<1>11. QED
  BY <1>8, <1>9, <1>10

LEMMA TakenAppend ==
  ASSUME NEW a \in Accumulator, NEW events \in Seq(Event), NEW ev \in Event, NEW whole
  PROVE  Taken(a, Append(events, ev), whole) = Advance(Taken(a, events, whole), ev, whole)
<1> DEFINE more == Append(events, ev)
           n == Len(events)
<1>1. /\ more \in Seq(Event) /\ Len(more) = n + 1 /\ n \in Nat
      /\ more[n+1] = ev /\ \A i \in 1..n : more[i] = events[i]
  OBVIOUS
<1>2. PICK g \in [0..n -> Accumulator] : Follows(g, a, events, whole) /\ Taken(a, events, whole) = g[n]
  BY TakenFollows
<1>3. PICK h \in [0..n+1 -> Accumulator] : Follows(h, a, more, whole) /\ Taken(a, more, whole) = h[n+1]
  <2> HIDE DEF more
  <2>1. QED
    BY <1>1, TakenFollows
<1> HIDE DEF more
<1>4. /\ g[0] = a /\ \A i \in 1..n : g[i] = Advance(g[i-1], events[i], whole)
      /\ h[0] = a /\ \A i \in 1..n+1 : h[i] = Advance(h[i-1], more[i], whole)
  BY <1>1, <1>2, <1>3 DEF Follows
<1>5. g[n] = h[n]
  <2> DEFINE Bad == {i \in 0..n : g[i] # h[i]}
  <2>1. Bad = {}
    <3>1. SUFFICES ASSUME Bad # {} PROVE FALSE
      OBVIOUS
    <3>2. PICK i \in Bad : \A j \in Bad : i <= j
      <4>1. Bad \in SUBSET Nat
        OBVIOUS
      <4> HIDE DEF Bad
      <4>2. QED
        BY <3>1, <4>1, LeastNumber
    <3>3. i \in 0..n /\ g[i] # h[i]
      OBVIOUS
    <3>4. i # 0
      BY <1>4, <3>3
    <3>5. i - 1 \in 0..n /\ i \in 1..n /\ i \in 1..n+1 /\ ~(i <= i - 1)
      BY <1>1, <3>3, <3>4
    <3>6. g[i-1] = h[i-1]
      BY <3>2, <3>5
    <3>7. g[i] = Advance(g[i-1], events[i], whole) /\ h[i] = Advance(h[i-1], more[i], whole)
      BY <1>4, <3>5
    <3>8. QED
      BY <1>1, <3>3, <3>5, <3>6, <3>7
  <2>2. n \in 0..n
    BY <1>1
  <2>3. QED
    BY <2>1, <2>2
<1>6. h[n+1] = Advance(h[n], ev, whole)
  <2>1. n + 1 \in 1..n+1 /\ n + 1 - 1 = n
    BY <1>1
  <2>2. h[n+1] = Advance(h[n+1-1], more[n+1], whole)
    BY <1>4, <2>1
  <2>3. QED
    BY <1>1, <2>1, <2>2
<1>7. QED
  BY <1>2, <1>3, <1>5, <1>6 DEF more

LEMMA TakenTyped ==
  ASSUME NEW a \in Accumulator, NEW events \in Seq(Event), NEW whole
  PROVE  Taken(a, events, whole) \in Accumulator
<1>1. PICK g \in [0..Len(events) -> Accumulator] : Taken(a, events, whole) = g[Len(events)]
  BY TakenFollows
<1>2. Len(events) \in 0..Len(events)
  OBVIOUS
<1>3. QED
  BY <1>1, <1>2

LEMMA TakenNone ==
  ASSUME NEW a \in Accumulator, NEW whole
  PROVE  Taken(a, <<>>, whole) = a
<1>1. <<>> \in Seq(Event) /\ Len(<<>>) = 0
  OBVIOUS
<1>2. PICK g \in [0..0 -> Accumulator] : Follows(g, a, <<>>, whole) /\ Taken(a, <<>>, whole) = g[0]
  BY <1>1, TakenFollows
<1>3. QED
  BY <1>2 DEF Follows

-----------------------------------------------------------------------------
(* Counting the slots of an index. *)

LEMMA BeginsHas ==
  ASSUME NEW a \in Accumulator, NEW b, NEW i, NEW p, Begins(a, b, i, p), NEW h, NEW m
  PROVE  /\ h # i /\ Has(a.slots, h, m) => Has(b.slots, h, m)
         /\ Has(a.slots, i, 0) => Has(b.slots, i, 1)
         /\ Has(a.slots, i, 1) => Has(b.slots, i, 2)
<1> DEFINE n == Len(a.slots)
<1>1. /\ n \in Nat /\ Len(b.slots) = n + 1 /\ b.slots[n+1].index = i
      /\ \A j \in 1..n : b.slots[j].index = a.slots[j].index
  BY DEF Begins, Accumulator
<1>2. \A j \in 1..n+1 : j \in 1..n \/ j = n + 1
  BY <1>1
<1>3. n + 1 \in 1..n+1 /\ 1..n \subseteq 1..n+1 /\ n+1 \notin 1..n /\ \A j \in 1..n : j < n+1
  BY <1>1
<1>4. h # i /\ None(a.slots, h) => None(b.slots, h)
  BY <1>1, <1>2 DEF None
<1>5. ASSUME NEW j, h # i, One(a.slots, h, j) PROVE One(b.slots, h, j)
  BY <1>1, <1>2, <1>3, <1>5 DEF One
<1>6. ASSUME NEW j, NEW g, h # i, Two(a.slots, h, j, g) PROVE Two(b.slots, h, j, g)
  BY <1>1, <1>2, <1>3, <1>6 DEF Two
<1>7. None(a.slots, i) => One(b.slots, i, n + 1)
  BY <1>1, <1>2, <1>3 DEF None, One
<1>8. ASSUME NEW j, One(a.slots, i, j) PROVE Two(b.slots, i, j, n + 1)
  BY <1>1, <1>2, <1>3, <1>8 DEF One, Two
<1>9. /\ \A j, g : Two(a.slots, h, j, g) => j \in 1..n /\ g \in 1..n
      /\ \A j : One(a.slots, h, j) => j \in 1..n
      /\ \A j : One(a.slots, i, j) => j \in 1..n
  BY DEF One, Two
<1> HIDE DEF n
<1>10. ASSUME h # i, Has(a.slots, h, m) PROVE Has(b.slots, h, m)
  BY <1>1, <1>3, <1>4, <1>5, <1>6, <1>9, <1>10 DEF Has, n
<1>11. ASSUME Has(a.slots, i, 0) PROVE Has(b.slots, i, 1)
  BY <1>1, <1>3, <1>7, <1>11 DEF Has
<1>12. ASSUME Has(a.slots, i, 1) PROVE Has(b.slots, i, 2)
  BY <1>1, <1>3, <1>8, <1>9, <1>12 DEF Has
<1>13. QED
  BY <1>10, <1>11, <1>12

LEMMA GetsHas ==
  ASSUME NEW a \in Accumulator, NEW b, NEW to, NEW f, Gets(a, b, to, f), NEW h, NEW m, Has(a.slots, h, m)
  PROVE  Has(b.slots, h, m)
<1>1. Len(b.slots) = Len(a.slots) /\ \A j \in 1..Len(a.slots) : b.slots[j].index = a.slots[j].index
  BY DEF Gets
<1>2. None(a.slots, h) => None(b.slots, h)
  BY <1>1 DEF None
<1>3. ASSUME NEW j, One(a.slots, h, j) PROVE One(b.slots, h, j)
  BY <1>1, <1>3 DEF One
<1>4. ASSUME NEW j, NEW g, Two(a.slots, h, j, g) PROVE Two(b.slots, h, j, g)
  BY <1>1, <1>4 DEF Two
<1>5. QED
  BY <1>1, <1>2, <1>3, <1>4 DEF Has

\* Where a slot is once another is gone.
Now(out, j) == IF j < out THEN j ELSE j - 1

LEMMA EndsMoves ==
  ASSUME NEW a \in Accumulator, NEW b, NEW out, Ends(a, b, out)
  PROVE  /\ Len(a.slots) \in Nat /\ out \in 1..Len(a.slots) /\ Len(b.slots) = Len(a.slots) - 1
         /\ \A j \in 1..Len(a.slots) :
              j # out => Now(out, j) \in 1..Len(b.slots) /\ b.slots[Now(out, j)] = a.slots[j]
         /\ \A l \in 1..Len(b.slots) :
              \E j \in 1..Len(a.slots) : j # out /\ l = Now(out, j) /\ b.slots[l] = a.slots[j]
         /\ \A j, g \in 1..Len(a.slots) : j # out /\ g # out =>
              (Now(out, j) = Now(out, g) <=> j = g) /\ (j < g => Now(out, j) < Now(out, g))
<1> DEFINE n == Len(a.slots)
<1>1. /\ n \in Nat /\ out \in 1..n /\ Len(b.slots) = n - 1
      /\ \A j \in 1..n-1 : b.slots[j] = IF j < out THEN a.slots[j] ELSE a.slots[j+1]
  BY DEF Ends, Accumulator
<1>2. ASSUME NEW j \in 1..n, j # out
      PROVE  Now(out, j) \in 1..n-1 /\ b.slots[Now(out, j)] = a.slots[j]
  <2>1. CASE j < out
    <3>1. Now(out, j) = j /\ j \in 1..n-1
      BY <1>1, <2>1 DEF Now
    <3>2. QED
      BY <1>1, <2>1, <3>1
  <2>2. CASE ~(j < out)
    <3>1. Now(out, j) = j - 1 /\ j - 1 \in 1..n-1 /\ ~(j - 1 < out) /\ (j - 1) + 1 = j
      BY <1>1, <1>2, <2>2 DEF Now
    <3>2. QED
      BY <1>1, <3>1
  <2>3. QED
    BY <2>1, <2>2
<1>3. ASSUME NEW l \in 1..n-1 PROVE \E j \in 1..n : j # out /\ l = Now(out, j) /\ b.slots[l] = a.slots[j]
  <2>1. CASE l < out
    <3>1. l \in 1..n /\ l # out /\ Now(out, l) = l
      BY <1>1, <2>1 DEF Now
    <3>2. QED
      BY <1>2, <3>1
  <2>2. CASE ~(l < out)
    <3>1. l + 1 \in 1..n /\ l + 1 # out /\ Now(out, l + 1) = l
      BY <1>1, <2>2 DEF Now
    <3>2. QED
      BY <1>2, <3>1
  <2>3. QED
    BY <2>1, <2>2
<1>4. \A j, g \in 1..n : j # out /\ g # out => (Now(out, j) = Now(out, g) <=> j = g) /\ (j < g => Now(out, j) < Now(out, g))
  BY <1>1 DEF Now
<1>5. QED
  BY <1>1, <1>2, <1>3, <1>4

\* A slot that closes is the oldest of its index.
LEMMA EndsHas ==
  ASSUME NEW a \in Accumulator, NEW b, NEW out, Ends(a, b, out), NEW i, a.slots[out].index = i,
         \A j \in 1..Len(a.slots) : a.slots[j].index = i => out <= j, NEW h, NEW m
  PROVE  /\ h # i /\ Has(a.slots, h, m) => Has(b.slots, h, m)
         /\ Has(a.slots, i, 1) => Has(b.slots, i, 0)
         /\ Has(a.slots, i, 2) => Has(b.slots, i, 1)
         /\ ~Has(a.slots, i, 0)
<1> DEFINE n == Len(a.slots)
<1>1. n \in Nat /\ out \in 1..n /\ Len(b.slots) = n - 1
  BY EndsMoves
<1>2. \A j \in 1..n : j # out => Now(out, j) \in 1..n-1 /\ b.slots[Now(out, j)] = a.slots[j]
  BY <1>1, EndsMoves
<1>3. ASSUME NEW l \in 1..n-1 PROVE \E j \in 1..n : j # out /\ l = Now(out, j)
  BY <1>1, EndsMoves
<1>4. \A j, g \in 1..n : j # out /\ g # out => (Now(out, j) = Now(out, g) <=> j = g) /\ (j < g => Now(out, j) < Now(out, g))
  BY EndsMoves
<1>5. ASSUME None(a.slots, h) PROVE None(b.slots, h)
  <2>1. ASSUME NEW l \in 1..n-1 PROVE b.slots[l].index # h
    <3>1. PICK g \in 1..n : g # out /\ l = Now(out, g)
      BY <1>3
    <3>2. QED
      BY <1>2, <1>5, <3>1 DEF None
  <2>2. QED
    BY <1>1, <2>1 DEF None
<1>6. ASSUME NEW j, h # i, One(a.slots, h, j) PROVE One(b.slots, h, Now(out, j))
  <2>1. j \in 1..n /\ j # out /\ \A g \in 1..n : a.slots[g].index = h <=> g = j
    BY <1>1, <1>6 DEF One
  <2>2. ASSUME NEW l \in 1..n-1 PROVE b.slots[l].index = h <=> l = Now(out, j)
    <3>1. PICK g \in 1..n : g # out /\ l = Now(out, g)
      BY <1>3
    <3>2. QED
      BY <1>2, <1>4, <2>1, <3>1
  <2>3. QED
    BY <1>1, <1>2, <2>1, <2>2 DEF One
<1>7. ASSUME NEW j, NEW g, h # i, Two(a.slots, h, j, g) PROVE Two(b.slots, h, Now(out, j), Now(out, g))
  <2>1. j \in 1..n /\ j # out /\ g \in 1..n /\ g # out /\ j < g /\ \A l \in 1..n : a.slots[l].index = h <=> l = j \/ l = g
    BY <1>1, <1>7 DEF Two
  <2>2. ASSUME NEW l \in 1..n-1 PROVE b.slots[l].index = h <=> l = Now(out, j) \/ l = Now(out, g)
    <3>1. PICK o \in 1..n : o # out /\ l = Now(out, o)
      BY <1>3
    <3>2. QED
      BY <1>2, <1>4, <2>1, <3>1
  <2>3. QED
    BY <1>1, <1>2, <1>4, <2>1, <2>2 DEF Two
<1>8. ASSUME NEW j, One(a.slots, i, j) PROVE None(b.slots, i)
  <2>1. \A g \in 1..n : a.slots[g].index = i <=> g = j
    BY <1>8 DEF One
  <2>2. ASSUME NEW l \in 1..n-1 PROVE b.slots[l].index # i
    <3>1. PICK g \in 1..n : g # out /\ l = Now(out, g)
      BY <1>3
    <3>2. QED
      BY <1>1, <1>2, <2>1, <3>1
  <2>3. QED
    BY <1>1, <2>2 DEF None
<1>9. ASSUME NEW j, NEW g, Two(a.slots, i, j, g) PROVE One(b.slots, i, Now(out, g))
  <2>1. j \in 1..n /\ g \in 1..n /\ j < g /\ \A l \in 1..n : a.slots[l].index = i <=> l = j \/ l = g
    BY <1>9 DEF Two
  <2>2. out = j /\ g # out
    <3>1. out = j \/ out = g
      BY <1>1, <2>1
    <3>2. out <= j
      BY <2>1
    <3>3. QED
      BY <1>1, <2>1, <3>1, <3>2
  <2>3. ASSUME NEW l \in 1..n-1 PROVE b.slots[l].index = i <=> l = Now(out, g)
    <3>1. PICK o \in 1..n : o # out /\ l = Now(out, o)
      BY <1>3
    <3>2. QED
      BY <1>2, <1>4, <2>1, <2>2, <3>1
  <2>4. QED
    BY <1>1, <1>2, <2>1, <2>2, <2>3 DEF One
<1>10. ~None(a.slots, i)
  BY <1>1 DEF None
<1>11. /\ \A j, g : Two(b.slots, h, j, g) => j \in 1..Len(b.slots) /\ g \in 1..Len(b.slots)
       /\ \A j : One(b.slots, h, j) => j \in 1..Len(b.slots)
       /\ \A j : One(b.slots, i, j) => j \in 1..Len(b.slots)
  BY DEF One, Two
<1>12. ASSUME h # i, Has(a.slots, h, m) PROVE Has(b.slots, h, m)
  BY <1>5, <1>6, <1>7, <1>11, <1>12 DEF Has
<1>13. ASSUME Has(a.slots, i, 1) PROVE Has(b.slots, i, 0)
  BY <1>8, <1>13 DEF Has
<1>14. ASSUME Has(a.slots, i, 2) PROVE Has(b.slots, i, 1)
  BY <1>9, <1>11, <1>14 DEF Has
<1>15. QED
  BY <1>10, <1>12, <1>13, <1>14 DEF Has

-----------------------------------------------------------------------------
(* What the slots hold of the narrative. *)

LEMMA BeginsNarrated ==
  ASSUME NEW a \in Accumulator, NEW b, NEW i, NEW p, Begins(a, b, i, p), NEW told,
         Narrated(a, told), p.got = <<>>,
         p.kind # "call" => i = IndexOf(p.kind)
  PROVE  Narrated(b, told)
<1> DEFINE n == Len(a.slots)
<1>1. /\ n \in Nat /\ Len(b.slots) = n + 1 /\ b.slots[n+1].index = i /\ b.slots[n+1].part = p
      /\ b.parts = a.parts /\ \A j \in 1..n : b.slots[j] = a.slots[j]
  BY DEF Begins, Accumulator
<1>2. (\A j \in 1..n+1 : j \in 1..n \/ j = n + 1) /\ \A j \in 1..n : j \in 1..n+1 /\ j < n + 1
  BY <1>1
<1> HIDE DEF n
<1>3. ASSUME NEW k \in Narrative PROVE OneIndex(b.slots, k)
  <2>1. k # "call" /\ \A j \in 1..n : a.slots[j].part.kind = k => a.slots[j].index = IndexOf(k)
    BY DEF Narrated, OneIndex, Narrative, n
  <2>2. \A j \in 1..n+1 : b.slots[j].part.kind = k => b.slots[j].index = IndexOf(k)
    BY <1>1, <1>2, <2>1
  <2>3. QED
    BY <1>1, <2>2 DEF OneIndex
<1>4. ASSUME NEW k \in Narrative PROVE Sums(b, told, k)
  <2>1. PICK since \in Seq(Nat) : Holds(a.slots, k, since) /\ AllOf(k, told) = AllOf(k, a.parts) \o since
    BY DEF Narrated, Sums
  <2>2. Holds(b.slots, k, since)
    <3>1. CASE since = <<>> /\ Mute(a.slots, k)
      <4>1. \A j \in 1..n : a.slots[j].part.kind = k => a.slots[j].part.got = <<>>
        BY <3>1 DEF Mute, n
      <4>2. \A j \in 1..n+1 : b.slots[j].part.kind = k => b.slots[j].part.got = <<>>
        BY <1>1, <1>2, <4>1
      <4>3. QED
        BY <1>1, <3>1, <4>2 DEF Mute, Holds
    <3>2. CASE \E j \in 1..n : Told(a.slots, k, since, j)
      <4>1. PICK j \in 1..n : Told(a.slots, k, since, j)
        BY <3>2
      <4>2. /\ a.slots[j].part.kind = k /\ a.slots[j].part.got = since
            /\ \A g \in 1..n : a.slots[g].part.kind = k /\ g # j => j < g /\ a.slots[g].part.got = <<>>
        BY <4>1 DEF Told, n
      <4>3. b.slots[j].part.kind = k /\ b.slots[j].part.got = since
        BY <1>1, <4>2
      <4>4. \A g \in 1..n+1 : b.slots[g].part.kind = k /\ g # j => j < g /\ b.slots[g].part.got = <<>>
        BY <1>1, <1>2, <4>2
      <4>5. Told(b.slots, k, since, j)
        BY <1>1, <4>3, <4>4 DEF Told
      <4>6. QED
        BY <1>1, <1>2, <4>5 DEF Holds
    <3>3. QED
      BY <2>1, <3>1, <3>2 DEF Holds, n
  <2>3. QED
    BY <1>1, <2>1, <2>2 DEF Sums
<1>5. QED
  BY <1>3, <1>4 DEF Narrated

\* A fragment of a call leaves the narrative alone.
LEMMA CallGetsNarrated ==
  ASSUME NEW a \in Accumulator, NEW b, NEW to, NEW f \in Nat, Gets(a, b, to, f), NEW told,
         Narrated(a, told), a.slots[to].part.kind = "call"
  PROVE  Narrated(b, told)
<1> DEFINE n == Len(a.slots)
<1>1. /\ Len(b.slots) = n /\ b.parts = a.parts /\ to \in 1..n
      /\ \A j \in 1..n : b.slots[j].index = a.slots[j].index /\ (j # to => b.slots[j] = a.slots[j])
  BY DEF Gets
<1>2. b.slots[to].part.kind = "call"
  <2>1. a.slots[to] \in Slot
    BY <1>1 DEF Accumulator
  <2>2. a.slots[to].part \in Part
    BY <2>1 DEF Slot
  <2>3. b.slots[to].part = Grew(a.slots[to].part, f)
    BY DEF Gets
  <2>4. QED
    BY <2>2, <2>3, GrewTyped
<1> HIDE DEF n
<1>3. ASSUME NEW k \in Narrative PROVE OneIndex(b.slots, k) /\ Sums(b, told, k)
  <2>1. k # "call"
    BY DEF Narrative
  <2>2. \A j \in 1..n : (b.slots[j].part.kind = k <=> a.slots[j].part.kind = k)
                        /\ (b.slots[j].part.kind = k => b.slots[j] = a.slots[j])
    BY <1>1, <1>2, <2>1
  <2>3. OneIndex(b.slots, k)
    BY <1>1, <2>2 DEF Narrated, OneIndex, n
  <2>4. PICK since \in Seq(Nat) : Holds(a.slots, k, since) /\ AllOf(k, told) = AllOf(k, a.parts) \o since
    BY DEF Narrated, Sums
  <2>5. Mute(a.slots, k) => Mute(b.slots, k)
    BY <1>1, <2>2 DEF Mute, n
  <2>6. ASSUME NEW j \in 1..n, Told(a.slots, k, since, j) PROVE Told(b.slots, k, since, j)
    BY <1>1, <2>2, <2>6 DEF Told, n
  <2>7. Holds(b.slots, k, since)
    BY <1>1, <2>4, <2>5, <2>6 DEF Holds, n
  <2>8. QED
    BY <1>1, <2>3, <2>4, <2>7 DEF Sums
<1>4. QED
  BY <1>3 DEF Narrated

\* A fragment of the narrative goes to the first slot of its kind.
LEMMA NarrativeGetsNarrated ==
  ASSUME NEW a \in Accumulator, NEW b, NEW to, NEW f \in Nat, Gets(a, b, to, f), NEW told, NEW more,
         Narrated(a, told), NEW kind \in Narrative, a.slots[to].part.kind = kind,
         \A j \in 1..Len(a.slots) : a.slots[j].part.kind = kind => to <= j,
         \A k \in Narrative : AllOf(k, more) = IF k = kind THEN AllOf(k, told) \o <<f>> ELSE AllOf(k, told)
  PROVE  Narrated(b, more)
<1> DEFINE n == Len(a.slots)
<1>1. /\ Len(b.slots) = n /\ b.parts = a.parts /\ to \in 1..n /\ n \in Nat
      /\ \A j \in 1..n : b.slots[j].index = a.slots[j].index /\ (j # to => b.slots[j] = a.slots[j])
  BY DEF Gets, Accumulator
<1>2. /\ a.slots[to].part \in Part /\ b.slots[to].part.kind = kind
      /\ b.slots[to].part.got = Append(a.slots[to].part.got, f)
  <2>1. a.slots[to] \in Slot
    BY <1>1 DEF Accumulator
  <2>2. a.slots[to].part \in Part
    BY <2>1 DEF Slot
  <2>3. b.slots[to].part = Grew(a.slots[to].part, f)
    BY DEF Gets
  <2> DEFINE p == a.slots[to].part
  <2>4. p \in Part /\ p.kind = kind
    BY <2>2
  <2> HIDE DEF p
  <2>5. Grew(p, f).kind = p.kind /\ Grew(p, f).got = Append(p.got, f)
    BY <2>4, GrewTyped
  <2>6. QED
    BY <2>2, <2>3, <2>4, <2>5 DEF p
<1>3. \A j \in 1..n : b.slots[j].part.kind = a.slots[j].part.kind
  BY <1>1, <1>2
<1>4. a.parts \in Seq(Part)
  BY DEF Accumulator
<1> HIDE DEF n
<1>5. ASSUME NEW k \in Narrative PROVE OneIndex(b.slots, k)
  <2>1. \A j \in 1..n : a.slots[j].part.kind = k => a.slots[j].index = IndexOf(k)
    BY DEF Narrated, OneIndex, n
  <2>2. \A j \in 1..n : b.slots[j].part.kind = k => b.slots[j].index = IndexOf(k)
    BY <1>1, <1>3, <2>1
  <2>3. QED
    BY <1>1, <2>2 DEF OneIndex
<1>6. ASSUME NEW k \in Narrative PROVE Sums(b, more, k)
  <2>1. PICK since \in Seq(Nat) : Holds(a.slots, k, since) /\ AllOf(k, told) = AllOf(k, a.parts) \o since
    BY DEF Narrated, Sums
  <2>2. CASE k # kind
    <3>1. \A j \in 1..n : b.slots[j].part.kind = k => b.slots[j] = a.slots[j]
      BY <1>1, <1>2, <2>2
    <3>2. Mute(a.slots, k) => Mute(b.slots, k)
      BY <1>1, <1>3, <3>1 DEF Mute, n
    <3>3. ASSUME NEW j \in 1..n, Told(a.slots, k, since, j) PROVE Told(b.slots, k, since, j)
      BY <1>1, <1>3, <3>1, <3>3 DEF Told, n
    <3>4. Holds(b.slots, k, since)
      BY <1>1, <2>1, <3>2, <3>3 DEF Holds, n
    <3>5. AllOf(k, more) = AllOf(k, b.parts) \o since
      BY <1>1, <2>1, <2>2
    <3>6. QED
      BY <3>4, <3>5 DEF Sums
  <2>3. CASE k = kind
    <3>1. a.slots[to].part.got = since
      <4>1. CASE since = <<>> /\ Mute(a.slots, k)
        BY <1>1, <2>3, <4>1 DEF Mute, n
      <4>2. CASE \E j \in 1..n : Told(a.slots, k, since, j)
        <5>1. PICK j \in 1..n : Told(a.slots, k, since, j)
          BY <4>2
        <5>2. /\ a.slots[j].part.kind = k /\ a.slots[j].part.got = since
              /\ to # j => j < to
          BY <1>1, <2>3, <5>1 DEF Told, n
        <5>3. to <= j
          BY <2>3, <5>2 DEF n
        <5>4. to = j
          BY <1>1, <5>2, <5>3
        <5>5. QED
          BY <5>2, <5>4
      <4>3. QED
        BY <2>1, <4>1, <4>2 DEF Holds, n
    <3>2. \A g \in 1..n : a.slots[g].part.kind = k /\ g # to => to < g /\ a.slots[g].part.got = <<>>
      <4>1. CASE Mute(a.slots, k)
        <5>1. \A g \in 1..n : a.slots[g].part.kind = k => a.slots[g].part.got = <<>> /\ to <= g
          BY <2>3, <4>1 DEF Mute, n
        <5>2. \A g \in 1..n : to <= g /\ g # to => to < g
          BY <1>1
        <5>3. QED
          BY <5>1, <5>2
      <4>2. CASE \E j \in 1..n : Told(a.slots, k, since, j)
        <5>1. PICK j \in 1..n : Told(a.slots, k, since, j)
          BY <4>2
        <5>2. /\ a.slots[j].part.kind = k
              /\ \A g \in 1..n : a.slots[g].part.kind = k /\ g # j => j < g /\ a.slots[g].part.got = <<>>
          BY <5>1 DEF Told, n
        <5>3. to <= j /\ (to # j => j < to)
          BY <1>1, <2>3, <5>2 DEF n
        <5>4. to = j
          BY <1>1, <5>3
        <5>5. QED
          BY <5>2, <5>4
      <4>3. QED
        BY <2>1, <4>1, <4>2 DEF Holds, n
    <3>3. Told(b.slots, k, Append(since, f), to)
      <4>1. b.slots[to].part.kind = k /\ b.slots[to].part.got = Append(since, f)
        BY <1>2, <2>3, <3>1
      <4>2. \A g \in 1..n : b.slots[g].part.kind = k /\ g # to => to < g /\ b.slots[g].part.got = <<>>
        BY <1>1, <3>2
      <4>3. QED
        BY <1>1, <4>1, <4>2 DEF Told
    <3>4. AllOf(k, more) = AllOf(k, b.parts) \o Append(since, f)
      <4>1. AllOf(k, a.parts) \in Seq(Nat)
        BY <1>4, AllOfProperties
      <4>2. AllOf(k, more) = (AllOf(k, a.parts) \o since) \o <<f>>
        BY <2>1, <2>3
      <4>3. (AllOf(k, a.parts) \o since) \o <<f>> = AllOf(k, a.parts) \o Append(since, f)
        <5>1. since \o <<f>> = Append(since, f) /\ <<f>> \in Seq(Nat)
          OBVIOUS
        <5>2. (AllOf(k, a.parts) \o since) \o <<f>> = AllOf(k, a.parts) \o (since \o <<f>>)
          BY <4>1, <5>1, ConcatAssociative
        <5>3. QED
          BY <5>1, <5>2
      <4>4. QED
        BY <1>1, <4>2, <4>3
    <3>5. Append(since, f) \in Seq(Nat)
      OBVIOUS
    <3>6. Holds(b.slots, k, Append(since, f))
      BY <1>1, <3>3 DEF Holds
    <3>7. QED
      BY <3>4, <3>5, <3>6 DEF Sums
  <2>4. QED
    BY <2>2, <2>3
<1>7. QED
  BY <1>5, <1>6 DEF Narrated

\* The first slot of a kind holds all, and the others nothing.
LEMMA FirstHolds ==
  ASSUME NEW s, Len(s) \in Nat, NEW k, NEW since, Holds(s, k, since), NEW to \in 1..Len(s),
         s[to].part.kind = k, \A j \in 1..Len(s) : s[j].part.kind = k => to <= j
  PROVE  /\ s[to].part.got = since
         /\ \A g \in 1..Len(s) : s[g].part.kind = k /\ g # to => s[g].part.got = <<>>
<1>1. CASE since = <<>> /\ Mute(s, k)
  BY <1>1 DEF Mute
<1>2. CASE \E j \in 1..Len(s) : Told(s, k, since, j)
  <2>1. PICK j \in 1..Len(s) : Told(s, k, since, j)
    BY <1>2
  <2>2. /\ s[j].part.kind = k /\ s[j].part.got = since
        /\ \A g \in 1..Len(s) : s[g].part.kind = k /\ g # j => j < g /\ s[g].part.got = <<>>
    BY <2>1 DEF Told
  <2>3. to <= j /\ (to # j => j < to)
    BY <2>2
  <2>4. to = j
    BY <2>3
  <2>5. QED
    BY <2>2, <2>4
<1>3. QED
  BY <1>1, <1>2 DEF Holds

\* A slot that closes is the oldest of its index, and so of its kind.
LEMMA EndsNarrated ==
  ASSUME NEW a \in Accumulator, NEW b, NEW out, Ends(a, b, out), NEW told, Narrated(a, told),
         \A j \in 1..Len(a.slots) : a.slots[j].index = a.slots[out].index => out <= j
  PROVE  Narrated(b, told)
<1> DEFINE n == Len(a.slots)
           p == a.slots[out].part
<1>1. n \in Nat /\ out \in 1..n /\ Len(b.slots) = n - 1 /\ a.parts \in Seq(Part) /\ p \in Part
  <2>1. n \in Nat /\ out \in 1..n /\ Len(b.slots) = n - 1 /\ a.parts \in Seq(Part) /\ a.slots \in Seq(Slot)
    BY EndsMoves DEF Accumulator
  <2>2. a.slots[out] \in Slot
    BY <2>1
  <2>3. QED
    BY <2>1, <2>2 DEF Slot
<1>2. \A j \in 1..n : j # out => Now(out, j) \in 1..n-1 /\ b.slots[Now(out, j)] = a.slots[j]
  BY <1>1, EndsMoves
<1>3. \A l \in 1..n-1 : \E j \in 1..n : j # out /\ l = Now(out, j) /\ b.slots[l] = a.slots[j]
  <2>1. \A l \in 1..Len(b.slots) : \E j \in 1..n : j # out /\ l = Now(out, j) /\ b.slots[l] = a.slots[j]
    BY EndsMoves
  <2>2. QED
    BY <1>1, <2>1
<1>4. \A j, g \in 1..n : j # out /\ g # out => (Now(out, j) = Now(out, g) <=> j = g) /\ (j < g => Now(out, j) < Now(out, g))
  BY EndsMoves
<1>5. b.parts = IF Empty(p) THEN a.parts ELSE Append(a.parts, p)
  BY DEF Ends
<1>6. p.got \in Seq(Nat)
  BY <1>1 DEF Part
<1> HIDE DEF n, p
<1>7. ASSUME NEW k \in Narrative PROVE OneIndex(b.slots, k)
  <2>1. \A j \in 1..n : a.slots[j].part.kind = k => a.slots[j].index = IndexOf(k)
    BY DEF Narrated, OneIndex, n
  <2>2. ASSUME NEW l \in 1..n-1, b.slots[l].part.kind = k PROVE b.slots[l].index = IndexOf(k)
    <3>1. PICK j \in 1..n : b.slots[l] = a.slots[j]
      BY <1>3
    <3>2. QED
      BY <2>1, <2>2, <3>1
  <2>3. QED
    BY <1>1, <2>2 DEF OneIndex
<1>8. ASSUME NEW k \in Narrative PROVE Sums(b, told, k)
  <2>1. PICK since \in Seq(Nat) : Holds(a.slots, k, since) /\ AllOf(k, told) = AllOf(k, a.parts) \o since
    BY DEF Narrated, Sums
  <2>2. AllOf(k, a.parts) \in Seq(Nat)
    BY <1>1, AllOfProperties
  <2>3. AllOf(k, b.parts) = IF p.kind = k THEN AllOf(k, a.parts) \o p.got ELSE AllOf(k, a.parts)
    <3>1. CASE Empty(p)
      <4>1. p.got = <<>> /\ b.parts = a.parts
        BY <1>5, <3>1 DEF Empty
      <4>2. AllOf(k, a.parts) \o <<>> = AllOf(k, a.parts)
        BY <2>2
      <4>3. QED
        BY <4>1, <4>2
    <3>2. CASE ~Empty(p)
      <4>1. AllOf(k, Append(a.parts, p)) = IF p.kind = k THEN AllOf(k, a.parts) \o p.got ELSE AllOf(k, a.parts)
        BY <1>1, AllOfProperties
      <4>2. b.parts = Append(a.parts, p)
        BY <1>5, <3>2
      <4>3. QED
        BY <4>1, <4>2
    <3>3. QED
      BY <3>1, <3>2
  <2>4. CASE p.kind # k
    <3>1. ASSUME Mute(a.slots, k) PROVE Mute(b.slots, k)
      <4>1. \A j \in 1..n : a.slots[j].part.kind = k => a.slots[j].part.got = <<>>
        BY <3>1 DEF Mute, n
      <4>2. ASSUME NEW l \in 1..n-1, b.slots[l].part.kind = k PROVE b.slots[l].part.got = <<>>
        BY <1>3, <4>1, <4>2
      <4>3. QED
        BY <1>1, <4>2 DEF Mute
    <3>2. ASSUME NEW j \in 1..n, Told(a.slots, k, since, j)
          PROVE  Now(out, j) \in 1..n-1 /\ Told(b.slots, k, since, Now(out, j))
      <4>1. /\ a.slots[j].part.kind = k /\ a.slots[j].part.got = since /\ j # out
            /\ \A g \in 1..n : a.slots[g].part.kind = k /\ g # j => j < g /\ a.slots[g].part.got = <<>>
        BY <2>4, <3>2 DEF Told, n, p
      <4>2. Now(out, j) \in 1..n-1 /\ b.slots[Now(out, j)] = a.slots[j]
        BY <1>2, <4>1
      <4>3. ASSUME NEW l \in 1..n-1, b.slots[l].part.kind = k, l # Now(out, j)
            PROVE  Now(out, j) < l /\ b.slots[l].part.got = <<>>
        <5>1. PICK g \in 1..n : g # out /\ l = Now(out, g) /\ b.slots[l] = a.slots[g]
          BY <1>3
        <5>2. j < g /\ a.slots[g].part.got = <<>>
          BY <4>1, <4>3, <5>1
        <5>3. QED
          BY <1>4, <4>1, <5>1, <5>2
      <4>4. QED
        BY <1>1, <4>1, <4>2, <4>3 DEF Told
    <3>3. Holds(b.slots, k, since)
      <4>1. (since = <<>> /\ Mute(a.slots, k)) \/ \E j \in 1..n : Told(a.slots, k, since, j)
        BY <2>1 DEF Holds, n
      <4>2. QED
        BY <1>1, <3>1, <3>2, <4>1 DEF Holds
    <3>4. QED
      BY <2>1, <2>3, <2>4, <3>3 DEF Sums
  <2>5. CASE p.kind = k
    <3>1. \A j \in 1..n : a.slots[j].part.kind = k => out <= j
      BY <1>1, <2>5 DEF Narrated, OneIndex, n, p
    <3>2. /\ p.got = since
          /\ \A g \in 1..n : a.slots[g].part.kind = k /\ g # out => a.slots[g].part.got = <<>>
      <4>1. /\ Len(a.slots) \in Nat /\ out \in 1..Len(a.slots) /\ a.slots[out].part.kind = k
            /\ \A j \in 1..Len(a.slots) : a.slots[j].part.kind = k => out <= j
        BY <1>1, <2>5, <3>1 DEF n, p
      <4>2. /\ a.slots[out].part.got = since
            /\ \A g \in 1..Len(a.slots) : a.slots[g].part.kind = k /\ g # out => a.slots[g].part.got = <<>>
        BY <2>1, <4>1, FirstHolds
      <4>3. QED
        BY <4>2 DEF n, p
    <3>3. Mute(b.slots, k)
      <4>1. ASSUME NEW l \in 1..n-1, b.slots[l].part.kind = k PROVE b.slots[l].part.got = <<>>
        BY <1>3, <3>2, <4>1
      <4>2. QED
        BY <1>1, <4>1 DEF Mute
    <3>4. AllOf(k, told) = AllOf(k, b.parts) /\ AllOf(k, b.parts) \in Seq(Nat)
      <4>1. AllOf(k, told) = AllOf(k, b.parts)
        BY <2>1, <2>3, <2>5, <3>2
      <4>2. AllOf(k, a.parts) \o since \in Seq(Nat)
        BY <2>2
      <4>3. QED
        BY <2>1, <4>1, <4>2
    <3>5. AllOf(k, told) = AllOf(k, b.parts) \o <<>> /\ <<>> \in Seq(Nat)
      <4>1. AllOf(k, b.parts) \o <<>> = AllOf(k, b.parts)
        BY <3>4
      <4>2. QED
        BY <3>4, <4>1
    <3>6. QED
      BY <3>3, <3>5 DEF Sums, Holds
  <2>6. QED
    BY <2>4, <2>5
<1>9. QED
  BY <1>7, <1>8 DEF Narrated

\* What is told anew need not have grown.
LEMMA NarratedAlike ==
  ASSUME NEW a, NEW told, NEW more, Narrated(a, told),
         \A k \in Narrative : AllOf(k, more) = AllOf(k, told)
  PROVE  Narrated(a, more)
<1>1. ASSUME NEW k \in Narrative PROVE OneIndex(a.slots, k) /\ Sums(a, more, k)
  <2>1. OneIndex(a.slots, k) /\ Sums(a, told, k) /\ AllOf(k, more) = AllOf(k, told)
    BY DEF Narrated
  <2>2. QED
    BY <2>1 DEF Sums
<1>2. QED
  BY <1>1 DEF Narrated

-----------------------------------------------------------------------------
(* What the slots hold of the calls. *)

\* Narrative begins.
LEMMA BeginsCalled ==
  ASSUME NEW a \in Accumulator, NEW b, NEW i, NEW p, Begins(a, b, i, p), NEW told,
         Called(a, told), p.kind # "call"
  PROVE  Called(b, told)
<1> DEFINE n == Len(a.slots)
<1>1. /\ n \in Nat /\ Len(b.slots) = n + 1 /\ b.slots[n+1].part = p
      /\ b.parts = a.parts /\ \A j \in 1..n : b.slots[j] = a.slots[j]
  BY DEF Begins, Accumulator
<1>2. (\A j \in 1..n+1 : j \in 1..n \/ j = n + 1) /\ \A j \in 1..n : j \in 1..n+1
  BY <1>1
<1> HIDE DEF n
<1>3. ASSUME NEW j \in 1..n+1, b.slots[j].part.kind = "call" PROVE Slotted(b, told, j)
  <2>1. j \in 1..n /\ b.slots[j] = a.slots[j]
    BY <1>1, <1>2, <1>3
  <2>2. Slotted(a, told, j)
    BY <1>3, <2>1 DEF Called, n
  <2>3. /\ a.slots[j].part \in Calls(told) /\ a.slots[j].index + 1 = a.slots[j].part.id
        /\ \A g \in 1..n : IsCall(a.slots[g].part, a.slots[j].part.id) => g = j
        /\ \A q \in PartsOf(a.parts) : ~IsCall(q, a.slots[j].part.id)
    BY <2>2 DEF Slotted, n
  <2>4. ~IsCall(p, a.slots[j].part.id)
    BY DEF IsCall
  <2>5. \A g \in 1..n+1 : IsCall(b.slots[g].part, a.slots[j].part.id) => g = j
    BY <1>1, <1>2, <2>3, <2>4
  <2>6. QED
    BY <1>1, <2>1, <2>3, <2>5 DEF Slotted
<1>4. ASSUME NEW q \in Calls(told) PROVE q \in PartsOf(b.parts) \/ \E j \in 1..n+1 : b.slots[j].part = q
  <2>1. q \in PartsOf(a.parts) \/ \E j \in 1..n : a.slots[j].part = q
    BY DEF Called, n
  <2>2. QED
    BY <1>1, <1>2, <2>1
<1>5. QED
  BY <1>1, <1>3, <1>4 DEF Called

\* A call begins that was not told before.
LEMMA CallBeginsCalled ==
  ASSUME NEW a \in Accumulator, NEW b, NEW i, NEW p, Begins(a, b, i, p), NEW told, NEW more,
         Called(a, told), p.kind = "call", i + 1 = p.id, Calls(more) = Calls(told) \cup {p},
         \A q \in Calls(told) : q.id # p.id
  PROVE  Called(b, more)
<1> DEFINE n == Len(a.slots)
<1>1. /\ n \in Nat /\ Len(b.slots) = n + 1 /\ b.slots[n+1].part = p /\ b.slots[n+1].index = i
      /\ b.parts = a.parts /\ \A j \in 1..n : b.slots[j] = a.slots[j]
  BY DEF Begins, Accumulator
<1>2. (\A j \in 1..n+1 : j \in 1..n \/ j = n + 1) /\ (\A j \in 1..n : j \in 1..n+1) /\ n + 1 \in 1..n+1
  BY <1>1
<1> HIDE DEF n
<1>3. /\ Calls(a.parts) \subseteq Calls(told) /\ Once(a.parts)
      /\ \A j \in 1..n : a.slots[j].part.kind = "call" => Slotted(a, told, j)
      /\ \A q \in Calls(told) : q \in PartsOf(a.parts) \/ \E j \in 1..n : a.slots[j].part = q
  BY DEF Called, n
<1>4. \A q \in PartsOf(a.parts) : ~IsCall(q, p.id)
  BY <1>3 DEF IsCall, Calls
<1>5. \A j \in 1..n : a.slots[j].part.kind = "call" => a.slots[j].part \in Calls(told) /\ a.slots[j].part.id # p.id
  BY <1>3 DEF Slotted
<1>6. ASSUME NEW j \in 1..n+1, b.slots[j].part.kind = "call" PROVE Slotted(b, more, j)
  <2>1. CASE j \in 1..n
    <3>1. Slotted(a, told, j) /\ b.slots[j] = a.slots[j] /\ a.slots[j].part.id # p.id
      BY <1>1, <1>3, <1>5, <1>6, <2>1
    <3>2. /\ a.slots[j].part \in Calls(told) /\ a.slots[j].index + 1 = a.slots[j].part.id
          /\ \A g \in 1..n : IsCall(a.slots[g].part, a.slots[j].part.id) => g = j
          /\ \A q \in PartsOf(a.parts) : ~IsCall(q, a.slots[j].part.id)
      BY <3>1 DEF Slotted, n
    <3>3. ~IsCall(p, a.slots[j].part.id)
      BY <3>1 DEF IsCall
    <3>4. \A g \in 1..n+1 : IsCall(b.slots[g].part, a.slots[j].part.id) => g = j
      BY <1>1, <1>2, <3>2, <3>3
    <3>5. QED
      BY <1>1, <3>1, <3>2, <3>4 DEF Slotted
  <2>2. CASE j = n + 1
    <3>1. \A g \in 1..n+1 : IsCall(b.slots[g].part, p.id) => g = j
      BY <1>1, <1>2, <1>5, <2>2 DEF IsCall
    <3>2. QED
      BY <1>1, <1>4, <2>2, <3>1 DEF Slotted
  <2>3. QED
    BY <1>2, <2>1, <2>2
<1>7. ASSUME NEW q \in Calls(more) PROVE q \in PartsOf(b.parts) \/ \E j \in 1..n+1 : b.slots[j].part = q
  <2>1. CASE q = p
    BY <1>1, <1>2, <2>1
  <2>2. CASE q \in Calls(told)
    BY <1>1, <1>2, <1>3, <2>2
  <2>3. QED
    BY <2>1, <2>2
<1>8. Calls(b.parts) \subseteq Calls(more) /\ Once(b.parts)
  BY <1>1, <1>3
<1>9. QED
  BY <1>1, <1>6, <1>7, <1>8 DEF Called

\* What a fragment does to the slot that gets it.
LEMMA GetsGrown ==
  ASSUME NEW a \in Accumulator, NEW b, NEW to, NEW f \in Nat, Gets(a, b, to, f)
  PROVE  /\ Len(a.slots) \in Nat /\ to \in 1..Len(a.slots) /\ Len(b.slots) = Len(a.slots)
         /\ a.slots[to].part \in Part /\ b.slots[to].part = Grew(a.slots[to].part, f)
         /\ b.slots[to].part.kind = a.slots[to].part.kind /\ b.slots[to].part.id = a.slots[to].part.id
         /\ b.slots[to].part.got = Append(a.slots[to].part.got, f)
         /\ \A j \in 1..Len(a.slots) : b.slots[j].index = a.slots[j].index /\ (j # to => b.slots[j] = a.slots[j])
         /\ b.parts = a.parts /\ b \in Accumulator /\ b.broken = a.broken
<1>1. /\ Len(a.slots) \in Nat /\ to \in 1..Len(a.slots) /\ Len(b.slots) = Len(a.slots)
      /\ b.slots[to] = [index |-> a.slots[to].index, part |-> Grew(a.slots[to].part, f)]
      /\ \A j \in 1..Len(a.slots) : j # to => b.slots[j] = a.slots[j]
      /\ b.parts = a.parts /\ b \in Accumulator /\ b.broken = a.broken /\ a.slots \in Seq(Slot)
  BY DEF Gets, Accumulator
<1>2. a.slots[to] \in Slot
  BY <1>1
<1> DEFINE p == a.slots[to].part
<1>3. p \in Part
  BY <1>2 DEF Slot
<1> HIDE DEF p
<1>4. Grew(p, f).kind = p.kind /\ Grew(p, f).id = p.id /\ Grew(p, f).got = Append(p.got, f)
  BY <1>3, GrewTyped
<1>5. b.slots[to].index = a.slots[to].index /\ b.slots[to].part = Grew(p, f)
  BY <1>1 DEF p
<1>6. QED
  BY <1>1, <1>3, <1>4, <1>5 DEF p

LEMMA GetsCalled ==
  ASSUME NEW a \in Accumulator, NEW b, NEW to, NEW f \in Nat, Gets(a, b, to, f), NEW told,
         Called(a, told), a.slots[to].part.kind # "call"
  PROVE  Called(b, told)
<1> DEFINE n == Len(a.slots)
<1>1. /\ to \in 1..n /\ Len(b.slots) = n /\ b.parts = a.parts /\ b.slots[to].part.kind # "call"
      /\ \A j \in 1..n : j # to => b.slots[j] = a.slots[j]
  BY GetsGrown
<1> HIDE DEF n
<1>2. /\ Calls(a.parts) \subseteq Calls(told) /\ Once(a.parts)
      /\ \A j \in 1..n : a.slots[j].part.kind = "call" => Slotted(a, told, j)
      /\ \A q \in Calls(told) : q \in PartsOf(a.parts) \/ \E j \in 1..n : a.slots[j].part = q
  BY DEF Called, n
<1>3. ASSUME NEW j \in 1..n, b.slots[j].part.kind = "call" PROVE Slotted(b, told, j)
  <2>1. Slotted(a, told, j) /\ b.slots[j] = a.slots[j]
    BY <1>1, <1>2, <1>3
  <2>2. /\ a.slots[j].part \in Calls(told) /\ a.slots[j].index + 1 = a.slots[j].part.id
        /\ \A g \in 1..n : IsCall(a.slots[g].part, a.slots[j].part.id) => g = j
        /\ \A q \in PartsOf(a.parts) : ~IsCall(q, a.slots[j].part.id)
    BY <2>1 DEF Slotted, n
  <2>3. \A g \in 1..n : IsCall(b.slots[g].part, a.slots[j].part.id) => g = j
    BY <1>1, <2>2 DEF IsCall
  <2>4. QED
    BY <1>1, <2>1, <2>2, <2>3 DEF Slotted
<1>4. ASSUME NEW q \in Calls(told) PROVE q \in PartsOf(b.parts) \/ \E j \in 1..n : b.slots[j].part = q
  <2>1. q.kind = "call"
    BY DEF Calls
  <2>2. QED
    BY <1>1, <1>2, <2>1
<1>5. QED
  BY <1>1, <1>2, <1>3, <1>4 DEF Called

\* A fragment of a call: it is told of the call that has its slot.
LEMMA CallGetsCalled ==
  ASSUME NEW a \in Accumulator, NEW b, NEW to, NEW f \in Nat, Gets(a, b, to, f), NEW told, NEW more,
         Called(a, told), NEW p, a.slots[to].part = p, p.kind = "call",
         Calls(more) = (Calls(told) \ {p}) \cup {Grew(p, f)}
  PROVE  Called(b, more)
<1> DEFINE n == Len(a.slots)
           q == Grew(p, f)
<1>1. /\ to \in 1..n /\ Len(b.slots) = n /\ b.parts = a.parts
      /\ b.slots[to].part = q /\ q.kind = "call" /\ q.id = p.id /\ b.slots[to].index = a.slots[to].index
      /\ \A j \in 1..n : j # to => b.slots[j] = a.slots[j]
  BY GetsGrown
<1> HIDE DEF n, q
<1>2. /\ Calls(a.parts) \subseteq Calls(told) /\ Once(a.parts)
      /\ \A j \in 1..n : a.slots[j].part.kind = "call" => Slotted(a, told, j)
      /\ \A r \in Calls(told) : r \in PartsOf(a.parts) \/ \E j \in 1..n : a.slots[j].part = r
  BY DEF Called, n
<1>3. /\ p \in Calls(told) /\ a.slots[to].index + 1 = p.id
      /\ \A g \in 1..n : IsCall(a.slots[g].part, p.id) => g = to
      /\ \A r \in PartsOf(a.parts) : ~IsCall(r, p.id)
  BY <1>1, <1>2 DEF Slotted, n
<1>4. Calls(b.parts) \subseteq Calls(more)
  <2>1. ASSUME NEW r \in Calls(a.parts) PROVE r # p
    BY <1>3, <2>1 DEF Calls, IsCall
  <2>2. QED
    BY <1>1, <1>2, <2>1
<1>5. ASSUME NEW j \in 1..n, b.slots[j].part.kind = "call" PROVE Slotted(b, more, j)
  <2>1. \A g \in 1..n : \A id : IsCall(b.slots[g].part, id) <=> IsCall(a.slots[g].part, id)
    BY <1>1 DEF IsCall
  <2>2. CASE j = to
    <3>1. \A g \in 1..n : IsCall(b.slots[g].part, q.id) => g = j
      BY <1>1, <1>3, <2>1, <2>2
    <3>2. q \in Calls(more)
      BY DEF q
    <3>3. QED
      BY <1>1, <1>3, <2>2, <3>1, <3>2 DEF Slotted
  <2>3. CASE j # to
    <3>1. Slotted(a, told, j) /\ b.slots[j] = a.slots[j] /\ a.slots[j].part.kind = "call"
      BY <1>1, <1>2, <1>5, <2>3
    <3>2. /\ a.slots[j].part \in Calls(told) /\ a.slots[j].index + 1 = a.slots[j].part.id
          /\ \A g \in 1..n : IsCall(a.slots[g].part, a.slots[j].part.id) => g = j
          /\ \A r \in PartsOf(a.parts) : ~IsCall(r, a.slots[j].part.id)
      BY <3>1 DEF Slotted, n
    <3>3. a.slots[j].part # p
      BY <1>3, <2>3, <3>1 DEF IsCall
    <3>4. \A g \in 1..n : IsCall(b.slots[g].part, a.slots[j].part.id) => g = j
      BY <2>1, <3>2
    <3>5. QED
      BY <1>1, <3>1, <3>2, <3>3, <3>4 DEF Slotted
  <2>4. QED
    BY <2>2, <2>3
<1>6. ASSUME NEW r \in Calls(more) PROVE r \in PartsOf(b.parts) \/ \E j \in 1..n : b.slots[j].part = r
  <2>1. CASE r = q
    BY <1>1, <2>1
  <2>2. CASE r \in Calls(told) /\ r # p
    <3>1. r \in PartsOf(a.parts) \/ \E j \in 1..n : a.slots[j].part = r
      BY <1>2, <2>2
    <3>2. QED
      BY <1>1, <2>2, <3>1
  <2>3. QED
    BY <2>1, <2>2 DEF q
<1>7. QED
  BY <1>1, <1>2, <1>4, <1>5, <1>6 DEF Called

\* One part more.
LEMMA CallsAppended ==
  ASSUME NEW s \in Seq(Part), NEW p \in Part
  PROVE  /\ PartsOf(Append(s, p)) = PartsOf(s) \cup {p}
         /\ Calls(Append(s, p)) = IF p.kind = "call" THEN Calls(s) \cup {p} ELSE Calls(s)
<1> DEFINE t == Append(s, p)
           k == Len(s)
<1>1. /\ DOMAIN s = 1..k /\ DOMAIN t = 1..k+1 /\ k \in Nat
      /\ t[k+1] = p /\ \A i \in 1..k : t[i] = s[i]
  OBVIOUS
<1>2. (\A i \in 1..k+1 : i \in 1..k \/ i = k + 1) /\ (\A i \in 1..k : i \in 1..k+1) /\ k + 1 \in 1..k+1
  BY <1>1
<1>3. PartsOf(s) = {s[i] : i \in 1..k} /\ PartsOf(t) = {t[i] : i \in 1..k+1}
  BY <1>1 DEF PartsOf
<1> HIDE DEF k, t
<1>4. PartsOf(t) = PartsOf(s) \cup {p}
  BY <1>1, <1>2, <1>3
<1>5. Calls(t) = IF p.kind = "call" THEN Calls(s) \cup {p} ELSE Calls(s)
  BY <1>4 DEF Calls
<1>6. QED
  BY <1>4, <1>5 DEF t

LEMMA OnceAppended ==
  ASSUME NEW s \in Seq(Part), NEW p \in Part, Once(s), p.kind = "call" => \A q \in Calls(s) : q.id # p.id
  PROVE  Once(Append(s, p))
<1> DEFINE t == Append(s, p)
           k == Len(s)
<1>1. /\ DOMAIN s = 1..k /\ DOMAIN t = 1..k+1 /\ k \in Nat
      /\ t[k+1] = p /\ \A i \in 1..k : t[i] = s[i]
  OBVIOUS
<1>2. \A i \in 1..k+1 : i \in 1..k \/ i = k + 1
  BY <1>1
<1>3. \A i, j \in 1..k : s[i].kind = "call" /\ s[j].kind = "call" /\ s[i].id = s[j].id => i = j
  BY <1>1 DEF Once
<1>4. p.kind = "call" => \A i \in 1..k : ~(s[i].kind = "call" /\ s[i].id = p.id)
  BY <1>1 DEF Calls, PartsOf
<1> HIDE DEF t, k
<1>5. ASSUME NEW i \in 1..k+1, NEW j \in 1..k+1, t[i].kind = "call", t[j].kind = "call", t[i].id = t[j].id
      PROVE  i = j
  <2>1. CASE i \in 1..k /\ j \in 1..k
    BY <1>1, <1>3, <1>5, <2>1
  <2>2. CASE i \in 1..k /\ j = k + 1
    BY <1>1, <1>4, <1>5, <2>2
  <2>3. CASE i = k + 1 /\ j \in 1..k
    BY <1>1, <1>4, <1>5, <2>3
  <2>4. QED
    BY <1>2, <2>1, <2>2, <2>3
<1>6. QED
  BY <1>1, <1>5 DEF Once, t

LEMMA EndsCalled ==
  ASSUME NEW a \in Accumulator, NEW b, NEW out, Ends(a, b, out), NEW told, Called(a, told)
  PROVE  Called(b, told)
<1> DEFINE n == Len(a.slots)
           p == a.slots[out].part
<1>1. n \in Nat /\ out \in 1..n /\ Len(b.slots) = n - 1 /\ a.parts \in Seq(Part) /\ p \in Part
  <2>1. n \in Nat /\ out \in 1..n /\ Len(b.slots) = n - 1 /\ a.parts \in Seq(Part) /\ a.slots \in Seq(Slot)
    BY EndsMoves DEF Accumulator
  <2>2. a.slots[out] \in Slot
    BY <2>1
  <2>3. QED
    BY <2>1, <2>2 DEF Slot
<1>2. \A j \in 1..n : j # out => Now(out, j) \in 1..n-1 /\ b.slots[Now(out, j)] = a.slots[j]
  BY <1>1, EndsMoves
<1>3. \A l \in 1..n-1 : \E j \in 1..n : j # out /\ l = Now(out, j) /\ b.slots[l] = a.slots[j]
  <2>1. \A l \in 1..Len(b.slots) : \E j \in 1..n : j # out /\ l = Now(out, j) /\ b.slots[l] = a.slots[j]
    BY EndsMoves
  <2>2. QED
    BY <1>1, <2>1
<1>4. b.parts = IF Empty(p) THEN a.parts ELSE Append(a.parts, p)
  BY DEF Ends
<1> HIDE DEF n, p
<1>5. /\ Calls(a.parts) \subseteq Calls(told) /\ Once(a.parts)
      /\ \A j \in 1..n : a.slots[j].part.kind = "call" => Slotted(a, told, j)
      /\ \A r \in Calls(told) : r \in PartsOf(a.parts) \/ \E j \in 1..n : a.slots[j].part = r
  BY DEF Called, n
<1>6. ASSUME p.kind = "call"
      PROVE  /\ p \in Calls(told)
             /\ \A g \in 1..n : IsCall(a.slots[g].part, p.id) => g = out
             /\ \A r \in PartsOf(a.parts) : ~IsCall(r, p.id)
  <2>1. Slotted(a, told, out)
    BY <1>1, <1>5, <1>6 DEF p
  <2>2. QED
    BY <2>1 DEF Slotted, n, p
<1>7. /\ PartsOf(a.parts) \subseteq PartsOf(b.parts) /\ PartsOf(b.parts) \subseteq PartsOf(a.parts) \cup {p}
      /\ p.kind = "call" => p \in PartsOf(b.parts)
  <2>1. CASE Empty(p)
    BY <1>4, <2>1 DEF Empty
  <2>2. CASE ~Empty(p)
    <3>1. PartsOf(Append(a.parts, p)) = PartsOf(a.parts) \cup {p}
      BY <1>1, CallsAppended
    <3>2. QED
      BY <1>4, <2>2, <3>1
  <2>3. QED
    BY <2>1, <2>2
<1>8. Calls(b.parts) \subseteq Calls(told)
  <2>1. ASSUME NEW r \in Calls(b.parts) PROVE r \in Calls(told)
    <3>1. r.kind = "call" /\ (r \in PartsOf(a.parts) \/ r = p)
      BY <1>7 DEF Calls
    <3>2. QED
      BY <1>5, <1>6, <3>1 DEF Calls
  <2>2. QED
    BY <2>1
<1>9. Once(b.parts)
  <2>1. CASE Empty(p)
    BY <1>4, <1>5, <2>1
  <2>2. CASE ~Empty(p)
    <3>1. p.kind = "call" => \A q \in Calls(a.parts) : q.id # p.id
      BY <1>6 DEF Calls, IsCall
    <3>2. Once(Append(a.parts, p))
      BY <1>1, <1>5, <3>1, OnceAppended
    <3>3. QED
      BY <1>4, <2>2, <3>2
  <2>3. QED
    BY <2>1, <2>2
<1>10. ASSUME NEW l \in 1..n-1, b.slots[l].part.kind = "call" PROVE Slotted(b, told, l)
  <2>1. PICK j \in 1..n : j # out /\ l = Now(out, j) /\ b.slots[l] = a.slots[j]
    BY <1>3
  <2>2. Slotted(a, told, j)
    BY <1>5, <1>10, <2>1
  <2>3. /\ a.slots[j].part \in Calls(told) /\ a.slots[j].index + 1 = a.slots[j].part.id
        /\ \A g \in 1..n : IsCall(a.slots[g].part, a.slots[j].part.id) => g = j
        /\ \A r \in PartsOf(a.parts) : ~IsCall(r, a.slots[j].part.id)
    BY <2>2 DEF Slotted, n
  <2>4. ~IsCall(p, a.slots[j].part.id)
    BY <1>1, <2>1, <2>3 DEF p
  <2>5. \A r \in PartsOf(b.parts) : ~IsCall(r, a.slots[j].part.id)
    BY <1>7, <2>3, <2>4
  <2>6. ASSUME NEW g \in 1..n-1, IsCall(b.slots[g].part, a.slots[j].part.id) PROVE g = l
    <3>1. PICK o \in 1..n : o # out /\ g = Now(out, o) /\ b.slots[g] = a.slots[o]
      BY <1>3
    <3>2. o = j
      BY <2>3, <2>6, <3>1
    <3>3. QED
      BY <2>1, <3>1, <3>2
  <2>7. QED
    BY <1>1, <2>1, <2>3, <2>5, <2>6 DEF Slotted
<1>11. ASSUME NEW r \in Calls(told) PROVE r \in PartsOf(b.parts) \/ \E l \in 1..n-1 : b.slots[l].part = r
  <2>1. r.kind = "call"
    BY DEF Calls
  <2>2. CASE r \in PartsOf(a.parts)
    BY <1>7, <2>2
  <2>3. CASE \E j \in 1..n : a.slots[j].part = r
    <3>1. PICK j \in 1..n : a.slots[j].part = r
      BY <2>3
    <3>2. CASE j = out
      BY <1>7, <2>1, <3>1, <3>2 DEF p
    <3>3. CASE j # out
      BY <1>2, <3>1, <3>3
    <3>4. QED
      BY <3>2, <3>3
  <2>4. QED
    BY <1>5, <2>2, <2>3
<1>12. QED
  BY <1>1, <1>8, <1>9, <1>10, <1>11 DEF Called

-----------------------------------------------------------------------------
(* The stops to come. *)

LEMMA Indices ==
  /\ \A k \in Narrative : IndexOf(k) \in Nat /\ k # "call" /\ k \in Lane
  /\ \A k, l \in Narrative : IndexOf(k) = IndexOf(l) => k = l
BY DEF Narrative, IndexOf, Lane

LEMMA OwedValues ==
  ASSUME NEW O, NEW m, NEW n, NEW i \in Nat
  PROVE  /\ Owed(O, m, n)[i] \in {0, 1, 2}
         /\ (m <= i /\ i < n) /\ (\E k \in O : IndexOf(k) = i) => Owed(O, m, n)[i] = 2
         /\ (m <= i /\ i < n) /\ ~(\E k \in O : IndexOf(k) = i) => Owed(O, m, n)[i] = 1
         /\ ~(m <= i /\ i < n) /\ (\E k \in O : IndexOf(k) = i) => Owed(O, m, n)[i] = 1
         /\ ~(m <= i /\ i < n) /\ ~(\E k \in O : IndexOf(k) = i) => Owed(O, m, n)[i] = 0
<1> DEFINE Lanes(h) == \E k \in O : IndexOf(k) = h
<1>1. Owed(O, m, n)[i] = (IF m <= i /\ i < n THEN 1 ELSE 0) + (IF Lanes(i) THEN 1 ELSE 0)
  BY DEF Owed
<1> HIDE DEF Lanes
<1>2. /\ Owed(O, m, n)[i] \in {0, 1, 2}
      /\ (m <= i /\ i < n) /\ Lanes(i) => Owed(O, m, n)[i] = 2
      /\ (m <= i /\ i < n) /\ ~Lanes(i) => Owed(O, m, n)[i] = 1
      /\ ~(m <= i /\ i < n) /\ Lanes(i) => Owed(O, m, n)[i] = 1
      /\ ~(m <= i /\ i < n) /\ ~Lanes(i) => Owed(O, m, n)[i] = 0
  BY <1>1
<1>3. QED
  BY <1>2 DEF Lanes

\* A lane that opens or that is shut is one stop more or less at its index.
LEMMA OwedLane ==
  ASSUME NEW O, O \subseteq Narrative, NEW k \in Narrative, k \notin O, NEW m, NEW n, NEW i \in Nat
  PROVE  /\ i # IndexOf(k) => Owed(O \cup {k}, m, n)[i] = Owed(O, m, n)[i]
         /\ i = IndexOf(k) => \/ Owed(O, m, n)[i] = 0 /\ Owed(O \cup {k}, m, n)[i] = 1
                              \/ Owed(O, m, n)[i] = 1 /\ Owed(O \cup {k}, m, n)[i] = 2
<1> DEFINE Q        == O \cup {k}
           Lanes(h) == \E l \in O : IndexOf(l) = h
           More(h)  == \E l \in Q : IndexOf(l) = h
           Call     == m <= i /\ i < n
<1>1. i # IndexOf(k) => (Lanes(i) <=> More(i))
  OBVIOUS
<1>2. i = IndexOf(k) => ~Lanes(i) /\ More(i)
  BY Indices
<1> HIDE DEF Q
<1>3. /\ Owed(O, m, n)[i] \in {0, 1, 2}
      /\ Call /\ Lanes(i) => Owed(O, m, n)[i] = 2
      /\ Call /\ ~Lanes(i) => Owed(O, m, n)[i] = 1
      /\ ~Call /\ Lanes(i) => Owed(O, m, n)[i] = 1
      /\ ~Call /\ ~Lanes(i) => Owed(O, m, n)[i] = 0
  BY OwedValues, Zenon
<1>4. /\ Call /\ More(i) => Owed(Q, m, n)[i] = 2
      /\ Call /\ ~More(i) => Owed(Q, m, n)[i] = 1
      /\ ~Call /\ More(i) => Owed(Q, m, n)[i] = 1
      /\ ~Call /\ ~More(i) => Owed(Q, m, n)[i] = 0
  BY OwedValues, Zenon
<1> HIDE DEF Lanes, More, Call
<1>5. /\ i # IndexOf(k) => Owed(Q, m, n)[i] = Owed(O, m, n)[i]
      /\ i = IndexOf(k) => \/ Owed(O, m, n)[i] = 0 /\ Owed(Q, m, n)[i] = 1
                           \/ Owed(O, m, n)[i] = 1 /\ Owed(Q, m, n)[i] = 2
  BY <1>1, <1>2, <1>3, <1>4
<1>6. QED
  BY <1>5 DEF Q

\* So is a call that begins, and one that is closed.
LEMMA OwedCall ==
  ASSUME NEW O, NEW m \in Nat, NEW n \in Nat, m <= n, NEW i \in Nat
  PROVE  /\ i # n => Owed(O, m, n + 1)[i] = Owed(O, m, n)[i]
         /\ i = n => \/ Owed(O, m, n)[i] = 0 /\ Owed(O, m, n + 1)[i] = 1
                     \/ Owed(O, m, n)[i] = 1 /\ Owed(O, m, n + 1)[i] = 2
         /\ i # m => Owed(O, m + 1, n)[i] = Owed(O, m, n)[i]
         /\ i = m /\ m < n => \/ Owed(O, m + 1, n)[i] = 0 /\ Owed(O, m, n)[i] = 1
                              \/ Owed(O, m + 1, n)[i] = 1 /\ Owed(O, m, n)[i] = 2
<1> DEFINE Lanes(h) == \E l \in O : IndexOf(l) = h
<1>1. \A x, y : /\ (x <= i /\ i < y) /\ Lanes(i) => Owed(O, x, y)[i] = 2
                /\ (x <= i /\ i < y) /\ ~Lanes(i) => Owed(O, x, y)[i] = 1
                /\ ~(x <= i /\ i < y) /\ Lanes(i) => Owed(O, x, y)[i] = 1
                /\ ~(x <= i /\ i < y) /\ ~Lanes(i) => Owed(O, x, y)[i] = 0
  BY OwedValues, Zenon
<1> HIDE DEF Lanes
<1>2. /\ i # n => (m <= i /\ i < n + 1 <=> m <= i /\ i < n)
      /\ i = n => m <= i /\ i < n + 1 /\ ~(m <= i /\ i < n)
      /\ i # m => (m + 1 <= i /\ i < n <=> m <= i /\ i < n)
      /\ i = m /\ m < n => m <= i /\ i < n /\ ~(m + 1 <= i /\ i < n)
  OBVIOUS
<1>3. QED
  BY <1>1, <1>2

\* A slot more or less.
LEMMA BeginsOwes ==
  ASSUME NEW a \in Accumulator, NEW b, NEW i \in Nat, NEW p, Begins(a, b, i, p),
         NEW O, NEW m, NEW n, NEW Q, NEW l, NEW r, Owes(a, O, m, n),
         \A h \in Nat : h # i => Owed(Q, l, r)[h] = Owed(O, m, n)[h],
         \/ Owed(O, m, n)[i] = 0 /\ Owed(Q, l, r)[i] = 1
         \/ Owed(O, m, n)[i] = 1 /\ Owed(Q, l, r)[i] = 2
  PROVE  Owes(b, Q, l, r)
<1>1. ASSUME NEW h \in Nat PROVE Has(b.slots, h, Owed(Q, l, r)[h])
  <2>1. Has(a.slots, h, Owed(O, m, n)[h])
    BY DEF Owes
  <2>2. CASE h # i
    BY <2>1, <2>2, BeginsHas
  <2>3. CASE h = i
    BY <2>1, <2>3, BeginsHas
  <2>4. QED
    BY <2>2, <2>3
<1>2. QED
  BY <1>1 DEF Owes

LEMMA EndsOwes ==
  ASSUME NEW a \in Accumulator, NEW b, NEW out, Ends(a, b, out), NEW i \in Nat, a.slots[out].index = i,
         \A j \in 1..Len(a.slots) : a.slots[j].index = i => out <= j,
         NEW O, NEW m, NEW n, NEW Q, NEW l, NEW r, Owes(a, O, m, n),
         \A h \in Nat : h # i => Owed(Q, l, r)[h] = Owed(O, m, n)[h],
         \/ Owed(O, m, n)[i] = 1 /\ Owed(Q, l, r)[i] = 0
         \/ Owed(O, m, n)[i] = 2 /\ Owed(Q, l, r)[i] = 1
  PROVE  Owes(b, Q, l, r)
<1>1. ASSUME NEW h \in Nat PROVE Has(b.slots, h, Owed(Q, l, r)[h])
  <2> DEFINE v == Owed(O, m, n)[h]
             w == Owed(Q, l, r)[h]
  <2>1. /\ Has(a.slots, h, v) /\ (h # i => w = v)
        /\ h = i => (v = 1 /\ w = 0) \/ (v = 2 /\ w = 1)
    BY DEF Owes
  <2> HIDE DEF v, w
  <2>2. /\ h # i /\ Has(a.slots, h, v) => Has(b.slots, h, v)
        /\ Has(a.slots, i, 1) => Has(b.slots, i, 0)
        /\ Has(a.slots, i, 2) => Has(b.slots, i, 1)
    BY EndsHas
  <2>3. Has(b.slots, h, w)
    BY <2>1, <2>2
  <2>4. QED
    BY <2>3 DEF w
<1>2. QED
  BY <1>1 DEF Owes

LEMMA GetsOwes ==
  ASSUME NEW a \in Accumulator, NEW b, NEW to, NEW f, Gets(a, b, to, f),
         NEW O, NEW m, NEW n, Owes(a, O, m, n)
  PROVE  Owes(b, O, m, n)
<1>1. ASSUME NEW h \in Nat PROVE Has(b.slots, h, Owed(O, m, n)[h])
  <2>1. Has(a.slots, h, Owed(O, m, n)[h])
    BY DEF Owes
  <2>2. QED
    BY <2>1, GetsHas
<1>2. QED
  BY <1>1 DEF Owes

\* Nothing is open when nothing is owed, and one part when one stop is.
LEMMA OwesNothing ==
  ASSUME NEW a \in Accumulator, NEW m, NEW n, Owes(a, {}, m, n), \A i \in Nat : ~(m <= i /\ i < n)
  PROVE  a.slots = <<>>
<1>1. a.slots \in Seq(Slot)
  BY DEF Accumulator
<1>2. ASSUME NEW j \in 1..Len(a.slots) PROVE FALSE
  <2>1. a.slots[j] \in Slot
    BY <1>1
  <2>2. a.slots[j].index \in Nat
    BY <2>1 DEF Slot
  <2> DEFINE i == a.slots[j].index
  <2>3. Owed({}, m, n)[i] = 0
    BY <2>2, OwedValues
  <2>4. Has(a.slots, i, 0)
    BY <2>2, <2>3 DEF Owes
  <2>5. QED
    BY <2>4 DEF Has, None
<1>3. Len(a.slots) = 0
  BY <1>1, <1>2
<1>4. QED
  BY <1>1, <1>3

LEMMA OwesOne ==
  ASSUME NEW a \in Accumulator, NEW k \in Narrative, Owes(a, {k}, 0, 0)
  PROVE  Len(a.slots) = 1 /\ a.slots[1].index = IndexOf(k)
<1> DEFINE i == IndexOf(k)
<1>1. a.slots \in Seq(Slot) /\ i \in Nat
  BY Indices DEF Accumulator
<1>2. ASSUME NEW j \in 1..Len(a.slots) PROVE a.slots[j].index = i
  <2>1. a.slots[j] \in Slot
    BY <1>1
  <2>2. a.slots[j].index \in Nat
    BY <2>1 DEF Slot
  <2> DEFINE h == a.slots[j].index
  <2>3. ASSUME h # i PROVE FALSE
    <3>1. Owed({k}, 0, 0)[h] = 0
      <4>1. ~(0 <= h /\ h < 0) /\ ~\E l \in {k} : IndexOf(l) = h
        BY <2>2, <2>3
      <4>2. QED
        BY <2>2, <4>1, OwedValues
    <3>2. Has(a.slots, h, 0)
      BY <2>2, <3>1 DEF Owes
    <3>3. QED
      BY <3>2 DEF Has, None
  <2>4. QED
    BY <2>3
<1>3. Owed({k}, 0, 0)[i] = 1
  <2>1. ~(0 <= i /\ i < 0) /\ \E l \in {k} : IndexOf(l) = i
    BY <1>1
  <2>2. QED
    BY <1>1, <2>1, OwedValues
<1>4. Has(a.slots, i, 1)
  BY <1>1, <1>3 DEF Owes
<1>5. PICK j \in 1..Len(a.slots) : One(a.slots, i, j)
  BY <1>4 DEF Has
<1>6. \A h \in 1..Len(a.slots) : h = j
  BY <1>2, <1>5 DEF One
<1>7. Len(a.slots) = 1
  <2>1. 1 \in 1..Len(a.slots) /\ Len(a.slots) \in 1..Len(a.slots)
    BY <1>1
  <2>2. QED
    BY <1>6, <2>1
<1>8. QED
  BY <1>2, <1>7

-----------------------------------------------------------------------------
(* What each event makes of an accumulator that holds what was told. *)

LEMMA LaneBegins ==
  ASSUME NEW a, NEW told, NEW O, O \subseteq Narrative, NEW m, NEW n, Good(a, told, O, m, n),
         NEW k \in Narrative, k \notin O, NEW whole, NEW b, b = Advance(a, Starts(IndexOf(k), k, 0), whole)
  PROVE  Good(b, told, O \cup {k}, m, n) /\ Begins(a, b, IndexOf(k), NewPart(k, 0))
<1> DEFINE i == IndexOf(k)
           p == NewPart(k, 0)
<1>1. i \in Nat /\ k # "call" /\ k \in Lane /\ p.kind = k /\ p.got = <<>>
  BY Indices DEF NewPart
<1>2. /\ a \in Accumulator /\ ~a.broken /\ Owes(a, O, m, n) /\ Standing(a, O)
      /\ Narrated(a, told) /\ Called(a, told)
  BY DEF Good
<1>3. Begins(a, b, i, p)
  <2>1. b = Process(a, Starts(i, k, 0), whole)
    BY <1>2 DEF Advance
  <2>2. QED
    BY <1>1, <1>2, <2>1, StartBegins
<1> HIDE DEF i, p
<1>4. b \in Accumulator /\ ~b.broken
  BY <1>2, <1>3 DEF Begins
<1>5. Owes(b, O \cup {k}, m, n)
  <2> DEFINE Q == O \cup {k}
  <2>1. \A h \in Nat :
          /\ h # IndexOf(k) => Owed(O \cup {k}, m, n)[h] = Owed(O, m, n)[h]
          /\ h = IndexOf(k) => \/ Owed(O, m, n)[h] = 0 /\ Owed(O \cup {k}, m, n)[h] = 1
                               \/ Owed(O, m, n)[h] = 1 /\ Owed(O \cup {k}, m, n)[h] = 2
    BY OwedLane
  <2> HIDE DEF Q
  <2>2. /\ \A h \in Nat : h # i => Owed(Q, m, n)[h] = Owed(O, m, n)[h]
        /\ \/ Owed(O, m, n)[i] = 0 /\ Owed(Q, m, n)[i] = 1
           \/ Owed(O, m, n)[i] = 1 /\ Owed(Q, m, n)[i] = 2
    BY <1>1, <2>1 DEF i, Q
  <2>3. a \in Accumulator /\ Owes(a, O, m, n) /\ i \in Nat /\ Begins(a, b, i, p)
    BY <1>1, <1>2, <1>3
  <2>4. Owes(b, Q, m, n)
    BY <2>2, <2>3, BeginsOwes
  <2>5. QED
    BY <2>4 DEF Q
<1>6. Standing(b, O \cup {k})
  <2>1. /\ Len(a.slots) \in Nat /\ Len(b.slots) = Len(a.slots) + 1 /\ b.slots[Len(a.slots) + 1].part.kind = k
        /\ \A j \in 1..Len(a.slots) : b.slots[j] = a.slots[j] /\ j \in 1..Len(a.slots)+1
        /\ Len(a.slots) + 1 \in 1..Len(a.slots)+1
    BY <1>1, <1>2, <1>3 DEF Begins, Accumulator
  <2>2. \A l \in O : \E j \in 1..Len(a.slots) : a.slots[j].part.kind = l
    BY <1>2 DEF Standing
  <2>3. ASSUME NEW l \in O \cup {k} PROVE \E j \in 1..Len(b.slots) : b.slots[j].part.kind = l
    BY <2>1, <2>2
  <2>4. QED
    BY <2>3 DEF Standing
<1>7. Narrated(b, told)
  BY <1>1, <1>2, <1>3, BeginsNarrated DEF i
<1>8. Called(b, told)
  BY <1>1, <1>2, <1>3, BeginsCalled
<1>9. QED
  BY <1>3, <1>4, <1>5, <1>6, <1>7, <1>8 DEF Good, i, p

LEMMA CallIsBegun ==
  ASSUME NEW a, NEW told, NEW O, NEW m \in Nat, NEW n \in Nat, m <= n, Good(a, told, O, m, n),
         NEW whole, NEW b, b = Advance(a, Starts(n, "call", n + 1), whole), NEW more,
         \A k \in Narrative : AllOf(k, more) = AllOf(k, told),
         Calls(more) = Calls(told) \cup {NewPart("call", n + 1)},
         \A q \in Calls(told) : q.id # n + 1
  PROVE  Good(b, more, O, m, n + 1) /\ Begins(a, b, n, NewPart("call", n + 1))
<1> DEFINE p == NewPart("call", n + 1)
           r == n + 1
<1>1. p.kind = "call" /\ p.id = r /\ p.got = <<>> /\ r \in Nat /\ "call" \in Lane
  BY DEF NewPart, Lane
<1>2. /\ a \in Accumulator /\ ~a.broken /\ Owes(a, O, m, n) /\ Standing(a, O)
      /\ Narrated(a, told) /\ Called(a, told)
  BY DEF Good
<1>3. Begins(a, b, n, p)
  <2>1. b = Process(a, Starts(n, "call", r), whole)
    BY <1>2 DEF Advance
  <2>2. QED
    BY <1>1, <1>2, <2>1, StartBegins
<1> HIDE DEF p
<1>4. b \in Accumulator /\ ~b.broken
  BY <1>2, <1>3 DEF Begins
<1>5. Owes(b, O, m, r)
  <2>1. /\ \A h \in Nat : h # n => Owed(O, m, r)[h] = Owed(O, m, n)[h]
        /\ \/ Owed(O, m, n)[n] = 0 /\ Owed(O, m, r)[n] = 1
           \/ Owed(O, m, n)[n] = 1 /\ Owed(O, m, r)[n] = 2
    BY OwedCall
  <2> HIDE DEF r
  <2>2. QED
    BY <1>2, <1>3, <2>1, BeginsOwes
<1>6. Standing(b, O)
  <2>1. /\ Len(a.slots) \in Nat /\ Len(b.slots) = Len(a.slots) + 1
        /\ \A j \in 1..Len(a.slots) : b.slots[j] = a.slots[j] /\ j \in 1..Len(a.slots)+1
    BY <1>2, <1>3 DEF Begins, Accumulator
  <2>2. \A l \in O : \E j \in 1..Len(a.slots) : a.slots[j].part.kind = l
    BY <1>2 DEF Standing
  <2>3. ASSUME NEW l \in O PROVE \E j \in 1..Len(b.slots) : b.slots[j].part.kind = l
    BY <2>1, <2>2
  <2>4. QED
    BY <2>3 DEF Standing
<1>7. Narrated(b, more)
  <2>1. Narrated(b, told)
    BY <1>1, <1>2, <1>3, BeginsNarrated
  <2>2. QED
    BY <2>1, NarratedAlike
<1>8. Called(b, more)
  <2>1. Calls(more) = Calls(told) \cup {p} /\ n + 1 = p.id /\ \A q \in Calls(told) : q.id # p.id
    BY <1>1 DEF p
  <2>2. QED
    BY <1>1, <1>2, <1>3, <2>1, CallBeginsCalled
<1>9. QED
  BY <1>3, <1>4, <1>5, <1>6, <1>7, <1>8 DEF Good, p

LEMMA StandsOn ==
  ASSUME NEW a \in Accumulator, NEW b, NEW to, NEW f \in Nat, Gets(a, b, to, f), NEW O, Standing(a, O)
  PROVE  Standing(b, O)
<1>1. /\ Len(b.slots) = Len(a.slots) /\ to \in 1..Len(a.slots)
      /\ b.slots[to].part.kind = a.slots[to].part.kind
      /\ \A j \in 1..Len(a.slots) : j # to => b.slots[j] = a.slots[j]
  BY GetsGrown
<1>2. \A j \in 1..Len(a.slots) : b.slots[j].part.kind = a.slots[j].part.kind
  BY <1>1
<1>3. QED
  BY <1>1, <1>2 DEF Standing

TellsOn(told, more, k, f) ==
  /\ Calls(more) = Calls(told)
  /\ \A l \in Narrative : AllOf(l, more) = IF l = k THEN AllOf(l, told) \o <<f>> ELSE AllOf(l, told)
LEMMA LaneGets ==
  ASSUME NEW a, NEW told, NEW O, O \subseteq Narrative, NEW m, NEW n, Good(a, told, O, m, n),
         NEW k \in O, NEW f \in Nat, NEW whole, NEW b, b = Advance(a, Brings(IndexOf(k), k, f), whole),
         NEW more, TellsOn(told, more, k, f)
  PROVE  Good(b, more, O, m, n) /\ \E to : Gets(a, b, to, f)
<1>0. /\ Calls(more) = Calls(told)
      /\ \A l \in Narrative : AllOf(l, more) = IF l = k THEN AllOf(l, told) \o <<f>> ELSE AllOf(l, told)
  BY DEF TellsOn
<1> DEFINE i == IndexOf(k)
           S == {j \in 1..Len(a.slots) : a.slots[j].index = i /\ a.slots[j].part.kind = k}
<1>1. i \in Nat /\ k # "call" /\ k \in Lane /\ k \in Narrative
  BY Indices
<1>2. /\ a \in Accumulator /\ ~a.broken /\ Owes(a, O, m, n) /\ Standing(a, O)
      /\ Narrated(a, told) /\ Called(a, told)
  BY DEF Good
<1>3. \A j \in 1..Len(a.slots) : a.slots[j].part.kind = k => j \in S
  BY <1>1, <1>2 DEF Narrated, OneIndex
<1>4. S # {}
  BY <1>2, <1>3 DEF Standing
<1>5. b = Process(a, Brings(i, k, f), whole)
  BY <1>2 DEF Advance
<1>6. PICK to \in S : Gets(a, b, to, f) /\ \A j \in S : to <= j
  BY <1>1, <1>2, <1>4, <1>5, BringGets
<1>7. a.slots[to].part.kind = k /\ \A j \in 1..Len(a.slots) : a.slots[j].part.kind = k => to <= j
  BY <1>3, <1>6
<1> HIDE DEF i, S
<1>8. Narrated(b, more)
  BY <1>0, <1>1, <1>2, <1>6, <1>7, NarrativeGetsNarrated
<1>9. Called(b, more)
  <2>1. Called(b, told)
    BY <1>1, <1>2, <1>6, <1>7, GetsCalled
  <2>2. QED
    BY <1>0, <2>1 DEF Called, Slotted
<1>10. Owes(b, O, m, n) /\ Standing(b, O)
  BY <1>2, <1>6, GetsOwes, StandsOn
<1>11. b \in Accumulator /\ ~b.broken
  BY <1>2, <1>6 DEF Gets
<1>12. QED
  BY <1>6, <1>7, <1>8, <1>9, <1>10, <1>11 DEF Good

Bears(a, j, p) == j \in 1..Len(a.slots) /\ a.slots[j].part = p /\ p.kind = "call"
TellsCall(told, more, p, f) == /\ \A k \in Narrative : AllOf(k, more) = AllOf(k, told)
                               /\ Calls(more) = (Calls(told) \ {p}) \cup {Grew(p, f)}
BringsTo(p, f) == Brings(p.id - 1, "call", f)
LEMMA CallGets ==
  ASSUME NEW a, NEW told, NEW O, NEW m, NEW n, Good(a, told, O, m, n),
         NEW j, NEW p, Bears(a, j, p),
         NEW f \in Nat, NEW whole, NEW b, b = Advance(a, BringsTo(p, f), whole),
         NEW more, TellsCall(told, more, p, f)
  PROVE  Good(b, more, O, m, n) /\ Gets(a, b, j, f)
<1>0. /\ j \in 1..Len(a.slots) /\ a.slots[j].part = p /\ p.kind = "call"
      /\ b = Advance(a, Brings(p.id - 1, "call", f), whole)
      /\ \A k \in Narrative : AllOf(k, more) = AllOf(k, told)
      /\ Calls(more) = (Calls(told) \ {p}) \cup {Grew(p, f)}
  BY DEF Bears, TellsCall, BringsTo
<1> DEFINE i == p.id - 1
           S == {g \in 1..Len(a.slots) : a.slots[g].index = i /\ a.slots[g].part.kind = "call"}
<1>1. /\ a \in Accumulator /\ ~a.broken /\ Owes(a, O, m, n) /\ Standing(a, O)
      /\ Narrated(a, told) /\ Called(a, told)
  BY DEF Good
<1>2. ASSUME NEW g \in 1..Len(a.slots), a.slots[g].part.kind = "call"
      PROVE  Slotted(a, told, g) /\ a.slots[g].index \in Nat /\ a.slots[g].part.id \in Nat
  <2>1. a.slots[g] \in Slot
    BY <1>1 DEF Accumulator
  <2>2. a.slots[g].index \in Nat /\ a.slots[g].part \in Part
    BY <2>1 DEF Slot
  <2>3. QED
    BY <1>1, <1>2, <2>2 DEF Called, Part
<1>3. /\ a.slots[j].index + 1 = p.id /\ a.slots[j].index \in Nat /\ p.id \in Nat
      /\ \A g \in 1..Len(a.slots) : IsCall(a.slots[g].part, p.id) => g = j
  BY <1>0, <1>2 DEF Slotted
<1>4. i \in Nat /\ a.slots[j].index = i /\ "call" \in Lane
  BY <1>3 DEF Lane
<1>5. S = {j}
  <2>1. ASSUME NEW g \in S PROVE g = j
    <3>1. a.slots[g].index + 1 = a.slots[g].part.id
      BY <1>2 DEF Slotted
    <3>2. a.slots[g].part.id = p.id
      BY <1>3, <1>4, <3>1
    <3>3. QED
      BY <1>3, <3>2 DEF IsCall
  <2>2. QED
    BY <1>0, <1>4, <2>1
<1>6. b = Process(a, Brings(i, "call", f), whole)
  BY <1>0, <1>1 DEF Advance
<1>7. Gets(a, b, j, f)
  <2>1. \E to \in S : Gets(a, b, to, f)
    BY <1>1, <1>4, <1>5, <1>6, BringGets
  <2>2. QED
    BY <1>5, <2>1
<1> HIDE DEF i, S
<1>8. Narrated(b, more)
  <2>1. Narrated(b, told)
    BY <1>0, <1>1, <1>7, CallGetsNarrated
  <2>2. QED
    BY <1>0, <2>1, NarratedAlike
<1>9. Called(b, more)
  BY <1>0, <1>1, <1>7, CallGetsCalled
<1>10. Owes(b, O, m, n) /\ Standing(b, O)
  BY <1>1, <1>7, GetsOwes, StandsOn
<1>11. b \in Accumulator /\ ~b.broken
  BY <1>1, <1>7 DEF Gets
<1>12. QED
  BY <1>7, <1>8, <1>9, <1>10, <1>11 DEF Good

\* A stop rejects a call that is not whole, or closes the oldest slot of its index.
LEMMA HaltTurns ==
  ASSUME NEW a, NEW told, NEW O, NEW m, NEW n, Good(a, told, O, m, n),
         NEW i \in Nat, Owed(O, m, n)[i] # 0, NEW whole, NEW b, b = Advance(a, Halts(i), whole)
  PROVE  \/ b \in Accumulator /\ b.broken /\ ~(Calls(told) \subseteq whole)
         \/ \E out : /\ Ends(a, b, out) /\ a.slots[out].index = i
                     /\ \A j \in 1..Len(a.slots) : a.slots[j].index = i => out <= j
                     /\ Narrated(b, told) /\ Called(b, told) /\ b \in Accumulator /\ ~b.broken
<1> DEFINE S == {j \in 1..Len(a.slots) : i \in {a.slots[j].index, NoIndex}}
<1>1. /\ a \in Accumulator /\ ~a.broken /\ Owes(a, O, m, n) /\ Standing(a, O)
      /\ Narrated(a, told) /\ Called(a, told)
  BY DEF Good
<1>2. i # NoIndex
  BY LaneAssumption
<1>3. \A j \in 1..Len(a.slots) : a.slots[j].index = i <=> j \in S
  BY <1>2
<1>4. S # {}
  <2>1. Has(a.slots, i, Owed(O, m, n)[i])
    BY <1>1 DEF Owes
  <2>2. \E j \in 1..Len(a.slots) : a.slots[j].index = i
    BY <2>1 DEF Has, One, Two
  <2>3. QED
    BY <1>3, <2>2
<1>5. b = Process(a, Halts(i), whole)
  BY <1>1 DEF Advance
<1>6. PICK out \in S : /\ \A j \in S : out <= j
                       /\ IF Parses(a.slots[out].part, whole) THEN Ends(a, b, out)
                          ELSE b \in Accumulator /\ b.broken
  BY <1>1, <1>4, <1>5, HaltEnds
<1>7. out \in 1..Len(a.slots) /\ a.slots[out].index = i
  BY <1>3, <1>6
<1>8. \A j \in 1..Len(a.slots) : a.slots[j].index = i => out <= j
  BY <1>3, <1>6
<1> HIDE DEF S
<1>9. CASE Parses(a.slots[out].part, whole)
  <2>1. Ends(a, b, out)
    BY <1>6, <1>9
  <2>2. Narrated(b, told)
    BY <1>1, <1>7, <1>8, <2>1, EndsNarrated
  <2>3. Called(b, told)
    BY <1>1, <2>1, EndsCalled
  <2>4. b \in Accumulator /\ ~b.broken
    BY <2>1 DEF Ends
  <2>5. QED
    BY <1>7, <1>8, <2>1, <2>2, <2>3, <2>4
<1>10. CASE ~Parses(a.slots[out].part, whole)
  <2>1. a.slots[out].part.kind = "call" /\ a.slots[out].part \notin whole
    BY <1>10 DEF Parses
  <2>2. a.slots[out].part \in Calls(told)
    BY <1>1, <1>7, <2>1 DEF Called, Slotted
  <2>3. QED
    BY <1>6, <1>10, <2>1, <2>2
<1>11. QED
  BY <1>9, <1>10

\* A lane is shut.
LEMMA LaneIsShut ==
  ASSUME NEW a, NEW told, NEW O, O \subseteq Narrative, NEW m, NEW n, Good(a, told, O, m, n),
         NEW k \in O, NEW whole, Calls(told) \subseteq whole, NEW b, b = Advance(a, Halts(IndexOf(k)), whole)
  PROVE  Good(b, told, O \ {k}, m, n) /\ \E out : Ends(a, b, out)
<1> DEFINE i == IndexOf(k)
           Q == O \ {k}
<1>1. /\ a \in Accumulator /\ ~a.broken /\ Owes(a, O, m, n) /\ Standing(a, O)
      /\ Narrated(a, told) /\ Called(a, told)
  BY DEF Good
<1>2. k \in Narrative /\ i \in Nat /\ \A l \in Q : IndexOf(l) # i
  BY Indices
<1>3. /\ \A h \in Nat : h # i => Owed(Q, m, n)[h] = Owed(O, m, n)[h]
      /\ \/ Owed(O, m, n)[i] = 1 /\ Owed(Q, m, n)[i] = 0
         \/ Owed(O, m, n)[i] = 2 /\ Owed(Q, m, n)[i] = 1
  <2>1. Q \subseteq Narrative /\ k \notin Q /\ Q \cup {k} = O
    OBVIOUS
  <2> HIDE DEF Q
  <2>2. \A h \in Nat :
          /\ h # IndexOf(k) => Owed(Q \cup {k}, m, n)[h] = Owed(Q, m, n)[h]
          /\ h = IndexOf(k) => \/ Owed(Q, m, n)[h] = 0 /\ Owed(Q \cup {k}, m, n)[h] = 1
                               \/ Owed(Q, m, n)[h] = 1 /\ Owed(Q \cup {k}, m, n)[h] = 2
    BY <1>2, <2>1, OwedLane
  <2>3. QED
    BY <1>2, <2>1, <2>2
<1> HIDE DEF Q
<1>4. Owed(O, m, n)[i] # 0 /\ b = Advance(a, Halts(i), whole)
  BY <1>3
<1>5. PICK out : /\ Ends(a, b, out) /\ a.slots[out].index = i
                 /\ \A j \in 1..Len(a.slots) : a.slots[j].index = i => out <= j
                 /\ Narrated(b, told) /\ Called(b, told) /\ b \in Accumulator /\ ~b.broken
  BY <1>2, <1>4, HaltTurns
<1> HIDE DEF i
<1>6. Owes(b, Q, m, n)
  BY <1>1, <1>2, <1>3, <1>5, EndsOwes
<1>7. Standing(b, Q)
  <2>1. ASSUME NEW l \in Q PROVE \E j \in 1..Len(b.slots) : b.slots[j].part.kind = l
    <3>1. l \in O /\ l \in Narrative /\ IndexOf(l) # i
      BY <1>2 DEF Q
    <3>2. PICK j \in 1..Len(a.slots) : a.slots[j].part.kind = l
      BY <1>1, <3>1 DEF Standing
    <3>3. a.slots[j].index = IndexOf(l)
      BY <1>1, <3>1, <3>2 DEF Narrated, OneIndex
    <3>4. j # out
      BY <1>5, <3>1, <3>3
    <3>5. Now(out, j) \in 1..Len(b.slots) /\ b.slots[Now(out, j)] = a.slots[j]
      BY <1>1, <1>5, <3>4, EndsMoves
    <3>6. QED
      BY <3>2, <3>5
  <2>2. QED
    BY <2>1 DEF Standing
<1>8. QED
  BY <1>5, <1>6, <1>7 DEF Good, Q

\* A call is closed, or rejected since it is not whole.
Rejects(b, told, whole) == b \in Accumulator /\ b.broken /\ ~(Calls(told) \subseteq whole)
EndsAt(a, b, m) == \E out : Ends(a, b, out) /\ a.slots[out].index = m
LEMMA CallIsClosed ==
  ASSUME NEW a, NEW told, NEW m \in Nat, NEW n \in Nat, m < n, Good(a, told, {}, m, n),
         NEW whole, NEW b, b = Advance(a, Halts(m), whole), NEW r, r = m + 1
  PROVE  Rejects(b, told, whole) \/ (Good(b, told, {}, r, n) /\ EndsAt(a, b, m))
<1>1. /\ a \in Accumulator /\ ~a.broken /\ Owes(a, {}, m, n)
      /\ Narrated(a, told) /\ Called(a, told)
  BY DEF Good
<1>2. /\ \A h \in Nat : h # m => Owed({}, r, n)[h] = Owed({}, m, n)[h]
      /\ \/ Owed({}, m, n)[m] = 1 /\ Owed({}, r, n)[m] = 0
         \/ Owed({}, m, n)[m] = 2 /\ Owed({}, r, n)[m] = 1
  BY OwedCall
<1>3. CASE b \in Accumulator /\ b.broken /\ ~(Calls(told) \subseteq whole)
  BY <1>3 DEF Rejects
<1>4. ASSUME NEW out, Ends(a, b, out), a.slots[out].index = m,
             \A j \in 1..Len(a.slots) : a.slots[j].index = m => out <= j,
             Narrated(b, told), Called(b, told), b \in Accumulator, ~b.broken
      PROVE  Good(b, told, {}, r, n) /\ EndsAt(a, b, m)
  <2>1. Owes(b, {}, r, n)
    BY <1>1, <1>2, <1>4, EndsOwes
  <2>2. Standing(b, {})
    BY DEF Standing
  <2>3. QED
    BY <1>4, <2>1, <2>2 DEF Good, EndsAt
<1>5. Owed({}, m, n)[m] # 0
  BY <1>2
<1>6. QED
  BY <1>3, <1>4, <1>5, HaltTurns

-----------------------------------------------------------------------------
(* The order of the parts. *)

LEMMA Prefixes ==
  ASSUME NEW s \in Seq(Part), NEW t \in Seq(Part), NEW m \in Nat, m <= Len(s), m <= Len(t),
         \A i \in 1..m : s[i] = t[i]
  PROVE  SubSeq(s, 1, m) = SubSeq(t, 1, m)
<1>1. /\ SubSeq(s, 1, m) \in Seq(Part) /\ Len(SubSeq(s, 1, m)) = m
      /\ SubSeq(t, 1, m) \in Seq(Part) /\ Len(SubSeq(t, 1, m)) = m
      /\ \A i \in 1..m : SubSeq(s, 1, m)[i] = s[i] /\ SubSeq(t, 1, m)[i] = t[i]
  OBVIOUS
<1> DEFINE u == SubSeq(s, 1, m)
           v == SubSeq(t, 1, m)
<1>2. u \in Seq(Part) /\ v \in Seq(Part) /\ Len(u) = Len(v) /\ \A i \in 1..Len(u) : u[i] = v[i]
  BY <1>1
<1> HIDE DEF u, v
<1>3. u = v
  BY <1>2, SeqEqual
<1>4. QED
  BY <1>3 DEF u, v

LEMMA LongerPrefix ==
  ASSUME NEW T, NEW s \in Seq(T), NEW m \in Nat, m < Len(s)
  PROVE  /\ SubSeq(s, 1, m + 1) = Append(SubSeq(s, 1, m), s[m+1]) /\ s[m+1] \in T
         /\ SubSeq(s, 1, m) \in Seq(T) /\ Len(SubSeq(s, 1, m)) = m
         /\ \A i \in 1..m : SubSeq(s, 1, m)[i] = s[i]
<1> DEFINE u == SubSeq(s, 1, m)
           t == Append(u, s[m+1])
           v == SubSeq(s, 1, m + 1)
<1>1. /\ u \in Seq(T) /\ Len(u) = m /\ \A i \in 1..m : u[i] = s[i]
      /\ v \in Seq(T) /\ Len(v) = m + 1 /\ \A i \in 1..m+1 : v[i] = s[i]
      /\ s[m+1] \in T
  OBVIOUS
<1> HIDE DEF u, v
<1>2. t \in Seq(T) /\ Len(t) = m + 1 /\ t[m+1] = s[m+1] /\ \A i \in 1..m : t[i] = u[i]
  BY <1>1
<1> HIDE DEF t
<1>3. \A i \in 1..Len(v) : v[i] = t[i]
  <2>1. \A i \in 1..m+1 : i \in 1..m \/ i = m + 1
    OBVIOUS
  <2>2. QED
    BY <1>1, <1>2, <2>1
<1>4. v = t
  BY <1>1, <1>2, <1>3, SeqEqual
<1>5. QED
  BY <1>1, <1>4 DEF u, v, t

LEMMA OrderBegins ==
  ASSUME NEW a \in Accumulator, NEW told \in Seq(Part), InOrder(a, told),
         NEW b, NEW i, NEW p \in Part, Begins(a, b, i, p)
  PROVE  InOrder(b, Append(told, p))
<1> DEFINE n == Len(a.slots)
           m == Len(told) - n
           more == Append(told, p)
<1>1. /\ n \in Nat /\ Len(told) \in Nat /\ n <= Len(told) /\ m \in Nat /\ m <= Len(told)
      /\ m + n = Len(told)
      /\ a.parts = Filled(SubSeq(told, 1, m)) /\ \A j \in 1..n : a.slots[j].part = told[m + j]
  <2>1. a.slots \in Seq(Slot)
    BY DEF Accumulator
  <2>2. n \in Nat /\ Len(told) \in Nat
    BY <2>1
  <2>3. /\ n <= Len(told) /\ a.parts = Filled(SubSeq(told, 1, m))
        /\ \A j \in 1..n : a.slots[j].part = told[m + j]
    BY DEF InOrder
  <2> HIDE DEF n
  <2>4. m \in Nat /\ m <= Len(told) /\ m + n = Len(told)
    BY <2>2, <2>3
  <2> HIDE DEF m
  <2>5. QED
    BY <2>2, <2>3, <2>4
<1>2. /\ Len(b.slots) = n + 1 /\ b.slots[n+1].part = p /\ b.parts = a.parts
      /\ \A j \in 1..n : b.slots[j] = a.slots[j]
  BY DEF Begins
<1>3. /\ more \in Seq(Part) /\ Len(more) = Len(told) + 1 /\ more[Len(told)+1] = p
      /\ \A j \in 1..Len(told) : more[j] = told[j]
  OBVIOUS
<1> HIDE DEF more
<1>4. SubSeq(told, 1, m) = SubSeq(more, 1, m)
  <2> HIDE DEF m, n
  <2>1. m <= Len(more) /\ \A j \in 1..m : told[j] = more[j]
    BY <1>1, <1>3
  <2>2. QED
    BY <1>1, <1>3, <2>1, Prefixes
<1>5. Len(more) - Len(b.slots) = m /\ Len(b.slots) <= Len(more)
  BY <1>1, <1>2, <1>3
<1>6. ASSUME NEW j \in 1..Len(b.slots) PROVE b.slots[j].part = more[m + j]
  <2>1. CASE j \in 1..n
    <3>1. m + j \in 1..Len(told)
      BY <1>1, <2>1
    <3>2. QED
      BY <1>1, <1>2, <1>3, <2>1, <3>1
  <2>2. CASE j = n + 1
    <3> DEFINE l == Len(told)
    <3>1. m \in Nat /\ n \in Nat /\ l \in Nat /\ m + n = l
      BY <1>1
    <3> HIDE DEF m, n, l
    <3>2. m + j = l + 1
      BY <2>2, <3>1
    <3>3. QED
      BY <1>2, <1>3, <2>2, <3>2 DEF l
  <2>3. j \in 1..n \/ j = n + 1
    BY <1>1, <1>2
  <2>4. QED
    BY <2>1, <2>2, <2>3
<1> HIDE DEF m
<1>7. QED
  BY <1>1, <1>2, <1>4, <1>5, <1>6 DEF InOrder, more

LEMMA OrderGets ==
  ASSUME NEW a \in Accumulator, NEW told \in Seq(Part), InOrder(a, told),
         NEW b, NEW to, NEW f \in Nat, Gets(a, b, to, f), NEW more \in Seq(Part), Len(more) = Len(told),
         more[Len(told) - Len(a.slots) + to] = Grew(told[Len(told) - Len(a.slots) + to], f),
         \A t \in 1..Len(told) : t # Len(told) - Len(a.slots) + to => more[t] = told[t]
  PROVE  InOrder(b, more)
<1> DEFINE n == Len(a.slots)
           m == Len(told) - n
<1>1. /\ n \in Nat /\ Len(told) \in Nat /\ n <= Len(told) /\ m \in Nat /\ m <= Len(told)
      /\ m + n = Len(told)
      /\ a.parts = Filled(SubSeq(told, 1, m)) /\ \A j \in 1..n : a.slots[j].part = told[m + j]
  <2>1. a.slots \in Seq(Slot)
    BY DEF Accumulator
  <2>2. n \in Nat /\ Len(told) \in Nat
    BY <2>1
  <2>3. /\ n <= Len(told) /\ a.parts = Filled(SubSeq(told, 1, m))
        /\ \A j \in 1..n : a.slots[j].part = told[m + j]
    BY DEF InOrder
  <2> HIDE DEF n
  <2>4. m \in Nat /\ m <= Len(told) /\ m + n = Len(told)
    BY <2>2, <2>3
  <2> HIDE DEF m
  <2>5. QED
    BY <2>2, <2>3, <2>4
<1>2. /\ Len(b.slots) = n /\ to \in 1..n /\ b.parts = a.parts
      /\ b.slots[to].part = Grew(a.slots[to].part, f)
      /\ \A j \in 1..n : j # to => b.slots[j] = a.slots[j]
  BY GetsGrown
<1>3. SubSeq(told, 1, m) = SubSeq(more, 1, m)
  <2>1. m <= Len(more) /\ \A j \in 1..m : told[j] = more[j]
    <3>1. \A j \in 1..m : j \in 1..Len(told) /\ j # m + to
      BY <1>1, <1>2
    <3>2. QED
      BY <1>1, <3>1
  <2> HIDE DEF m
  <2>2. QED
    BY <1>1, <2>1, Prefixes
<1>4. ASSUME NEW j \in 1..n PROVE b.slots[j].part = more[m + j]
  <2>1. more[m + to] = Grew(told[m + to], f) /\ \A t \in 1..Len(told) : t # m + to => more[t] = told[t]
    OBVIOUS
  <2> HIDE DEF m, n
  <2>2. m + j \in 1..Len(told) /\ (m + j = m + to <=> j = to)
    BY <1>1, <1>2
  <2>3. QED
    BY <1>1, <1>2, <2>1, <2>2
<1>5. Len(more) - Len(b.slots) = m /\ Len(b.slots) <= Len(more)
  BY <1>1, <1>2
<1> HIDE DEF m
<1>6. QED
  BY <1>1, <1>2, <1>3, <1>4, <1>5 DEF InOrder

LEMMA OrderEnds ==
  ASSUME NEW a \in Accumulator, NEW told \in Seq(Part), InOrder(a, told), NEW b, Ends(a, b, 1)
  PROVE  InOrder(b, told)
<1> DEFINE n == Len(a.slots)
           m == Len(told) - n
<1>1. /\ n \in Nat /\ Len(told) \in Nat /\ n <= Len(told) /\ m \in Nat /\ m <= Len(told)
      /\ m + n = Len(told)
      /\ a.parts = Filled(SubSeq(told, 1, m)) /\ \A j \in 1..n : a.slots[j].part = told[m + j]
  <2>1. a.slots \in Seq(Slot)
    BY DEF Accumulator
  <2>2. n \in Nat /\ Len(told) \in Nat
    BY <2>1
  <2>3. /\ n <= Len(told) /\ a.parts = Filled(SubSeq(told, 1, m))
        /\ \A j \in 1..n : a.slots[j].part = told[m + j]
    BY DEF InOrder
  <2> HIDE DEF n
  <2>4. m \in Nat /\ m <= Len(told) /\ m + n = Len(told)
    BY <2>2, <2>3
  <2> HIDE DEF m
  <2>5. QED
    BY <2>2, <2>3, <2>4
<1>2. /\ 1 \in 1..n /\ Len(b.slots) = n - 1
      /\ b.parts = IF Empty(a.slots[1].part) THEN a.parts ELSE Append(a.parts, a.slots[1].part)
      /\ \A j \in 1..n-1 : b.slots[j] = IF j < 1 THEN a.slots[j] ELSE a.slots[j+1]
  BY DEF Ends
<1>3. a.slots[1].part = told[m+1] /\ m < Len(told)
  <2> HIDE DEF m, n
  <2>1. QED
    BY <1>1, <1>2
<1>4. b.parts = Filled(SubSeq(told, 1, m + 1))
  <2> HIDE DEF m
  <2>1. /\ SubSeq(told, 1, m + 1) = Append(SubSeq(told, 1, m), told[m+1]) /\ told[m+1] \in Part
        /\ SubSeq(told, 1, m) \in Seq(Part)
    BY <1>1, <1>3, LongerPrefix
  <2> DEFINE u == SubSeq(told, 1, m)
             p == told[m+1]
  <2>2. Filled(Append(u, p)) = IF Empty(p) THEN Filled(u) ELSE Append(Filled(u), p)
    BY <2>1, FilledProperties
  <2>3. QED
    BY <1>1, <1>2, <1>3, <2>1, <2>2
<1>5. ASSUME NEW j \in 1..n-1 PROVE b.slots[j].part = told[m + 1 + j]
  <2>1. j + 1 \in 1..n /\ ~(j < 1) /\ m + (j + 1) = m + 1 + j
    <3>1. m \in Nat /\ n \in Nat
      BY <1>1
    <3> HIDE DEF m, n
    <3>2. QED
      BY <3>1
  <2>2. QED
    BY <1>1, <1>2, <2>1
<1>6. Len(told) - Len(b.slots) = m + 1 /\ Len(b.slots) <= Len(told)
  BY <1>1, <1>2
<1> HIDE DEF m
<1>7. QED
  BY <1>2, <1>4, <1>5, <1>6 DEF InOrder

\* What is told and all closed is whole.
LEMMA FilledIsWhole ==
  ASSUME NEW told \in Seq(Part), NEW n, Numbered(told, n)
  PROVE  /\ \A k \in Narrative : AllOf(k, Filled(told)) = AllOf(k, told)
         /\ Calls(Filled(told)) = Calls(told) /\ Once(Filled(told))
<1> DEFINE P(m) == LET u == SubSeq(told, 1, m)
                       f == Filled(u) IN
                   /\ f \in Seq(Part) /\ \A k \in Narrative : AllOf(k, f) = AllOf(k, u)
                   /\ Calls(f) = Calls(u) /\ Once(f)
<1>0. Len(told) \in Nat
  OBVIOUS
<1>1. P(0)
  <2>1. SubSeq(told, 1, 0) = <<>> /\ <<>> \in Seq(Part) /\ Filled(<<>>) = <<>>
    BY FilledProperties
  <2>2. Once(<<>>)
    BY DEF Once
  <2>3. QED
    BY <2>1, <2>2
<1>2. ASSUME NEW m \in Nat, m < Len(told), P(m) PROVE P(m + 1)
  <2> DEFINE u == SubSeq(told, 1, m)
             f == Filled(u)
             p == told[m+1]
  <2>1. /\ SubSeq(told, 1, m + 1) = Append(u, p) /\ p \in Part /\ u \in Seq(Part)
        /\ Len(u) = m /\ \A i \in 1..m : u[i] = told[i]
    BY <1>2, LongerPrefix
  <2>2. /\ f \in Seq(Part) /\ (\A k \in Narrative : AllOf(k, f) = AllOf(k, u))
        /\ Calls(f) = Calls(u) /\ Once(f)
    BY <1>2
  <2>3. p.kind = "call" => \A q \in Calls(u) : q.id # p.id
    <3>1. ASSUME p.kind = "call", NEW i \in 1..m, u[i].kind = "call" PROVE u[i].id # p.id
      <4>1. i \in 1..Len(told) /\ m + 1 \in 1..Len(told) /\ i < m + 1 /\ told[i] \in Part
        BY <1>0, <1>2
      <4>2. told[i].id < p.id
        BY <2>1, <3>1, <4>1 DEF Numbered
      <4>3. told[i].id \in Nat /\ p.id \in Nat
        BY <2>1, <4>1 DEF Part
      <4>4. QED
        BY <2>1, <4>2, <4>3
    <3>2. Calls(u) = {q \in {u[i] : i \in 1..m} : q.kind = "call"}
      <4>1. DOMAIN u = 1..m
        BY <1>2, <2>1
      <4>2. QED
        BY <4>1 DEF Calls, PartsOf
    <3> HIDE DEF u, p
    <3>3. QED
      BY <3>1, <3>2
  <2> HIDE DEF u, f, p, P
  <2>4. Filled(Append(u, p)) = IF Empty(p) THEN f ELSE Append(f, p)
    BY <2>1, FilledProperties DEF f
  <2>5. ASSUME NEW k \in Narrative PROVE AllOf(k, Filled(Append(u, p))) = AllOf(k, Append(u, p))
    <3>1. AllOf(k, Append(u, p)) = IF p.kind = k THEN AllOf(k, u) \o p.got ELSE AllOf(k, u)
      BY <2>1, AllOfProperties
    <3>2. AllOf(k, Append(f, p)) = IF p.kind = k THEN AllOf(k, f) \o p.got ELSE AllOf(k, f)
      BY <2>1, <2>2, AllOfProperties
    <3>3. AllOf(k, u) = AllOf(k, f)
      BY <2>2
    <3>4. CASE Empty(p)
      <4>1. AllOf(k, u) \in Seq(Nat)
        BY <2>1, AllOfProperties
      <4>2. AllOf(k, u) \o <<>> = AllOf(k, u) /\ p.got = <<>>
        BY <3>4, <4>1 DEF Empty
      <4>3. QED
        BY <2>4, <3>1, <3>3, <3>4, <4>2
    <3>5. CASE ~Empty(p)
      BY <2>4, <3>1, <3>2, <3>3, <3>5
    <3>6. QED
      BY <3>4, <3>5
  <2>6. /\ Calls(Append(u, p)) = IF p.kind = "call" THEN Calls(u) \cup {p} ELSE Calls(u)
        /\ Calls(Append(f, p)) = IF p.kind = "call" THEN Calls(f) \cup {p} ELSE Calls(f)
    BY <2>1, <2>2, CallsAppended
  <2>7. Calls(Filled(Append(u, p))) = Calls(Append(u, p))
    <3>1. Empty(p) => p.kind # "call"
      BY DEF Empty
    <3>2. QED
      BY <2>2, <2>4, <2>6, <3>1
  <2>8. Once(Filled(Append(u, p)))
    <3>1. p.kind = "call" => \A q \in Calls(f) : q.id # p.id
      BY <2>2, <2>3
    <3>2. Once(Append(f, p))
      BY <2>1, <2>2, <3>1, OnceAppended
    <3>3. QED
      BY <2>2, <2>4, <3>2
  <2>9. Filled(Append(u, p)) \in Seq(Part)
    BY <2>1, <2>2, <2>4
  <2>10. QED
    BY <2>1, <2>5, <2>7, <2>8, <2>9 DEF P, u
<1>3. P(Len(told))
  <2> DEFINE Bad == {m \in 0..Len(told) : ~P(m)}
  <2>1. Bad = {}
    <3>1. SUFFICES ASSUME Bad # {} PROVE FALSE
      OBVIOUS
    <3> HIDE DEF P
    <3>2. PICK m \in Bad : \A l \in Bad : m <= l
      <4>1. Bad \in SUBSET Nat
        BY <1>0
      <4> HIDE DEF Bad
      <4>2. QED
        BY <3>1, <4>1, LeastNumber
    <3>3. m \in 0..Len(told) /\ ~P(m) /\ m # 0
      BY <1>1
    <3>4. m - 1 \in 0..Len(told) /\ m - 1 \in Nat /\ m - 1 < Len(told) /\ ~(m <= m - 1) /\ (m - 1) + 1 = m
      BY <1>0, <3>3
    <3>5. P(m - 1)
      BY <3>2, <3>4
    <3>6. QED
      BY <1>2, <3>3, <3>4, <3>5
  <2>2. Len(told) \in 0..Len(told)
    BY <1>0
  <2> HIDE DEF P
  <2>3. QED
    BY <2>1, <2>2
<1>4. SubSeq(told, 1, Len(told)) = told
  BY SubSeqFull
<1>5. QED
  BY <1>3, <1>4

-----------------------------------------------------------------------------
(* The events of a chunk. *)

LEMMA TakenJoined ==
  ASSUME NEW a \in Accumulator, NEW x \in Seq(Event), NEW y \in Seq(Event), NEW whole
  PROVE  Taken(a, x \o y, whole) = Taken(Taken(a, x, whole), y, whole)
<1> DEFINE b == Taken(a, x, whole)
           P(m) == Taken(a, x \o SubSeq(y, 1, m), whole) = Taken(b, SubSeq(y, 1, m), whole)
<1>0. Len(y) \in Nat /\ b \in Accumulator
  BY TakenTyped
<1>1. P(0)
  <2>1. SubSeq(y, 1, 0) = <<>> /\ x \o <<>> = x
    OBVIOUS
  <2>2. Taken(b, <<>>, whole) = b
    BY <1>0, TakenNone
  <2>3. QED
    BY <2>1, <2>2
<1>2. ASSUME NEW m \in Nat, m < Len(y), P(m) PROVE P(m + 1)
  <2> DEFINE v == SubSeq(y, 1, m)
             ev == y[m+1]
  <2>1. SubSeq(y, 1, m + 1) = Append(v, ev) /\ ev \in Event /\ v \in Seq(Event)
    BY <1>2, LongerPrefix
  <2>2. Taken(a, x \o v, whole) = Taken(b, v, whole)
    BY <1>2
  <2> HIDE DEF v, ev, b
  <2>3. (x \o v) \o <<ev>> = x \o Append(v, ev) /\ (x \o v) \o <<ev>> = Append(x \o v, ev) /\ x \o v \in Seq(Event)
    <3>1. x \o v \in Seq(Event)
      BY <2>1
    <3>2. (x \o v) \o <<ev>> = x \o Append(v, ev)
      <4>1. v \o <<ev>> = Append(v, ev) /\ <<ev>> \in Seq(Event)
        BY <2>1
      <4>2. (x \o v) \o <<ev>> = x \o (v \o <<ev>>)
        BY <2>1, <4>1, ConcatAssociative
      <4>3. QED
        BY <4>1, <4>2
    <3>3. (x \o v) \o <<ev>> = Append(x \o v, ev)
      BY <2>1, <3>1
    <3>4. QED
      BY <3>1, <3>2, <3>3
  <2>4. Taken(a, Append(x \o v, ev), whole) = Advance(Taken(a, x \o v, whole), ev, whole)
    BY <2>1, <2>3, TakenAppend
  <2>5. Taken(b, Append(v, ev), whole) = Advance(Taken(b, v, whole), ev, whole)
    BY <1>0, <2>1, TakenAppend
  <2>6. Taken(a, x \o Append(v, ev), whole) = Taken(b, Append(v, ev), whole)
    BY <2>2, <2>3, <2>4, <2>5
  <2>7. QED
    BY <2>1, <2>6 DEF v, b
<1>3. P(Len(y))
  <2> DEFINE Bad == {m \in 0..Len(y) : ~P(m)}
  <2>1. Bad = {}
    <3>1. SUFFICES ASSUME Bad # {} PROVE FALSE
      OBVIOUS
    <3> HIDE DEF P
    <3>2. PICK m \in Bad : \A l \in Bad : m <= l
      <4>1. Bad \in SUBSET Nat
        BY <1>0
      <4> HIDE DEF Bad
      <4>2. QED
        BY <3>1, <4>1, LeastNumber
    <3>3. m \in 0..Len(y) /\ ~P(m) /\ m # 0
      BY <1>1
    <3>4. m - 1 \in 0..Len(y) /\ m - 1 \in Nat /\ m - 1 < Len(y) /\ ~(m <= m - 1) /\ (m - 1) + 1 = m
      BY <1>0, <3>3
    <3>5. P(m - 1)
      BY <3>2, <3>4
    <3>6. QED
      BY <1>2, <3>3, <3>4, <3>5
  <2>2. Len(y) \in 0..Len(y)
    BY <1>0
  <2> HIDE DEF P
  <2>3. QED
    BY <2>1, <2>2
<1>4. SubSeq(y, 1, Len(y)) = y
  BY SubSeqFull
<1>5. QED
  BY <1>3, <1>4

LEMMA TakenOne ==
  ASSUME NEW a \in Accumulator, NEW ev \in Event, NEW whole
  PROVE  Taken(a, <<ev>>, whole) = Advance(a, ev, whole)
<1>1. <<ev>> = Append(<<>>, ev) /\ <<>> \in Seq(Event)
  OBVIOUS
<1>2. Taken(a, Append(<<>>, ev), whole) = Advance(Taken(a, <<>>, whole), ev, whole)
  BY <1>1, TakenAppend
<1>3. QED
  BY <1>1, <1>2, TakenNone

LEMMA EventsTyped ==
  /\ \A i \in Nat : \A k \in Lane : \A id \in Nat : Starts(i, k, id) \in Event
  /\ \A i \in Nat : \A k \in Lane : \A f \in Nat : Brings(i, k, f) \in Event
  /\ \A i \in Nat \cup {NoIndex} : Halts(i) \in Event
<1>1. ASSUME NEW i \in Nat, NEW k \in Lane, NEW id \in Nat PROVE Starts(i, k, id) \in Event
  <2>1. NewPart(k, id) \in Part
    BY DEF NewPart, Part
  <2>2. QED
    BY <2>1 DEF Starts, Event
<1>2. QED
  BY <1>1 DEF Brings, Halts, Event

-----------------------------------------------------------------------------
(* Closing. *)

\* A lane is open at the index of its kind, and one at a time.
LanesAreOpen ==
  /\ \A k \in Lane : emitter.at[k] = IF k \in OpenLanes THEN IndexOf(k) ELSE NoIndex
  /\ \A k, l \in OpenLanes : k = l

LEMMA ShutsOne ==
  ASSUME LanesAreOpen
  PROVE  /\ OpenLanes \subseteq Narrative
         /\ OpenLanes = {} => ShutNarrative = <<>>
         /\ \A k \in OpenLanes : OpenLanes = {k} /\ ShutNarrative = <<Halts(IndexOf(k))>>
         /\ \A k \in Narrative : Shut(k) = IF k \in OpenLanes THEN <<Halts(IndexOf(k))>> ELSE <<>>
<1>1. OpenLanes \subseteq Narrative /\ \A k \in Narrative : k \in OpenLanes <=> IsOpen(k)
  BY DEF OpenLanes
<1>2. ASSUME NEW k \in Narrative
      PROVE  Shut(k) = IF k \in OpenLanes THEN <<Halts(IndexOf(k))>> ELSE <<>>
  BY <1>1, <1>2, Indices DEF LanesAreOpen, Shut
<1>3. ShutNarrative = Shut("text") \o Shut("thinking") \/ ShutNarrative = Shut("thinking") \o Shut("text")
  BY DEF ShutNarrative
<1>4. "text" \in Narrative /\ "thinking" \in Narrative /\ \A k \in Narrative : k = "text" \/ k = "thinking"
  BY DEF Narrative
<1>5. <<>> \o <<>> = <<>> /\ \A ev : <<>> \o <<ev>> = <<ev>> /\ <<ev>> \o <<>> = <<ev>>
  OBVIOUS
<1>6. ASSUME OpenLanes = {} PROVE ShutNarrative = <<>>
  BY <1>2, <1>3, <1>4, <1>5, <1>6
<1>7. ASSUME NEW k \in OpenLanes PROVE OpenLanes = {k} /\ ShutNarrative = <<Halts(IndexOf(k))>>
  <2>1. OpenLanes = {k}
    BY DEF LanesAreOpen
  <2>2. CASE k = "text"
    BY <1>2, <1>3, <1>4, <1>5, <2>1, <2>2
  <2>3. CASE k = "thinking"
    BY <1>2, <1>3, <1>4, <1>5, <2>1, <2>3
  <2>4. QED
    BY <1>1, <1>4, <2>1, <2>2, <2>3
<1>8. QED
  BY <1>1, <1>2, <1>6, <1>7

\* A lane that is alone in its order closes in it.
LEMMA AloneInOrder ==
  ASSUME NEW a \in Accumulator, NEW told \in Seq(Part), NEW k \in Narrative, Owes(a, {k}, 0, 0),
         NEW b, NEW out, Ends(a, b, out), InOrder(a, told)
  PROVE  InOrder(b, told)
<1>1. Len(a.slots) = 1 /\ out \in 1..Len(a.slots)
  BY OwesOne DEF Ends
<1>2. Ends(a, b, 1)
  BY <1>1
<1>3. QED
  BY <1>2, OrderEnds

LEMMA NarrativeIsShut ==
  ASSUME LanesAreOpen, NEW a, NEW told \in Seq(Part), NEW m, NEW n, Good(a, told, OpenLanes, m, n),
         NEW whole, OpenLanes # {} => Calls(told) \subseteq whole
  PROVE  LET b == Taken(a, ShutNarrative, whole) IN
         /\ ShutNarrative \in Seq(Event) /\ Good(b, told, {}, m, n) /\ (OpenLanes = {} => b = a)
         /\ InOrder(a, told) /\ (OpenLanes = {} \/ (m = 0 /\ n = 0)) => InOrder(b, told)
<1> DEFINE b == Taken(a, ShutNarrative, whole)
<1>0. a \in Accumulator
  BY DEF Good
<1>1. CASE OpenLanes = {}
  <2>1. ShutNarrative = <<>> /\ <<>> \in Seq(Event)
    BY <1>1, ShutsOne
  <2>2. b = a
    BY <1>0, <2>1, TakenNone
  <2>3. QED
    BY <1>1, <2>1, <2>2
<1>2. ASSUME NEW k \in OpenLanes
      PROVE  /\ ShutNarrative \in Seq(Event) /\ Good(b, told, {}, m, n) /\ OpenLanes # {}
             /\ InOrder(a, told) /\ (m = 0 /\ n = 0) => InOrder(b, told)
  <2>1. OpenLanes = {k} /\ k \in Narrative /\ ShutNarrative = <<Halts(IndexOf(k))>> /\ OpenLanes \subseteq Narrative
    BY ShutsOne
  <2>2. IndexOf(k) \in Nat \cup {NoIndex}
    BY <2>1, Indices
  <2>3. Halts(IndexOf(k)) \in Event
    BY <2>2, EventsTyped
  <2>4. ShutNarrative \in Seq(Event)
    BY <2>1, <2>3
  <2>5. b = Advance(a, Halts(IndexOf(k)), whole)
    BY <1>0, <2>1, <2>3, TakenOne
  <2> HIDE DEF b
  <2>6. Calls(told) \subseteq whole
    BY <2>1
  <2>7. Good(b, told, OpenLanes \ {k}, m, n) /\ \E out : Ends(a, b, out)
    BY <2>1, <2>5, <2>6, LaneIsShut
  <2>8. Good(b, told, {}, m, n)
    <3>1. OpenLanes \ {k} = {}
      BY <2>1
    <3>2. QED
      BY <2>7, <3>1
  <2>9. ASSUME InOrder(a, told), m = 0, n = 0 PROVE InOrder(b, told)
    <3>1. Owes(a, {k}, 0, 0)
      BY <2>1, <2>9 DEF Good
    <3>2. PICK out : Ends(a, b, out)
      BY <2>7
    <3>3. QED
      BY <1>0, <2>1, <2>9, <3>1, <3>2, AloneInOrder
  <2>10. QED
    BY <2>1, <2>4, <2>8, <2>9
<1>3. QED
  BY <1>1, <1>2

\* The calls close in the order in which they began.
LEMMA FirstCloses ==
  ASSUME NEW a \in Accumulator, NEW told \in Seq(Part), NEW m \in Nat, NEW n, Owes(a, {}, m, n),
         Called(a, told), InOrder(a, told), OnlyCalls(a), NEW r, Numbered(told, r),
         NEW out \in 1..Len(a.slots), a.slots[out].index = m
  PROVE  out = 1
<1> DEFINE k == Len(a.slots)
           l == Len(told) - k
<1>1. /\ k \in Nat /\ Len(told) \in Nat /\ a.slots \in Seq(Slot) /\ k <= Len(told)
      /\ \A j \in 1..k : a.slots[j].part = told[l + j]
  BY DEF Accumulator, InOrder
<1>2. \A j \in 1..k : a.slots[j].index \in Nat /\ a.slots[j].part \in Part
  <2>1. \A j \in 1..k : a.slots[j] \in Slot
    BY <1>1
  <2>2. QED
    BY <2>1 DEF Slot
<1>3. \A j \in 1..k : a.slots[j].part.kind = "call" /\ a.slots[j].index + 1 = a.slots[j].part.id
  BY DEF OnlyCalls, Called, Slotted
<1>4. SUFFICES ASSUME 1 < out PROVE FALSE
  BY <1>1
<1>5. 1 \in 1..k /\ out \in 1..k
  BY <1>1, <1>4
<1>6. a.slots[1].part.id < a.slots[out].part.id
  <2> HIDE DEF k
  <2>1. l \in Nat /\ l + k = Len(told)
    BY <1>1
  <2> HIDE DEF l
  <2>2. l + 1 \in 1..Len(told) /\ l + out \in 1..Len(told) /\ l + 1 < l + out
    BY <1>1, <1>4, <1>5, <2>1
  <2>3. told[l + 1].kind = "call" /\ told[l + out].kind = "call"
    BY <1>1, <1>3, <1>5
  <2>4. told[l + 1].id < told[l + out].id
    BY <2>2, <2>3 DEF Numbered
  <2>5. QED
    BY <1>1, <1>5, <2>4
<1>7. a.slots[1].index \in Nat /\ a.slots[1].index < m
  <2>1. a.slots[1].index \in Nat /\ a.slots[1].index + 1 = a.slots[1].part.id /\ m + 1 = a.slots[out].part.id
    BY <1>2, <1>3, <1>5
  <2>2. QED
    BY <1>6, <2>1
<1> DEFINE i == a.slots[1].index
<1>8. Owed({}, m, n)[i] = 0
  <2>1. i \in Nat /\ ~(m <= i) /\ ~\E q \in {} : IndexOf(q) = i
    BY <1>7
  <2>2. QED
    BY <2>1, OwedValues
<1>9. Has(a.slots, i, 0)
  BY <1>7, <1>8 DEF Owes
<1>10. QED
  BY <1>5, <1>9 DEF Has, None

HaltsTo(n) == [i \in 1..n |-> Halts(i - 1)]

LEMMA HaltsFollow ==
  ASSUME NEW m \in Nat
  PROVE  /\ HaltsTo(m) \in Seq(Event) /\ HaltsTo(m + 1) = Append(HaltsTo(m), Halts(m)) /\ Halts(m) \in Event
         /\ HaltsTo(0) = <<>>
<1>1. \A i \in Nat : Halts(i) \in Event
  BY EventsTyped
<1>2. \A l \in Nat : \A i \in 1..l : i - 1 \in Nat
  OBVIOUS
<1>3. ASSUME NEW l \in Nat PROVE HaltsTo(l) \in Seq(Event) /\ Len(HaltsTo(l)) = l /\ \A i \in 1..l : HaltsTo(l)[i] = Halts(i - 1)
  <2>1. \A i \in 1..l : Halts(i - 1) \in Event
    BY <1>1, <1>2
  <2>2. QED
    BY <2>1 DEF HaltsTo
<1>4. m + 1 \in Nat /\ (m + 1) - 1 = m /\ \A i \in 1..m+1 : i \in 1..m \/ i = m + 1
  OBVIOUS
<1> DEFINE s == HaltsTo(m)
           t == HaltsTo(m + 1)
           u == Append(s, Halts(m))
<1>5. /\ s \in Seq(Event) /\ Len(s) = m /\ (\A i \in 1..m : s[i] = Halts(i - 1))
      /\ t \in Seq(Event) /\ Len(t) = m + 1 /\ (\A i \in 1..m+1 : t[i] = Halts(i - 1))
  BY <1>3, <1>4
<1> HIDE DEF s, t
<1>6. u \in Seq(Event) /\ Len(u) = m + 1 /\ u[m+1] = Halts(m) /\ \A i \in 1..m : u[i] = s[i]
  BY <1>1, <1>5
<1> HIDE DEF u
<1>7. \A i \in 1..Len(t) : t[i] = u[i]
  BY <1>4, <1>5, <1>6
<1>8. t = u
  BY <1>5, <1>6, <1>7, SeqEqual
<1>9. HaltsTo(0) = <<>>
  BY DEF HaltsTo
<1>10. QED
  BY <1>1, <1>5, <1>8, <1>9 DEF s, t, u

LEMMA CallsClose ==
  ASSUME NEW a, NEW told \in Seq(Part), NEW n \in Nat, Good(a, told, {}, 0, n), NEW whole
  PROVE  LET b == Taken(a, HaltsTo(n), whole) IN
         \/ Rejects(b, told, whole)
         \/ /\ Good(b, told, {}, n, n)
            /\ InOrder(a, told) /\ OnlyCalls(a) /\ (\E r : Numbered(told, r)) => InOrder(b, told)
<1> DEFINE b(m) == Taken(a, HaltsTo(m), whole)
           Ordered == InOrder(a, told) /\ OnlyCalls(a) /\ \E r : Numbered(told, r)
           P(m) == \/ Rejects(b(m), told, whole)
                   \/ /\ Good(b(m), told, {}, m, n)
                      /\ Ordered => InOrder(b(m), told) /\ OnlyCalls(b(m))
<1>0. a \in Accumulator
  BY DEF Good
<1>1. P(0)
  <2>1. b(0) = a
    BY <1>0, HaltsFollow, TakenNone
  <2>2. QED
    BY <2>1
<1>2. ASSUME NEW m \in Nat, m < n, P(m) PROVE P(m + 1)
  <2> DEFINE c == b(m)
             d == b(m + 1)
  <2>1. d = Advance(c, Halts(m), whole)
    <3>1. /\ HaltsTo(m) \in Seq(Event) /\ Halts(m) \in Event
          /\ HaltsTo(m + 1) = Append(HaltsTo(m), Halts(m))
      BY HaltsFollow
    <3> DEFINE s == HaltsTo(m)
               ev == Halts(m)
    <3> HIDE DEF s, ev
    <3>2. Taken(a, Append(s, ev), whole) = Advance(Taken(a, s, whole), ev, whole)
      BY <1>0, <3>1, TakenAppend DEF s, ev
    <3>3. QED
      BY <3>1, <3>2 DEF s, ev
  <2>2. /\ (Rejects(c, told, whole))
           \/ (Good(c, told, {}, m, n) /\ (Ordered => InOrder(c, told) /\ OnlyCalls(c)))
    BY <1>2
  <2> HIDE DEF b, Ordered, P
  <2> SUFFICES \/ Rejects(d, told, whole)
               \/ /\ Good(d, told, {}, m + 1, n)
                  /\ Ordered => InOrder(d, told) /\ OnlyCalls(d)
    BY DEF P
  <2>3. CASE Rejects(c, told, whole)
    <3>1. d = c
      BY <2>1, <2>3 DEF Advance, Rejects
    <3>2. QED
      BY <2>3, <3>1
  <2>4. CASE Good(c, told, {}, m, n) /\ (Ordered => InOrder(c, told) /\ OnlyCalls(c))
    <3> HIDE DEF c, d
    <3>1. \/ Rejects(d, told, whole)
          \/ Good(d, told, {}, m + 1, n) /\ EndsAt(c, d, m)
      <4>1. Good(c, told, {}, m, n) /\ m < n
        BY <1>2, <2>4
      <4> DEFINE r == m + 1
      <4>3. r = m + 1
        OBVIOUS
      <4> HIDE DEF r, Ordered
      <4>2. \/ Rejects(d, told, whole)
            \/ Good(d, told, {}, r, n) /\ EndsAt(c, d, m)
        BY <2>1, <4>1, <4>3, CallIsClosed
      <4>4. QED
        BY <4>2 DEF r
    <3>2. ASSUME Good(d, told, {}, m + 1, n), NEW out, Ends(c, d, out), c.slots[out].index = m, Ordered
          PROVE  InOrder(d, told) /\ OnlyCalls(d)
      <4>1. /\ InOrder(c, told) /\ OnlyCalls(c) /\ c \in Accumulator /\ Owes(c, {}, m, n) /\ Called(c, told)
            /\ out \in 1..Len(c.slots)
        BY <2>4, <3>2 DEF Good, Ends
      <4>2. PICK r : Numbered(told, r)
        BY <3>2 DEF Ordered
      <4>3. out = 1
        BY <3>2, <4>1, <4>2, FirstCloses
      <4>4. InOrder(d, told)
        BY <3>2, <4>1, <4>3, OrderEnds
      <4>5. OnlyCalls(d)
        <5>1. \A l \in 1..Len(d.slots) : \E j \in 1..Len(c.slots) : d.slots[l] = c.slots[j]
          BY <3>2, <4>1, EndsMoves
        <5>2. QED
          BY <4>1, <5>1 DEF OnlyCalls
      <4>6. QED
        BY <4>4, <4>5
    <3>3. QED
      BY <3>1, <3>2 DEF EndsAt
  <2>5. QED
    BY <2>2, <2>3, <2>4
<1>3. P(n)
  <2> DEFINE Bad == {m \in 0..n : ~P(m)}
  <2>1. Bad = {}
    <3>1. SUFFICES ASSUME Bad # {} PROVE FALSE
      OBVIOUS
    <3> HIDE DEF P
    <3>2. PICK m \in Bad : \A l \in Bad : m <= l
      <4>1. Bad \in SUBSET Nat
        OBVIOUS
      <4> HIDE DEF Bad
      <4>2. QED
        BY <3>1, <4>1, LeastNumber
    <3>3. m \in 0..n /\ ~P(m) /\ m # 0
      BY <1>1
    <3>4. m - 1 \in 0..n /\ m - 1 \in Nat /\ m - 1 < n /\ ~(m <= m - 1) /\ (m - 1) + 1 = m
      BY <3>3
    <3>5. P(m - 1)
      BY <3>2, <3>4
    <3>6. QED
      BY <1>2, <3>3, <3>4, <3>5
  <2>2. n \in 0..n
    OBVIOUS
  <2> HIDE DEF P
  <2>3. QED
    BY <2>1, <2>2
<1>4. QED
  BY <1>3

\* When all is closed the parts are what was told.
LEMMA GoodIsWhole ==
  ASSUME NEW a, NEW told \in Seq(Part), NEW m, NEW n, Good(a, told, {}, m, n),
         \A i \in Nat : ~(m <= i /\ i < n)
  PROVE  /\ a.slots = <<>>
         /\ \A k \in Narrative : AllOf(k, a.parts) = AllOf(k, told)
         /\ Calls(a.parts) = Calls(told) /\ Once(a.parts)
         /\ InOrder(a, told) => a.parts = Filled(told)
<1>1. /\ a \in Accumulator /\ Owes(a, {}, m, n) /\ Narrated(a, told) /\ Called(a, told) /\ a.parts \in Seq(Part)
  BY DEF Good, Accumulator
<1>2. a.slots = <<>> /\ Len(a.slots) = 0 /\ 1..Len(a.slots) = {}
  BY <1>1, OwesNothing
<1>3. ASSUME NEW k \in Narrative PROVE AllOf(k, a.parts) = AllOf(k, told)
  <2>1. PICK since \in Seq(Nat) : Holds(a.slots, k, since) /\ AllOf(k, told) = AllOf(k, a.parts) \o since
    BY <1>1 DEF Narrated, Sums
  <2>2. since = <<>>
    BY <1>2, <2>1 DEF Holds
  <2>3. AllOf(k, a.parts) \in Seq(Nat)
    BY <1>1, AllOfProperties
  <2>4. AllOf(k, a.parts) \o <<>> = AllOf(k, a.parts)
    BY <2>3
  <2>5. QED
    BY <2>1, <2>2, <2>4
<1>4. Calls(a.parts) = Calls(told) /\ Once(a.parts)
  <2>1. Calls(a.parts) \subseteq Calls(told) /\ Once(a.parts) /\ \A p \in Calls(told) : p \in PartsOf(a.parts)
    BY <1>1, <1>2 DEF Called
  <2>2. \A p \in Calls(told) : p \in Calls(a.parts)
    BY <2>1 DEF Calls
  <2>3. QED
    BY <2>1, <2>2
<1>5. ASSUME InOrder(a, told) PROVE a.parts = Filled(told)
  <2>1. a.parts = Filled(SubSeq(told, 1, Len(told) - 0))
    BY <1>2, <1>5 DEF InOrder
  <2>2. Len(told) - 0 = Len(told) /\ SubSeq(told, 1, Len(told)) = told
    BY SubSeqFull
  <2>3. QED
    BY <2>1, <2>2
<1>6. QED
  BY <1>2, <1>3, <1>4, <1>5

-----------------------------------------------------------------------------
(* What is told. *)

LEMMA ToldMore ==
  ASSUME NEW told \in Seq(Part), NEW n \in Nat, Numbered(told, n), NEW p \in Part
  PROVE  LET more == Append(told, p) IN
         /\ more \in Seq(Part) /\ Len(more) = Len(told) + 1 /\ more # <<>>
         /\ \A k : Lasts(more, k) <=> p.kind = k
         /\ \A k : AllOf(k, more) = IF p.kind = k THEN AllOf(k, told) \o p.got ELSE AllOf(k, told)
         /\ Calls(more) = IF p.kind = "call" THEN Calls(told) \cup {p} ELSE Calls(told)
         /\ p.kind # "call" => Numbered(more, n)
         /\ p.kind = "call" /\ p.id = n + 1 => Numbered(more, n + 1) /\ \A q \in Calls(told) : q.id # p.id
<1> DEFINE more == Append(told, p)
           l == Len(told)
<1>1. /\ more \in Seq(Part) /\ Len(more) = l + 1 /\ more # <<>> /\ l \in Nat
      /\ more[l+1] = p /\ \A t \in 1..l : more[t] = told[t]
  OBVIOUS
<1>2. \A k : AllOf(k, more) = IF p.kind = k THEN AllOf(k, told) \o p.got ELSE AllOf(k, told)
  BY AllOfProperties
<1>3. Calls(more) = IF p.kind = "call" THEN Calls(told) \cup {p} ELSE Calls(told)
  BY CallsAppended
<1>4. \A t \in 1..l : told[t].kind = "call" => told[t].id \in 1..n
  BY DEF Numbered
<1>5. \A t, u \in 1..l : told[t].kind = "call" /\ told[u].kind = "call" /\ t < u => told[t].id < told[u].id
  BY DEF Numbered
<1> HIDE DEF more, l
<1>6. \A t \in 1..l+1 : t \in 1..l \/ t = l + 1
  BY <1>1
<1>7. ASSUME p.kind # "call" PROVE Numbered(more, n)
  <2>1. \A t \in 1..l+1 : more[t].kind = "call" => t \in 1..l /\ more[t] = told[t]
    BY <1>1, <1>6, <1>7
  <2>2. QED
    BY <1>1, <1>4, <1>5, <2>1 DEF Numbered
<1>8. ASSUME p.kind = "call", p.id = n + 1
      PROVE  Numbered(more, n + 1) /\ \A q \in Calls(told) : q.id # p.id
  <2>1. ASSUME NEW t \in 1..l+1, more[t].kind = "call" PROVE more[t].id \in 1..n+1
    <3>1. CASE t \in 1..l
      BY <1>1, <1>4, <2>1, <3>1
    <3>2. CASE t = l + 1
      BY <1>1, <1>8, <3>2
    <3>3. QED
      BY <1>6, <3>1, <3>2
  <2>2. ASSUME NEW t \in 1..l+1, NEW u \in 1..l+1, more[t].kind = "call", more[u].kind = "call", t < u
        PROVE  more[t].id < more[u].id
    <3>1. t \in 1..l
      BY <1>1, <2>2
    <3>2. CASE u \in 1..l
      BY <1>1, <1>5, <2>2, <3>1, <3>2
    <3>3. CASE u = l + 1
      <4>1. told[t].id \in 1..n /\ more[t] = told[t] /\ more[u] = p
        BY <1>1, <1>4, <2>2, <3>1, <3>3
      <4>2. QED
        BY <1>8, <4>1
    <3>4. QED
      BY <1>6, <3>2, <3>3
  <2>3. ASSUME NEW q \in Calls(told) PROVE q.id # p.id
    <3>1. PICK t \in 1..l : q = told[t] /\ told[t].kind = "call"
      BY DEF Calls, PartsOf, l
    <3>2. q.id \in 1..n
      BY <1>4, <3>1
    <3>3. QED
      BY <1>8, <3>2
  <2>4. QED
    BY <1>1, <2>1, <2>2, <2>3 DEF Numbered
<1>9. \A k : Lasts(more, k) <=> p.kind = k
  BY <1>1 DEF Lasts
<1>10. QED
  BY <1>1, <1>2, <1>3, <1>7, <1>8, <1>9 DEF more, l

\* Narrative that was told last is told on.
LEMMA LastGrows ==
  ASSUME NEW told \in Seq(Part), NEW k \in Narrative, Lasts(told, k), NEW f \in Nat
  PROVE  LET more == [told EXCEPT ![Len(told)] = Grew(told[Len(told)], f)] IN
         /\ more \in Seq(Part) /\ Len(more) = Len(told) /\ Len(told) \in 1..Len(told)
         /\ \A l : Lasts(more, l) <=> l = k
         /\ \A l \in Narrative : AllOf(l, more) = IF l = k THEN AllOf(l, told) \o <<f>> ELSE AllOf(l, told)
         /\ Calls(more) = Calls(told)
         /\ \A n : Numbered(told, n) => Numbered(more, n)
         /\ more[Len(told)] = Grew(told[Len(told)], f)
         /\ \A t \in 1..Len(told) : t # Len(told) => more[t] = told[t]
<1> DEFINE l == Len(told)
           p == told[l]
           q == Grew(p, f)
           more == [told EXCEPT ![l] = q]
           front == SubSeq(told, 1, l - 1)
<1>1. l \in Nat /\ l # 0 /\ l \in 1..l /\ p \in Part /\ p.kind = k /\ k # "call"
  BY Indices DEF Lasts
<1>2. /\ q \in Part /\ q.kind = k /\ q.id = p.id /\ q.got = Append(p.got, f) /\ p.got \in Seq(Nat)
  <2> HIDE DEF p
  <2>1. QED
    BY <1>1, GrewTyped DEF Part
<1> HIDE DEF q
<1>3. more \in Seq(Part) /\ Len(more) = l /\ more[l] = q /\ \A t \in 1..l : t # l => more[t] = told[t]
  BY <1>1, <1>2
<1>4. told = Append(front, p) /\ front \in Seq(Part) /\ Len(front) = l - 1 /\ \A t \in 1..l-1 : front[t] = told[t]
  <2>1. l - 1 \in Nat /\ l - 1 < l /\ (l - 1) + 1 = l
    BY <1>1
  <2>2. /\ SubSeq(told, 1, (l - 1) + 1) = Append(SubSeq(told, 1, l - 1), told[(l-1)+1])
        /\ SubSeq(told, 1, l - 1) \in Seq(Part) /\ Len(SubSeq(told, 1, l - 1)) = l - 1
        /\ \A i \in 1..l-1 : SubSeq(told, 1, l - 1)[i] = told[i]
    BY <2>1, LongerPrefix
  <2>3. SubSeq(told, 1, l) = told
    BY SubSeqFull
  <2>4. QED
    BY <2>1, <2>2, <2>3
<1> HIDE DEF front, p, more, l
<1>5. more = Append(front, q)
  <2> DEFINE t == Append(front, q)
  <2>1. t \in Seq(Part) /\ Len(t) = l /\ t[l] = q /\ \A i \in 1..l-1 : t[i] = front[i]
    BY <1>1, <1>2, <1>4
  <2> HIDE DEF t
  <2>2. \A i \in 1..l : i \in 1..l-1 \/ i = l
    BY <1>1
  <2>3. \A i \in 1..l-1 : i \in 1..l /\ i # l
    BY <1>1
  <2>4. \A i \in 1..Len(more) : more[i] = t[i]
    BY <1>3, <1>4, <2>1, <2>2, <2>3
  <2>5. more = t
    BY <1>3, <2>1, <2>4, SeqEqual
  <2>6. QED
    BY <2>5 DEF t
<1>6. ASSUME NEW h \in Narrative
      PROVE  AllOf(h, more) = IF h = k THEN AllOf(h, told) \o <<f>> ELSE AllOf(h, told)
  <2>1. /\ AllOf(h, Append(front, p)) = IF p.kind = h THEN AllOf(h, front) \o p.got ELSE AllOf(h, front)
        /\ AllOf(h, Append(front, q)) = IF q.kind = h THEN AllOf(h, front) \o q.got ELSE AllOf(h, front)
        /\ AllOf(h, front) \in Seq(Nat)
    <3> DEFINE Adds(x) == AllOf(h, Append(front, x)) =
                          IF x.kind = h THEN AllOf(h, front) \o x.got ELSE AllOf(h, front)
    <3>1. \A x \in Part : Adds(x)
      BY <1>4, AllOfProperties
    <3>2. AllOf(h, front) \in Seq(Nat)
      BY <1>4, AllOfProperties
    <3> HIDE DEF Adds
    <3>3. Adds(p) /\ Adds(q)
      BY <1>1, <1>2, <3>1
    <3>4. QED
      BY <3>2, <3>3 DEF Adds
  <2>2. AllOf(h, front) \o Append(p.got, f) = (AllOf(h, front) \o p.got) \o <<f>>
    <3>1. p.got \o <<f>> = Append(p.got, f) /\ <<f>> \in Seq(Nat)
      BY <1>2
    <3>2. (AllOf(h, front) \o p.got) \o <<f>> = AllOf(h, front) \o (p.got \o <<f>>)
      <4> DEFINE x == AllOf(h, front)
                 y == p.got
                 z == <<f>>
      <4>1. x \in Seq(Nat) /\ y \in Seq(Nat) /\ z \in Seq(Nat)
        BY <1>2, <2>1, <3>1
      <4> HIDE DEF x, y, z
      <4>2. (x \o y) \o z = x \o (y \o z)
        BY <4>1, ConcatAssociative
      <4>3. QED
        BY <4>2 DEF x, y, z
    <3>3. QED
      BY <3>1, <3>2
  <2>3. QED
    BY <1>1, <1>2, <1>4, <1>5, <2>1, <2>2
<1>7. Calls(more) = Calls(told)
  <2>1. Calls(Append(front, p)) = Calls(front) /\ Calls(Append(front, q)) = Calls(front)
    BY <1>1, <1>2, <1>4, CallsAppended
  <2>2. QED
    BY <1>4, <1>5, <2>1
<1>8. ASSUME NEW n, Numbered(told, n) PROVE Numbered(more, n)
  <2>1. \A t \in 1..l : more[t].kind = "call" => more[t] = told[t]
    BY <1>1, <1>2, <1>3
  <2>2. QED
    BY <1>3, <1>8, <2>1 DEF Numbered, l
<1>9. \A h : Lasts(more, h) <=> h = k
  <2>1. Len(more) # 0 /\ more[Len(more)].kind = k
    BY <1>1, <1>2, <1>3
  <2>2. more # <<>>
    BY <2>1
  <2>3. QED
    BY <2>1, <2>2 DEF Lasts
<1>10. QED
  BY <1>1, <1>3, <1>6, <1>7, <1>8, <1>9 DEF more, l, p, q

\* A call is told on.
CallGrew(told, more, p, q, n) ==
  /\ more \in Seq(Part) /\ Len(more) = Len(told)
  /\ q \in Part /\ q.kind = "call"
  /\ \A k \in Narrative : AllOf(k, more) = AllOf(k, told)
  /\ Calls(more) = (Calls(told) \ {p}) \cup {q}
  /\ Numbered(more, n) /\ \A k : Lasts(more, k) <=> Lasts(told, k)
  /\ \A t \in 1..Len(told) : told[t] = p =>
       more[t] = q /\ \A u \in 1..Len(told) : u # t => more[u] = told[u]
Replaces(told, more, p, q) == more = [i \in DOMAIN told |-> IF told[i] = p THEN q ELSE told[i]]
LEMMA CallGrown ==
  ASSUME NEW told \in Seq(Part), NEW n, Numbered(told, n), NEW p \in Calls(told), NEW f \in Nat,
         NEW q, q = Grew(p, f), NEW more, Replaces(told, more, p, q)
  PROVE  CallGrew(told, more, p, q, n)
<1> DEFINE l == Len(told)
<1>1. p.kind = "call" /\ p \in Part /\ \E t \in 1..l : told[t] = p
  BY DEF Calls, PartsOf
<1>2. q \in Part /\ q.kind = "call" /\ q.id = p.id /\ q.got = Append(p.got, f)
  BY <1>1, GrewTyped
<1>3. /\ l \in Nat /\ more \in Seq(Part) /\ Len(more) = l
      /\ \A t \in 1..l : told[t] \in Part /\ more[t] = IF told[t] = p THEN q ELSE told[t]
  BY <1>2 DEF Replaces
<1>4. \A t \in 1..l : more[t].kind = told[t].kind /\ more[t].id = told[t].id
  BY <1>1, <1>2, <1>3
<1>5. ASSUME NEW t \in 1..l, NEW u \in 1..l, told[t].kind = "call", told[u].kind = "call", told[t].id = told[u].id
      PROVE  t = u
  <2>1. told[t].id \in Nat /\ told[u].id \in Nat
    BY <1>3 DEF Part
  <2>2. ~(told[t].id < told[u].id) /\ ~(told[u].id < told[t].id)
    BY <1>5, <2>1
  <2>3. ~(t < u) /\ ~(u < t)
    BY <1>5, <2>2 DEF Numbered
  <2>4. QED
    BY <2>3
<1>6. \A t \in 1..l : told[t] = p => more[t] = q /\ \A u \in 1..l : u # t => more[u] = told[u]
  BY <1>1, <1>3, <1>5
<1>7. ASSUME NEW k \in Narrative PROVE AllOf(k, more) = AllOf(k, told)
  <2>1. \A i \in 1..Len(more) : more[i] = told[i] \/ (more[i].kind # k /\ told[i].kind # k)
    BY <1>1, <1>2, <1>3, Indices
  <2>2. \A s, t \in Seq(Part) :
          Len(s) = Len(t) /\ (\A i \in 1..Len(s) : s[i] = t[i] \/ (s[i].kind # k /\ t[i].kind # k)) =>
            AllOf(k, s) = AllOf(k, t)
    BY AllOfProperties
  <2>3. QED
    BY <1>3, <2>1, <2>2
<1>8. Calls(more) = (Calls(told) \ {p}) \cup {q}
  <2>1. PICK t \in 1..l : told[t] = p
    BY <1>1
  <2>2. more[t] = q /\ \A u \in 1..l : u # t => more[u] = told[u]
    BY <1>6, <2>1
  <2>3. \A u \in 1..l : u # t /\ told[u].kind = "call" => told[u] # p
    BY <1>1, <1>5, <2>1
  <2>4. \A c : c \in Calls(more) <=> \E u \in 1..l : c = more[u] /\ c.kind = "call"
    BY <1>3 DEF Calls, PartsOf
  <2>5. \A c : c \in Calls(told) <=> \E u \in 1..l : c = told[u] /\ c.kind = "call"
    BY DEF Calls, PartsOf
  <2>6. ASSUME NEW c \in Calls(more) PROVE c \in (Calls(told) \ {p}) \cup {q}
    BY <2>2, <2>3, <2>4, <2>5
  <2>7. ASSUME NEW c \in Calls(told), c # p PROVE c \in Calls(more)
    <3>1. PICK u \in 1..l : c = told[u] /\ c.kind = "call"
      BY <2>5
    <3>2. u # t
      BY <2>1, <2>7, <3>1
    <3>3. QED
      BY <2>2, <2>4, <3>1, <3>2
  <2>8. q \in Calls(more)
    BY <1>2, <2>2, <2>4
  <2>9. QED
    BY <2>6, <2>7, <2>8
<1>9. Numbered(more, n)
  BY <1>3, <1>4 DEF Numbered
<1>10. ASSUME NEW k PROVE Lasts(more, k) <=> Lasts(told, k)
  <2>1. l # 0 /\ l \in 1..l /\ more # <<>>
    BY <1>1, <1>3
  <2>2. more[l].kind = told[l].kind /\ told # <<>>
    BY <1>1, <1>4, <2>1
  <2>3. QED
    BY <1>3, <2>1, <2>2 DEF Lasts
<1>11. QED
  BY <1>2, <1>3, <1>6, <1>7, <1>8, <1>9, <1>10 DEF CallGrew

-----------------------------------------------------------------------------
(* What a chunk does to what is held. *)

LEMMA EmitTurns ==
  ASSUME Held \in Accumulator, NEW events \in Seq(Event), NEW ending, Emit(events, ending),
         NEW b, b = Taken(Held, events, wire'.whole)
  PROVE  /\ b \in Accumulator /\ Held' \in Accumulator /\ dialect' = dialect
         /\ slots' = b.slots /\ parts' = b.parts
         /\ outcome' = IF b.broken THEN "broken" ELSE ending
         /\ ~b.broken => Held' = b
<1>1. b \in Accumulator
  BY TakenTyped
<1>2. /\ slots' = b.slots /\ parts' = b.parts /\ dialect' = dialect
      /\ outcome' = IF b.broken THEN "broken" ELSE ending
  BY DEF Emit, Held
<1>3. Held' = [slots |-> b.slots, parts |-> b.parts, broken |-> FALSE]
  BY <1>2 DEF Held
<1>4. QED
  BY <1>1, <1>2, <1>3 DEF Accumulator

\* Narrative comes: the other lane is shut, and its own begins if it has not.
ToldOn(told, k, f) ==
  IF Lasts(told, k) THEN [told EXCEPT ![Len(told)] = Grew(told[Len(told)], f)]
  ELSE Append(told, Grew(NewPart(k, 0), f))
LEMMA ToldOnProperties ==
  ASSUME NEW told \in Seq(Part), NEW k \in Narrative, NEW f \in Nat, NEW n \in Nat, Numbered(told, n)
  PROVE  LET more == ToldOn(told, k, f) IN
         /\ more \in Seq(Part) /\ Calls(more) = Calls(told) /\ Numbered(more, n)
         /\ \A l \in Narrative : AllOf(l, more) = IF l = k THEN AllOf(l, told) \o <<f>> ELSE AllOf(l, told)
         /\ \A l : Lasts(more, l) <=> l = k
<1>1. CASE Lasts(told, k)
  BY <1>1, LastGrows DEF ToldOn
<1>2. CASE ~Lasts(told, k)
  <2> DEFINE p == Grew(NewPart(k, 0), f)
  <2>1. k # "call" /\ k \in Lane
    BY Indices
  <2>2. NewPart(k, 0) \in Part /\ NewPart(k, 0).kind = k /\ NewPart(k, 0).got = <<>>
    BY <2>1 DEF NewPart, Part
  <2>3. p \in Part /\ p.kind = k /\ p.got = <<f>>
    <3>1. p \in Part /\ p.kind = k /\ p.got = Append(<<>>, f)
      BY <2>2, GrewTyped
    <3>2. QED
      BY <3>1
  <2> HIDE DEF p
  <2>4. /\ Append(told, p) \in Seq(Part) /\ Calls(Append(told, p)) = Calls(told) /\ Numbered(Append(told, p), n)
        /\ \A l : Lasts(Append(told, p), l) <=> p.kind = l
        /\ \A l : AllOf(l, Append(told, p)) = IF p.kind = l THEN AllOf(l, told) \o p.got ELSE AllOf(l, told)
    BY <2>1, <2>3, ToldMore
  <2>5. ToldOn(told, k, f) = Append(told, p)
    BY <1>2 DEF ToldOn, p
  <2>6. QED
    BY <2>3, <2>4, <2>5
<1>3. QED
  BY <1>1, <1>2

\* The part that a fragment of narrative goes on.
LEMMA ToldOnGrows ==
  ASSUME NEW told \in Seq(Part), NEW k \in Narrative, NEW f \in Nat
  PROVE  LET base == IF Lasts(told, k) THEN told ELSE Append(told, NewPart(k, 0))
             more == ToldOn(told, k, f) IN
         /\ base \in Seq(Part) /\ more \in Seq(Part) /\ Len(more) = Len(base) /\ Len(base) \in 1..Len(base)
         /\ more[Len(base)] = Grew(base[Len(base)], f)
         /\ \A t \in 1..Len(base) : t # Len(base) => more[t] = base[t]
<1>1. CASE Lasts(told, k)
  <2> DEFINE more == [told EXCEPT ![Len(told)] = Grew(told[Len(told)], f)]
  <2>1. /\ more \in Seq(Part) /\ Len(more) = Len(told) /\ Len(told) \in 1..Len(told)
        /\ more[Len(told)] = Grew(told[Len(told)], f)
        /\ \A t \in 1..Len(told) : t # Len(told) => more[t] = told[t]
    BY <1>1, LastGrows
  <2>2. ToldOn(told, k, f) = more
    BY <1>1 DEF ToldOn
  <2> HIDE DEF more
  <2>3. QED
    BY <1>1, <2>1, <2>2
<1>2. CASE ~Lasts(told, k)
  <2> DEFINE p == NewPart(k, 0)
             q == Grew(p, f)
             l == Len(told)
  <2>1. k \in Lane
    BY Indices
  <2>2. p \in Part
    BY <2>1 DEF NewPart, Part
  <2>3. q \in Part
    BY <2>2, GrewTyped
  <2> HIDE DEF p, q
  <2>4. /\ l \in Nat /\ Append(told, p) \in Seq(Part) /\ Append(told, q) \in Seq(Part)
        /\ Len(Append(told, p)) = l + 1 /\ Len(Append(told, q)) = l + 1
        /\ Append(told, p)[l+1] = p /\ Append(told, q)[l+1] = q /\ l + 1 \in 1..l+1
    BY <2>2, <2>3
  <2>5. \A t \in 1..l+1 : t # l + 1 => Append(told, p)[t] = Append(told, q)[t]
    BY <2>2, <2>3
  <2>6. ToldOn(told, k, f) = Append(told, q)
    BY <1>2 DEF ToldOn, p, q
  <2>7. QED
    BY <1>2, <2>4, <2>5, <2>6 DEF p, q
<1>3. QED
  BY <1>1, <1>2

LEMMA NarrativeComes ==
  ASSUME LanesAreOpen, NEW a, NEW told \in Seq(Part), NEW c, Good(a, told, OpenLanes, 0, c),
         NEW k \in Narrative, k \in OpenLanes <=> Lasts(told, k), NEW f \in Nat,
         NEW whole, Calls(told) \subseteq whole, NEW n \in Nat, Numbered(told, n),
         NEW events, events = Shut(Other(k))
                              \o (IF IsOpen(k) THEN <<>> ELSE <<Starts(IndexOf(k), k, 0)>>)
                              \o <<Brings(IndexOf(k), k, f)>>
  PROVE  LET b == Taken(a, events, whole)
             more == ToldOn(told, k, f) IN
         /\ events \in Seq(Event) /\ Good(b, more, {k}, 0, c)
         /\ InOrder(a, told) /\ c = 0 => InOrder(b, more)
<1> DEFINE o  == Other(k)
           O1 == OpenLanes \ {o}
           x  == Shut(o)
           y  == IF IsOpen(k) THEN <<>> ELSE <<Starts(IndexOf(k), k, 0)>>
           z  == <<Brings(IndexOf(k), k, f)>>
           a1 == Taken(a, x, whole)
           a2 == Taken(a1, y, whole)
           b  == Taken(a, events, whole)
           base == IF Lasts(told, k) THEN told ELSE Append(told, NewPart(k, 0))
           more == ToldOn(told, k, f)
<1>1. /\ o \in Narrative /\ o # k /\ \A l \in Narrative : l = o \/ l = k
      /\ k \in Lane /\ IndexOf(k) \in Nat /\ IndexOf(o) \in Nat /\ OpenLanes \subseteq Narrative
      /\ k \in OpenLanes <=> IsOpen(k)
  BY DEF Other, Narrative, Lane, IndexOf, OpenLanes
<1>2. a \in Accumulator
  BY DEF Good
<1>3. x = (IF o \in OpenLanes THEN <<Halts(IndexOf(o))>> ELSE <<>>)
  BY <1>1, ShutsOne
<1>4. /\ Halts(IndexOf(o)) \in Event /\ Starts(IndexOf(k), k, 0) \in Event
      /\ Brings(IndexOf(k), k, f) \in Event
  BY <1>1, EventsTyped
<1>5. x \in Seq(Event) /\ y \in Seq(Event) /\ z \in Seq(Event)
  BY <1>3, <1>4
<1>6. events = (x \o y) \o z /\ x \o y \in Seq(Event) /\ events \in Seq(Event)
  BY <1>5
<1>7. a1 \in Accumulator /\ a2 \in Accumulator /\ Taken(a, x \o y, whole) = a2 /\ b = Taken(a2, z, whole)
  <2> HIDE DEF x, y, z
  <2>1. a1 \in Accumulator
    BY <1>2, <1>5, TakenTyped
  <2>2. a2 \in Accumulator
    BY <2>1, <1>5, TakenTyped
  <2>3. Taken(a, x \o y, whole) = Taken(Taken(a, x, whole), y, whole)
    BY <1>2, <1>5, TakenJoined
  <2>4. Taken(a, (x \o y) \o z, whole) = Taken(Taken(a, x \o y, whole), z, whole)
    <3> DEFINE w == x \o y
    <3>1. w \in Seq(Event)
      BY <1>6
    <3> HIDE DEF w
    <3>2. Taken(a, w \o z, whole) = Taken(Taken(a, w, whole), z, whole)
      BY <1>2, <1>5, <3>1, TakenJoined
    <3>3. QED
      BY <3>2 DEF w
  <2>5. QED
    BY <1>6, <2>1, <2>2, <2>3, <2>4
<1>8. b = Advance(a2, Brings(IndexOf(k), k, f), whole)
  BY <1>4, <1>7, TakenOne
<1>9. /\ Good(a1, told, O1, 0, c)
      /\ InOrder(a, told) /\ c = 0 => InOrder(a1, told)
  <2>1. CASE o \in OpenLanes
    <3>1. a1 = Advance(a, Halts(IndexOf(o)), whole)
      BY <1>2, <1>3, <1>4, <2>1, TakenOne
    <3> HIDE DEF a1, o
    <3>2. Good(a1, told, O1, 0, c) /\ \E out : Ends(a, a1, out)
      BY <1>1, <2>1, <3>1, LaneIsShut
    <3>3. ASSUME InOrder(a, told), c = 0 PROVE InOrder(a1, told)
      <4>1. OpenLanes = {o}
        BY <2>1 DEF LanesAreOpen
      <4>2. Owes(a, {o}, 0, 0)
        BY <3>3, <4>1 DEF Good
      <4>3. PICK out : Ends(a, a1, out)
        BY <3>2
      <4>4. QED
        BY <1>1, <1>2, <3>3, <4>2, <4>3, AloneInOrder
    <3>4. QED
      BY <3>2, <3>3
  <2>2. CASE o \notin OpenLanes
    <3>1. x = <<>>
      BY <1>3, <2>2
    <3>2. a1 = a
      BY <1>2, <3>1, TakenNone
    <3>3. O1 = OpenLanes
      BY <2>2
    <3>4. QED
      BY <3>2, <3>3
  <2>3. QED
    BY <2>1, <2>2
<1>10. O1 = (IF k \in OpenLanes THEN {k} ELSE {}) /\ O1 \subseteq Narrative
  BY <1>1
<1>11. base \in Seq(Part) /\ Calls(base) = Calls(told)
       /\ \A l \in Narrative : AllOf(l, base) = AllOf(l, told)
  <2>1. CASE Lasts(told, k)
    BY <2>1
  <2>2. CASE ~Lasts(told, k)
    <3> DEFINE p == NewPart(k, 0)
    <3>1. p \in Part /\ p.kind = k /\ p.got = <<>> /\ k # "call"
      BY <1>1, Indices DEF NewPart, Part
    <3> HIDE DEF p
    <3>2. /\ Append(told, p) \in Seq(Part) /\ Calls(Append(told, p)) = Calls(told)
          /\ \A l : AllOf(l, Append(told, p)) = IF p.kind = l THEN AllOf(l, told) \o p.got ELSE AllOf(l, told)
      BY <3>1, ToldMore
    <3>3. \A l \in Narrative : AllOf(l, told) \in Seq(Nat)
      BY AllOfProperties
    <3>4. \A l \in Narrative : AllOf(l, told) \o <<>> = AllOf(l, told)
      BY <3>3
    <3>5. base = Append(told, p)
      BY <2>2 DEF p
    <3>6. QED
      BY <3>1, <3>2, <3>4, <3>5
  <2>3. QED
    BY <2>1, <2>2
<1>12. /\ Good(a2, told, {k}, 0, c)
       /\ InOrder(a, told) /\ c = 0 => InOrder(a2, base)
  <2>1. CASE k \in OpenLanes
    <3>1. y = <<>> /\ O1 = {k} /\ base = told
      BY <1>1, <1>10, <2>1
    <3>2. a2 = a1
      BY <1>7, <3>1, TakenNone
    <3>3. QED
      BY <1>9, <3>1, <3>2
  <2>2. CASE k \notin OpenLanes
    <3>1. y = <<Starts(IndexOf(k), k, 0)>> /\ O1 = {} /\ base = Append(told, NewPart(k, 0))
      BY <1>1, <1>10, <2>2
    <3>2. a2 = Advance(a1, Starts(IndexOf(k), k, 0), whole)
      BY <1>4, <1>7, <3>1, TakenOne
    <3> HIDE DEF a1, a2, O1
    <3>3. Good(a1, told, {}, 0, c) /\ {} \cup {k} = {k} /\ {} \subseteq Narrative /\ k \notin {}
      BY <1>9, <3>1
    <3>4. Good(a2, told, {} \cup {k}, 0, c) /\ Begins(a1, a2, IndexOf(k), NewPart(k, 0))
      <4> DEFINE E == {}
      <4>1. Good(a1, told, E, 0, c) /\ E \subseteq Narrative /\ k \notin E
        BY <3>3
      <4> HIDE DEF E
      <4>2. Good(a2, told, E \cup {k}, 0, c) /\ Begins(a1, a2, IndexOf(k), NewPart(k, 0))
        BY <3>2, <4>1, LaneBegins
      <4>3. QED
        BY <4>2 DEF E
    <3>5. ASSUME InOrder(a1, told) PROVE InOrder(a2, base)
      <4>1. NewPart(k, 0) \in Part
        BY <1>1 DEF NewPart, Part
      <4>2. QED
        BY <1>7, <3>1, <3>4, <3>5, <4>1, OrderBegins
    <3>6. QED
      BY <1>9, <3>3, <3>4, <3>5
  <2>3. QED
    BY <2>1, <2>2
<1>13. Calls(more) = Calls(told)
       /\ \A l \in Narrative : AllOf(l, more) = IF l = k THEN AllOf(l, told) \o <<f>> ELSE AllOf(l, told)
  BY ToldOnProperties
<1>14. Good(b, more, {k}, 0, c) /\ \E to : Gets(a2, b, to, f)
  <2> DEFINE E == {k}
  <2>1. E \subseteq Narrative /\ k \in E /\ Good(a2, told, E, 0, c)
    BY <1>12
  <2> HIDE DEF a2, b, more, E
  <2>0. TellsOn(told, more, k, f)
    BY <1>13 DEF TellsOn
  <2>2. Good(b, more, E, 0, c) /\ \E to : Gets(a2, b, to, f)
    BY <1>8, <2>0, <2>1, LaneGets
  <2>3. QED
    BY <2>2 DEF E
<1>15. ASSUME InOrder(a, told), c = 0 PROVE InOrder(b, more)
  <2>1. Owes(a2, {k}, 0, 0) /\ InOrder(a2, base)
    BY <1>12, <1>15 DEF Good
  <2>2. PICK to : Gets(a2, b, to, f)
    BY <1>14
  <2>3. Len(a2.slots) = 1 /\ to \in 1..Len(a2.slots)
    BY <1>7, <2>1, <2>2, OwesOne DEF Gets
  <2>4. /\ base \in Seq(Part) /\ more \in Seq(Part) /\ Len(more) = Len(base) /\ Len(base) \in 1..Len(base)
        /\ more[Len(base)] = Grew(base[Len(base)], f)
        /\ \A t \in 1..Len(base) : t # Len(base) => more[t] = base[t]
    BY ToldOnGrows
  <2> HIDE DEF base, more, a2, b
  <2>5. Len(base) - Len(a2.slots) + to = Len(base)
    BY <2>3, <2>4
  <2>6. /\ more[Len(base) - Len(a2.slots) + to] = Grew(base[Len(base) - Len(a2.slots) + to], f)
        /\ \A t \in 1..Len(base) : t # Len(base) - Len(a2.slots) + to => more[t] = base[t]
    BY <2>4, <2>5
  <2>7. a2 \in Accumulator /\ base \in Seq(Part) /\ more \in Seq(Part) /\ Len(more) = Len(base)
    BY <1>7, <2>4
  <2>8. QED
    BY <2>1, <2>2, <2>6, <2>7, OrderGets
<1>16. QED
  BY <1>6, <1>14, <1>15

-----------------------------------------------------------------------------
(* The chunked wires. *)

LEMMA TypesMeanOK == Typed => LaneTypeOK
<1> SUFFICES ASSUME Typed PROVE LaneTypeOK
  OBVIOUS
<1>1. slots \in Seq(Slot) /\ parts \in Seq(Part)
  BY DEF Typed, Held, Accumulator
<1>2. \A i \in DOMAIN slots : slots[i] \in Slot
  BY <1>1
<1>3. \A i \in DOMAIN parts : parts[i] \in Part
  BY <1>1
<1>4. \A i \in DOMAIN slots : slots[i] \in [index : Nat, part : Part]
  BY <1>2 DEF Slot
<1>5. QED
  BY <1>3, <1>4 DEF Typed, LaneTypeOK

\* While the stream runs, the invariant is that of its wire.
LEMMA GoesOn ==
  /\ (Typed /\ outcome = "none" /\ dialect \in Chunked /\ ChunkInv) => LaneInv
  /\ (Typed /\ outcome = "none" /\ dialect \notin Chunked /\ BlockInv) => LaneInv
BY TypesMeanOK DEF LaneInv, PartsAreWhole

LEMMA WireTyped ==
  ASSUME Typed
  PROVE  /\ wire.sent \in Nat /\ Coming \in Nat /\ wire.told \in Seq(Part) /\ wire.whole \in SUBSET Part
         /\ wire.ended \in BOOLEAN /\ wire.cut \in BOOLEAN /\ wire.resumed \in BOOLEAN
         /\ wire.blocks \in Nat /\ emitter.calls \in Nat /\ emitter.finished \in BOOLEAN
         /\ emitter.at \in [Lane -> Nat \cup {NoIndex}] /\ Held \in Accumulator
         /\ slots \in Seq(Slot) /\ parts \in Seq(Part)
BY DEF Typed, Wire, Emitter, Coming, Held, Accumulator

LEMMA ChunkFacts ==
  ASSUME Typed, ChunkInv
  PROVE  /\ LanesAreOpen /\ OpenLanes \subseteq Narrative /\ CallsOwed \in Nat
         /\ Incomplete(wire) = {} <=> Calls(wire.told) \subseteq wire.whole
         /\ Calls(parts) \subseteq Calls(wire.told)
<1>1. OpenLanes \subseteq Narrative
  BY DEF OpenLanes
<1>2. ASSUME NEW k \in OpenLanes, NEW l \in OpenLanes PROVE k = l
  BY <1>1, <1>2 DEF ChunkInv, Lasts
<1>3. CallsOwed \in Nat
  BY WireTyped DEF CallsOwed
<1>4. Called(Held, wire.told) /\ Held.parts = parts
  BY DEF ChunkInv, Good, Held
<1>5. QED
  BY <1>1, <1>2, <1>3, <1>4 DEF LanesAreOpen, ChunkInv, Incomplete, Called

LEMMA SpeaksSafely ==
  ASSUME ~Resumes \/ dialect = "gemini", Typed, ChunkInv, NEW k \in Narrative, Speaks(k)
  PROVE  LaneInv'
<1> DEFINE f == Coming
           told == wire.told
           more == ToldOn(told, k, f)
           o == Other(k)
           c == CallsOwed
           events == Shut(Other(k)) \o (IF IsOpen(k) THEN <<>> ELSE <<Starts(IndexOf(k), k, 0)>>)
                     \o <<Brings(IndexOf(k), k, f)>>
           b == Taken(Held, events, wire'.whole)
<1>1. /\ f \in Nat /\ told \in Seq(Part) /\ Held \in Accumulator /\ emitter.calls \in Nat
      /\ LanesAreOpen /\ OpenLanes \subseteq Narrative /\ c \in Nat
      /\ wire.ended \in BOOLEAN /\ dialect \in Chunked /\ outcome = "none" /\ ~wire.ended
  BY WireTyped, ChunkFacts DEF Speaks
<1>2. Incomplete(wire) = {} /\ Calls(told) \subseteq wire.whole
  <2>1. Incomplete(wire) = {}
    BY DEF Speaks, ChunkInv
  <2>2. QED
    BY <2>1, ChunkFacts
<1>3. /\ Good(Held, told, OpenLanes, 0, c) /\ (k \in OpenLanes <=> Lasts(told, k)) /\ Numbered(told, emitter.calls)
      /\ emitter.finished <=> wire.ended
  BY <1>1 DEF ChunkInv
<1>4. /\ o \in Narrative /\ o # k /\ (\A l \in Lane : l = o \/ l = k \/ l = "call") /\ k \in Lane /\ o \in Lane
      /\ IndexOf(k) \in Nat /\ k # "call" /\ o # "call" /\ "call" \in Lane /\ "call" \notin Narrative
  BY DEF Other, Narrative, Lane, IndexOf
<1>5. more = IF wire.told # <<>> /\ Latest(wire).kind = k
             THEN [wire.told EXCEPT ![Len(wire.told)] = Grown(k, wire.told[Len(wire.told)])]
             ELSE Append(wire.told, Grown(k, NewPart(k, 0)))
  <2>1. \A p : p.kind = k => Grown(k, p) = Grew(p, f)
    BY DEF Grown, Grew
  <2>2. NewPart(k, 0).kind = k
    BY DEF NewPart
  <2>3. QED
    BY <2>1, <2>2 DEF ToldOn, Lasts, Latest
<1>6. /\ wire' = [wire EXCEPT !.sent = f, !.told = more,
                              !.resumed = wire.resumed \/ (dialect = "openai" /\ Calls(wire.told) # {})]
      /\ emitter' = [emitter EXCEPT !.at = [emitter.at EXCEPT ![o] = NoIndex, ![k] = IndexOf(k)]]
      /\ Emit(events, "none")
  <2> HIDE DEF f, more
  <2>1. QED
    BY <1>4, <1>5 DEF Speaks, f
<1>7. /\ more \in Seq(Part) /\ Calls(more) = Calls(told) /\ Numbered(more, emitter.calls)
      /\ \A l : Lasts(more, l) <=> l = k
  BY <1>1, <1>3, ToldOnProperties
<1> HIDE DEF more, told, f
<1>8. /\ wire' \in Wire /\ wire'.told = more /\ wire'.whole = wire.whole /\ wire'.ended = wire.ended
      /\ wire'.resumed <=> wire.resumed \/ (dialect = "openai" /\ Calls(told) # {})
  BY <1>1, <1>6, <1>7 DEF Typed, Wire, told
<1>9. /\ emitter' \in Emitter /\ emitter'.calls = emitter.calls /\ emitter'.finished = emitter.finished
      /\ emitter'.at[o] = NoIndex /\ emitter'.at[k] = IndexOf(k) /\ emitter'.at["call"] = emitter.at["call"]
  BY <1>1, <1>4, <1>6 DEF Typed, Emitter
<1>10. /\ events \in Seq(Event) /\ Good(b, more, {k}, 0, c)
       /\ InOrder(Held, told) /\ c = 0 => InOrder(b, more)
  <2>1. events = Shut(Other(k)) \o (IF IsOpen(k) THEN <<>> ELSE <<Starts(IndexOf(k), k, 0)>>)
                 \o <<Brings(IndexOf(k), k, f)>>
    OBVIOUS
  <2>2. b = Taken(Held, events, wire.whole)
    BY <1>8
  <2> HIDE DEF events, c, b
  <2>3. LET d == Taken(Held, events, wire.whole)
            later == ToldOn(told, k, f) IN
        /\ events \in Seq(Event) /\ Good(d, later, {k}, 0, c)
        /\ InOrder(Held, told) /\ c = 0 => InOrder(d, later)
    BY <1>1, <1>2, <1>3, <2>1, NarrativeComes
  <2>4. QED
    BY <2>2, <2>3 DEF more
<1> HIDE DEF events
<1>11. ~b.broken /\ dialect' = dialect /\ outcome' = "none" /\ Held' = b /\ Held' \in Accumulator /\ parts' = b.parts
  <2>1. ~b.broken
    BY <1>10 DEF Good
  <2> DEFINE d == b
  <2>2. d = Taken(Held, events, wire'.whole)
    OBVIOUS
  <2> HIDE DEF b, d
  <2>3. /\ dialect' = dialect /\ outcome' = (IF d.broken THEN "broken" ELSE "none") /\ Held' \in Accumulator
        /\ parts' = d.parts /\ (~d.broken => Held' = d)
    BY <1>1, <1>6, <1>10, <2>2, EmitTurns
  <2>4. QED
    BY <2>1, <2>3 DEF d
<1> HIDE DEF b
<1>12. OpenLanes' = {k} /\ CallsOwed' = c
  <2>1. IndexOf(k) # NoIndex
    BY <1>4, LaneAssumption
  <2>2. OpenLanes' = {k}
    BY <1>4, <1>9, <2>1 DEF OpenLanes, IsOpen, Narrative
  <2>3. QED
    BY <1>9, <1>11, <2>2 DEF CallsOwed
<1>13. ~wire'.resumed => c = 0 /\ (emitter.calls = 0 \/ dialect = "gemini")
  <2>1. dialect = "openai" \/ dialect = "gemini"
    BY <1>1 DEF Chunked
  <2>2. emitter.calls > 0 => Calls(told) # {}
    BY DEF ChunkInv, told
  <2>3. ASSUME ~wire'.resumed, dialect = "openai" PROVE emitter.calls = 0
    BY <1>1, <1>8, <2>2, <2>3
  <2>4. c = 0 \/ (c = emitter.calls /\ dialect = "openai")
    BY DEF CallsOwed
  <2>5. QED
    BY <2>1, <2>3, <2>4
<1>14. ChunkInv'
  <2>1. (emitter.finished <=> wire.ended)'
    BY <1>3, <1>8, <1>9
  <2>2. Good(Held', wire'.told, OpenLanes', 0, CallsOwed')
    BY <1>8, <1>10, <1>11, <1>12
  <2>3. ~wire'.resumed => InOrder(Held', wire'.told)
    <3>1. ~wire'.resumed => ~wire.resumed /\ c = 0
      BY <1>8, <1>13
    <3>2. ~wire.resumed => InOrder(Held, told)
      BY DEF ChunkInv, told
    <3>3. QED
      BY <1>8, <1>10, <1>11, <3>1, <3>2
  <2>4. Numbered(wire'.told, emitter'.calls) /\ (emitter'.calls > 0 => Calls(wire'.told) # {})
    BY <1>7, <1>8, <1>9 DEF ChunkInv, told
  <2>5. \A l \in Lane : emitter'.at[l] = IF l \in OpenLanes' THEN IndexOf(l) ELSE NoIndex
    BY <1>1, <1>4, <1>9, <1>12 DEF LanesAreOpen
  <2>6. \A l \in Narrative : l \in OpenLanes' <=> ~wire'.ended /\ Lasts(wire'.told, l)
    BY <1>1, <1>7, <1>8, <1>12
  <2>7. Incomplete(wire') = {}
    BY <1>2, <1>7, <1>8 DEF Incomplete
  <2>8. Calls(parts') \subseteq wire'.whole
    <3>1. Calls(parts') \subseteq Calls(more)
      BY <1>10, <1>11 DEF Good, Called
    <3>2. QED
      BY <1>2, <1>7, <1>8, <3>1
  <2>9. ~(dialect' = "openai" /\ ~wire'.resumed /\ emitter'.calls > 0)
    BY <1>1, <1>9, <1>11, <1>13
  <2>10. dialect' = "gemini" => ~wire'.resumed /\ Incomplete(wire') = {}
    BY <1>8, <1>11, <2>7 DEF ChunkInv
  <2>11. QED
    BY <2>1, <2>2, <2>3, <2>4, <2>5, <2>6, <2>7, <2>8, <2>9, <2>10 DEF ChunkInv
<1>15. Typed'
  BY <1>8, <1>9, <1>11 DEF Typed, Endings
<1>16. (Typed /\ outcome = "none" /\ dialect \in Chunked /\ ChunkInv)'
  BY <1>1, <1>11, <1>14, <1>15
<1>17. QED
  BY <1>16, GoesOn, PTL

\* Calls at none of the indices are the same whatever the bounds.
LEMMA OwesAlike ==
  ASSUME NEW a, NEW told, NEW O, NEW m, NEW n, Good(a, told, O, m, n), NEW h, NEW l,
         \A i \in Nat : (m <= i /\ i < n) <=> (h <= i /\ i < l)
  PROVE  Good(a, told, O, h, l)
<1>1. \A i \in Nat : Owed(O, m, n)[i] = Owed(O, h, l)[i]
  BY OwedValues
<1>2. \A i \in Nat : Has(a.slots, i, Owed(O, m, n)[i])
  BY DEF Good, Owes
<1>3. Owes(a, O, h, l)
  BY <1>1, <1>2 DEF Owes
<1>4. QED
  BY <1>3 DEF Good

\* A call comes, with some of its arguments or none: the narrative is shut first.
CallPart(id, some, f) == [kind |-> "call", id |-> id, got |-> IF some THEN <<f>> ELSE <<>>]
CallEvents(n, some, f) == ShutNarrative \o <<Starts(n, "call", n + 1)>>
                          \o (IF some THEN <<Brings(n, "call", f)>> ELSE <<>>)
CallCame(a, b, told, more, m, n, whole) ==
  /\ Good(b, more, {}, m, n + 1)
  /\ InOrder(a, told) /\ (OpenLanes = {} \/ Good(a, told, OpenLanes, 0, 0)) => InOrder(b, more)
  /\ (OpenLanes = {} /\ OnlyCalls(a)) \/ Good(a, told, OpenLanes, 0, 0) => OnlyCalls(b)
  /\ Calls(a.parts) \subseteq whole => Calls(b.parts) \subseteq whole
LEMMA ThreeMore ==
  ASSUME NEW x \in Seq(Event), NEW s \in Event, NEW d \in Event, NEW h \in Event
  PROVE  ((x \o <<s>>) \o <<d>>) \o <<h>> = x \o <<s, d, h>>
<1> DEFINE l == Len(x)
           y1 == x \o <<s>>
           y2 == y1 \o <<d>>
           y3 == y2 \o <<h>>
           z == x \o <<s, d, h>>
<1>0. l \in Nat
  OBVIOUS
<1>1. y1 \in Seq(Event) /\ Len(y1) = l + 1 /\ y1[l+1] = s /\ \A i \in 1..l : y1[i] = x[i]
  OBVIOUS
<1> HIDE DEF y1
<1>2. y2 \in Seq(Event) /\ Len(y2) = l + 2 /\ y2[l+2] = d /\ \A i \in 1..l+1 : y2[i] = y1[i]
  BY <1>0, <1>1
<1> HIDE DEF y2
<1>3. y3 \in Seq(Event) /\ Len(y3) = l + 3 /\ y3[l+3] = h /\ \A i \in 1..l+2 : y3[i] = y2[i]
  BY <1>0, <1>2
<1> HIDE DEF y3
<1>4. z \in Seq(Event) /\ Len(z) = l + 3 /\ z[l+1] = s /\ z[l+2] = d /\ z[l+3] = h
  OBVIOUS
<1>5. \A i \in 1..l : z[i] = x[i]
  OBVIOUS
<1> HIDE DEF z, l
<1>6. /\ \A i \in 1..l+3 : i \in 1..l \/ i = l + 1 \/ i = l + 2 \/ i = l + 3
      /\ \A i \in 1..l : i \in 1..l+1 /\ i \in 1..l+2
      /\ l + 1 \in 1..l+1 /\ l + 1 \in 1..l+2 /\ l + 2 \in 1..l+2
  BY <1>0
<1>7. \A i \in 1..l+3 : y3[i] = z[i]
  BY <1>1, <1>2, <1>3, <1>4, <1>5, <1>6
<1>8. y3 = z
  BY <1>3, <1>4, <1>7, SeqEqual
<1>9. QED
  BY <1>8 DEF y1, y2, y3, z

LEMMA CallPartTyped ==
  ASSUME NEW id \in Nat, NEW some \in BOOLEAN, NEW f \in Nat
  PROVE  LET p == CallPart(id, some, f) IN p \in Part /\ p.kind = "call" /\ p.id = id
<1> DEFINE since == IF some THEN <<f>> ELSE <<>>
<1>1. "call" \in Lane /\ since \in Seq(Nat)
  BY DEF Lane
<1>2. CallPart(id, some, f) = [kind |-> "call", id |-> id, got |-> since]
  BY DEF CallPart
<1> HIDE DEF since
<1>3. QED
  BY <1>1, <1>2 DEF Part

LEMMA CallAppended ==
  ASSUME NEW told \in Seq(Part), NEW p \in Part, p.kind = "call"
  PROVE  /\ Append(told, p) \in Seq(Part) /\ Calls(Append(told, p)) = Calls(told) \cup {p}
         /\ \A k \in Narrative : AllOf(k, Append(told, p)) = AllOf(k, told)
<1>1. Append(told, p) \in Seq(Part)
  OBVIOUS
<1>2. Calls(Append(told, p)) = Calls(told) \cup {p}
  BY CallsAppended
<1>3. ASSUME NEW k \in Narrative PROVE AllOf(k, Append(told, p)) = AllOf(k, told)
  <2>1. p.kind # k
    BY Indices
  <2>2. AllOf(k, Append(told, p)) = IF p.kind = k THEN AllOf(k, told) \o p.got ELSE AllOf(k, told)
    BY AllOfProperties
  <2>3. QED
    BY <2>1, <2>2
<1>4. QED
  BY <1>1, <1>2, <1>3

LEMMA CallComes ==
  ASSUME LanesAreOpen, NEW a, NEW told \in Seq(Part), NEW m \in Nat, NEW n \in Nat, m <= n,
         Good(a, told, OpenLanes, m, n), Numbered(told, n), NEW some \in BOOLEAN, NEW f \in Nat,
         NEW whole, OpenLanes # {} => Calls(told) \subseteq whole,
         NEW events, events = CallEvents(n, some, f), NEW p, p = CallPart(n + 1, some, f)
  PROVE  /\ events \in Seq(Event)
         /\ CallCame(a, Taken(a, events, whole), told, Append(told, p), m, n, whole)
<1> DEFINE id == n + 1
           p0 == NewPart("call", id)
           more == Append(told, p)
           base == Append(told, p0)
           x == ShutNarrative
           y == <<Starts(n, "call", id)>>
           z == IF some THEN <<Brings(n, "call", f)>> ELSE <<>>
           a1 == Taken(a, x, whole)
           a2 == Taken(a1, y, whole)
           b == Taken(a, events, whole)
<1>1. /\ id \in Nat /\ id - 1 = n /\ a \in Accumulator /\ "call" \in Lane /\ "call" \notin Narrative
  BY DEF Good, Lane, Narrative
<1>2. /\ p \in Part /\ p.kind = "call" /\ p.id = id
      /\ p0 \in Part /\ p0.kind = "call" /\ p0.id = id /\ p0.got = <<>>
      /\ p = IF some THEN Grew(p0, f) ELSE p0
  <2>1. p0 \in Part /\ p0 = [kind |-> "call", id |-> id, got |-> <<>>]
    BY <1>1 DEF NewPart, Part
  <2>2. p \in Part /\ p = [kind |-> "call", id |-> id, got |-> IF some THEN <<f>> ELSE <<>>]
    BY <1>1 DEF CallPart, Part
  <2>3. Grew(p0, f) = [kind |-> "call", id |-> id, got |-> <<f>>]
    <3>1. Append(<<>>, f) = <<f>>
      OBVIOUS
    <3>2. QED
      BY <2>1, <3>1 DEF Grew
  <2> HIDE DEF p0
  <2>4. QED
    BY <2>1, <2>2, <2>3
<1>3. Starts(n, "call", id) \in Event /\ Brings(n, "call", f) \in Event
  BY <1>1, EventsTyped
<1>4. y \in Seq(Event) /\ z \in Seq(Event)
  BY <1>3
<1>5. /\ x \in Seq(Event) /\ Good(a1, told, {}, m, n) /\ (OpenLanes = {} => a1 = a)
      /\ Good(a, told, OpenLanes, 0, 0) => Good(a1, told, {}, 0, 0)
      /\ InOrder(a, told) /\ (OpenLanes = {} \/ Good(a, told, OpenLanes, 0, 0)) => InOrder(a1, told)
  <2>1. /\ x \in Seq(Event) /\ Good(a1, told, {}, m, n) /\ (OpenLanes = {} => a1 = a)
        /\ InOrder(a, told) /\ (OpenLanes = {} \/ (m = 0 /\ n = 0)) => InOrder(a1, told)
    BY NarrativeIsShut
  <2>2. ASSUME Good(a, told, OpenLanes, 0, 0)
        PROVE  Good(a1, told, {}, 0, 0) /\ (InOrder(a, told) => InOrder(a1, told))
    <3> DEFINE h == 0
    <3>1. Good(a, told, OpenLanes, h, h) /\ h = 0
      BY <2>2
    <3> HIDE DEF h
    <3>2. LET d == Taken(a, ShutNarrative, whole) IN
          /\ Good(d, told, {}, h, h)
          /\ InOrder(a, told) /\ (OpenLanes = {} \/ (h = 0 /\ h = 0)) => InOrder(d, told)
      BY <3>1, NarrativeIsShut
    <3>3. QED
      BY <2>2, <3>1, <3>2 DEF h
  <2>3. QED
    BY <2>1, <2>2
<1>6. /\ x \o y \in Seq(Event) /\ events \in Seq(Event)
      /\ a1 \in Accumulator /\ a2 \in Accumulator /\ b = Taken(a2, z, whole)
  <2> DEFINE w == x \o y
  <2>1. w \in Seq(Event) /\ events = w \o z /\ events \in Seq(Event)
    BY <1>4, <1>5 DEF CallEvents
  <2>2. a1 \in Accumulator /\ a2 \in Accumulator
    <3> HIDE DEF x, y, z
    <3>1. a1 \in Accumulator
      BY <1>1, <1>5, TakenTyped
    <3>2. QED
      BY <1>4, <3>1, TakenTyped
  <2>3. Taken(a, w, whole) = a2
    <3> HIDE DEF x, y, z
    <3>1. QED
      BY <1>1, <1>4, <1>5, TakenJoined
  <2> HIDE DEF w, z
  <2>4. Taken(a, w \o z, whole) = Taken(Taken(a, w, whole), z, whole)
    BY <1>1, <1>4, <2>1, TakenJoined
  <2>5. QED
    BY <2>1, <2>2, <2>3, <2>4 DEF w
<1>7. a2 = Advance(a1, Starts(n, "call", id), whole)
  BY <1>3, <1>6, TakenOne
<1>8. /\ base \in Seq(Part) /\ more \in Seq(Part)
      /\ Calls(base) = Calls(told) \cup {p0} /\ Calls(more) = Calls(told) \cup {p}
      /\ (\A k \in Narrative : AllOf(k, base) = AllOf(k, told) /\ AllOf(k, more) = AllOf(k, told))
      /\ \A q \in Calls(told) : q.id # id
  <2>0. p \in Part /\ p.kind = "call" /\ p0 \in Part /\ p0.kind = "call"
    BY <1>2
  <2> HIDE DEF p0
  <2>1. /\ Append(told, p) \in Seq(Part) /\ Calls(Append(told, p)) = Calls(told) \cup {p}
        /\ \A k \in Narrative : AllOf(k, Append(told, p)) = AllOf(k, told)
    BY <2>0, CallAppended
  <2>4. \A q \in Calls(told) : q.id # p.id
    <3>1. p.kind = "call" /\ p.id = n + 1
      BY <1>2
    <3>2. p.kind = "call" /\ p.id = n + 1 => \A q \in Calls(told) : q.id # p.id
      BY <1>2, ToldMore
    <3>3. QED
      BY <3>1, <3>2
  <2>2. /\ Append(told, p0) \in Seq(Part) /\ Calls(Append(told, p0)) = Calls(told) \cup {p0}
        /\ \A k \in Narrative : AllOf(k, Append(told, p0)) = AllOf(k, told)
    BY <2>0, CallAppended
  <2>3. QED
    BY <1>1, <1>2, <2>1, <2>2, <2>4
<1> DEFINE j == Len(a1.slots) + 1
<1>9. Good(a2, base, {}, m, n + 1) /\ Begins(a1, a2, n, p0)
  <2> DEFINE E == {}
  <2>1. Good(a1, told, E, m, n)
    BY <1>5
  <2>2. /\ \A k \in Narrative : AllOf(k, base) = AllOf(k, told)
        /\ Calls(base) = Calls(told) \cup {NewPart("call", n + 1)}
        /\ \A q \in Calls(told) : q.id # n + 1
    BY <1>8
  <2>3. a2 = Advance(a1, Starts(n, "call", n + 1), whole)
    BY <1>7
  <2> HIDE DEF a1, a2, base, E
  <2>4. Good(a2, base, E, m, n + 1) /\ Begins(a1, a2, n, NewPart("call", n + 1))
    BY <2>1, <2>2, <2>3, CallIsBegun
  <2>5. QED
    BY <2>4 DEF E
<1>10. /\ a2.slots \in Seq(Slot) /\ j \in 1..Len(a2.slots) /\ a2.slots[j].part = p0
       /\ Len(a2.slots) = j /\ Len(a1.slots) \in Nat
       /\ \A g \in 1..j-1 : a2.slots[g] = a1.slots[g]
  <2>1. a1.slots \in Seq(Slot) /\ a2.slots \in Seq(Slot)
    BY <1>6 DEF Accumulator
  <2> HIDE DEF a1, a2, p0
  <2>2. QED
    BY <1>9, <2>1 DEF Begins
<1> HIDE DEF a1, a2, j, p0, base, more, b, x, y
<1>11. InOrder(a1, told) => InOrder(a2, base)
  BY <1>2, <1>6, <1>9, OrderBegins DEF base
<1>12. OnlyCalls(a1) => OnlyCalls(a2)
  <2>1. \A g \in 1..j : g \in 1..j-1 \/ g = j
    BY <1>10
  <2>2. \A g \in 1..j-1 : g \in 1..Len(a1.slots)
    BY <1>10 DEF j
  <2>3. QED
    BY <1>2, <1>10, <2>1, <2>2 DEF OnlyCalls
<1>13. (OpenLanes = {} /\ OnlyCalls(a)) \/ Good(a, told, OpenLanes, 0, 0) => OnlyCalls(a1)
  <2>1. ASSUME Good(a, told, OpenLanes, 0, 0) PROVE OnlyCalls(a1)
    <3> DEFINE h == 0
    <3>1. (\A i \in Nat : ~(h <= i /\ i < h)) /\ Good(a1, told, {}, h, h)
      BY <1>5, <2>1
    <3> HIDE DEF h
    <3>2. a1.slots = <<>>
      BY <1>6, <3>1, OwesNothing DEF Good
    <3>3. QED
      BY <3>2 DEF OnlyCalls
  <2>2. QED
    BY <1>5, <2>1
<1>17. Calls(a.parts) \subseteq whole => Calls(a2.parts) \subseteq whole
  <2>1. Calls(a1.parts) \subseteq Calls(told) /\ a2.parts = a1.parts
    BY <1>5, <1>9 DEF Good, Called, Begins
  <2>2. QED
    BY <1>5, <2>1
<1>14. CASE ~some
  <2>1. b = a2 /\ more = base
    BY <1>2, <1>6, <1>14, TakenNone DEF more, base
  <2>2. QED
    BY <1>2, <1>5, <1>6, <1>9, <1>11, <1>12, <1>13, <1>17, <2>1 DEF CallCame, more, b
<1>15. CASE some
  <2>1. b = Advance(a2, Brings(n, "call", f), whole)
    BY <1>3, <1>6, <1>15, TakenOne
  <2>2. p = Grew(p0, f)
    BY <1>2, <1>15
  <2>3. Good(b, more, {}, m, n + 1) /\ Gets(a2, b, j, f)
    <3> DEFINE E == {}
               r == n + 1
    <3>1. Good(a2, base, E, m, r)
      BY <1>9
    <3>2. \A k \in Narrative : AllOf(k, more) = AllOf(k, base)
      BY <1>8
    <3>3. Calls(more) = (Calls(base) \ {p0}) \cup {Grew(p0, f)}
      BY <1>2, <1>8, <2>2
    <3>4. b = Advance(a2, BringsTo(p0, f), whole)
      BY <1>1, <1>2, <2>1 DEF BringsTo
    <3>7. Bears(a2, j, p0) /\ TellsCall(base, more, p0, f)
      BY <1>2, <1>10, <3>2, <3>3 DEF Bears, TellsCall
    <3> HIDE DEF E, r
    <3>5. Good(b, more, E, m, r) /\ Gets(a2, b, j, f)
      BY <3>1, <3>4, <3>7, CallGets
    <3>6. QED
      BY <3>5 DEF E, r
  <2>4. InOrder(a2, base) => InOrder(b, more)
    <3>1. ASSUME InOrder(a2, base) PROVE InOrder(b, more)
      <4> DEFINE l == Len(told) + 1
      <4>1. /\ Len(base) = l /\ Len(more) = l /\ l \in Nat /\ base[l] = p0 /\ more[l] = p
            /\ \A t \in 1..l : t # l => more[t] = base[t]
        BY <1>2 DEF base, more
      <4> HIDE DEF l
      <4>2. l - Len(a2.slots) + j = l
        BY <1>10, <4>1
      <4>3. /\ more[Len(base) - Len(a2.slots) + j] = Grew(base[Len(base) - Len(a2.slots) + j], f)
            /\ \A t \in 1..Len(base) : t # Len(base) - Len(a2.slots) + j => more[t] = base[t]
        BY <2>2, <4>1, <4>2
      <4>4. a2 \in Accumulator /\ base \in Seq(Part) /\ more \in Seq(Part) /\ Len(more) = Len(base)
        BY <1>6, <1>8, <4>1
      <4>5. QED
        BY <2>3, <3>1, <4>3, <4>4, OrderGets
    <3>2. QED
      BY <3>1
  <2>5. OnlyCalls(a2) => OnlyCalls(b)
    <3>1. /\ Len(b.slots) = Len(a2.slots) /\ b.slots[j].part = p
          /\ \A g \in 1..Len(a2.slots) : g # j => b.slots[g] = a2.slots[g]
      BY <1>10, <2>2, <2>3 DEF Gets
    <3>2. QED
      BY <1>2, <3>1 DEF OnlyCalls
  <2>7. b.parts = a2.parts
    BY <2>3 DEF Gets
  <2>6. QED
    BY <1>2, <1>5, <1>6, <1>11, <1>12, <1>13, <1>17, <2>3, <2>4, <2>5, <2>7 DEF CallCame, more, b
<1>16. QED
  BY <1>14, <1>15

\* The first chunk of a call.
LEMMA CallBeginsSafely ==
  ASSUME Typed, ChunkInv, NEW some \in BOOLEAN, NEW all \in BOOLEAN, CallBegins(some, all)
  PROVE  LaneInv'
<1> DEFINE f == Coming
           n == emitter.calls
           told == wire.told
           p == CallPart(n + 1, some, f)
           more == Append(told, p)
           events == CallEvents(n, some, f)
           b == Taken(Held, events, wire'.whole)
<1>1. /\ f \in Nat /\ told \in Seq(Part) /\ Held \in Accumulator /\ n \in Nat /\ 0 <= n
      /\ LanesAreOpen /\ (n + 1) - 1 = n /\ wire.whole \in SUBSET Part
      /\ wire.ended \in BOOLEAN /\ dialect = "openai" /\ outcome = "none" /\ ~wire.ended
      /\ "openai" \in Chunked /\ (Incomplete(wire) = {} <=> Calls(told) \subseteq wire.whole)
  BY WireTyped, ChunkFacts DEF CallBegins, Chunked
<1>2. emitter.finished = FALSE /\ CallsOwed = n
  BY <1>1, WireTyped DEF ChunkInv, CallsOwed
<1>3. Good(Held, told, OpenLanes, 0, n) /\ Numbered(told, n) /\ (OpenLanes # {} => Calls(told) \subseteq wire.whole)
  BY <1>1, <1>2 DEF ChunkInv
<1>4. /\ wire' = [wire EXCEPT !.sent = IF some THEN f ELSE wire.sent, !.told = more,
                              !.whole = IF all THEN wire.whole \cup {p} ELSE wire.whole]
      /\ emitter' = [emitter EXCEPT !.at = [k \in Lane |-> NoIndex], !.calls = n + 1]
      /\ Emit(events, "none")
  BY <1>1 DEF CallBegins, WithoutNarrative, CallPart, CallEvents
<1>5. wire'.whole = (IF all THEN wire.whole \cup {p} ELSE wire.whole) /\ wire.whole \subseteq wire'.whole
  BY <1>4 DEF Typed, Wire
<1>6. /\ p \in Part /\ p.kind = "call" /\ p.id = n + 1
      /\ events \in Seq(Event) /\ Good(b, more, {}, 0, n + 1)
      /\ InOrder(Held, told) /\ (OpenLanes = {} \/ Good(Held, told, OpenLanes, 0, 0)) => InOrder(b, more)
      /\ (OpenLanes = {} /\ OnlyCalls(Held)) \/ Good(Held, told, OpenLanes, 0, 0) => OnlyCalls(b)
      /\ Calls(Held.parts) \subseteq wire'.whole => Calls(b.parts) \subseteq wire'.whole
  <2> DEFINE whole == wire'.whole
  <2>1. OpenLanes # {} => Calls(told) \subseteq whole
    BY <1>3, <1>5
  <2>2. events = CallEvents(n, some, f) /\ p = CallPart(n + 1, some, f)
    OBVIOUS
  <2> DEFINE m == 0
             a == Held
  <2>3. m \in Nat /\ m <= n /\ Good(a, told, OpenLanes, m, n)
    BY <1>1, <1>3
  <2> HIDE DEF events, n, f, told, whole, m, a, p
  <2>4. events \in Seq(Event) /\ CallCame(a, Taken(a, events, whole), told, Append(told, p), m, n, whole)
    BY <1>1, <1>3, <2>1, <2>2, <2>3, CallComes
  <2>6. p \in Part /\ p.kind = "call" /\ p.id = n + 1
    <3>1. n + 1 \in Nat /\ some \in BOOLEAN
      BY <1>1
    <3>2. QED
      BY <1>1, <2>2, <3>1, CallPartTyped
  <2>5. QED
    BY <2>4, <2>6 DEF CallCame, whole, m, a
<1>7. /\ more \in Seq(Part) /\ Calls(more) = Calls(told) \cup {p} /\ Numbered(more, n + 1)
      /\ \A l : Lasts(more, l) <=> l = "call"
  <2> HIDE DEF p, n, told
  <2>1. /\ more \in Seq(Part) /\ (\A l : Lasts(more, l) <=> p.kind = l)
        /\ Calls(more) = IF p.kind = "call" THEN Calls(told) \cup {p} ELSE Calls(told)
    BY <1>1, <1>3, <1>6, ToldMore
  <2>2. p.kind = "call" /\ p.id = n + 1 => Numbered(more, n + 1)
    BY <1>1, <1>3, <1>6, ToldMore
  <2>3. QED
    BY <1>6, <2>1, <2>2
<1> HIDE DEF p, more, events, told
<1>8. /\ wire' \in Wire /\ wire'.told = more /\ wire'.ended = wire.ended /\ wire'.resumed = wire.resumed
  BY <1>1, <1>4, <1>5, <1>6, <1>7 DEF Typed, Wire
<1>9. /\ emitter' \in Emitter /\ emitter'.calls = n + 1 /\ emitter'.finished = emitter.finished
      /\ \A k \in Lane : emitter'.at[k] = NoIndex
  <2> DEFINE none == [k \in Lane |-> NoIndex]
  <2>1. none \in [Lane -> Nat \cup {NoIndex}] /\ \A k \in Lane : none[k] = NoIndex
    OBVIOUS
  <2>2. emitter' = [emitter EXCEPT !.at = none, !.calls = n + 1] /\ n + 1 \in Nat /\ emitter \in Emitter
    BY <1>1, <1>4 DEF Typed
  <2> HIDE DEF none, n
  <2>3. emitter' \in Emitter /\ emitter'.calls = n + 1 /\ emitter'.finished = emitter.finished /\ emitter'.at = none
    BY <2>1, <2>2 DEF Emitter
  <2>4. QED
    BY <2>1, <2>3
<1>11. ~b.broken /\ dialect' = dialect /\ outcome' = "none" /\ Held' = b /\ Held' \in Accumulator /\ parts' = b.parts
  <2>1. ~b.broken
    BY <1>6 DEF Good
  <2> DEFINE d == b
  <2>2. d = Taken(Held, events, wire'.whole)
    OBVIOUS
  <2> HIDE DEF b, d
  <2>3. /\ dialect' = dialect /\ outcome' = (IF d.broken THEN "broken" ELSE "none") /\ Held' \in Accumulator
        /\ parts' = d.parts /\ (~d.broken => Held' = d)
    BY <1>1, <1>4, <1>6, <2>2, EmitTurns
  <2>4. QED
    BY <2>1, <2>3 DEF d
<1> HIDE DEF b, n, f
<1>12. OpenLanes' = {} /\ CallsOwed' = n + 1
  <2>1. OpenLanes' = {}
    BY <1>9, Indices DEF OpenLanes, IsOpen
  <2>2. QED
    BY <1>1, <1>2, <1>9, <1>11, <2>1 DEF CallsOwed
<1>14. ChunkInv'
  <2>1. (emitter.finished <=> wire.ended)'
    BY <1>1, <1>2, <1>8, <1>9
  <2>2. Good(Held', wire'.told, OpenLanes', 0, CallsOwed')
    BY <1>6, <1>8, <1>11, <1>12
  <2>3. ASSUME ~wire'.resumed PROVE InOrder(Held', wire'.told) /\ OnlyCalls(Held')
    <3>1. InOrder(Held, told)
      BY <1>8, <2>3 DEF ChunkInv, told
    <3>2. n > 0 => OpenLanes = {} /\ OnlyCalls(Held)
      BY <1>1, <1>8, <2>3 DEF ChunkInv, n
    <3>3. n = 0 \/ n > 0
      BY <1>1
    <3>4. n = 0 => Good(Held, told, OpenLanes, 0, 0)
      BY <1>3
    <3>5. QED
      BY <1>6, <1>8, <1>11, <3>1, <3>2, <3>3, <3>4
  <2>4. Numbered(wire'.told, emitter'.calls) /\ Calls(wire'.told) # {}
    BY <1>7, <1>8, <1>9
  <2>5. \A l \in Lane : emitter'.at[l] = IF l \in OpenLanes' THEN IndexOf(l) ELSE NoIndex
    BY <1>9, <1>12
  <2>6. \A l \in Narrative : l \in OpenLanes' <=> ~wire'.ended /\ Lasts(wire'.told, l)
    BY <1>7, <1>8, <1>12, Indices
  <2>8. Calls(parts') \subseteq wire'.whole
    <3>1. Calls(Held.parts) \subseteq wire.whole
      BY <1>1 DEF ChunkInv, Held
    <3>2. QED
      BY <1>5, <1>6, <1>11, <3>1
  <2>9. dialect' # "gemini"
    BY <1>1, <1>11
  <2>11. QED
    BY <1>12, <2>1, <2>2, <2>3, <2>4, <2>5, <2>6, <2>8, <2>9 DEF ChunkInv
<1>15. Typed'
  BY <1>8, <1>9, <1>11 DEF Typed, Endings
<1>16. (Typed /\ outcome = "none" /\ dialect \in Chunked /\ ChunkInv)'
  BY <1>1, <1>11, <1>14, <1>15
<1>17. QED
  BY <1>16, GoesOn, PTL

\* A later chunk of a call: no narrative is open beside a call that is not whole.
LEMMA CallGoesOnSafely ==
  ASSUME Typed, ChunkInv, NEW p \in Calls(wire.told), NEW all \in BOOLEAN, CallGoesOn(p, all)
  PROVE  LaneInv'
<1> DEFINE f == Coming
           n == emitter.calls
           told == wire.told
           q == Grew(p, f)
           more == [i \in DOMAIN told |-> IF told[i] = p THEN q ELSE told[i]]
           ev == BringsTo(p, f)
           events == <<ev>>
           a == Held
           b == Advance(a, ev, wire'.whole)
<1>1. /\ f \in Nat /\ told \in Seq(Part) /\ a \in Accumulator /\ n \in Nat
      /\ LanesAreOpen /\ wire.whole \in SUBSET Part
      /\ wire.ended \in BOOLEAN /\ dialect = "openai" /\ outcome = "none" /\ ~wire.ended
      /\ "openai" \in Chunked /\ p \in Calls(told)
  BY WireTyped, ChunkFacts DEF CallGoesOn, Chunked
<1>2. emitter.finished = FALSE /\ CallsOwed = n
  BY <1>1, WireTyped DEF ChunkInv, CallsOwed
<1>3. /\ p \in Incomplete(wire) /\ p \notin wire.whole /\ p.kind = "call" /\ p \in Part
      /\ OpenLanes = {} /\ ShutNarrative = <<>>
  <2>1. p \in Incomplete(wire)
    BY DEF CallGoesOn
  <2>2. OpenLanes = {}
    BY <2>1 DEF ChunkInv
  <2>3. p.kind = "call" /\ p \in Part
    BY <1>1 DEF Calls, PartsOf
  <2>4. QED
    BY <1>1, <2>1, <2>2, <2>3, ShutsOne DEF Incomplete
<1>4. Good(a, told, {}, 0, n) /\ Numbered(told, n)
  BY <1>1, <1>2, <1>3 DEF ChunkInv
<1>5. ev \in Event /\ events \in Seq(Event)
  <2>1. PICK t \in 1..Len(told) : told[t] = p
    BY <1>1 DEF Calls, PartsOf
  <2>2. p.id \in 1..n
    BY <1>3, <1>4, <2>1 DEF Numbered
  <2>3. p.id - 1 \in Nat /\ "call" \in Lane
    BY <1>1, <2>2 DEF Lane
  <2>4. ev \in Event
    BY <1>1, <2>3, EventsTyped DEF BringsTo
  <2>5. QED
    BY <2>4
<1>6. q = Grown("call", p)
  BY <1>3 DEF Grown, Grew
<1>7. /\ wire' = [wire EXCEPT !.sent = f, !.told = more,
                              !.whole = IF all THEN wire.whole \cup {q} ELSE wire.whole]
      /\ emitter' = [emitter EXCEPT !.at = [k \in Lane |-> NoIndex]]
      /\ Emit(events, "none")
  <2>1. <<>> \o <<Brings(p.id - 1, "call", Coming)>> = <<Brings(p.id - 1, "call", Coming)>>
    OBVIOUS
  <2>2. QED
    BY <1>3, <1>6, <2>1 DEF CallGoesOn, WithoutNarrative, BringsTo
<1>8. /\ more \in Seq(Part) /\ Len(more) = Len(told)
      /\ q \in Part /\ q.kind = "call"
      /\ (\A k \in Narrative : AllOf(k, more) = AllOf(k, told))
      /\ Calls(more) = (Calls(told) \ {p}) \cup {q}
      /\ Numbered(more, n) /\ (\A k : Lasts(more, k) <=> Lasts(told, k))
      /\ \A t \in 1..Len(told) : told[t] = p =>
           more[t] = q /\ \A u \in 1..Len(told) : u # t => more[u] = told[u]
  <2>1. q = Grew(p, f) /\ Replaces(told, more, p, q)
    BY DEF Replaces
  <2> HIDE DEF q, more, told, n, f
  <2>2. CallGrew(told, more, p, q, n)
    BY <1>1, <1>4, <2>1, CallGrown
  <2>3. QED
    BY <2>2 DEF CallGrew
<1> HIDE DEF q, more, ev, told, f, n
<1>9. wire'.whole = (IF all THEN wire.whole \cup {q} ELSE wire.whole) /\ wire.whole \subseteq wire'.whole
  BY <1>7 DEF Typed, Wire
<1>10. /\ wire' \in Wire /\ wire'.told = more /\ wire'.ended = wire.ended /\ wire'.resumed = wire.resumed
  BY <1>1, <1>7, <1>8, <1>9 DEF Typed, Wire
<1>11. /\ emitter' \in Emitter /\ emitter'.calls = n /\ emitter'.finished = emitter.finished
       /\ \A k \in Lane : emitter'.at[k] = NoIndex
  <2> DEFINE none == [k \in Lane |-> NoIndex]
  <2>1. none \in [Lane -> Nat \cup {NoIndex}] /\ \A k \in Lane : none[k] = NoIndex
    OBVIOUS
  <2>2. emitter' = [emitter EXCEPT !.at = none] /\ emitter \in Emitter /\ n = emitter.calls
    BY <1>7 DEF Typed, n
  <2> HIDE DEF none
  <2>3. emitter' \in Emitter /\ emitter'.calls = n /\ emitter'.finished = emitter.finished /\ emitter'.at = none
    BY <2>1, <2>2 DEF Emitter
  <2>4. QED
    BY <2>1, <2>3
<1>12. PICK j : Bears(a, j, p)
  <2>1. Called(a, told) /\ Calls(a.parts) \subseteq wire.whole
    BY <1>1, <1>4 DEF ChunkInv, Good, Held
  <2>2. p \notin PartsOf(a.parts)
    BY <1>3, <2>1 DEF Calls
  <2>3. QED
    BY <1>1, <1>3, <2>1, <2>2 DEF Called, Bears
<1> HIDE DEF a
<1>13. Good(b, more, {}, 0, n) /\ Gets(a, b, j, f)
  <2> DEFINE E == {}
             m == 0
             whole == wire'.whole
  <2>1. Good(a, told, E, m, n) /\ TellsCall(told, more, p, f) /\ b = Advance(a, BringsTo(p, f), whole)
    BY <1>4, <1>8 DEF TellsCall, q, ev
  <2> HIDE DEF E, b, m, whole
  <2>2. Good(b, more, E, m, n) /\ Gets(a, b, j, f)
    BY <1>1, <1>12, <2>1, CallGets
  <2>3. QED
    BY <2>2 DEF E, m
<1>14. b = Taken(a, events, wire'.whole)
  <2> DEFINE whole == wire'.whole
  <2> HIDE DEF whole
  <2>1. Taken(a, <<ev>>, whole) = Advance(a, ev, whole)
    BY <1>1, <1>5, TakenOne
  <2>2. QED
    BY <2>1 DEF whole
<1> HIDE DEF events, b
<1>15. ~b.broken /\ dialect' = dialect /\ outcome' = "none" /\ Held' = b /\ Held' \in Accumulator /\ parts' = b.parts
  <2>1. ~b.broken /\ Held \in Accumulator /\ b = Taken(Held, events, wire'.whole)
    BY <1>1, <1>13, <1>14 DEF Good, a
  <2>3. /\ dialect' = dialect /\ outcome' = (IF b.broken THEN "broken" ELSE "none") /\ Held' \in Accumulator
        /\ parts' = b.parts /\ (~b.broken => Held' = b)
    BY <1>5, <1>7, <2>1, EmitTurns
  <2>4. QED
    BY <2>1, <2>3
<1>16. OpenLanes' = {} /\ CallsOwed' = n
  <2>1. OpenLanes' = {}
    BY <1>11, Indices DEF OpenLanes, IsOpen
  <2>2. QED
    BY <1>1, <1>2, <1>11, <1>15, <2>1 DEF CallsOwed
<1>17. InOrder(a, told) => InOrder(b, more)
  <2>1. SUFFICES ASSUME InOrder(a, told) PROVE InOrder(b, more)
    OBVIOUS
  <2> DEFINE t == Len(told) - Len(a.slots) + j
  <2>2. a.slots \in Seq(Slot) /\ j \in 1..Len(a.slots) /\ a.slots[j].part = p
    BY <1>1, <1>12 DEF Accumulator, Bears
  <2>3. Len(a.slots) <= Len(told) /\ told[t] = p
    BY <2>1, <2>2 DEF InOrder
  <2>4. t \in 1..Len(told)
    <3>1. Len(told) \in Nat /\ Len(a.slots) \in Nat
      BY <1>1, <2>2
    <3>2. QED
      BY <2>2, <2>3, <3>1
  <2>5. more[t] = Grew(told[t], f) /\ \A u \in 1..Len(told) : u # t => more[u] = told[u]
    BY <1>8, <2>3, <2>4 DEF q
  <2>6. QED
    BY <1>1, <1>8, <1>13, <2>1, <2>5, OrderGets
<1>18. OnlyCalls(a) => OnlyCalls(b)
  <2>1. /\ Len(b.slots) = Len(a.slots) /\ b.slots[j].part = q
        /\ \A g \in 1..Len(a.slots) : g # j => b.slots[g] = a.slots[g]
    BY <1>12, <1>13 DEF Gets, Bears, q
  <2>2. QED
    BY <1>8, <2>1 DEF OnlyCalls
<1>19. ChunkInv'
  <2>1. (emitter.finished <=> wire.ended)'
    BY <1>1, <1>2, <1>10, <1>11
  <2>2. Good(Held', wire'.told, OpenLanes', 0, CallsOwed')
    BY <1>10, <1>13, <1>15, <1>16
  <2>3. ASSUME ~wire'.resumed PROVE InOrder(Held', wire'.told) /\ (emitter'.calls > 0 => OnlyCalls(Held'))
    <3>1. InOrder(a, told) /\ (n > 0 => OnlyCalls(a))
      BY <1>1, <1>10, <2>3 DEF ChunkInv, told, n, a
    <3>2. QED
      BY <1>10, <1>11, <1>15, <1>17, <1>18, <3>1
  <2>4. Numbered(wire'.told, emitter'.calls) /\ Calls(wire'.told) # {}
    BY <1>8, <1>10, <1>11
  <2>5. \A l \in Lane : emitter'.at[l] = IF l \in OpenLanes' THEN IndexOf(l) ELSE NoIndex
    BY <1>11, <1>16
  <2>6. \A l \in Narrative : l \in OpenLanes' <=> ~wire'.ended /\ Lasts(wire'.told, l)
    <3>1. \A l \in Narrative : ~Lasts(told, l)
      BY <1>1, <1>3 DEF ChunkInv, told
    <3>2. QED
      BY <1>8, <1>10, <1>16, <3>1
  <2>8. Calls(parts') \subseteq wire'.whole
    <3>1. parts' = parts
      BY <1>13, <1>15 DEF Gets, Held, a
    <3>2. QED
      BY <1>1, <1>9, <3>1 DEF ChunkInv
  <2>9. dialect' # "gemini"
    BY <1>1, <1>15
  <2>11. QED
    BY <1>16, <2>1, <2>2, <2>3, <2>4, <2>5, <2>6, <2>8, <2>9 DEF ChunkInv
<1>20. Typed'
  BY <1>10, <1>11, <1>15 DEF Typed, Endings
<1>21. (Typed /\ outcome = "none" /\ dialect \in Chunked /\ ChunkInv)'
  BY <1>1, <1>15, <1>19, <1>20
<1>22. QED
  BY <1>21, GoesOn, PTL

\* A call that comes in one piece is closed at once.
LEMMA WholeCallSafely ==
  ASSUME Typed, ChunkInv, WholeCall
  PROVE  LaneInv'
<1> DEFINE f == Coming
           n == emitter.calls
           told == wire.told
           p == CallPart(n + 1, TRUE, f)
           more == Append(told, p)
           first == CallEvents(n, TRUE, f)
           last == <<Halts(n)>>
           events == first \o last
           a == Held
           whole == wire'.whole
           c == Taken(a, first, whole)
           b == Advance(c, Halts(n), whole)
<1>1. /\ f \in Nat /\ told \in Seq(Part) /\ a \in Accumulator /\ n \in Nat /\ n <= n
      /\ LanesAreOpen /\ (n + 1) - 1 = n /\ wire.whole \in SUBSET Part
      /\ wire.ended \in BOOLEAN /\ dialect = "gemini" /\ outcome = "none" /\ ~wire.ended
      /\ "gemini" \in Chunked /\ (Incomplete(wire) = {} <=> Calls(told) \subseteq wire.whole)
      /\ n < n + 1 /\ n + 1 \in Nat /\ n \in Nat \cup {NoIndex}
  BY WireTyped, ChunkFacts DEF WholeCall, Chunked
<1>2. emitter.finished = FALSE /\ CallsOwed = 0 /\ Calls(told) \subseteq wire.whole /\ ~wire.resumed
  BY <1>1, WireTyped DEF ChunkInv, CallsOwed
<1>3. Good(a, told, OpenLanes, 0, 0) /\ Good(a, told, OpenLanes, n, n) /\ Numbered(told, n) /\ InOrder(a, told)
  <2>1. Good(a, told, OpenLanes, 0, 0) /\ Numbered(told, n) /\ InOrder(a, told)
    BY <1>1, <1>2 DEF ChunkInv
  <2> DEFINE m == 0
  <2>2. \A i \in Nat : (m <= i /\ i < m) <=> (n <= i /\ i < n)
    BY <1>1
  <2>3. Good(a, told, OpenLanes, m, m)
    BY <2>1
  <2> HIDE DEF m, n, a, told
  <2>4. Good(a, told, OpenLanes, n, n)
    BY <2>2, <2>3, OwesAlike
  <2>5. QED
    BY <2>1, <2>4
<1>4. p \in Part /\ p.kind = "call" /\ p.id = n + 1
  <2>1. TRUE \in BOOLEAN
    OBVIOUS
  <2> HIDE DEF n, f
  <2>2. QED
    BY <1>1, <2>1, CallPartTyped
<1>5. /\ wire' = [wire EXCEPT !.sent = f, !.told = more, !.whole = wire.whole \cup {p}]
      /\ emitter' = [emitter EXCEPT !.at = [k \in Lane |-> NoIndex], !.calls = n + 1]
      /\ Emit(ShutNarrative \o <<Starts(n, "call", n + 1), Brings(n, "call", f), Halts(n)>>, "none")
  BY <1>1 DEF WholeCall, WithoutNarrative, CallPart
<1>6. whole = wire.whole \cup {p}
  BY <1>5 DEF Typed, Wire
<1> HIDE DEF whole
<1>7. first \in Seq(Event) /\ CallCame(a, c, told, more, n, n, whole)
  <2> DEFINE some == TRUE
  <2>1. /\ OpenLanes # {} => Calls(told) \subseteq whole
        /\ first = CallEvents(n, some, f) /\ p = CallPart(n + 1, some, f) /\ some \in BOOLEAN
    BY <1>2, <1>6
  <2> HIDE DEF first, n, f, told, whole, a, p, some
  <2>2. first \in Seq(Event) /\ CallCame(a, Taken(a, first, whole), told, Append(told, p), n, n, whole)
    BY <1>1, <1>3, <2>1, CallComes
  <2>3. QED
    BY <2>2
<1>8. /\ more \in Seq(Part) /\ Calls(more) = Calls(told) \cup {p} /\ Numbered(more, n + 1)
      /\ \A l : Lasts(more, l) <=> l = "call"
  <2> HIDE DEF p, n, told
  <2>1. /\ more \in Seq(Part) /\ (\A l : Lasts(more, l) <=> p.kind = l)
        /\ Calls(more) = IF p.kind = "call" THEN Calls(told) \cup {p} ELSE Calls(told)
    BY <1>1, <1>3, <1>4, ToldMore
  <2>2. p.kind = "call" /\ p.id = n + 1 => Numbered(more, n + 1)
    BY <1>1, <1>3, <1>4, ToldMore
  <2>3. QED
    BY <1>4, <2>1, <2>2
<1>9. Halts(n) \in Event
  <2> HIDE DEF n
  <2>1. QED
    BY <1>1, EventsTyped
<1>10. /\ last \in Seq(Event) /\ events \in Seq(Event)
       /\ events = ShutNarrative \o <<Starts(n, "call", n + 1), Brings(n, "call", f), Halts(n)>>
  <2> DEFINE x == ShutNarrative
             s == Starts(n, "call", n + 1)
             d == Brings(n, "call", f)
             h == Halts(n)
  <2>1. x \in Seq(Event) /\ s \in Event /\ d \in Event /\ h \in Event
    <3>1. "call" \in Lane
      BY DEF Lane
    <3>2. s \in Event /\ d \in Event
      <4> HIDE DEF n, f
      <4>1. QED
        BY <1>1, <3>1, EventsTyped
    <3>3. x \in Seq(Event)
      <4>1. OpenLanes # {} => Calls(told) \subseteq whole
        BY <1>2, <1>6
      <4> HIDE DEF a, told, n
      <4>2. ShutNarrative \in Seq(Event)
        BY <1>1, <1>3, <4>1, NarrativeIsShut
      <4>3. QED
        BY <4>2
    <3>4. QED
      BY <1>9, <3>2, <3>3
  <2>2. first = (x \o <<s>>) \o <<d>> /\ last = <<h>>
    BY DEF CallEvents
  <2> HIDE DEF x, s, d, h, first, last
  <2>3. ((x \o <<s>>) \o <<d>>) \o <<h>> = x \o <<s, d, h>>
    BY <2>1, ThreeMore
  <2>4. QED
    BY <1>7, <2>1, <2>2, <2>3 DEF x, s, d, h
<1>11. c \in Accumulator /\ Taken(a, events, whole) = b
  <2> HIDE DEF first, a, n
  <2>1. c \in Accumulator
    BY <1>1, <1>7, TakenTyped
  <2>2. Taken(a, first \o last, whole) = Taken(c, last, whole)
    <3> HIDE DEF last
    <3>1. QED
      BY <1>1, <1>7, <1>10, TakenJoined
  <2>3. Taken(c, <<Halts(n)>>, whole) = Advance(c, Halts(n), whole)
    <3> HIDE DEF c
    <3>1. QED
      BY <1>9, <2>1, TakenOne
  <2>4. QED
    BY <2>1, <2>2, <2>3
<1> HIDE DEF p, more, first, last, told, f
<1>12. Good(c, more, {}, n, n + 1) /\ InOrder(c, more) /\ OnlyCalls(c)
  BY <1>3, <1>7 DEF CallCame
<1>13. Good(b, more, {}, 0, 0) /\ EndsAt(c, b, n)
  <2> DEFINE r == n + 1
             E == {}
             m == 0
  <2>1. Good(c, more, {}, n, r) /\ n < r /\ r \in Nat
    BY <1>1, <1>12
  <2> HIDE DEF r, b, c, n
  <2>2. r = n + 1
    BY DEF r
  <2>3. b = Advance(c, Halts(n), whole)
    BY DEF b
  <2>4. Rejects(b, more, whole) \/ (Good(b, more, {}, r, r) /\ EndsAt(c, b, n))
    BY <1>1, <2>1, <2>2, <2>3, CallIsClosed
  <2>5. ~Rejects(b, more, whole)
    BY <1>2, <1>6, <1>8 DEF Rejects
  <2>6. \A i \in Nat : (r <= i /\ i < r) <=> (m <= i /\ i < m)
    BY <2>1
  <2> HIDE DEF E, m
  <2>7. Good(b, more, E, r, r)
    BY <2>4, <2>5 DEF E
  <2>8. Good(b, more, E, m, m)
    BY <2>6, <2>7, OwesAlike
  <2>9. QED
    BY <2>4, <2>5, <2>8 DEF E, m
<1>14. InOrder(b, more)
  <2> DEFINE r == n + 1
             E == {}
  <2>1. PICK out : Ends(c, b, out) /\ c.slots[out].index = n
    BY <1>13 DEF EndsAt
  <2>2. /\ Owes(c, E, n, r) /\ Called(c, more) /\ InOrder(c, more) /\ OnlyCalls(c) /\ Numbered(more, r)
        /\ out \in 1..Len(c.slots)
    BY <1>8, <1>12, <2>1 DEF Good, Ends
  <2> HIDE DEF r, b, c, n
  <2>3. out = 1
    BY <1>1, <1>8, <1>11, <2>1, <2>2, FirstCloses DEF E
  <2>4. QED
    BY <1>8, <1>11, <1>12, <2>1, <2>3, OrderEnds
<1> HIDE DEF b, c, a
<1>15. /\ wire' \in Wire /\ wire'.told = more /\ wire'.ended = wire.ended /\ wire'.resumed = wire.resumed
  BY <1>1, <1>4, <1>5, <1>8 DEF Typed, Wire
<1>16. /\ emitter' \in Emitter /\ emitter'.calls = n + 1 /\ emitter'.finished = emitter.finished
       /\ \A k \in Lane : emitter'.at[k] = NoIndex
  <2> DEFINE none == [k \in Lane |-> NoIndex]
  <2>1. none \in [Lane -> Nat \cup {NoIndex}] /\ \A k \in Lane : none[k] = NoIndex
    OBVIOUS
  <2>2. emitter' = [emitter EXCEPT !.at = none, !.calls = n + 1] /\ n + 1 \in Nat /\ emitter \in Emitter
    BY <1>1, <1>5 DEF Typed
  <2> HIDE DEF none, n
  <2>3. emitter' \in Emitter /\ emitter'.calls = n + 1 /\ emitter'.finished = emitter.finished /\ emitter'.at = none
    BY <2>1, <2>2 DEF Emitter
  <2>4. QED
    BY <2>1, <2>3
<1>17. ~b.broken /\ dialect' = dialect /\ outcome' = "none" /\ Held' = b /\ Held' \in Accumulator /\ parts' = b.parts
  <2>1. ~b.broken /\ Held \in Accumulator /\ b = Taken(Held, events, wire'.whole)
    BY <1>1, <1>11, <1>13 DEF Good, a, whole
  <2>2. Emit(events, "none") /\ events \in Seq(Event)
    BY <1>5, <1>10
  <2> HIDE DEF events
  <2>3. /\ dialect' = dialect /\ outcome' = (IF b.broken THEN "broken" ELSE "none") /\ Held' \in Accumulator
        /\ parts' = b.parts /\ (~b.broken => Held' = b)
    BY <2>1, <2>2, EmitTurns
  <2>4. QED
    BY <2>1, <2>3
<1>18. OpenLanes' = {} /\ CallsOwed' = 0
  <2>1. OpenLanes' = {}
    BY <1>16, Indices DEF OpenLanes, IsOpen
  <2>2. QED
    BY <1>1, <1>17, <2>1 DEF CallsOwed
<1> HIDE DEF n
<1>19. ChunkInv'
  <2>1. (emitter.finished <=> wire.ended)'
    BY <1>1, <1>2, <1>15, <1>16
  <2>2. Good(Held', wire'.told, OpenLanes', 0, CallsOwed') /\ InOrder(Held', wire'.told)
    BY <1>13, <1>14, <1>15, <1>17, <1>18
  <2>4. Numbered(wire'.told, emitter'.calls) /\ Calls(wire'.told) # {}
    BY <1>8, <1>15, <1>16
  <2>5. \A l \in Lane : emitter'.at[l] = IF l \in OpenLanes' THEN IndexOf(l) ELSE NoIndex
    BY <1>16, <1>18
  <2>6. \A l \in Narrative : l \in OpenLanes' <=> ~wire'.ended /\ Lasts(wire'.told, l)
    BY <1>8, <1>15, <1>18, Indices
  <2>7. Incomplete(wire') = {}
    BY <1>2, <1>6, <1>8, <1>15 DEF Incomplete, whole
  <2>8. Calls(parts') \subseteq wire'.whole
    <3>1. Calls(parts') \subseteq Calls(more)
      BY <1>13, <1>17 DEF Good, Called
    <3>2. QED
      BY <1>15, <2>7, <3>1 DEF Incomplete
  <2>9. dialect' # "openai" /\ ~wire'.resumed
    BY <1>1, <1>2, <1>15, <1>17
  <2>11. QED
    BY <1>18, <2>1, <2>2, <2>4, <2>5, <2>6, <2>7, <2>8, <2>9 DEF ChunkInv
<1>20. Typed'
  BY <1>15, <1>16, <1>17 DEF Typed, Endings
<1>21. (Typed /\ outcome = "none" /\ dialect \in Chunked /\ ChunkInv)'
  BY <1>1, <1>17, <1>19, <1>20
<1>22. QED
  BY <1>21, GoesOn, PTL

-----------------------------------------------------------------------------
(* The end of a chunked wire. *)

AtLast == /\ wire.ended /\ Good(Held, wire.told, {}, 0, 0)
          /\ ~wire.resumed => InOrder(Held, wire.told)
LEMMA IsOver ==
  /\ (Typed /\ outcome = "stopped" /\ AtLast) => LaneInv
  /\ (Typed /\ outcome = "broken" /\ wire.cut) => LaneInv
  /\ (Typed /\ outcome \in {"truncated", "failed"}) => LaneInv
<1>1. ASSUME Typed, outcome = "stopped", AtLast PROVE LaneInv
  <2> DEFINE m == 0
             told == wire.told
             a == Held
             E == {}
  <2>1. Good(a, told, E, m, m) /\ told \in Seq(Part) /\ \A i \in Nat : ~(m <= i /\ i < m)
    BY <1>1, WireTyped DEF AtLast
  <2> HIDE DEF m, told, a, E
  <2>2. /\ \A k \in Narrative : AllOf(k, a.parts) = AllOf(k, told)
        /\ Calls(a.parts) = Calls(told) /\ Once(a.parts)
        /\ InOrder(a, told) => a.parts = Filled(told)
    BY <2>1, GoodIsWhole DEF E
  <2>3. a.parts = parts /\ told = wire.told /\ a = Held
    BY DEF a, Held, told
  <2>4. PartsAreWhole
    BY <1>1, <2>2, <2>3, TypesMeanOK DEF PartsAreWhole, AtLast
  <2>5. QED
    BY <1>1, <2>4 DEF LaneInv
<1>2. ASSUME Typed, outcome = "broken", wire.cut PROVE LaneInv
  BY <1>2, TypesMeanOK DEF LaneInv, PartsAreWhole
<1>3. ASSUME Typed, outcome \in {"truncated", "failed"} PROVE LaneInv
  BY <1>3, TypesMeanOK DEF LaneInv, PartsAreWhole
<1>4. QED
  BY <1>1, <1>2, <1>3

\* Everything that is open is closed, unless a call was cut short.
LEMMA ClosesAll ==
  ASSUME Typed, ChunkInv, dialect \in Chunked, ~emitter.finished,
         NEW b, b = Taken(Held, Closing, wire.whole)
  PROVE  /\ Closing \in Seq(Event)
         /\ \/ Rejects(b, wire.told, wire.whole)
            \/ Good(b, wire.told, {}, 0, 0) /\ (~wire.resumed => InOrder(b, wire.told))
<1> DEFINE n == CallsOwed
           told == wire.told
           whole == wire.whole
           a == Held
           x == ShutNarrative
           y == HaltsTo(n)
           c == Taken(a, x, whole)
<1>1. /\ told \in Seq(Part) /\ a \in Accumulator /\ n \in Nat /\ LanesAreOpen
      /\ emitter.calls \in Nat /\ Good(a, told, OpenLanes, 0, n) /\ (\E r : Numbered(told, r))
      /\ OpenLanes # {} => Calls(told) \subseteq whole
  BY WireTyped, ChunkFacts DEF ChunkInv
<1>2. Closing = x \o y
  <2>1. CASE dialect = "openai"
    <3>1. n = emitter.calls
      BY <2>1 DEF CallsOwed
    <3>2. QED
      BY <2>1, <3>1 DEF Closing, HaltsTo
  <2>2. CASE dialect # "openai"
    <3>1. n = 0
      BY <2>2 DEF CallsOwed
    <3>2. QED
      BY <2>2, <3>1, HaltsFollow DEF Closing
  <2>3. QED
    BY <2>1, <2>2
<1>3. /\ x \in Seq(Event) /\ Good(c, told, {}, 0, n) /\ (OpenLanes = {} => c = a)
      /\ InOrder(a, told) /\ (OpenLanes = {} \/ n = 0) => InOrder(c, told)
  <2> DEFINE m == 0
  <2>1. Good(a, told, OpenLanes, m, n)
    BY <1>1
  <2> HIDE DEF a, told, n, whole, m, x
  <2>2. LET d == Taken(a, ShutNarrative, whole) IN
        /\ ShutNarrative \in Seq(Event) /\ Good(d, told, {}, m, n) /\ (OpenLanes = {} => d = a)
        /\ InOrder(a, told) /\ (OpenLanes = {} \/ (m = 0 /\ n = 0)) => InOrder(d, told)
    BY <1>1, <2>1, NarrativeIsShut
  <2>3. QED
    BY <2>2 DEF m, x
<1>4. y \in Seq(Event)
  <2> HIDE DEF n
  <2>1. QED
    BY <1>1, HaltsFollow
<1>5. Closing \in Seq(Event) /\ b = Taken(c, y, whole)
  <2> HIDE DEF x, y, a, whole
  <2>1. Taken(a, x \o y, whole) = Taken(Taken(a, x, whole), y, whole) /\ x \o y \in Seq(Event)
    BY <1>1, <1>3, <1>4, TakenJoined
  <2>2. QED
    BY <1>2, <2>1 DEF a, whole
<1>6. ~wire.resumed => InOrder(c, told) /\ OnlyCalls(c)
  <2>1. SUFFICES ASSUME ~wire.resumed PROVE InOrder(c, told) /\ OnlyCalls(c)
    OBVIOUS
  <2>2. InOrder(a, told)
    BY <2>1 DEF ChunkInv
  <2>3. CASE n = 0
    <3> DEFINE m == 0
    <3>1. Good(c, told, {}, m, m) /\ \A i \in Nat : ~(m <= i /\ i < m)
      BY <1>3, <2>3
    <3> HIDE DEF m, c
    <3>2. c.slots = <<>>
      BY <3>1, OwesNothing DEF Good
    <3>3. QED
      BY <1>3, <2>2, <2>3, <3>2 DEF OnlyCalls
  <2>4. CASE n # 0
    <3>1. dialect = "openai" /\ emitter.calls > 0
      BY <1>1, <2>4 DEF CallsOwed
    <3>2. OpenLanes = {} /\ OnlyCalls(a)
      BY <2>1, <3>1 DEF ChunkInv
    <3>3. QED
      BY <1>3, <2>2, <3>2
  <2>5. QED
    BY <2>3, <2>4
<1> HIDE DEF c
<1>7. \/ Rejects(b, told, whole)
      \/ /\ Good(b, told, {}, n, n)
         /\ InOrder(c, told) /\ OnlyCalls(c) /\ (\E r : Numbered(told, r)) => InOrder(b, told)
  <2> DEFINE m == 0
  <2>1. Good(c, told, {}, m, n)
    BY <1>3
  <2> HIDE DEF n, told, whole
  <2>2. LET d == Taken(c, HaltsTo(n), whole) IN
        \/ Rejects(d, told, whole)
        \/ /\ Good(d, told, {}, n, n)
           /\ InOrder(c, told) /\ OnlyCalls(c) /\ (\E r : Numbered(told, r)) => InOrder(d, told)
    BY <1>1, <2>1, CallsClose
  <2>3. QED
    BY <1>5, <2>2
<1>8. Good(b, told, {}, n, n) => Good(b, told, {}, 0, 0)
  <2> DEFINE m == 0
             E == {}
  <2>1. \A i \in Nat : (n <= i /\ i < n) <=> (m <= i /\ i < m)
    BY <1>1
  <2> HIDE DEF m, E, n, told
  <2>2. ASSUME Good(b, told, E, n, n) PROVE Good(b, told, E, m, m)
    BY <2>1, <2>2, OwesAlike
  <2>3. QED
    BY <2>2 DEF m, E
<1>9. QED
  BY <1>1, <1>5, <1>6, <1>7, <1>8

LEMMA ClosedTyped ==
  ASSUME Typed
  PROVE  LET e == Closed(emitter) IN
         /\ e \in Emitter /\ e.finished = TRUE /\ e.calls = emitter.calls /\ \A k \in Lane : e.at[k] = NoIndex
<1> DEFINE none == [k \in Lane |-> NoIndex]
<1>1. none \in [Lane -> Nat \cup {NoIndex}] /\ \A k \in Lane : none[k] = NoIndex
  OBVIOUS
<1>2. Closed(emitter) = [emitter EXCEPT !.at = none, !.finished = TRUE] /\ emitter \in Emitter
  BY DEF Typed, Closed, WithoutNarrative
<1> HIDE DEF none
<1>3. QED
  BY <1>1, <1>2 DEF Emitter

LEMMA AnnouncedTyped ==
  ASSUME Typed
  PROVE  LET w == Announced(wire) IN
         /\ w \in Wire /\ w.told = wire.told /\ w.whole = wire.whole /\ w.ended = TRUE
         /\ w.resumed = wire.resumed /\ w.cut = (Incomplete(wire) # {})
         /\ w.blocks = wire.blocks /\ w.block = wire.block
BY DEF Typed, Wire, Announced

LEMMA AnnouncesSafely ==
  ASSUME Typed, ChunkInv, Announces
  PROVE  LaneInv'
<1> DEFINE told == wire.told
           whole == wire.whole
           a == Held
           events == Closing
           b == Taken(a, events, whole)
<1>1. /\ told \in Seq(Part) /\ a \in Accumulator /\ dialect \in Chunked /\ outcome = "none"
      /\ ~emitter.finished /\ (Incomplete(wire) = {} <=> Calls(told) \subseteq whole)
  BY WireTyped, ChunkFacts DEF Announces
<1>2. wire' = Announced(wire) /\ emitter' = Closed(emitter) /\ Emit(events, "none")
  BY DEF Announces
<1>3. /\ wire' \in Wire /\ wire'.told = told /\ wire'.whole = whole /\ wire'.ended = TRUE
      /\ wire'.resumed = wire.resumed /\ wire'.cut = (Incomplete(wire) # {})
  BY <1>2, AnnouncedTyped
<1>4. /\ emitter' \in Emitter /\ emitter'.finished = TRUE /\ emitter'.calls = emitter.calls
      /\ \A k \in Lane : emitter'.at[k] = NoIndex
  BY <1>2, ClosedTyped
<1>5. /\ events \in Seq(Event)
      /\ \/ Rejects(b, told, whole)
         \/ Good(b, told, {}, 0, 0) /\ (~wire.resumed => InOrder(b, told))
  BY <1>1, ClosesAll
<1>6. /\ dialect' = dialect /\ outcome' = (IF b.broken THEN "broken" ELSE "none") /\ Held' \in Accumulator
      /\ parts' = b.parts /\ (~b.broken => Held' = b)
  <2> DEFINE d == b
  <2>1. d = Taken(Held, events, wire'.whole)
    BY <1>3
  <2> HIDE DEF events, b, d
  <2>2. /\ dialect' = dialect /\ outcome' = (IF d.broken THEN "broken" ELSE "none") /\ Held' \in Accumulator
        /\ parts' = d.parts /\ (~d.broken => Held' = d)
    BY <1>1, <1>2, <1>5, <2>1, EmitTurns
  <2>3. QED
    BY <2>2 DEF d
<1> HIDE DEF events, b, told
<1>7. CASE Rejects(b, told, whole)
  <2>1. outcome' = "broken" /\ wire'.cut
    BY <1>1, <1>3, <1>6, <1>7 DEF Rejects
  <2>2. (Typed /\ outcome = "broken" /\ wire.cut)'
    BY <1>3, <1>4, <1>6, <2>1 DEF Typed, Endings
  <2>3. QED
    BY <2>2, IsOver, PTL
<1>8. CASE Good(b, told, {}, 0, 0) /\ (~wire.resumed => InOrder(b, told))
  <2>1. outcome' = "none" /\ Held' = b
    BY <1>6, <1>8 DEF Good
  <2>2. OpenLanes' = {} /\ CallsOwed' = 0
    <3>1. OpenLanes' = {}
      BY <1>4, Indices DEF OpenLanes, IsOpen
    <3>2. QED
      BY <1>4, <3>1 DEF CallsOwed
  <2>3. OnlyCalls(Held')
    <3> DEFINE m == 0
    <3>1. Good(b, told, {}, m, m) /\ \A i \in Nat : ~(m <= i /\ i < m)
      BY <1>8
    <3> HIDE DEF m
    <3>2. b.slots = <<>>
      BY <3>1, OwesNothing DEF Good
    <3>3. QED
      BY <2>1, <3>2 DEF OnlyCalls
  <2>4. ChunkInv'
    <3>1. Numbered(told, emitter.calls) /\ (emitter.calls > 0 => Calls(told) # {})
      BY DEF ChunkInv, told
    <3>2. dialect = "gemini" => ~wire.resumed /\ Incomplete(wire) = {}
      BY DEF ChunkInv
    <3>3. Incomplete(wire') = Incomplete(wire)
      BY <1>3 DEF Incomplete, told
    <3>4. QED
      BY <1>3, <1>4, <1>6, <1>8, <2>1, <2>2, <2>3, <3>1, <3>2, <3>3 DEF ChunkInv
  <2>5. (Typed /\ outcome = "none" /\ dialect \in Chunked /\ ChunkInv)'
    BY <1>1, <1>3, <1>4, <1>6, <2>1, <2>4 DEF Typed, Endings
  <2>6. QED
    BY <2>5, GoesOn, PTL
<1>9. QED
  BY <1>5, <1>7, <1>8

LEMMA DoneSafely ==
  ASSUME Typed, ChunkInv, NEW started \in BOOLEAN, Done(started)
  PROVE  LaneInv'
<1> DEFINE told == wire.told
           whole == wire.whole
           a == Held
<1>1. /\ told \in Seq(Part) /\ a \in Accumulator /\ dialect = "openai" /\ dialect \in Chunked /\ outcome = "none"
      /\ (Incomplete(wire) = {} <=> Calls(told) \subseteq whole)
  BY WireTyped, ChunkFacts DEF Done, Chunked
<1>2. /\ wire' \in Wire /\ wire'.told = told /\ wire'.whole = whole /\ wire'.ended = TRUE
      /\ wire'.resumed = wire.resumed /\ wire'.cut = (Incomplete(wire) # {})
  BY AnnouncedTyped DEF Done
<1>3. CASE emitter.finished
  <2> DEFINE events == <<>>
             ending == "stopped"
             d == Taken(Held, events, wire'.whole)
  <2>1. emitter' = emitter /\ Emit(events, ending) /\ events \in Seq(Event)
    BY <1>3 DEF Done
  <2>2. d = Held /\ d.broken = FALSE
    BY <1>1, TakenNone DEF Held
  <2>3. d = Taken(Held, events, wire'.whole)
    OBVIOUS
  <2> HIDE DEF d, events, ending
  <2>4. /\ dialect' = dialect /\ outcome' = (IF d.broken THEN "broken" ELSE ending) /\ Held' \in Accumulator
        /\ (~d.broken => Held' = d)
    BY <1>1, <2>1, <2>3, EmitTurns
  <2>5. outcome' = "stopped" /\ Held' = Held
    BY <2>2, <2>4 DEF ending
  <2>6. OpenLanes = {} /\ CallsOwed = 0
    <3>1. wire.ended
      BY <1>3 DEF ChunkInv
    <3>2. \A k \in Narrative : k \notin OpenLanes
      BY <3>1 DEF ChunkInv
    <3>3. QED
      BY <1>3, <3>2, ChunkFacts DEF CallsOwed
  <2>7. Good(Held, told, {}, 0, 0) /\ (~wire.resumed => InOrder(Held, told))
    BY <2>6 DEF ChunkInv
  <2>8. AtLast'
    BY <1>2, <2>5, <2>7 DEF AtLast
  <2>9. (Typed /\ outcome = "stopped" /\ AtLast)'
    BY <1>1, <1>2, <2>1, <2>4, <2>5, <2>8 DEF Typed, Endings
  <2>10. QED
    BY <2>9, IsOver, PTL
<1>4. CASE ~emitter.finished
  <2> DEFINE events == Closing
             ending == IF started THEN "stopped" ELSE "truncated"
             b == Taken(a, events, whole)
             d == Taken(Held, events, wire'.whole)
  <2>1. emitter' = Closed(emitter) /\ Emit(events, ending)
    BY <1>4 DEF Done
  <2>2. /\ emitter' \in Emitter /\ emitter'.finished = TRUE /\ emitter'.calls = emitter.calls
        /\ \A k \in Lane : emitter'.at[k] = NoIndex
    BY <2>1, ClosedTyped
  <2>3. /\ events \in Seq(Event)
        /\ \/ Rejects(b, told, whole)
           \/ Good(b, told, {}, 0, 0) /\ (~wire.resumed => InOrder(b, told))
    BY <1>1, <1>4, ClosesAll
  <2>4. /\ dialect' = dialect /\ outcome' = (IF b.broken THEN "broken" ELSE ending) /\ Held' \in Accumulator
        /\ (~b.broken => Held' = b)
    <3>1. d = Taken(Held, events, wire'.whole) /\ d = b
      BY <1>2
    <3> HIDE DEF events, b, d, ending
    <3>2. /\ dialect' = dialect /\ outcome' = (IF d.broken THEN "broken" ELSE ending) /\ Held' \in Accumulator
          /\ (~d.broken => Held' = d)
      BY <1>1, <2>1, <2>3, <3>1, EmitTurns
    <3>3. QED
      BY <3>1, <3>2
  <2> HIDE DEF events, b, d, told
  <2>5. CASE Rejects(b, told, whole)
    <3>1. outcome' = "broken" /\ wire'.cut
      BY <1>1, <1>2, <2>4, <2>5 DEF Rejects
    <3>2. (Typed /\ outcome = "broken" /\ wire.cut)'
      BY <1>1, <1>2, <2>2, <2>4, <3>1 DEF Typed, Endings
    <3>3. QED
      BY <3>2, IsOver, PTL
  <2>6. CASE Good(b, told, {}, 0, 0) /\ (~wire.resumed => InOrder(b, told))
    <3>1. (outcome' = "stopped" \/ outcome' = "truncated") /\ Held' = b
      BY <2>4, <2>6 DEF Good
    <3>2. Typed'
      BY <1>1, <1>2, <2>2, <2>4, <3>1 DEF Typed, Endings
    <3>3. AtLast'
      BY <1>2, <2>6, <3>1 DEF AtLast
    <3>4. (Typed /\ outcome = "stopped" /\ AtLast)' \/ (Typed /\ outcome \in {"truncated", "failed"})'
      BY <3>1, <3>2, <3>3
    <3>5. QED
      BY <3>4, IsOver, PTL
  <2>7. QED
    BY <2>3, <2>5, <2>6
<1>5. QED
  BY <1>3, <1>4

-----------------------------------------------------------------------------
(* The wires of blocks. *)

Settled(b, told) == b \in Accumulator /\ ~b.broken /\ b.slots = <<>> /\ b.parts = Filled(told)
Fails(b, w)      == b \in Accumulator /\ b.broken /\ Incomplete(w) # {}

LEMMA EmptyInOrder ==
  ASSUME NEW a, NEW told \in Seq(Part), a.slots = <<>>
  PROVE  InOrder(a, told) <=> a.parts = Filled(told)
<1> DEFINE n == Len(a.slots)
           m == Len(told) - n
<1>1. n = 0 /\ Len(told) \in Nat
  OBVIOUS
<1>2. SubSeq(told, 1, Len(told)) = told
  BY SubSeqFull
<1>3. InOrder(a, told) <=> /\ n <= Len(told) /\ a.parts = Filled(SubSeq(told, 1, m))
                           /\ \A j \in 1..n : a.slots[j].part = told[m + j]
  BY DEF InOrder
<1> HIDE DEF n
<1>4. m = Len(told) /\ n <= Len(told) /\ 1..n = {}
  BY <1>1
<1> HIDE DEF m
<1>5. QED
  BY <1>2, <1>3, <1>4

LEMMA NumberedMore ==
  ASSUME NEW told \in Seq(Part), NEW n \in Nat, Numbered(told, n)
  PROVE  Numbered(told, n + 1)
<1>1. \A i : i \in 1..n => i \in 1..n+1
  OBVIOUS
<1>2. QED
  BY <1>1 DEF Numbered

\* The last part grows, of whatever kind.
LatestGrew(told, f) == [told EXCEPT ![Len(told)] = Grew(told[Len(told)], f)]
LEMMA LatestGrows ==
  ASSUME NEW told \in Seq(Part), told # <<>>, NEW f \in Nat, NEW n, Numbered(told, n)
  PROVE  LET more == LatestGrew(told, f) IN
         /\ more \in Seq(Part) /\ Len(more) = Len(told) /\ Len(told) \in 1..Len(told)
         /\ more[Len(told)] = Grew(told[Len(told)], f) /\ Grew(told[Len(told)], f) \in Part
         /\ \A t \in 1..Len(told) : t # Len(told) => more[t] = told[t]
         /\ Numbered(more, n)
<1> DEFINE l == Len(told)
           p == told[l]
           q == Grew(p, f)
           more == LatestGrew(told, f)
<1>1. l \in Nat /\ l \in 1..l /\ p \in Part
  OBVIOUS
<1> HIDE DEF l, p
<1>2. q \in Part /\ q.kind = p.kind /\ q.id = p.id
  BY <1>1, GrewTyped
<1> HIDE DEF q
<1>3. more \in Seq(Part) /\ Len(more) = l /\ more[l] = q /\ \A t \in 1..l : t # l => more[t] = told[t]
  BY <1>1, <1>2 DEF LatestGrew, l, p, q
<1> HIDE DEF more
<1>4. \A t \in 1..l : more[t].kind = told[t].kind /\ more[t].id = told[t].id
  BY <1>2, <1>3 DEF p
<1>5. Numbered(more, n)
  BY <1>3, <1>4 DEF Numbered, l
<1>6. QED
  BY <1>1, <1>2, <1>3, <1>5 DEF l, p, q, more

LEMMA BlockFacts ==
  ASSUME Typed, BlockInv
  PROVE  /\ Held.slots = slots /\ Held.parts = parts /\ Held.broken = FALSE
         /\ ~Stands => Settled(Held, wire.told)
         /\ Stands => /\ 1 \in 1..Len(slots) /\ (\A j \in 1..Len(slots) : j = 1)
                      /\ slots[1].index \in Nat /\ slots[1].index = wire.blocks - 1 /\ slots[1].part \in Part
         /\ wire.block \in Lane =>
              /\ Stands /\ InOrder(Held, wire.told) /\ slots[1].part.kind = wire.block
              /\ wire.told # <<>> /\ slots[1].part = Latest(wire)
<1>1. Held.slots = slots /\ Held.parts = parts /\ Held.broken = FALSE
  BY DEF Held
<1>2. /\ slots \in Seq(Slot) /\ wire.told \in Seq(Part) /\ wire.blocks \in Nat /\ Held \in Accumulator
  BY WireTyped
<1>3. ASSUME ~Stands PROVE Settled(Held, wire.told)
  <2>1. slots = <<>>
    BY <1>3 DEF BlockInv
  <2>2. parts = Filled(wire.told)
    BY <1>1, <1>2, <2>1, EmptyInOrder DEF BlockInv
  <2>3. QED
    BY <1>1, <1>2, <2>1, <2>2 DEF Settled
<1>4. ASSUME Stands
      PROVE  /\ 1 \in 1..Len(slots) /\ (\A j \in 1..Len(slots) : j = 1)
             /\ slots[1].index \in Nat /\ slots[1].index = wire.blocks - 1 /\ slots[1].part \in Part
  <2>1. Len(slots) = 1 /\ slots[1].index + 1 = wire.blocks
    BY <1>4 DEF BlockInv
  <2>4. 1 \in 1..Len(slots) /\ \A j \in 1..Len(slots) : j = 1
    BY <2>1
  <2>2. slots[1] \in Slot
    BY <1>2, <2>4
  <2>5. slots[1].index \in Nat /\ slots[1].part \in Part
    BY <2>2 DEF Slot
  <2>6. \A i \in Nat : \A n \in Nat : i + 1 = n => i = n - 1
    OBVIOUS
  <2>3. QED
    BY <1>2, <2>1, <2>4, <2>5, <2>6
<1>5. ASSUME wire.block \in Lane
      PROVE  /\ Stands /\ InOrder(Held, wire.told) /\ slots[1].part.kind = wire.block
             /\ wire.told # <<>> /\ slots[1].part = Latest(wire)
  <2>1. Stands /\ wire.block # "other"
    BY <1>5 DEF Stands, Lane, Narrative
  <2>2. InOrder(Held, wire.told) /\ Len(slots) = 1 /\ slots[1].part.kind = wire.block
    BY <1>5, <2>1 DEF BlockInv
  <2>3. 1 <= Len(wire.told) /\ slots[1].part = wire.told[Len(wire.told) - 1 + 1] /\ Len(wire.told) \in Nat
    BY <1>1, <1>2, <2>2 DEF InOrder
  <2>4. Len(wire.told) - 1 + 1 = Len(wire.told) /\ wire.told # <<>>
    BY <2>3
  <2>5. QED
    BY <2>1, <2>2, <2>3, <2>4 DEF Latest
<1>6. QED
  BY <1>1, <1>3, <1>4, <1>5

\* A stop closes the one slot, or rejects a call that was cut short.
LEMMA BlockCloses ==
  ASSUME Typed, BlockInv, Stands, NEW i \in {wire.blocks - 1, NoIndex},
         NEW b, b = Advance(Held, Halts(i), wire.whole)
  PROVE  Halts(i) \in Event /\ (Fails(b, wire) \/ Settled(b, wire.told))
<1> DEFINE a == Held
           told == wire.told
           whole == wire.whole
           p == slots[1].part
           S == {j \in 1..Len(a.slots) : i \in {a.slots[j].index, NoIndex}}
<1>1. /\ a \in Accumulator /\ told \in Seq(Part) /\ a.slots = slots /\ a.parts = parts /\ a.broken = FALSE
      /\ slots \in Seq(Slot) /\ parts \in Seq(Part)
  BY WireTyped, BlockFacts
<1>2. /\ 1 \in 1..Len(slots) /\ (\A j \in 1..Len(slots) : j = 1) /\ Len(slots) = 1
      /\ slots[1].index \in Nat /\ slots[1].index = wire.blocks - 1 /\ p \in Part
  BY BlockFacts DEF BlockInv
<1>3. S = {1} /\ i \in Nat \cup {NoIndex}
  BY <1>1, <1>2
<1>4. Halts(i) \in Event
  BY <1>3, EventsTyped
<1>5. b = Process(a, Halts(i), whole)
  BY <1>1 DEF Advance
<1>6. \E out \in S : IF Parses(a.slots[out].part, whole) THEN Ends(a, b, out) ELSE b \in Accumulator /\ b.broken
  BY <1>1, <1>3, <1>5, HaltEnds
<1>7. IF Parses(p, whole) THEN Ends(a, b, 1) ELSE b \in Accumulator /\ b.broken
  BY <1>1, <1>3, <1>6
<1>8. CASE ~Parses(p, whole)
  <2>1. p.kind = "call" /\ p \notin whole
    BY <1>8 DEF Parses
  <2>2. wire.block \in Lane
    <3>1. wire.block # "other"
      BY <2>1 DEF BlockInv, NewPart
    <3>2. QED
      BY <3>1 DEF Stands
  <2>3. told # <<>> /\ p = told[Len(told)]
    BY <2>2, BlockFacts DEF Latest
  <2>4. p \in Incomplete(wire)
    BY <1>1, <2>1, <2>3 DEF Incomplete, Calls, PartsOf
  <2>5. QED
    BY <1>4, <1>7, <1>8, <2>4 DEF Fails
<1>9. CASE Parses(p, whole)
  <2>1. Ends(a, b, 1)
    BY <1>7, <1>9
  <2>2. b \in Accumulator /\ ~b.broken /\ b.slots = <<>>
    <3>1. b \in Accumulator /\ b.broken = FALSE /\ Len(b.slots) = Len(a.slots) - 1
      BY <2>1 DEF Ends
    <3>2. b.slots \in Seq(Slot)
      BY <3>1 DEF Accumulator
    <3>3. Len(b.slots) = 0
      BY <1>1, <1>2, <3>1
    <3>4. QED
      BY <3>1, <3>2, <3>3
  <2>3. b.parts = Filled(told)
    <3>1. CASE wire.block = "other"
      <4>1. p = NewPart("text", wire.blocks) /\ parts = Filled(told)
        BY <3>1 DEF BlockInv
      <4>2. Empty(p)
        BY <4>1 DEF Empty, NewPart
      <4>3. b.parts = a.parts
        BY <1>1, <2>1, <4>2 DEF Ends
      <4>4. QED
        BY <1>1, <4>1, <4>3
    <3>2. CASE wire.block # "other"
      <4>1. InOrder(a, told)
        BY <3>2 DEF BlockInv
      <4>2. InOrder(b, told)
        BY <1>1, <2>1, <4>1, OrderEnds
      <4>3. QED
        BY <1>1, <2>2, <4>2, EmptyInOrder
    <3>3. QED
      BY <3>1, <3>2
  <2>4. QED
    BY <1>4, <2>2, <2>3 DEF Settled
<1>10. QED
  BY <1>8, <1>9

\* A stream of blocks that is settled and whose end was announced is the message.
LEMMA SettlesWhole ==
  (Typed /\ outcome = "stopped" /\ wire.ended /\ parts = Filled(wire.told) /\ Numbered(wire.told, wire.blocks))
    => LaneInv
<1> SUFFICES ASSUME Typed, outcome = "stopped", wire.ended, parts = Filled(wire.told),
                    Numbered(wire.told, wire.blocks)
             PROVE  LaneInv
  OBVIOUS
<1> DEFINE told == wire.told
<1>1. told \in Seq(Part)
  BY WireTyped
<1> HIDE DEF told
<1>2. /\ \A k \in Narrative : AllOf(k, Filled(told)) = AllOf(k, told)
      /\ Calls(Filled(told)) = Calls(told) /\ Once(Filled(told))
  BY <1>1, FilledIsWhole DEF told
<1>3. PartsAreWhole
  BY <1>2, TypesMeanOK DEF PartsAreWhole, told
<1>4. QED
  BY <1>3 DEF LaneInv

LEMMA BlockBeginsSafely ==
  ASSUME Typed, BlockInv, NEW k \in Lane \cup {"other"}, BlockBegins(k)
  PROVE  LaneInv'
<1> DEFINE i == wire.blocks
           told == wire.told
           later == wire'.told
           a == Held
           whole == wire'.whole
<1>1. /\ told \in Seq(Part) /\ a \in Accumulator /\ i \in Nat /\ i + 1 \in Nat /\ (i + 1) - 1 = i
      /\ emitter \in Emitter /\ emitter.calls \in Nat
      /\ dialect \in Blocked /\ dialect \notin Chunked /\ outcome = "none" /\ wire.block = "none"
      /\ "text" \in Lane /\ "none" \notin Lane /\ "other" \notin Lane /\ "none" # "other"
  <2>1. told \in Seq(Part) /\ a \in Accumulator /\ i \in Nat /\ emitter.calls \in Nat
    BY WireTyped
  <2>2. i + 1 \in Nat /\ (i + 1) - 1 = i
    BY <2>1
  <2>3. dialect \in Blocked /\ outcome = "none" /\ wire.block = "none" /\ emitter \in Emitter
    BY DEF BlockBegins, Typed
  <2>4. "text" \in Lane /\ "none" \notin Lane /\ "other" \notin Lane /\ "none" # "other"
    BY DEF Lane, Narrative
  <2>5. dialect \notin Chunked
    BY <2>3 DEF Blocked, Chunked
  <2>6. QED
    BY <2>1, <2>2, <2>3, <2>4, <2>5
<1>2. ~Stands /\ a.slots = <<>> /\ Len(a.slots) = 0 /\ a.parts = Filled(told) /\ ~a.broken
  <2>1. ~Stands
    BY <1>1 DEF Stands
  <2>2. Settled(a, told)
    BY <2>1, BlockFacts
  <2>3. QED
    BY <2>1, <2>2 DEF Settled
<1>3. NewPart(k, i + 1).kind = k /\ NewPart(k, i + 1).id = i + 1 /\ (k \in Lane => NewPart(k, i + 1) \in Part)
  BY <1>1 DEF NewPart, Part
<1>4. later = (IF k \in Lane THEN Append(told, NewPart(k, i + 1)) ELSE told) /\ later \in Seq(Part)
      /\ wire' = [wire EXCEPT !.block = k, !.blocks = i + 1, !.told = later]
  <2> DEFINE new == IF k \in Lane THEN Append(told, NewPart(k, i + 1)) ELSE told
  <2>1. new \in Seq(Part)
    BY <1>1, <1>3
  <2>2. wire' = [wire EXCEPT !.block = k, !.blocks = i + 1, !.told = new]
    BY DEF BlockBegins, BlockOpened
  <2> HIDE DEF new
  <2>3. later = new
    BY <2>2 DEF Typed, Wire
  <2>4. QED
    BY <2>1, <2>2, <2>3 DEF new
<1>5. /\ wire' \in Wire /\ wire'.block = k /\ wire'.blocks = i + 1 /\ wire'.resumed = wire.resumed
  <2> DEFINE new == later
  <2>1. wire' = [wire EXCEPT !.block = k, !.blocks = i + 1, !.told = new] /\ new \in Seq(Part)
    BY <1>4
  <2> HIDE DEF new
  <2>2. QED
    BY <1>1, <2>1 DEF Typed, Wire
<1>6. Numbered(later, i + 1)
  <2>1. Numbered(told, i)
    BY DEF BlockInv
  <2>2. CASE k \in Lane
    <3> DEFINE p == NewPart(k, i + 1)
    <3>1. p \in Part /\ p.kind = k /\ p.id = i + 1
      BY <1>3, <2>2
    <3> HIDE DEF p, i, told
    <3>2. CASE p.kind = "call"
      <4>1. p.kind = "call" /\ p.id = i + 1 => Numbered(Append(told, p), i + 1)
        BY <1>1, <2>1, <3>1, ToldMore
      <4>2. QED
        BY <1>4, <2>2, <3>1, <3>2, <4>1 DEF p
    <3>3. CASE p.kind # "call"
      <4>1. p.kind # "call" => Numbered(Append(told, p), i)
        BY <1>1, <2>1, <3>1, ToldMore
      <4>2. Numbered(later, i)
        BY <1>4, <2>2, <3>3, <4>1 DEF p
      <4>3. QED
        BY <1>1, <1>4, <4>2, NumberedMore
    <3>4. QED
      BY <3>2, <3>3
  <2>3. CASE k \notin Lane
    BY <1>1, <1>4, <2>1, <2>3, NumberedMore
  <2>4. QED
    BY <2>2, <2>3
<1>7. /\ emitter' \in Emitter /\ emitter'.finished = emitter.finished
      /\ dialect = "anthropic" =>
           /\ emitter'.calls = IF k = "call" THEN 1 ELSE 0
           /\ \A l \in Lane : emitter'.at[l] = IF k = l THEN i ELSE NoIndex
  <2>1. dialect = "anthropic" => emitter.calls = 0 /\ \A l \in Lane : emitter.at[l] = NoIndex
    BY <1>1 DEF BlockInv, Lane, Narrative
  <2>2. CASE dialect = "converse" \/ k \notin Lane
    <3>1. emitter' = emitter
      BY <2>2 DEF BlockBegins
    <3>2. k = "call" => k \in Lane
      BY DEF Lane
    <3>3. QED
      BY <1>1, <2>1, <2>2, <3>1, <3>2
  <2>3. CASE ~(dialect = "converse" \/ k \notin Lane)
    <3> DEFINE places == [emitter.at EXCEPT ![k] = i]
               count == IF k = "call" THEN emitter.calls + 1 ELSE emitter.calls
    <3>1. emitter' = [emitter EXCEPT !.at = places, !.calls = count]
      BY <2>3 DEF BlockBegins
    <3>2. places \in [Lane -> Nat \cup {NoIndex}] /\ \A l \in Lane : places[l] = IF k = l THEN i ELSE emitter.at[l]
      BY <1>1, <2>3 DEF Emitter
    <3>3. count \in Nat /\ (emitter.calls = 0 => count = IF k = "call" THEN 1 ELSE 0)
      BY <1>1
    <3> HIDE DEF places, count
    <3>4. emitter' \in Emitter /\ emitter'.finished = emitter.finished /\ emitter'.calls = count /\ emitter'.at = places
      BY <1>1, <3>1, <3>2, <3>3 DEF Emitter
    <3>5. QED
      BY <2>1, <3>2, <3>3, <3>4
  <2>4. QED
    BY <2>2, <2>3
<1> HIDE DEF later
<1>8. ASSUME NEW h \in Lane, Emit(<<Starts(i, h, i + 1)>>, "none")
      PROVE  /\ dialect' = dialect /\ outcome' = "none" /\ Held' \in Accumulator
             /\ Begins(a, Held', i, NewPart(h, i + 1))
             /\ Len(slots') = 1 /\ slots'[1].index = i /\ slots'[1].part = NewPart(h, i + 1) /\ parts' = Filled(told)
  <2> DEFINE ev == Starts(i, h, i + 1)
             events == <<ev>>
             b == Advance(a, ev, whole)
  <2>1. ev \in Event /\ events \in Seq(Event)
    <3>1. ev \in Event
      <4> HIDE DEF i
      <4>1. QED
        BY <1>1, EventsTyped
    <3>2. QED
      BY <3>1
  <2>2. b = Process(a, ev, whole)
    BY <1>2 DEF Advance
  <2>3. Begins(a, b, i, NewPart(h, i + 1))
    <3> DEFINE id == i + 1
    <3>1. id \in Nat /\ b = Process(a, Starts(i, h, id), whole)
      BY <1>1, <2>2
    <3> HIDE DEF i, id, b, a, whole
    <3>2. Begins(a, Process(a, Starts(i, h, id), whole), i, NewPart(h, id))
      BY <1>1, <3>1, StartBegins
    <3>3. QED
      BY <3>1, <3>2 DEF id
  <2>4. b = Taken(Held, events, wire'.whole)
    <3> HIDE DEF ev, whole, a
    <3>1. Taken(a, <<ev>>, whole) = Advance(a, ev, whole)
      BY <1>1, <2>1, TakenOne
    <3>2. QED
      BY <3>1 DEF a, whole
  <2>5. Held \in Accumulator /\ Emit(events, "none")
    BY <1>1, <1>8
  <2> HIDE DEF events, b
  <2>6. /\ dialect' = dialect /\ outcome' = (IF b.broken THEN "broken" ELSE "none") /\ Held' \in Accumulator
        /\ slots' = b.slots /\ parts' = b.parts /\ (~b.broken => Held' = b)
    BY <2>1, <2>4, <2>5, EmitTurns
  <2>7. ~b.broken /\ Len(b.slots) = 1 /\ b.slots[1] = [index |-> i, part |-> NewPart(h, i + 1)] /\ b.parts = a.parts
    BY <1>2, <2>3 DEF Begins
  <2>8. QED
    BY <1>2, <2>3, <2>6, <2>7
<1>9. /\ ~emitter'.finished /\ ~wire'.resumed /\ Numbered(wire'.told, wire'.blocks)
  BY <1>5, <1>6, <1>7 DEF BlockInv, later
<1>10. dialect' = dialect =>
         (dialect' = "anthropic" =>
            /\ emitter'.calls = IF wire'.block = "call" THEN 1 ELSE 0
            /\ \A l \in Lane : emitter'.at[l] = IF wire'.block = l THEN wire'.blocks - 1 ELSE NoIndex)
  BY <1>1, <1>5, <1>7
<1>11. CASE k \in Lane
  <2>1. Emit(<<Starts(i, k, i + 1)>>, "none")
    BY <1>11 DEF BlockBegins, ConverseStart
  <2>2. /\ dialect' = dialect /\ outcome' = "none" /\ Held' \in Accumulator
        /\ Begins(a, Held', i, NewPart(k, i + 1))
        /\ Len(slots') = 1 /\ slots'[1].index = i /\ slots'[1].part = NewPart(k, i + 1)
    BY <1>8, <1>11, <2>1
  <2>3. InOrder(Held', wire'.told)
    <3> DEFINE p == NewPart(k, i + 1)
               b == Held'
    <3>1. p \in Part /\ Begins(a, b, i, p) /\ InOrder(a, told)
      BY <1>1, <1>2, <1>3, <1>11, <2>2, EmptyInOrder
    <3> HIDE DEF p, b, i, a, told
    <3>2. InOrder(b, Append(told, p))
      BY <1>1, <3>1, OrderBegins
    <3>3. QED
      BY <1>4, <1>11, <3>2 DEF p, b, later
  <2>4. Stands' /\ wire'.block # "other"
    BY <1>1, <1>5, <1>11 DEF Stands
  <2>5. BlockInv'
    BY <1>1, <1>3, <1>5, <1>9, <1>10, <2>2, <2>3, <2>4 DEF BlockInv
  <2>6. (Typed /\ outcome = "none" /\ dialect \notin Chunked /\ BlockInv)'
    BY <1>1, <1>5, <1>7, <2>2, <2>5 DEF Typed, Endings
  <2>7. QED
    BY <2>6, GoesOn, PTL
<1>12. CASE k = "other" /\ dialect = "converse"
  <2>1. Emit(<<Starts(i, "text", i + 1)>>, "none")
    BY <1>1, <1>12 DEF BlockBegins, ConverseStart
  <2>2. /\ dialect' = dialect /\ outcome' = "none" /\ Held' \in Accumulator
        /\ Len(slots') = 1 /\ slots'[1].index = i /\ slots'[1].part = NewPart("text", i + 1)
        /\ parts' = Filled(told)
    BY <1>1, <1>8, <2>1
  <2>3. wire'.told = told /\ NewPart("text", i + 1).id = i + 1
    BY <1>1, <1>4, <1>12 DEF later, NewPart
  <2>4. Stands' /\ wire'.block = "other"
    BY <1>5, <1>12, <2>2 DEF Stands
  <2>5. BlockInv'
    BY <1>1, <1>5, <1>9, <1>10, <2>2, <2>3, <2>4 DEF BlockInv
  <2>6. (Typed /\ outcome = "none" /\ dialect \notin Chunked /\ BlockInv)'
    BY <1>1, <1>5, <1>7, <2>2, <2>5 DEF Typed, Endings
  <2>7. QED
    BY <2>6, GoesOn, PTL
<1>13. CASE k = "other" /\ dialect = "anthropic"
  <2> DEFINE events == <<>>
             d == Taken(Held, events, wire'.whole)
  <2>1. Emit(events, "none") /\ events \in Seq(Event)
    BY <1>1, <1>13 DEF BlockBegins
  <2>2. d = Held /\ d.broken = FALSE
    BY <1>1, TakenNone DEF Held
  <2>3. d = Taken(Held, events, wire'.whole)
    OBVIOUS
  <2> HIDE DEF d, events
  <2>4. /\ dialect' = dialect /\ outcome' = (IF d.broken THEN "broken" ELSE "none") /\ Held' \in Accumulator
        /\ slots' = d.slots /\ parts' = d.parts
    BY <1>1, <2>1, <2>3, EmitTurns
  <2>5. outcome' = "none" /\ slots' = <<>> /\ parts' = Filled(told) /\ wire'.told = told
    BY <1>1, <1>2, <1>4, <1>13, <2>2, <2>4 DEF later
  <2>6. ~Stands' /\ wire'.block = "other"
    BY <1>1, <1>5, <1>13, <2>4 DEF Stands
  <2>7. BlockInv'
    BY <1>1, <1>5, <1>9, <1>10, <2>4, <2>5, <2>6 DEF BlockInv
  <2>8. (Typed /\ outcome = "none" /\ dialect \notin Chunked /\ BlockInv)'
    BY <1>1, <1>5, <1>7, <2>4, <2>5, <2>7 DEF Typed, Endings
  <2>9. QED
    BY <2>8, GoesOn, PTL
<1>14. QED
  BY <1>1, <1>11, <1>12, <1>13 DEF Blocked

\* A step that emits no event, and one that emits one.
LEMMA EmitsNothing ==
  ASSUME Held \in Accumulator, NEW ending, Emit(<<>>, ending)
  PROVE  /\ dialect' = dialect /\ outcome' = ending /\ slots' = slots /\ parts' = parts
         /\ Held' = Held /\ Held' \in Accumulator
<1> DEFINE events == <<>>
           b == Taken(Held, events, wire'.whole)
<1>1. Emit(events, ending) /\ events \in Seq(Event)
  OBVIOUS
<1>2. b = Held
  BY TakenNone
<1>3. b = Taken(Held, events, wire'.whole)
  OBVIOUS
<1> HIDE DEF b, events
<1>4. /\ dialect' = dialect /\ slots' = b.slots /\ parts' = b.parts
      /\ outcome' = (IF b.broken THEN "broken" ELSE ending) /\ (~b.broken => Held' = b)
  BY <1>1, <1>3, EmitTurns
<1>5. Held.broken = FALSE /\ Held.slots = slots /\ Held.parts = parts
  BY DEF Held
<1>6. QED
  BY <1>2, <1>4, <1>5

LEMMA EmitsOne ==
  ASSUME Held \in Accumulator, NEW ev \in Event, NEW ending, Emit(<<ev>>, ending),
         NEW b, b = Advance(Held, ev, wire'.whole)
  PROVE  /\ b \in Accumulator /\ Held' \in Accumulator /\ dialect' = dialect
         /\ slots' = b.slots /\ parts' = b.parts
         /\ outcome' = IF b.broken THEN "broken" ELSE ending
         /\ ~b.broken => Held' = b
<1> DEFINE events == <<ev>>
           whole == wire'.whole
<1>1. Emit(events, ending) /\ events \in Seq(Event)
  OBVIOUS
<1> HIDE DEF whole
<1>2. Taken(Held, <<ev>>, whole) = Advance(Held, ev, whole)
  BY TakenOne
<1>3. b = Taken(Held, events, wire'.whole)
  BY <1>2 DEF whole
<1> HIDE DEF events
<1>4. QED
  BY <1>1, <1>3, EmitTurns

LEMMA BlockGoesOnSafely ==
  ASSUME Typed, BlockInv, NEW all \in BOOLEAN, BlockGoesOn(all)
  PROVE  LaneInv'
<1> DEFINE k == wire.block
           told == wire.told
           f == Coming
           a == Held
           lane == IF k \in Lane THEN k ELSE "call"
<1>1. /\ told \in Seq(Part) /\ a \in Accumulator /\ f \in Nat /\ wire \in Wire /\ wire.blocks \in Nat
      /\ wire.whole \in SUBSET Part /\ emitter \in Emitter /\ emitter' = emitter
      /\ dialect \in Blocked /\ dialect \notin Chunked /\ outcome = "none" /\ k # "none"
      /\ "other" \notin Lane /\ "call" \in Lane
  <2>1. told \in Seq(Part) /\ a \in Accumulator /\ f \in Nat /\ wire.blocks \in Nat /\ wire.whole \in SUBSET Part
    BY WireTyped
  <2>2. dialect \in Blocked /\ outcome = "none" /\ k # "none" /\ emitter' = emitter
    BY DEF BlockGoesOn
  <2>3. dialect \notin Chunked
    BY <2>2 DEF Blocked, Chunked
  <2>4. QED
    BY <2>1, <2>2, <2>3 DEF Typed, Lane, Narrative
<1>2. /\ a.slots = slots /\ a.parts = parts /\ a.broken = FALSE
  BY BlockFacts
<1>3. Emit(IF dialect = "converse" THEN ConverseDelta(wire.blocks - 1, k)
           ELSE <<Brings(At(lane), lane, f)>>, "none")
  BY DEF BlockGoesOn
<1>4. CASE k \in Lane
  <2> DEFINE p == Latest(wire)
             more == LatestGrew(told, f)
             i == wire.blocks - 1
             ev == Brings(i, k, f)
             b == Advance(a, ev, wire'.whole)
             next == IF all THEN wire.whole \cup {Grew(p, f)} ELSE wire.whole
  <2>1. /\ Stands /\ InOrder(a, told) /\ told # <<>> /\ slots[1].part = p /\ p.kind = k
        /\ p = told[Len(told)]
    BY <1>4, BlockFacts DEF Latest
  <2>2. /\ 1 \in 1..Len(slots) /\ (\A j \in 1..Len(slots) : j = 1) /\ Len(slots) = 1
        /\ slots[1].index = i /\ i \in Nat /\ p \in Part
        /\ slots[1].index + 1 = wire.blocks /\ p.id = wire.blocks
    BY <2>1, BlockFacts DEF BlockInv
  <2>3. /\ more \in Seq(Part) /\ Len(more) = Len(told) /\ Len(told) \in 1..Len(told)
        /\ more[Len(told)] = Grew(p, f) /\ Grew(p, f) \in Part
        /\ (\A t \in 1..Len(told) : t # Len(told) => more[t] = told[t])
        /\ Numbered(more, wire.blocks)
    <3> DEFINE n == wire.blocks
    <3>1. Numbered(told, n)
      BY DEF BlockInv
    <3> HIDE DEF n, told, f
    <3>2. LET m == LatestGrew(told, f) IN
          /\ m \in Seq(Part) /\ Len(m) = Len(told) /\ Len(told) \in 1..Len(told)
          /\ m[Len(told)] = Grew(told[Len(told)], f) /\ Grew(told[Len(told)], f) \in Part
          /\ \A t \in 1..Len(told) : t # Len(told) => m[t] = told[t]
          /\ Numbered(m, n)
      BY <1>1, <2>1, <3>1, LatestGrows
    <3>3. QED
      BY <2>1, <3>2 DEF n
  <2>4. Grew(p, f).kind = k /\ Grew(p, f).id = wire.blocks
    BY <1>1, <2>1, <2>2, GrewTyped
  <2>5. wire' = [wire EXCEPT !.sent = f, !.told = more, !.whole = next]
    <3>1. Grown(k, p) = Grew(p, f)
      BY <2>1 DEF Grown, Grew
    <3>2. wire' = [wire EXCEPT !.sent = f, !.told = [@ EXCEPT ![Len(@)] = Grown(k, p)],
                               !.whole = IF all THEN @ \cup {Grown(k, p)} ELSE @]
      BY <1>4 DEF BlockGoesOn
    <3>3. [told EXCEPT ![Len(told)] = Grown(k, p)] = more
      BY <2>1, <3>1 DEF LatestGrew
    <3>4. QED
      BY <3>1, <3>2, <3>3
  <2>6. next \in SUBSET Part
    BY <1>1, <2>3
  <2> HIDE DEF next, more
  <2>7. /\ wire' \in Wire /\ wire'.told = more /\ wire'.block = k /\ wire'.blocks = wire.blocks
        /\ wire'.resumed = wire.resumed
    BY <1>1, <2>3, <2>5, <2>6 DEF Wire
  <2>8. Emit(<<ev>>, "none")
    <3>1. CASE dialect = "converse"
      BY <1>3, <1>4, <3>1 DEF ConverseDelta
    <3>2. CASE dialect = "anthropic"
      <4>1. emitter.at[k] = i
        BY <1>4, <3>2 DEF BlockInv
      <4>2. At(k) = i
        BY <2>2, <4>1, LaneAssumption DEF At, IsOpen
      <4>3. QED
        BY <1>3, <1>4, <3>2, <4>2
    <3>3. QED
      BY <1>1, <3>1, <3>2 DEF Blocked
  <2>9. Gets(a, b, 1, f)
    <3> DEFINE whole == wire'.whole
               S == {j \in 1..Len(a.slots) : a.slots[j].index = i /\ a.slots[j].part.kind = k}
    <3>1. S = {1}
      BY <1>2, <2>1, <2>2
    <3>2. b = Process(a, Brings(i, k, f), whole)
      BY <1>2 DEF Advance
    <3> HIDE DEF whole, b, a, i, k, f
    <3>3. S # {} => \E to \in S : Gets(a, Process(a, Brings(i, k, f), whole), to, f) /\ \A j \in S : to <= j
      BY <1>1, <1>4, <2>2, BringGets
    <3>4. QED
      BY <3>1, <3>2, <3>3
  <2>10. ev \in Event
    <3> HIDE DEF i, k, f
    <3>1. QED
      BY <1>1, <1>4, <2>2, EventsTyped
  <2>11. b = Advance(Held, ev, wire'.whole)
    OBVIOUS
  <2> HIDE DEF ev, b
  <2>12. /\ Held' \in Accumulator /\ dialect' = dialect /\ slots' = b.slots
         /\ outcome' = (IF b.broken THEN "broken" ELSE "none") /\ (~b.broken => Held' = b)
    BY <1>1, <2>8, <2>10, <2>11, EmitsOne
  <2>13. /\ ~b.broken /\ Len(b.slots) = 1
         /\ b.slots[1] = [index |-> slots[1].index, part |-> Grew(p, f)]
    BY <1>2, <2>1, <2>2, <2>9 DEF Gets
  <2>14. InOrder(b, more)
    <3> DEFINE to == 1
               l == Len(told) - Len(a.slots) + to
    <3>1. l = Len(told) /\ Gets(a, b, to, f)
      BY <1>1, <1>2, <2>2, <2>9
    <3>2. /\ more[l] = Grew(told[l], f)
          /\ \A t \in 1..Len(told) : t # l => more[t] = told[t]
      BY <2>1, <2>3, <3>1
    <3> HIDE DEF a, told, f, to
    <3>3. QED
      BY <1>1, <2>1, <2>3, <3>1, <3>2, OrderGets
  <2>15. Stands' /\ wire'.block # "other"
    BY <1>1, <1>4, <2>7 DEF Stands
  <2>16. BlockInv'
    <3>1. outcome' = "none" /\ InOrder(Held', wire'.told) /\ Numbered(wire'.told, wire'.blocks)
      BY <2>3, <2>7, <2>12, <2>13, <2>14
    <3>2. /\ Len(slots') = 1 /\ slots'[1].index + 1 = wire'.blocks /\ slots'[1].part.id = wire'.blocks
          /\ slots'[1].part.kind = wire'.block
      BY <2>2, <2>4, <2>7, <2>12, <2>13
    <3>3. /\ ~emitter'.finished /\ ~wire'.resumed
          /\ dialect' = "anthropic" =>
               /\ emitter'.calls = IF wire'.block = "call" THEN 1 ELSE 0
               /\ \A h \in Lane : emitter'.at[h] = IF wire'.block = h THEN wire'.blocks - 1 ELSE NoIndex
      BY <1>1, <2>7, <2>12 DEF BlockInv
    <3>4. QED
      BY <2>15, <3>1, <3>2, <3>3 DEF BlockInv
  <2>17. (Typed /\ outcome = "none" /\ dialect \notin Chunked /\ BlockInv)'
    BY <1>1, <2>7, <2>12, <2>13, <2>16 DEF Typed, Endings
  <2>18. QED
    BY <2>17, GoesOn, PTL
<1>5. CASE k = "other"
  <2>1. wire' = [wire EXCEPT !.sent = f] /\ wire' \in Wire
    <3>1. ~all
      BY <1>5 DEF BlockGoesOn
    <3>2. wire' = [wire EXCEPT !.sent = f, !.told = @, !.whole = @]
      BY <1>1, <1>5, <3>1 DEF BlockGoesOn
    <3>3. QED
      BY <1>1, <3>2 DEF Wire
  <2>2. /\ wire'.told = told /\ wire'.block = k /\ wire'.blocks = wire.blocks /\ wire'.resumed = wire.resumed
    BY <1>1, <2>1 DEF Wire
  <2>3. /\ dialect' = dialect /\ outcome' = "none" /\ slots' = slots /\ parts' = parts
        /\ Held' = Held /\ Held' \in Accumulator
    <3>1. CASE dialect = "converse"
      <4>1. Emit(<<>>, "none")
        BY <1>1, <1>3, <1>5, <3>1 DEF ConverseDelta
      <4>2. QED
        BY <1>1, <4>1, EmitsNothing
    <3>2. CASE dialect = "anthropic"
      <4> DEFINE ev == Brings(0, "call", f)
                 whole == wire'.whole
                 S == {j \in 1..Len(a.slots) : a.slots[j].index = 0 /\ a.slots[j].part.kind = "call"}
                 b == Advance(a, ev, whole)
      <4>1. slots = <<>>
        BY <1>1, <1>5, <3>2 DEF BlockInv, Stands
      <4>2. At("call") = 0
        <5>1. emitter.at["call"] = NoIndex
          BY <1>1, <1>5, <3>2 DEF BlockInv
        <5>2. QED
          BY <5>1 DEF At, IsOpen
      <4>3. Emit(<<ev>>, "none")
        BY <1>1, <1>3, <1>5, <3>2, <4>2
      <4>4. b = a
        <5>1. S = {}
          BY <1>2, <4>1
        <5> DEFINE k0 == "call"
                   i0 == 0
        <5>2. k0 \in Lane /\ i0 \in Nat /\ b = Process(a, Brings(i0, k0, f), whole)
              /\ S = {j \in 1..Len(a.slots) : a.slots[j].index = i0 /\ a.slots[j].part.kind = k0}
          BY <1>1, <1>2 DEF Advance
        <5> HIDE DEF whole, a, f, k0, i0, b, S
        <5>3. S = {} => Process(a, Brings(i0, k0, f), whole) = a
          BY <1>1, <5>2, BringGets
        <5>4. QED
          BY <5>1, <5>2, <5>3
      <4>5. ev \in Event
        <5> DEFINE k0 == "call"
                   i0 == 0
        <5>1. k0 \in Lane /\ i0 \in Nat
          BY <1>1
        <5> HIDE DEF k0, i0, f
        <5>2. Brings(i0, k0, f) \in Event
          BY <1>1, <5>1, EventsTyped
        <5>3. QED
          BY <5>2 DEF k0, i0
      <4>6. b = Advance(Held, ev, wire'.whole)
        OBVIOUS
      <4> HIDE DEF b, ev
      <4>7. /\ dialect' = dialect /\ slots' = b.slots /\ parts' = b.parts
            /\ outcome' = (IF b.broken THEN "broken" ELSE "none") /\ (~b.broken => Held' = b)
        BY <1>1, <4>3, <4>5, <4>6, EmitsOne
      <4>8. QED
        BY <1>1, <1>2, <4>4, <4>7
    <3>3. QED
      BY <1>1, <3>1, <3>2 DEF Blocked
  <2>4. Stands' <=> Stands
    BY <2>2, <2>3 DEF Stands
  <2>5. BlockInv'
    BY <1>1, <1>5, <2>2, <2>3, <2>4 DEF BlockInv
  <2>6. (Typed /\ outcome = "none" /\ dialect \notin Chunked /\ BlockInv)'
    BY <1>1, <2>1, <2>3, <2>5 DEF Typed, Endings
  <2>7. QED
    BY <2>6, GoesOn, PTL
<1>6. QED
  BY <1>1, <1>4, <1>5 DEF Typed, Wire

\* Between blocks nothing is open.
BetweenBlocks ==
  /\ ~emitter.finished /\ ~wire.resumed /\ Numbered(wire.told, wire.blocks)
  /\ wire.block = "none" /\ slots = <<>> /\ parts = Filled(wire.told)
  /\ dialect = "anthropic" => emitter.calls = 0 /\ \A k \in Lane : emitter.at[k] = NoIndex
LEMMA BlockIsOver ==
  (Typed /\ outcome = "none" /\ dialect \notin Chunked /\ BetweenBlocks) => LaneInv
<1> SUFFICES ASSUME Typed, outcome = "none", dialect \notin Chunked, BetweenBlocks PROVE LaneInv
  OBVIOUS
<1>1. "none" \notin Lane /\ wire.told \in Seq(Part) /\ Held.slots = slots /\ Held.parts = parts
  BY WireTyped DEF Lane, Narrative, Held
<1>2. ~Stands
  BY <1>1 DEF Stands, BetweenBlocks
<1>3. InOrder(Held, wire.told)
  BY <1>1, EmptyInOrder DEF BetweenBlocks
<1>4. \A k \in Lane : wire.block # k
  BY <1>1 DEF BetweenBlocks
<1>5. "call" \in Lane
  BY DEF Lane
<1>6. BlockInv
  BY <1>1, <1>2, <1>3, <1>4, <1>5 DEF BlockInv, BetweenBlocks
<1>7. QED
  BY <1>6, GoesOn

\* A block of a kind the emitter knows is the one that a stop ends.
LEMMA LaneEnds ==
  ASSUME Typed, BlockInv, dialect = "anthropic"
  PROVE  /\ wire.block \in Lane => /\ LaneThatEnds = wire.block
                                   /\ wire.block # "call" => emitter.calls = 0
                                   /\ wire.block = "call" => emitter.calls = 1
                                   /\ emitter.at[wire.block] = wire.blocks - 1
         /\ wire.block \notin Lane => LaneThatEnds = "other" /\ emitter.calls = 0
         /\ \A k \in Lane : IsOpen(k) <=> k = wire.block
<1>1. /\ emitter.calls = (IF wire.block = "call" THEN 1 ELSE 0)
      /\ \A k \in Lane : emitter.at[k] = IF wire.block = k THEN wire.blocks - 1 ELSE NoIndex
  BY DEF BlockInv
<1>2. wire.block \in Lane => wire.blocks - 1 # NoIndex
  BY BlockFacts, LaneAssumption
<1>3. \A k \in Lane : IsOpen(k) <=> k = wire.block
  BY <1>1, <1>2 DEF IsOpen
<1>4. "text" \in Lane /\ "thinking" \in Lane /\ "call" \in Lane
      /\ \A k \in Lane : k \in {"text", "thinking", "call"}
  BY DEF Lane, Narrative
<1>5. 1 > 0 /\ ~(0 > 0)
  OBVIOUS
<1>6. wire.block \in Lane => LaneThatEnds = wire.block
  BY <1>1, <1>3, <1>4, <1>5 DEF LaneThatEnds
<1>7. wire.block \notin Lane => LaneThatEnds = "other" /\ emitter.calls = 0
  BY <1>1, <1>3, <1>4, <1>5 DEF LaneThatEnds
<1>8. QED
  BY <1>1, <1>3, <1>6, <1>7

LEMMA BlockEndsSafely ==
  ASSUME Typed, BlockInv, BlockEnds
  PROVE  LaneInv'
<1> DEFINE told == wire.told
           a == Held
           i == wire.blocks - 1
           k == wire.block
<1>1. /\ told \in Seq(Part) /\ a \in Accumulator /\ wire \in Wire /\ wire.blocks \in Nat
      /\ emitter \in Emitter /\ dialect \in Blocked /\ dialect \notin Chunked /\ outcome = "none"
      /\ k \in Lane \cup {"other"} /\ "other" \notin Lane /\ "call" \in Lane
  <2>1. told \in Seq(Part) /\ a \in Accumulator /\ wire.blocks \in Nat
    BY WireTyped
  <2>2. dialect \in Blocked /\ outcome = "none" /\ k # "none" /\ wire \in Wire /\ emitter \in Emitter
    BY DEF BlockEnds, Typed
  <2>3. dialect \notin Chunked
    BY <2>2 DEF Blocked, Chunked
  <2>4. k \in Lane \cup {"none", "other"}
    BY <2>2 DEF Wire
  <2>5. QED
    BY <2>1, <2>2, <2>3, <2>4 DEF Lane, Narrative
<1>2. /\ wire' \in Wire /\ wire'.told = told /\ wire'.whole = wire.whole /\ wire'.block = "none"
      /\ wire'.blocks = wire.blocks /\ wire'.resumed = wire.resumed
      /\ (Incomplete(wire) # {} => wire'.cut)
  <2> DEFINE cut == wire.cut \/ Incomplete(wire) # {}
  <2>1. wire' = [wire EXCEPT !.block = "none", !.cut = cut] /\ cut \in BOOLEAN
    BY DEF BlockEnds
  <2>2. Incomplete(wire) # {} => cut
    OBVIOUS
  <2> HIDE DEF cut
  <2>3. wire'.cut = cut
    BY <1>1, <2>1 DEF Wire
  <2>4. QED
    BY <1>1, <2>1, <2>2, <2>3 DEF Wire
<1>3. Numbered(wire'.told, wire'.blocks) /\ ~emitter.finished /\ ~wire'.resumed
  BY <1>2 DEF BlockInv
<1>4. CASE ~Stands
  <2>1. dialect = "anthropic" /\ k = "other"
    BY <1>1, <1>4 DEF Stands, Blocked
  <2>2. LaneThatEnds = "other" /\ emitter.calls = 0
    BY <1>1, <2>1, LaneEnds
  <2>3. emitter' = emitter /\ Emit(<<>>, "none")
    BY <2>1, <2>2 DEF BlockEnds
  <2>4. /\ dialect' = dialect /\ outcome' = "none" /\ slots' = slots /\ parts' = parts
        /\ Held' \in Accumulator
    BY <1>1, <2>3, EmitsNothing
  <2>5. slots = <<>> /\ parts = Filled(told)
    BY <1>4, BlockFacts DEF Settled
  <2>6. \A l \in Lane : emitter.at[l] = NoIndex
    BY <1>1, <2>1 DEF BlockInv
  <2>7. BetweenBlocks'
    BY <1>1, <1>2, <1>3, <2>2, <2>3, <2>4, <2>5, <2>6 DEF BetweenBlocks
  <2>8. (Typed /\ outcome = "none" /\ dialect \notin Chunked /\ BetweenBlocks)'
    BY <1>1, <1>2, <2>3, <2>4, <2>7 DEF Typed, Endings
  <2>9. QED
    BY <2>8, BlockIsOver, PTL
<1>5. CASE Stands
  <2> DEFINE ev == Halts(i)
             b == Advance(a, ev, wire'.whole)
  <2>1. /\ Emit(<<ev>>, "none") /\ emitter' \in Emitter /\ emitter'.finished = emitter.finished
        /\ dialect = "anthropic" => emitter'.calls = 0 /\ \A l \in Lane : emitter'.at[l] = NoIndex
    <3>1. CASE dialect = "converse"
      BY <1>1, <3>1 DEF BlockEnds
    <3>2. CASE dialect = "anthropic"
      <4>1. k \in Lane
        BY <1>5, <3>2 DEF Stands
      <4>2. /\ LaneThatEnds = k /\ emitter.at[k] = i /\ (k # "call" => emitter.calls = 0)
            /\ (k = "call" => emitter.calls = 1)
        BY <3>2, <4>1, LaneEnds
      <4> DEFINE places == [emitter.at EXCEPT ![k] = NoIndex]
                 count == IF k = "call" THEN emitter.calls - 1 ELSE emitter.calls
      <4>3. emitter' = [emitter EXCEPT !.at = places, !.calls = count] /\ Emit(<<ev>>, "none")
        BY <1>1, <3>2, <4>1, <4>2 DEF BlockEnds
      <4>4. places \in [Lane -> Nat \cup {NoIndex}] /\ \A l \in Lane : places[l] = NoIndex
        BY <1>1, <3>2, <4>1 DEF Emitter, BlockInv
      <4>5. count = 0 /\ count \in Nat
        BY <4>2
      <4> HIDE DEF places, count, ev
      <4>6. QED
        BY <1>1, <4>3, <4>4, <4>5 DEF Emitter
    <3>3. QED
      BY <1>1, <3>1, <3>2 DEF Blocked
  <2>2. ev \in Event /\ (Fails(b, wire) \/ Settled(b, told))
    <3> DEFINE h == i
    <3>1. h \in {wire.blocks - 1, NoIndex} /\ b = Advance(Held, Halts(h), wire.whole)
      BY <1>2
    <3> HIDE DEF h, b
    <3>2. Halts(h) \in Event /\ (Fails(b, wire) \/ Settled(b, wire.told))
      BY <1>5, <3>1, BlockCloses
    <3>3. QED
      BY <3>2 DEF h
  <2>3. b = Advance(Held, ev, wire'.whole)
    OBVIOUS
  <2> HIDE DEF ev, b
  <2>4. /\ dialect' = dialect /\ Held' \in Accumulator /\ slots' = b.slots /\ parts' = b.parts
        /\ outcome' = (IF b.broken THEN "broken" ELSE "none")
    BY <1>1, <2>1, <2>2, <2>3, EmitsOne
  <2>5. CASE Fails(b, wire)
    <3>1. outcome' = "broken" /\ wire'.cut
      BY <1>2, <2>4, <2>5 DEF Fails
    <3>2. (Typed /\ outcome = "broken" /\ wire.cut)'
      BY <1>2, <2>1, <2>4, <3>1 DEF Typed, Endings
    <3>3. QED
      BY <3>2, IsOver, PTL
  <2>6. CASE Settled(b, told)
    <3>1. outcome' = "none" /\ slots' = <<>> /\ parts' = Filled(wire'.told)
      BY <1>2, <2>4, <2>6 DEF Settled
    <3>2. BetweenBlocks'
      BY <1>1, <1>2, <1>3, <2>1, <2>4, <3>1 DEF BetweenBlocks
    <3>3. (Typed /\ outcome = "none" /\ dialect \notin Chunked /\ BetweenBlocks)'
      BY <1>1, <1>2, <2>1, <2>4, <3>1, <3>2 DEF Typed, Endings
    <3>4. QED
      BY <3>3, BlockIsOver, PTL
  <2>7. QED
    BY <2>2, <2>5, <2>6
<1>6. QED
  BY <1>4, <1>5

\* The end of a message closes what is open.
LEMMA ClosesWhatStands ==
  ASSUME Typed, BlockInv, dialect = "anthropic"
  PROVE  LET events == Shut("thinking") \o Shut("text") \o [i \in 1..emitter.calls |-> Halts(NoIndex)] IN
         /\ ~Stands => events = <<>>
         /\ Stands => \E i \in {wire.blocks - 1, NoIndex} : events = <<Halts(i)>>
<1> DEFINE last == [i \in 1..emitter.calls |-> Halts(NoIndex)]
           events == Shut("thinking") \o Shut("text") \o last
           k == wire.block
<1>1. /\ k \in Lane => /\ (k # "call" => emitter.calls = 0) /\ (k = "call" => emitter.calls = 1)
                       /\ emitter.at[k] = wire.blocks - 1
      /\ k \notin Lane => emitter.calls = 0
      /\ \A l \in Lane : IsOpen(l) <=> l = k
  BY LaneEnds
<1>2. "text" \in Lane /\ "thinking" \in Lane /\ "call" \in Lane
      /\ \A l \in Lane : l \in {"text", "thinking", "call"}
  BY DEF Lane, Narrative
<1>3. Stands <=> k \in Lane
  BY DEF Stands
<1>4. emitter.calls = 0 => last = <<>>
  OBVIOUS
<1>5. emitter.calls = 1 => last = <<Halts(NoIndex)>>
  OBVIOUS
<1>6. \A l \in {"text", "thinking"} : Shut(l) = IF l = k THEN <<Halts(emitter.at[l])>> ELSE <<>>
  BY <1>1, <1>2 DEF Shut
<1>7. ASSUME NEW ev
       PROVE  /\ (<<>> \o <<>>) \o <<ev>> = <<ev>> /\ (<<>> \o <<ev>>) \o <<>> = <<ev>>
              /\ (<<ev>> \o <<>>) \o <<>> = <<ev>>
  <2> DEFINE s == <<ev>>
  <2>1. s \in Seq({ev})
    OBVIOUS
  <2> HIDE DEF s
  <2>2. <<>> \o s = s /\ s \o <<>> = s /\ <<>> \o <<>> = <<>>
    BY <2>1
  <2>3. QED
    BY <2>2 DEF s
<1> HIDE DEF last
<1>8. CASE ~Stands
  <2>1. last = <<>> /\ Shut("text") = <<>> /\ Shut("thinking") = <<>>
    BY <1>1, <1>2, <1>3, <1>4, <1>6, <1>8
  <2>2. events = <<>>
    BY <2>1
  <2>3. QED
    BY <1>8, <2>2 DEF last
<1>9. CASE k = "call"
  <2>1. last = <<Halts(NoIndex)>> /\ Shut("text") = <<>> /\ Shut("thinking") = <<>>
    BY <1>1, <1>2, <1>5, <1>6, <1>9
  <2>2. events = <<Halts(NoIndex)>>
    BY <1>7, <2>1
  <2>3. QED
    BY <1>2, <1>3, <1>9, <2>2 DEF last
<1>10. CASE k = "text"
  <2> DEFINE ev == Halts(wire.blocks - 1)
  <2>1. last = <<>> /\ Shut("text") = <<ev>> /\ Shut("thinking") = <<>>
    BY <1>1, <1>2, <1>4, <1>6, <1>10
  <2> HIDE DEF ev
  <2>2. events = <<ev>>
    BY <1>7, <2>1
  <2>3. QED
    BY <1>2, <1>3, <1>10, <2>2 DEF last, ev
<1>11. CASE k = "thinking"
  <2> DEFINE ev == Halts(wire.blocks - 1)
  <2>1. last = <<>> /\ Shut("text") = <<>> /\ Shut("thinking") = <<ev>>
    BY <1>1, <1>2, <1>4, <1>6, <1>11
  <2> HIDE DEF ev
  <2>2. events = <<ev>>
    BY <1>7, <2>1
  <2>3. QED
    BY <1>2, <1>3, <1>11, <2>2 DEF last, ev
<1>12. QED
  BY <1>2, <1>3, <1>8, <1>9, <1>10, <1>11

LEMMA MessageStopsSafely ==
  ASSUME Typed, BlockInv, MessageStops
  PROVE  LaneInv'
<1> DEFINE told == wire.told
           a == Held
<1>1. /\ a \in Accumulator /\ emitter \in Emitter /\ dialect \in Blocked /\ outcome = "none"
      /\ (dialect = "converse" => wire.block = "none") /\ wire' = Announced(wire)
  BY WireTyped DEF MessageStops, Typed
<1>2. /\ wire' \in Wire /\ wire'.told = told /\ wire'.whole = wire.whole /\ wire'.ended = TRUE
      /\ wire'.cut = (Incomplete(wire) # {}) /\ wire'.blocks = wire.blocks
  BY <1>1, AnnouncedTyped
<1>3. Numbered(wire'.told, wire'.blocks)
  BY <1>2 DEF BlockInv
<1>4. emitter' \in Emitter
  <2>1. CASE dialect = "converse"
    <3>1. emitter' = [emitter EXCEPT !.finished = TRUE]
      BY <2>1 DEF MessageStops
    <3>2. QED
      BY <1>1, <3>1 DEF Emitter
  <2>2. CASE dialect = "anthropic"
    <3> DEFINE places == [emitter.at EXCEPT !["text"] = NoIndex, !["thinking"] = NoIndex]
    <3>1. emitter' = [emitter EXCEPT !.at = places, !.calls = 0, !.finished = TRUE]
      BY <1>1, <2>2 DEF MessageStops, Emitter, Lane, Narrative
    <3>2. places \in [Lane -> Nat \cup {NoIndex}]
      BY <1>1 DEF Emitter
    <3> HIDE DEF places
    <3>3. QED
      BY <1>1, <3>1, <3>2 DEF Emitter
  <2>3. QED
    BY <1>1, <2>1, <2>2 DEF Blocked
<1>5. /\ ~Stands => Emit(<<>>, "stopped")
      /\ Stands => \E i \in {wire.blocks - 1, NoIndex} : Emit(<<Halts(i)>>, "stopped")
  <2>1. CASE dialect = "converse"
    <3>1. wire.block \notin Lane /\ wire.block # "other"
      BY <1>1, <2>1 DEF Lane, Narrative
    <3>2. ~Stands
      BY <3>1 DEF Stands
    <3>3. Emit(<<>>, "stopped")
      BY <2>1 DEF MessageStops
    <3>4. QED
      BY <3>2, <3>3
  <2>2. CASE dialect = "anthropic"
    <3> DEFINE events == Shut("thinking") \o Shut("text") \o [i \in 1..emitter.calls |-> Halts(NoIndex)]
    <3>1. Emit(events, "stopped")
      BY <2>2 DEF MessageStops
    <3>2. /\ ~Stands => events = <<>>
          /\ Stands => \E i \in {wire.blocks - 1, NoIndex} : events = <<Halts(i)>>
      BY <2>2, ClosesWhatStands
    <3> HIDE DEF events
    <3>3. QED
      BY <3>1, <3>2
  <2>3. QED
    BY <1>1, <2>1, <2>2 DEF Blocked
<1>6. ASSUME outcome' = "stopped", dialect' = dialect, Held' \in Accumulator, parts' = Filled(told)
      PROVE  LaneInv'
  <2>1. (/\ Typed /\ outcome = "stopped" /\ wire.ended /\ parts = Filled(wire.told)
         /\ Numbered(wire.told, wire.blocks))'
    BY <1>1, <1>2, <1>3, <1>4, <1>6 DEF Typed, Endings
  <2>2. QED
    BY <2>1, SettlesWhole, PTL
<1>7. CASE ~Stands
  <2>1. /\ dialect' = dialect /\ outcome' = "stopped" /\ parts' = parts /\ Held' \in Accumulator
    BY <1>1, <1>5, <1>7, EmitsNothing
  <2>2. parts = Filled(told)
    BY <1>7, BlockFacts DEF Settled
  <2>3. QED
    BY <1>6, <2>1, <2>2
<1>8. CASE Stands
  <2>1. PICK i \in {wire.blocks - 1, NoIndex} : Emit(<<Halts(i)>>, "stopped")
    BY <1>5, <1>8
  <2> DEFINE ev == Halts(i)
             b == Advance(a, ev, wire'.whole)
  <2>2. ev \in Event /\ (Fails(b, wire) \/ Settled(b, told))
    <3>1. b = Advance(Held, Halts(i), wire.whole)
      BY <1>2
    <3> HIDE DEF b
    <3>2. Halts(i) \in Event /\ (Fails(b, wire) \/ Settled(b, wire.told))
      BY <1>8, <3>1, BlockCloses
    <3>3. QED
      BY <3>2
  <2>3. b = Advance(Held, ev, wire'.whole) /\ Emit(<<ev>>, "stopped")
    BY <2>1
  <2> HIDE DEF ev, b
  <2>4. /\ dialect' = dialect /\ Held' \in Accumulator /\ parts' = b.parts
        /\ outcome' = (IF b.broken THEN "broken" ELSE "stopped")
    BY <1>1, <2>2, <2>3, EmitsOne
  <2>5. CASE Fails(b, wire)
    <3>1. outcome' = "broken" /\ wire'.cut
      BY <1>2, <2>4, <2>5 DEF Fails
    <3>2. (Typed /\ outcome = "broken" /\ wire.cut)'
      BY <1>1, <1>2, <1>4, <2>4, <3>1 DEF Typed, Endings
    <3>3. QED
      BY <3>2, IsOver, PTL
  <2>6. CASE Settled(b, told)
    BY <1>6, <2>4, <2>6 DEF Settled
  <2>7. QED
    BY <2>2, <2>5, <2>6
<1>9. QED
  BY <1>7, <1>8

-----------------------------------------------------------------------------
(* The whole stream. *)

LEMMA BodyEndsSafely ==
  ASSUME LaneInv, BodyEnds
  PROVE  LaneInv'
<1>1. /\ Typed /\ Held \in Accumulator /\ outcome = "none" /\ emitter' = emitter /\ wire' = wire
      /\ IF dialect \in Chunked THEN ChunkInv ELSE BlockInv
  BY WireTyped DEF BodyEnds, LaneInv
<1>2. Emit(<<>>, IF emitter.finished THEN "stopped" ELSE "truncated")
  BY DEF BodyEnds, EndsUnannounced
<1>3. /\ dialect' = dialect /\ outcome' = (IF emitter.finished THEN "stopped" ELSE "truncated")
      /\ Held' = Held
  BY <1>1, <1>2, EmitsNothing
<1>4. Typed'
  BY <1>1, <1>3 DEF Typed, Endings
<1>5. CASE ~emitter.finished
  <2>1. (Typed /\ outcome \in {"truncated", "failed"})'
    BY <1>3, <1>4, <1>5
  <2>2. QED
    BY <2>1, IsOver, PTL
<1>6. CASE emitter.finished
  <2>1. ChunkInv
    BY <1>1, <1>6 DEF BlockInv
  <2>2. wire.ended /\ OpenLanes = {} /\ CallsOwed = 0
    <3>1. wire.ended
      BY <1>6, <2>1 DEF ChunkInv
    <3>2. OpenLanes = {}
      BY <2>1, <3>1 DEF ChunkInv, OpenLanes
    <3>3. QED
      BY <1>6, <3>1, <3>2 DEF CallsOwed
  <2>3. Good(Held, wire.told, {}, 0, 0) /\ (~wire.resumed => InOrder(Held, wire.told))
    BY <2>1, <2>2 DEF ChunkInv
  <2>4. AtLast'
    BY <1>1, <1>3, <2>2, <2>3 DEF AtLast
  <2>5. (Typed /\ outcome = "stopped" /\ AtLast)'
    BY <1>3, <1>4, <1>6, <2>4
  <2>6. QED
    BY <2>5, IsOver, PTL
<1>7. QED
  BY <1>5, <1>6

LEMMA ErrsSafely ==
  ASSUME LaneInv, Errs
  PROVE  LaneInv'
<1>1. Typed /\ Held \in Accumulator /\ emitter' = emitter /\ wire' = wire /\ Emit(<<>>, "failed")
  BY WireTyped DEF Errs, LaneInv
<1>2. dialect' = dialect /\ outcome' = "failed" /\ Held' = Held
  BY <1>1, EmitsNothing
<1>3. (Typed /\ outcome \in {"truncated", "failed"})'
  BY <1>1, <1>2 DEF Typed, Endings
<1>4. QED
  BY <1>3, IsOver, PTL

LEMMA LaneStarts == LaneInit => LaneInv
<1> SUFFICES ASSUME LaneInit PROVE LaneInv
  OBVIOUS
<1> DEFINE none == [k \in Lane |-> NoIndex]
           zero == 0
           E == {}
           told == <<>>
<1>1. /\ dialect \in Dialects /\ outcome = "none" /\ slots = <<>> /\ parts = <<>>
      /\ emitter = [at |-> none, calls |-> 0, finished |-> FALSE]
      /\ wire = [sent |-> 0, told |-> <<>>, whole |-> {}, ended |-> FALSE, cut |-> FALSE,
                 resumed |-> FALSE, block |-> "none", blocks |-> 0]
  BY DEF LaneInit
<1>2. none \in [Lane -> Nat \cup {NoIndex}] /\ \A k \in Lane : none[k] = NoIndex
  OBVIOUS
<1> HIDE DEF none
<1>3. /\ emitter \in Emitter /\ emitter.calls = 0 /\ emitter.finished = FALSE
      /\ \A k \in Lane : emitter.at[k] = NoIndex
  BY <1>1, <1>2 DEF Emitter
<1>4. /\ wire \in Wire /\ wire.told = <<>> /\ wire.whole = {} /\ wire.ended = FALSE
      /\ wire.resumed = FALSE /\ wire.block = "none" /\ wire.blocks = 0
  BY <1>1 DEF Wire
<1>5. /\ Held.slots = <<>> /\ Held.parts = <<>> /\ Held.broken = FALSE /\ Held \in Accumulator
  BY <1>1 DEF Held, Accumulator
<1>6. Typed
  BY <1>1, <1>3, <1>4, <1>5 DEF Typed, Endings
<1>7. Filled(<<>>) = <<>> /\ told \in Seq(Part) /\ Calls(<<>>) = {} /\ Once(<<>>) /\ Numbered(<<>>, 0)
  BY FilledProperties DEF Calls, PartsOf, Once, Numbered
<1>8. InOrder(Held, told)
  <2> HIDE DEF told
  <2>1. InOrder(Held, told) <=> Held.parts = Filled(told)
    BY <1>5, <1>7, EmptyInOrder
  <2>2. QED
    BY <1>5, <1>7, <2>1 DEF told
<1>9. BetweenBlocks
  BY <1>1, <1>3, <1>4, <1>7 DEF BetweenBlocks
<1>10. OpenLanes = {} /\ CallsOwed = 0
  BY <1>3 DEF OpenLanes, IsOpen, CallsOwed, Lane
<1>11. Good(Held, told, E, zero, zero)
  <2>1. ASSUME NEW i \in Nat PROVE Has(Held.slots, i, Owed(E, zero, zero)[i])
    <3>1. ~(zero <= i /\ i < zero) /\ ~(\E k \in E : IndexOf(k) = i)
      OBVIOUS
    <3> HIDE DEF zero, E
    <3>2. Owed(E, zero, zero)[i] = 0
      BY <3>1, OwedValues
    <3>3. None(Held.slots, i)
      BY <1>5 DEF None
    <3>4. QED
      BY <3>2, <3>3 DEF Has
  <2>2. ASSUME NEW k \in Narrative PROVE OneIndex(Held.slots, k) /\ Sums(Held, told, k)
    <3>1. Holds(Held.slots, k, <<>>) /\ OneIndex(Held.slots, k)
      BY <1>5 DEF Holds, Mute, OneIndex
    <3>2. AllOf(k, <<>>) = <<>>
      BY AllOfProperties
    <3>3. <<>> \in Seq(Nat) /\ AllOf(k, told) = AllOf(k, Held.parts) \o <<>>
      BY <1>5, <3>2
    <3>4. QED
      BY <3>1, <3>3 DEF Sums
  <2>3. Called(Held, told)
    BY <1>5, <1>7 DEF Called
  <2>4. Standing(Held, E)
    BY DEF Standing
  <2>5. QED
    BY <1>5, <2>1, <2>2, <2>3, <2>4 DEF Good, Owes, Narrated
<1>12. CASE dialect \in Chunked
  <2>1. OnlyCalls(Held)
    BY <1>5 DEF OnlyCalls
  <2>2. Incomplete(wire) = {}
    BY <1>4, <1>7 DEF Incomplete
  <2>3. \A k \in Narrative : ~Lasts(wire.told, k)
    BY <1>4 DEF Lasts
  <2>4. Numbered(wire.told, emitter.calls) /\ Calls(parts) \subseteq wire.whole /\ ~(emitter.calls > 0)
    BY <1>1, <1>3, <1>4, <1>7
  <2>5. Good(Held, wire.told, OpenLanes, 0, CallsOwed) /\ InOrder(Held, wire.told)
    BY <1>4, <1>8, <1>10, <1>11
  <2>6. ChunkInv
    BY <1>3, <1>4, <1>10, <2>1, <2>2, <2>3, <2>4, <2>5 DEF ChunkInv
  <2>7. QED
    BY <1>1, <1>6, <1>12, <2>6, GoesOn
<1>13. CASE dialect \notin Chunked
  BY <1>1, <1>6, <1>9, <1>13, BlockIsOver
<1>14. QED
  BY <1>12, <1>13

\* What holds of a stream survives each step of the emitters.
LEMMA LaneSteps ==
  ASSUME ~Resumes \/ "openai" \notin Dialects, LaneInv, [LaneNext]_laneVars
  PROVE  LaneInv'
<1>1. Typed
  BY DEF LaneInv
<1>2. ASSUME dialect \in Chunked, outcome = "none" PROVE ChunkInv
  BY <1>2 DEF LaneInv
<1>3. ASSUME dialect \in Blocked, outcome = "none" PROVE BlockInv
  BY <1>3 DEF LaneInv, Blocked, Chunked
<1>4. "openai" \in Chunked /\ "gemini" \in Chunked
  BY DEF Chunked
<1>5. ASSUME NEW k \in Narrative, Speaks(k) PROVE LaneInv'
  <2>1. ChunkInv
    BY <1>2, <1>5 DEF Speaks
  <2>2. ~Resumes \/ dialect = "gemini"
    BY <1>1, <1>5 DEF Speaks, Typed, Chunked
  <2>3. QED
    BY <1>1, <1>5, <2>1, <2>2, SpeaksSafely
<1>6. ASSUME NEW some \in BOOLEAN, NEW all \in BOOLEAN, CallBegins(some, all) PROVE LaneInv'
  <2>1. ChunkInv
    BY <1>2, <1>4, <1>6 DEF CallBegins
  <2>2. QED
    BY <1>1, <1>6, <2>1, CallBeginsSafely
<1>7. ASSUME NEW p \in Calls(wire.told), NEW all \in BOOLEAN, CallGoesOn(p, all) PROVE LaneInv'
  <2>1. ChunkInv
    BY <1>2, <1>4, <1>7 DEF CallGoesOn
  <2>2. QED
    BY <1>1, <1>7, <2>1, CallGoesOnSafely
<1>8. CASE WholeCall
  <2>1. ChunkInv
    BY <1>2, <1>4, <1>8 DEF WholeCall
  <2>2. QED
    BY <1>1, <1>8, <2>1, WholeCallSafely
<1>9. CASE Announces
  <2>1. ChunkInv
    BY <1>2, <1>9 DEF Announces
  <2>2. QED
    BY <1>1, <1>9, <2>1, AnnouncesSafely
<1>10. ASSUME NEW started \in BOOLEAN, Done(started) PROVE LaneInv'
  <2>1. ChunkInv
    BY <1>2, <1>4, <1>10 DEF Done
  <2>2. QED
    BY <1>1, <1>10, <2>1, DoneSafely
<1>11. ASSUME NEW k \in Lane \cup {"other"}, BlockBegins(k) PROVE LaneInv'
  <2>1. BlockInv
    BY <1>3, <1>11 DEF BlockBegins
  <2>2. QED
    BY <1>1, <1>11, <2>1, BlockBeginsSafely
<1>12. ASSUME NEW all \in BOOLEAN, BlockGoesOn(all) PROVE LaneInv'
  <2>1. BlockInv
    BY <1>3, <1>12 DEF BlockGoesOn
  <2>2. QED
    BY <1>1, <1>12, <2>1, BlockGoesOnSafely
<1>13. CASE BlockEnds
  <2>1. BlockInv
    BY <1>3, <1>13 DEF BlockEnds
  <2>2. QED
    BY <1>1, <1>13, <2>1, BlockEndsSafely
<1>14. CASE MessageStops
  <2>1. BlockInv
    BY <1>3, <1>14 DEF MessageStops
  <2>2. QED
    BY <1>1, <1>14, <2>1, MessageStopsSafely
<1>15. CASE BodyEnds
  BY <1>15, BodyEndsSafely
<1>16. CASE Errs
  BY <1>16, ErrsSafely
<1>17. CASE UNCHANGED laneVars
  <2>1. /\ dialect' = dialect /\ emitter' = emitter /\ slots' = slots /\ parts' = parts
        /\ outcome' = outcome /\ wire' = wire
    BY <1>17 DEF laneVars
  <2>2. Held' = Held /\ OpenLanes' = OpenLanes /\ CallsOwed' = CallsOwed /\ (Stands' <=> Stands)
    BY <2>1 DEF Held, OpenLanes, IsOpen, CallsOwed, Stands
  <2>3. Typed' /\ (ChunkInv' <=> ChunkInv) /\ (BlockInv' <=> BlockInv)
    BY <1>1, <2>1, <2>2 DEF Typed, ChunkInv, BlockInv
  <2>4. PartsAreWhole' <=> PartsAreWhole
    BY <2>1 DEF PartsAreWhole, LaneTypeOK
  <2>5. QED
    BY <2>1, <2>3, <2>4 DEF LaneInv
<1>18. QED
  BY <1>5, <1>6, <1>7, <1>8, <1>9, <1>10, <1>11, <1>12, <1>13, <1>14, <1>15, <1>16, <1>17 DEF LaneNext

\* A message is put together as it was told: whatever the wire format, a stream that
\* its provider ended gives every fragment of text and of reasoning in its order and
\* every call with just its own arguments, and a stream is rejected only if a call of
\* it was cut short (the emitters, StreamAccumulator::process).  Of OpenAI's format
\* it is assumed that no text comes between the fragments of a call, with which it fails.
THEOREM MessagesAreWhole ==
  (~Resumes \/ "openai" \notin Dialects) => (LaneSpec => []PartsAreWhole)
<1> SUFFICES ASSUME ~Resumes \/ "openai" \notin Dialects PROVE LaneSpec => []PartsAreWhole
  OBVIOUS
<1>1. LaneInit => LaneInv
  BY LaneStarts
<1>2. LaneInv /\ [LaneNext]_laneVars => LaneInv'
  BY LaneSteps
<1>3. LaneInv => PartsAreWhole
  BY DEF LaneInv
<1>4. QED
  BY <1>1, <1>2, <1>3, PTL DEF LaneSpec
=============================================================================
