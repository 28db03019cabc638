------------------------------- MODULE Breaker -------------------------------
(***************************************************************************)
(* The circuit breaker that routes a loop's requests to a fallback model   *)
(* (src/fallback.rs), with the driver's use of it.  Every method holds the *)
(* manager's mutex from start to end and is an operator on its record; the *)
(* driver makes several calls per request, with the provider's answer in   *)
(* between.                                                                *)
(***************************************************************************)
EXTENDS Integers, Sequences

CONSTANTS Model,             \* model names
          ClientModel,       \* the one the client is configured with
          NoModel,           \* no name: the None of active_model
          TripThreshold, RecoverySuccessesNeeded, MaxFailCount,
          MaxChain,          \* bound: entries in the fallback chain
          HostCalls          \* which of the methods below the host calls

ASSUME ModelAssumption  == ClientModel \in Model /\ NoModel \notin Model
ASSUME ConfigAssumption == /\ {TripThreshold, RecoverySuccessesNeeded, MaxChain} \subseteq Nat
                           /\ MaxFailCount \in Nat \ {0}   \* with_max_fail_count keeps it so

VARIABLES breaker,   \* the BreakerState
          request,   \* the model serving the request in flight, NoModel when none is
          streak     \* served requests in a row since recovery began: no code reads it

breakerVars == <<breaker, request, streak>>

Entry   == [name : Model, available : BOOLEAN, attempts : Nat]
State   == [state : {"Primary", "Fallback", "Recovering"}, consecutive_failures : Nat,
            primary_success_count : Nat, fallback_activated : BOOLEAN,
            original : Model \cup {NoModel}, chain : Seq(Entry),
            active : Model \cup {NoModel},
            switched_at : {"None", "Recently", "LongAgo"}]   \* before recovery_timeout, after it

-----------------------------------------------------------------------------
(* The manager's methods. *)

Fresh(name) == [name |-> name, available |-> TRUE, attempts |-> 0]
Failed(e)   == ~e.available \/ e.attempts >= MaxFailCount
Usable(c)   == {i \in 1..Len(c) : ~Failed(c[i])}
FirstUsable(c) == IF Usable(c) = {} THEN NoModel
                  ELSE c[CHOOSE i \in Usable(c) : \A j \in Usable(c) : i <= j].name

\* recompute_active_fallback_impl, which ends every change of the chain.
WithChain_stale(b, c) == [b EXCEPT !.chain = c]   \* mutant: the choice is not made anew
WithChain(b, c) == [b EXCEPT !.chain = c, !.active = FirstUsable(c)]

ClearAll(b) == WithChain(b, [i \in 1..Len(b.chain) |-> [b.chain[i] EXCEPT !.attempts = 0]])

ToFallback(b) == [b EXCEPT !.state = "Fallback", !.fallback_activated = TRUE,
                           !.switched_at = "Recently", !.primary_success_count = 0,
                           !.consecutive_failures = 0]
ToRecovering(b) == [b EXCEPT !.state = "Recovering", !.primary_success_count = 0]
ToPrimary(b) ==
  ClearAll([b EXCEPT !.state = "Primary", !.switched_at = "None",
                     !.primary_success_count = 0, !.consecutive_failures = 0,
                     !.fallback_activated = FALSE])

CountFailure(b) == [b EXCEPT !.consecutive_failures = @ + 1]
TripIfDue(b)    == IF b.consecutive_failures >= TripThreshold THEN ToFallback(b) ELSE b

\* mutant: a failed probe leaves the streak of good ones standing
FailedProbe_keepsStreak(b) == TripIfDue(CountFailure(b))
FailedProbe(b) == TripIfDue(CountFailure([b EXCEPT !.primary_success_count = 0]))

RecordFailure(b, kind) ==
  CASE b.state = "Primary"  -> TripIfDue(CountFailure(b))
    [] b.state = "Fallback" -> b
    [] b.state = "Recovering" /\ kind = "RateLimit" -> ToFallback(b)
    [] b.state = "Recovering" /\ kind = "Transient" -> FailedProbe(b)

CountSuccess(b) == [b EXCEPT !.consecutive_failures = 0, !.primary_success_count = @ + 1]
RecordSuccess(b) ==
  CASE b.state = "Primary"  -> [b EXCEPT !.consecutive_failures = 0]
    [] b.state = "Fallback" -> b
    [] b.state = "Recovering" ->
         IF CountSuccess(b).primary_success_count >= RecoverySuccessesNeeded
         THEN ToPrimary(CountSuccess(b)) ELSE CountSuccess(b)

\* The methods that name an entry take the first of that name, if there is one.
Named(c, name) == {i \in 1..Len(c) : c[i].name = name}
At(c, name)    == CHOOSE i \in Named(c, name) : \A j \in Named(c, name) : i <= j
Found(b, name) == b.chain[At(b.chain, name)]
Put(b, name, e) == IF Named(b.chain, name) = {} THEN b
                   ELSE WithChain(b, [b.chain EXCEPT ![At(b.chain, name)] = e])

\* Bound: an entry's attempts are not counted further once it has failed.
CountedAttempts(n) == IF n <= MaxFailCount THEN n + 1 ELSE n
MarkFailed(b, name) == Put(b, name, [Found(b, name) EXCEPT !.attempts = CountedAttempts(@)])
ClearFailed(b, name) == Put(b, name, [Found(b, name) EXCEPT !.attempts = 0])
SetAvailable(b, name, available) == Put(b, name, [Found(b, name) EXCEPT !.available = available])

Inserted(c, k, e) == SubSeq(c, 1, k) \o <<e>> \o SubSeq(c, k + 1, Len(c))
Removed(c, k)     == SubSeq(c, 1, k - 1) \o SubSeq(c, k + 1, Len(c))

ActiveModel(b) == IF b.state = "Fallback" THEN b.active ELSE b.original
\* mutant: an exhausted chain is not a fallback to resume from
ShouldTryResumePrimary_served(b) ==
  b.state = "Fallback" /\ b.active # NoModel /\ b.switched_at = "LongAgo"
ShouldTryResumePrimary(b) == b.state = "Fallback" /\ b.switched_at = "LongAgo"

-----------------------------------------------------------------------------
(* The driver: one request after another. *)

BreakerInit ==
  /\ \E original \in {NoModel, ClientModel} :
       breaker = [state |-> "Primary", consecutive_failures |-> 0,
                  primary_success_count |-> 0, fallback_activated |-> FALSE,
                  original |-> original, chain |-> <<>>, active |-> NoModel,
                  switched_at |-> "None"]
  /\ request = NoModel /\ streak = 0

\* The head of handle_call_llm; with nothing to fall back to it is refused.
Resumed == IF ShouldTryResumePrimary(breaker) THEN ToRecovering(breaker) ELSE breaker
ChainExhausted(b) == b.state = "Fallback" /\ ActiveModel(b) = NoModel
Ask ==
  /\ request = NoModel
  /\ breaker' = Resumed
  /\ request' = CASE ChainExhausted(Resumed) -> NoModel
                  [] ~ChainExhausted(Resumed) /\ ActiveModel(Resumed) # NoModel -> ActiveModel(Resumed)
                  [] OTHER -> ClientModel
  /\ streak' = IF Resumed.state = breaker.state THEN streak ELSE 0

\* record_turn_success
Served == /\ request # NoModel /\ request' = NoModel
          /\ breaker' = RecordSuccess(breaker)
          /\ streak' = IF breaker.state = "Recovering" /\ breaker'.state = "Recovering"
                       THEN streak + 1 ELSE 0

\* record_turn_failure: whether a fallback served is read before the failure
\* is recorded, which may trip the breaker.
Blame_afterwards(b, c) == c.state = "Fallback"   \* mutant: read after it
Blame(b, c) == b.state = "Fallback"
NotServed ==
  /\ request # NoModel /\ request' = NoModel /\ streak' = 0
  /\ \E kind \in {"Transient", "RateLimit"} :
       LET c == RecordFailure(breaker, kind) IN
       breaker' = IF Blame(breaker, c) /\ c.active # NoModel THEN MarkFailed(c, c.active) ELSE c

Cancelled == request # NoModel /\ request' = NoModel /\ UNCHANGED <<breaker, streak>>

Cooldown == /\ breaker.switched_at = "Recently"
            /\ breaker' = [breaker EXCEPT !.switched_at = "LongAgo"]
            /\ UNCHANGED <<request, streak>>

-----------------------------------------------------------------------------
(* The host, which has the manager to itself only while no request is out. *)

HostActs(call) == call \in HostCalls /\ request = NoModel /\ UNCHANGED <<request, streak>>
Room == Len(breaker.chain) < MaxChain

SetOriginal == HostActs("original") /\ \E m \in Model :
                 breaker' = [breaker EXCEPT !.original = m]

\* set_fallback_model, set_fallback_models
SetChain == HostActs("chain") /\ \E n \in 0..MaxChain : \E names \in [1..n -> Model] :
              breaker' = WithChain(breaker, [i \in 1..n |-> Fresh(names[i])])

\* add_fallback_model, insert_fallback_model
Insert == /\ HostActs("chain") /\ Room
          /\ \E m \in Model, k \in 0..Len(breaker.chain) :
               breaker' = WithChain(breaker, Inserted(breaker.chain, k, Fresh(m)))
Remove == /\ HostActs("chain")
          /\ \E m \in Model : /\ Named(breaker.chain, m) # {}
                              /\ breaker' = WithChain(breaker, Removed(breaker.chain, At(breaker.chain, m)))

\* mark_fallback_failed, clear_fallback_failed, clear_all_fallback_failed and
\* set_fallback_available
Judge == /\ HostActs("judge")
         /\ \/ breaker' = ClearAll(breaker)
            \/ \E m \in Model : breaker' \in {MarkFailed(breaker, m), ClearFailed(breaker, m),
                                              SetAvailable(breaker, m, TRUE),
                                              SetAvailable(breaker, m, FALSE)}

\* transition_to_fallback, transition_to_recovering, transition_to_primary, reset
Transition ==
  /\ "force" \in HostCalls /\ request = NoModel /\ UNCHANGED request /\ streak' = 0
  /\ breaker' \in {ToFallback(breaker), ToRecovering(breaker), ToPrimary(breaker)}
\* reset_failure_counter
Forgive == HostActs("force") /\ breaker' = [breaker EXCEPT !.consecutive_failures = 0]

Driver == Ask \/ Served \/ NotServed \/ Cancelled
Host   == SetOriginal \/ SetChain \/ Insert \/ Remove \/ Judge \/ Transition \/ Forgive
BreakerNext == Driver \/ Cooldown \/ Host

BreakerSpec == BreakerInit /\ [][BreakerNext]_breakerVars
\* The clock runs, and a loop that is kept in use keeps asking.
FairBreakerSpec == /\ BreakerSpec /\ WF_breakerVars(Cooldown) /\ WF_breakerVars(Ask)
                   /\ WF_breakerVars(Served \/ NotServed)

-----------------------------------------------------------------------------
(* Properties. *)

BreakerTypeOK == breaker \in State /\ request \in Model \cup {NoModel} /\ streak \in Nat

\* Requests fall back to the first model of the chain that has not failed, after
\* whatever edits, failures and recoveries.
ActiveIsFirstUsable == breaker.active = FirstUsable(breaker.chain)

AtLeastOne(n) == IF n = 0 THEN 1 ELSE n
CountsBelow(b) ==
  /\ b.state # "Fallback" => b.consecutive_failures < AtLeastOne(TripThreshold)
  /\ b.state = "Recovering" => b.primary_success_count < AtLeastOne(RecoverySuccessesNeeded)

\* A breaker that has seen the failures that trip it has tripped, and one that
\* has seen the successes that close it has closed.
CountsStayBelow == CountsBelow(breaker)

\* A fallback model is charged with the failures of the requests it served, not
\* with the failure of the primary that brought it in.
OnlyTheServerIsBlamed ==
  [][request # NoModel =>
       \A i \in 1..Len(breaker.chain) :
         breaker'.chain[i].attempts > breaker.chain[i].attempts => breaker.chain[i].name = request]_breakerVars

\* The primary is trusted again after that many good probes in a row.
ClosesAfterAStreak ==
  [][request # NoModel /\ breaker.state = "Recovering" /\ breaker'.state = "Primary"
     => streak + 1 >= RecoverySuccessesNeeded]_breakerVars

\* Whatever became of the fallback models, the primary is tried again, unless the
\* host goes on overriding the breaker.
PrimaryIsProbed ==
  <>[][~Transition]_breakerVars => (breaker.state = "Fallback" ~> breaker.state # "Fallback")
=============================================================================
