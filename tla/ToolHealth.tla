----------------------------- MODULE ToolHealth -----------------------------
(***************************************************************************)
(* The circuit breaker of one tool (ToolCircuitBreaker in                  *)
(* src/tool/health.rs).  Every method holds the breaker's mutex and is an  *)
(* operator on its record.  Time is what the code asks of it: whether the  *)
(* lease of a probe has ended, and whether the recovery period has passed  *)
(* since the last failure or, for a probe given up on, since its lease     *)
(* ended.                                                                  *)
(***************************************************************************)
EXTENDS Integers

CONSTANTS FailureThreshold,   \* 0: the breaker never opens
          Leased              \* FALSE: a probe_timeout of 0, leases do not end

ASSUME ThresholdAssumption == FailureThreshold \in Nat
ASSUME LeasedAssumption    == Leased \in BOOLEAN

Circuits == {"Closed", "Open", "HalfOpen"}
Health   == [circuit : Circuits, failures : 0..FailureThreshold,
             probe : {"None", "Running", "Expired"}, recovered : BOOLEAN]

Healthy == [circuit |-> "Closed", failures |-> 0, probe |-> "None", recovered |-> FALSE]

ProbeExpired(b) == b.probe = "Expired"

\* grant_probe, and the probe that is given up on: recovery runs from its end.
Granted(b)  == [b EXCEPT !.circuit = "HalfOpen", !.probe = "Running", !.recovered = FALSE]
Rearmed(b)  == [b EXCEPT !.circuit = "Open", !.probe = "None"]

\* allow_request: whether it allows, and what becomes of the breaker.
Recoverable_never(b) == b.circuit = "Open"   \* mutant: a stranded probe is waited for
Recoverable(b) == b.circuit = "Open" \/ (b.circuit = "HalfOpen" /\ ProbeExpired(b))
Allows(b) == b.circuit = "Closed" \/ (Recoverable(b) /\ b.recovered)
AfterRequest(b) ==
  CASE Recoverable(b) /\ b.recovered  -> Granted(b)
    [] Recoverable(b) /\ ~b.recovered -> Rearmed(b)
    [] OTHER -> b

\* would_allow_request, the same decision without taking the slot.
WouldAllow(b) ==
  CASE b.circuit = "Closed"   -> TRUE
    [] b.circuit = "Open"     -> b.recovered
    [] b.circuit = "HalfOpen" -> ProbeExpired(b) /\ b.recovered

Succeeded(b) ==
  CASE b.circuit = "HalfOpen" /\ ProbeExpired(b) -> Rearmed(b)
    [] b.circuit = "Open" -> b
    [] OTHER -> [b EXCEPT !.failures = 0, !.probe = "None", !.circuit = "Closed",
                          !.recovered = FALSE]

\* Bound: failures are counted up to the threshold they are compared with.
Counted(n) == IF n < FailureThreshold THEN n + 1 ELSE n
Trips(b)   == FailureThreshold > 0 /\ b.failures >= FailureThreshold
Failed(b) ==
  LET c == [b EXCEPT !.failures = Counted(@), !.recovered = FALSE, !.probe = "None"] IN
  IF c.circuit = "HalfOpen" \/ (c.circuit = "Closed" /\ Trips(c))
  THEN [c EXCEPT !.circuit = "Open"] ELSE c

Recorded(b, ok) == IF ok THEN Succeeded(b) ELSE Failed(b)

\* The clock.  The recovery period is only looked at where it matters.
LeaseEnds(b) == [b EXCEPT !.probe = "Expired"]
Recovers(b)  == [b EXCEPT !.recovered = TRUE]
LeaseRuns(b) == Leased /\ b.probe = "Running"
Cooling(b)   == ~b.recovered /\ Recoverable(b)
=============================================================================
