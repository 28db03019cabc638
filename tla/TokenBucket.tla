---------------------------- MODULE TokenBucket -----------------------------
(***************************************************************************)
(* The token bucket of src/stream/rate_limit.rs and the gate that waits on *)
(* it before each attempt of a streamed turn (gate_on_rate_limit), for     *)
(* turns that share a provider.  Time is counted in ticks and tokens in    *)
(* parts, so that one part refills each tick; a poisoned lock is left out. *)
(***************************************************************************)
EXTENDS Integers

CONSTANTS Turn,       \* the turns that share the bucket
          Capacity,   \* of the bucket, in tokens
          Parts,      \* of a token
          MaxWait,    \* rate_limit_max_wait
          Deadlines,  \* the instants at which turns may end
          MaxNow      \* bound: the last instant looked at

ASSUME BucketAssumption == /\ Capacity \in Nat \ {0} /\ Parts \in Nat \ {0}
                           /\ MaxWait \in Nat /\ MaxNow \in Nat /\ Deadlines \subseteq Nat

VARIABLES
  now,
  tokens, lastRefill,  \* BucketState
  issued,              \* the tokens that went out so far
  before,              \* and what that was at the start of each instant
  gate                 \* where each turn is with its gate

bucketVars == <<now, tokens, lastRefill, issued, before, gate>>

Full == Capacity * Parts
Gate == [at : {"off", "asks", "takes", "sleeps"}, read : Nat, waited : Nat,
         until : Nat, deadline : Nat]
Off  == [at |-> "off", read |-> 0, waited |-> 0, until |-> 0, deadline |-> 0]

Enter(t, d) ==
  /\ gate[t].at = "off"
  /\ gate' = [gate EXCEPT ![t] = [Off EXCEPT !.at = "asks", !.deadline = d]]
  /\ UNCHANGED <<now, tokens, lastRefill, issued, before>>

\* take(): the clock is read before the bucket is locked
ReadClock(t) ==
  /\ gate[t].at = "asks" /\ gate' = [gate EXCEPT ![t].at = "takes", ![t].read = now]
  /\ UNCHANGED <<now, tokens, lastRefill, issued, before>>

\* elapsed_refill: when the bucket fills before the instant given, the refill
\* is only credited up to the moment it was full.
Elapsed_signed(at) == IF at > lastRefill THEN at - lastRefill ELSE lastRefill - at  \* mutant
Elapsed(at) == IF at > lastRefill THEN at - lastRefill ELSE 0
Refilled(at) == IF tokens + Elapsed(at) >= Full THEN Full ELSE tokens + Elapsed(at)
Credited(at) == IF Elapsed(at) = 0 THEN lastRefill
                ELSE lastRefill + (Refilled(at) - tokens)

Least(a, b) == IF a < b THEN a ELSE b

\* The gate gives up waiting, and lets the attempt go, at its own limit or at
\* the deadline of the turn.
Pause(t, lacking) ==
  Least(lacking, Least(MaxWait - gate[t].waited,
                       IF gate[t].deadline > now THEN gate[t].deadline - now ELSE 0))

Sleeping(t, pause) == [gate[t] EXCEPT !.at = "sleeps", !.until = now + pause, !.waited = @ + pause]

Take(t) ==
  LET at   == gate[t].read
      have == Refilled(at) IN
  /\ gate[t].at = "takes" /\ lastRefill' = Credited(at)
  /\ IF have >= Parts
     THEN /\ tokens' = have - Parts /\ issued' = issued + 1
          /\ gate' = [gate EXCEPT ![t] = Off]
     ELSE /\ tokens' = have /\ UNCHANGED issued
          /\ gate' = [gate EXCEPT ![t] =
                        IF Pause(t, Parts - have) = 0 THEN Off
                        ELSE Sleeping(t, Pause(t, Parts - have))]
  /\ UNCHANGED <<now, before>>

Wake(t) == /\ gate[t].at = "sleeps" /\ now >= gate[t].until
           /\ gate' = [gate EXCEPT ![t].at = "asks"]
           /\ UNCHANGED <<now, tokens, lastRefill, issued, before>>

CancelGate(t) == /\ gate[t].at = "sleeps" /\ gate' = [gate EXCEPT ![t] = Off]
                 /\ UNCHANGED <<now, tokens, lastRefill, issued, before>>

TimePasses == /\ now < MaxNow /\ now' = now + 1
              /\ before' = [before EXCEPT ![now + 1] = issued]
              /\ UNCHANGED <<tokens, lastRefill, issued, gate>>

BucketInit == /\ now = 0 /\ tokens = Full /\ lastRefill = 0
              /\ issued = 0 /\ before = [i \in 0..MaxNow |-> 0]
              /\ gate = [t \in Turn |-> Off]

BucketNext == \/ \E t \in Turn : \/ \E d \in Deadlines : Enter(t, d)
                                 \/ ReadClock(t) \/ Take(t) \/ Wake(t) \/ CancelGate(t)
              \/ TimePasses

BucketSpec == BucketInit /\ [][BucketNext]_bucketVars

-----------------------------------------------------------------------------

BucketTypeOK ==
  /\ now \in 0..MaxNow /\ tokens \in 0..Full /\ lastRefill \in 0..now
  /\ issued \in Nat /\ before \in [0..MaxNow -> Nat] /\ gate \in [Turn -> Gate]

\* Since the bucket was made no more tokens went out than it held at first and
\* than time refilled, whatever instants the takers had read; and no gate
\* waits longer than it may, or past the deadline of its turn.
PacedInTotal ==
  /\ issued * Parts <= Full + now
  /\ \A t \in Turn : /\ gate[t].waited <= MaxWait
                     /\ gate[t].at = "sleeps" => gate[t].until <= gate[t].deadline

\* "Capacity = max burst size": from any instant on, no more than the capacity
\* and what is refilled since.
BurstIsCapacity ==
  \A i \in 0..now : (issued - before[i]) * Parts <= Full + (now - i)
=============================================================================
