------------------------------ MODULE ToolPlan ------------------------------
(***************************************************************************)
(* How a batch of tool calls is cut into waves (ToolDependencyGraph in     *)
(* src/engine/bare/dispatch.rs).  The calls of a wave run together, the    *)
(* waves one after another.  The planner is a loop over the calls; here it *)
(* places one call a step, so that what the loop maintains can be stated.  *)
(***************************************************************************)
EXTENDS Integers, Sequences, FiniteSets

CONSTANTS Tool,       \* names a model may call
          Registered, \* those the registry knows
          Key,        \* resources a call may declare that it touches
          NoKey,      \* it declares none
          Requests,   \* the calls a model may make
          Batches     \* bound: the batches that are planned

ASSUME RegisteredAssumption == Registered \subseteq Tool
ASSUME KeyAssumption        == NoKey \notin Key
ASSUME RequestsAssumption   ==
  Requests \subseteq [tool : Tool, safe : BOOLEAN, key : Key \cup {NoKey}]

ASSUME BatchesAssumption == Batches \subseteq Seq(Requests)

VARIABLES calls,   \* the batch
          waves,   \* the plan so far
          placed   \* how many calls it holds

Wave == [members : SUBSET Nat, keys : SUBSET Key, open : BOOLEAN]

\* from_calls: an unknown tool runs with nothing else; a key is asked only of
\* calls that may run with others.
Parallelizable(c) == c.tool \in Registered /\ c.safe
ResourceKey(c)    == IF Parallelizable(c) THEN c.key ELSE NoKey
KeysOf(c)         == {ResourceKey(c)} \ {NoKey}

NewWave(i, c) == [members |-> {i}, keys |-> KeysOf(c), open |-> Parallelizable(c)]
Joined(w, i, c) == [w EXCEPT !.members = @ \cup {i}, !.keys = @ \cup KeysOf(c)]

Joinable(ws, c)     == {w \in 1..Len(ws) : ws[w].open /\ ResourceKey(c) \notin ws[w].keys}
Chosen_last(is)     == CHOOSE i \in is : \A j \in is : j <= i   \* mutant: the latest wave
Chosen(is)          == CHOOSE i \in is : \A j \in is : i <= j

\* One round of the loop in plan.
Placing(ws, i, c) ==
  IF Parallelizable(c) /\ Joinable(ws, c) # {}
  THEN [ws EXCEPT ![Chosen(Joinable(ws, c))] = Joined(@, i, c)]
  ELSE Append(ws, NewWave(i, c))

PlaceNext == /\ placed < Len(calls) /\ placed' = placed + 1
             /\ waves' = Placing(waves, placed + 1, calls[placed + 1])
             /\ UNCHANGED calls

\* One at a time, in the order of the batch: sequential dispatch.
OneByOne(cs) == [i \in 1..Len(cs) |-> NewWave(i, cs[i])]

PlanInit == calls \in Batches /\ waves = <<>> /\ placed = 0
PlanSpec == PlanInit /\ [][PlaceNext]_<<calls, waves, placed>>

-----------------------------------------------------------------------------
(* Properties of a plan. *)

PlanTypeOK == /\ calls \in Seq(Requests) /\ waves \in Seq(Wave)
              /\ placed \in 0..Len(calls)

WavesOf(i) == {w \in 1..Len(waves) : i \in waves[w].members}

\* Every call that was placed is in exactly one wave, and no wave is idle: each
\* call is dispatched once, each has an answer.
PlanIsPartition ==
  /\ \A w \in 1..Len(waves) : waves[w].members # {} /\ waves[w].members \subseteq 1..placed
  /\ \A i \in 1..placed : \E w \in WavesOf(i) : WavesOf(i) = {w}

Clash(c, d) == \/ ~Parallelizable(c) \/ ~Parallelizable(d)
               \/ ResourceKey(c) = ResourceKey(d) /\ ResourceKey(c) # NoKey

\* Calls of one wave do not conflict.
WavesAreSafe ==
  \A w \in 1..Len(waves) : \A i, j \in waves[w].members : i # j => ~Clash(calls[i], calls[j])

\* Calls on one resource, and calls that run alone, keep the model's order among
\* themselves.  (A call that runs alone may be overtaken by one that does not.)
Ordered(c, d) == \/ ~Parallelizable(c) /\ ~Parallelizable(d)
                 \/ ResourceKey(c) = ResourceKey(d) /\ ResourceKey(c) # NoKey
ConflictsKeepOrder ==
  \A i, j \in 1..placed : i < j /\ Ordered(calls[i], calls[j]) =>
    \A v \in WavesOf(i), w \in WavesOf(j) : v < w
=============================================================================
