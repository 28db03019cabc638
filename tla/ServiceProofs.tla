---------------------------- MODULE ServiceProofs ----------------------------
(***************************************************************************)
(* Invariants of the services a run leans on: the token bucket, the budget *)
(* gate, the approval channel, the ledger's writers and the cache of tool  *)
(* results.  Each part is about the specification of one of them.          *)
(***************************************************************************)
EXTENDS TokenBucket, Budget, Approval, Memoize, LedgerSink,
        FiniteSetTheorems, TLAPS

-----------------------------------------------------------------------------
(* The bucket: what went out and what is in it make up what it was made with *)
(* and what was refilled since.                                              *)

Conserved == issued * Parts + tokens = Full + lastRefill

GateSound(g) == /\ g \in Gate /\ g.read <= now /\ g.waited <= MaxWait
                /\ g.at = "sleeps" => g.until <= g.deadline

BucketInv ==
  /\ now \in Nat /\ tokens \in Nat /\ tokens <= Full /\ issued \in Nat
  /\ lastRefill \in Nat /\ lastRefill <= now
  /\ Conserved
  /\ gate \in [Turn -> Gate] /\ \A t \in Turn : GateSound(gate[t])

LEMMA FullIsNat == Full \in Nat
  BY BucketAssumption DEF Full

\* A refill never overfills the bucket, credits what it adds, and credits no
\* time that has not passed.
LEMMA RefillsSound ==
  ASSUME BucketInv, NEW at \in Nat, at <= now
  PROVE  /\ Refilled(at) \in Nat /\ tokens <= Refilled(at) /\ Refilled(at) <= Full
         /\ Credited(at) \in Nat /\ Credited(at) <= now
         /\ Credited(at) - Refilled(at) = lastRefill - tokens
<1>1. Full \in Nat
  BY FullIsNat
<1>2. /\ now \in Nat /\ tokens \in Nat /\ tokens <= Full
      /\ lastRefill \in Nat /\ lastRefill <= now
  BY DEF BucketInv
<1>3. QED
  BY <1>1, <1>2 DEF Refilled, Credited, Elapsed

\* A pause keeps to the limit of waiting and to the turn's deadline.
LEMMA PausesSound ==
  ASSUME BucketInv, NEW t \in Turn, NEW lacking \in Nat
  PROVE  /\ Pause(t, lacking) \in Nat
         /\ gate[t].waited + Pause(t, lacking) <= MaxWait
         /\ Pause(t, lacking) # 0 => now + Pause(t, lacking) <= gate[t].deadline
<1>1. /\ now \in Nat /\ gate[t].waited \in Nat /\ gate[t].deadline \in Nat
      /\ gate[t].waited <= MaxWait /\ MaxWait \in Nat
  BY BucketAssumption DEF BucketInv, GateSound, Gate
<1>2. QED
  BY <1>1 DEF Pause, Least

\* A step of one gate that leaves time and bucket alone.
LEMMA GateMoves ==
  ASSUME BucketInv, NEW t \in Turn, NEW g, GateSound(g), gate' = [gate EXCEPT ![t] = g],
         UNCHANGED <<now, tokens, lastRefill, issued>>
  PROVE  BucketInv'
<1>1. \A u \in Turn : gate'[u] = IF u = t THEN g ELSE gate[u]
  BY DEF BucketInv
<1>2. g \in Gate
  BY DEF GateSound
<1>3. gate' \in [Turn -> Gate]
  BY <1>2 DEF BucketInv
<1>4. \A u \in Turn : GateSound(gate[u])'
  BY <1>1 DEF BucketInv, GateSound
<1>5. QED
  BY <1>3, <1>4 DEF BucketInv, Conserved

LEMMA TakeSound == ASSUME BucketInv, NEW t \in Turn, Take(t) PROVE BucketInv'
<1> DEFINE at   == gate[t].read
           have == Refilled(at)
           p    == Pause(t, Parts - have)
           rests == Sleeping(t, p)
<1>1. gate[t] \in Gate /\ at \in Nat /\ at <= now
  BY DEF BucketInv, GateSound, Gate
<1>2. /\ have \in Nat /\ have <= Full /\ lastRefill' = Credited(at)
      /\ Credited(at) \in Nat /\ Credited(at) <= now
      /\ Credited(at) - have = lastRefill - tokens
  BY <1>1, RefillsSound DEF Take
<1>3. Full \in Nat /\ Parts \in Nat
  BY FullIsNat, BucketAssumption
<1>4. GateSound(Off)
  BY BucketAssumption DEF GateSound, Off, Gate, BucketInv
<1>5. CASE have >= Parts
  <2>1. tokens' = have - Parts /\ issued' = issued + 1 /\ gate' = [gate EXCEPT ![t] = Off] /\ now' = now
    BY <1>5 DEF Take
  <2>2. (issued + 1) * Parts = issued * Parts + Parts /\ issued * Parts \in Nat
    BY <1>3 DEF BucketInv
  <2>3. issued' * Parts + tokens' = Full + lastRefill'
    <3> DEFINE sold == issued * Parts
    <3>1. sold \in Nat /\ sold + tokens = Full + lastRefill /\ tokens \in Nat /\ lastRefill \in Nat
      BY <2>2 DEF BucketInv, Conserved
    <3>2. issued' * Parts = sold + Parts
      BY <2>1, <2>2
    <3> HIDE DEF sold, have, at
    <3>3. QED
      BY <1>2, <1>3, <2>1, <3>1, <3>2
  <2>4. gate' \in [Turn -> Gate] /\ \A u \in Turn : GateSound(gate[u])'
    BY <1>4, <2>1 DEF BucketInv, GateSound
  <2>5. tokens' \in Nat /\ tokens' <= Full /\ issued' \in Nat
    BY <1>2, <1>3, <1>5, <2>1 DEF BucketInv
  <2>6. Full' = Full
    BY DEF Full
  <2>7. QED
    BY <1>2, <2>1, <2>3, <2>4, <2>5, <2>6 DEF BucketInv, Conserved
<1>6. CASE ~(have >= Parts)
  <2>1. /\ tokens' = have /\ issued' = issued /\ now' = now
        /\ gate' = [gate EXCEPT ![t] = IF p = 0 THEN Off ELSE rests]
    BY <1>6 DEF Take
  <2>2. Parts - have \in Nat
    BY <1>2, <1>3, <1>6
  <2>3. p \in Nat /\ gate[t].waited + p <= MaxWait /\ (p # 0 => now + p <= gate[t].deadline)
    BY <2>2, PausesSound
  <2>4. p # 0 => GateSound(rests)
    <3> HIDE DEF p
    <3>1. now \in Nat /\ gate[t].waited \in Nat
      BY <1>1 DEF BucketInv, Gate
    <3>2. now + p \in Nat /\ gate[t].waited + p \in Nat
      BY <2>3, <3>1
    <3>3. rests \in Gate
      BY <1>1, <3>2 DEF Gate, Sleeping
    <3>4. /\ rests.read = at /\ rests.waited = gate[t].waited + p /\ rests.until = now + p
          /\ rests.deadline = gate[t].deadline
      BY <1>1 DEF Gate, Sleeping
    <3>5. QED
      BY <1>1, <2>3, <3>3, <3>4 DEF GateSound
  <2> HIDE DEF rests, p, have, at
  <2>5. gate' \in [Turn -> Gate] /\ \A u \in Turn : GateSound(gate[u])'
    BY <1>4, <2>1, <2>4 DEF BucketInv, GateSound
  <2>6. issued * Parts + have = Full + Credited(at)
    <3>1. issued * Parts \in Nat /\ tokens \in Nat /\ lastRefill \in Nat
      BY <1>3 DEF BucketInv
    <3>2. QED
      BY <1>2, <1>3, <3>1 DEF BucketInv, Conserved
  <2>7. Full' = Full
    BY DEF Full
  <2>8. QED
    BY <1>2, <2>1, <2>5, <2>6, <2>7 DEF BucketInv, Conserved
<1>7. QED
  BY <1>5, <1>6

THEOREM BucketInvariant == BucketSpec => []BucketInv
<1>1. BucketInit => BucketInv
  <2> SUFFICES ASSUME BucketInit PROVE BucketInv
    OBVIOUS
  <2>1. Full \in Nat /\ issued * Parts = 0
    BY FullIsNat, BucketAssumption DEF BucketInit
  <2>2. GateSound(Off)
    BY BucketAssumption DEF GateSound, Off, Gate, BucketInit
  <2>3. gate \in [Turn -> Gate] /\ \A t \in Turn : gate[t] = Off
    BY <2>2 DEF BucketInit, GateSound
  <2>4. QED
    BY <2>1, <2>2, <2>3 DEF BucketInit, BucketInv, Conserved
<1>2. BucketInv /\ [BucketNext]_bucketVars => BucketInv'
  <2> SUFFICES ASSUME BucketInv, [BucketNext]_bucketVars PROVE BucketInv'
    OBVIOUS
  <2>1. ASSUME NEW t \in Turn, NEW d \in Deadlines, Enter(t, d) PROVE BucketInv'
    <3> DEFINE g == [Off EXCEPT !.at = "asks", !.deadline = d]
    <3>1. d \in Nat /\ MaxWait \in Nat /\ now \in Nat
      BY BucketAssumption DEF BucketInv
    <3>2. Off \in Gate /\ Off.read = 0 /\ Off.waited = 0
      BY DEF Off, Gate
    <3>3. g \in Gate /\ g.at = "asks" /\ g.read = 0 /\ g.waited = 0
      BY <3>1, <3>2 DEF Gate
    <3> HIDE DEF g
    <3>4. GateSound(g)
      BY <3>1, <3>3 DEF GateSound
    <3>5. gate' = [gate EXCEPT ![t] = g] /\ UNCHANGED <<now, tokens, lastRefill, issued>>
      BY <2>1 DEF Enter, g
    <3>6. QED
      BY <3>4, <3>5, GateMoves
  <2>2. ASSUME NEW t \in Turn, ReadClock(t) PROVE BucketInv'
    <3>1. gate[t] \in Gate /\ GateSound(gate[t])
      BY DEF BucketInv
    <3> DEFINE g == [gate[t] EXCEPT !.at = "takes", !.read = now]
    <3>2. /\ g \in Gate /\ g.read = now /\ g.waited = gate[t].waited /\ g.at = "takes"
          /\ gate' = [gate EXCEPT ![t] = g]
      BY <2>2, <3>1 DEF Gate, BucketInv, ReadClock
    <3> HIDE DEF g
    <3>3. GateSound(g)
      BY <3>1, <3>2 DEF GateSound, BucketInv
    <3>4. QED
      BY <2>2, <3>2, <3>3, GateMoves DEF ReadClock
  <2>3. ASSUME NEW t \in Turn, Wake(t) PROVE BucketInv'
    <3>1. gate[t] \in Gate /\ GateSound(gate[t])
      BY DEF BucketInv
    <3>2. GateSound([gate[t] EXCEPT !.at = "asks"])
      BY <3>1 DEF GateSound, Gate
    <3>3. gate' = [gate EXCEPT ![t] = [gate[t] EXCEPT !.at = "asks"]]
      BY <2>3 DEF Wake
    <3>4. QED
      BY <2>3, <3>2, <3>3, GateMoves DEF Wake
  <2>4. ASSUME NEW t \in Turn, CancelGate(t) PROVE BucketInv'
    <3>1. GateSound(Off)
      BY BucketAssumption DEF GateSound, Off, Gate, BucketInv
    <3>2. QED
      BY <2>4, <3>1, GateMoves DEF CancelGate
  <2>5. ASSUME TimePasses PROVE BucketInv'
    <3>1. now' = now + 1 /\ UNCHANGED <<tokens, lastRefill, issued, gate>>
      BY <2>5 DEF TimePasses
    <3>2. \A t \in Turn : GateSound(gate[t])'
      BY <3>1 DEF BucketInv, GateSound, Gate
    <3>3. QED
      BY <3>1, <3>2 DEF BucketInv, Conserved, Full
  <2>6. ASSUME UNCHANGED bucketVars PROVE BucketInv'
    BY <2>6 DEF bucketVars, BucketInv, Conserved, GateSound, Full
  <2>7. QED
    BY <2>1, <2>2, <2>3, <2>4, <2>5, <2>6, TakeSound DEF BucketNext
<1>3. QED
  BY <1>1, <1>2, PTL DEF BucketSpec

\* Whatever instants the takers had read, in whatever order they took: over the
\* whole time no more goes out than the capacity and what time refilled, and
\* no gate outwaits its limit or its turn.
THEOREM AlwaysPaced == BucketSpec => []PacedInTotal
<1>1. BucketInv => PacedInTotal
  <2> SUFFICES ASSUME BucketInv PROVE PacedInTotal
    OBVIOUS
  <2>1. Full \in Nat /\ issued * Parts \in Nat
    BY FullIsNat, BucketAssumption DEF BucketInv
  <2>2. issued * Parts <= Full + now
    BY <2>1 DEF BucketInv, Conserved
  <2>3. QED
    BY <2>2 DEF BucketInv, GateSound, PacedInTotal
<1>2. QED
  BY BucketInvariant, <1>1, PTL

-----------------------------------------------------------------------------
(* The budget: below its limits while a request is out, so that one answer is *)
(* all a run may spend beyond them.                                          *)

BudgetTyped ==
  /\ limit \in [Dimension -> 0..MaxCount \cup {NoLimit}]
  /\ spent \in [Dimension -> Nat] /\ \A d \in Dimension \ {"clock"} : spent[d] <= MaxCount
  /\ warned \subseteq Dimension
  /\ warns = [d \in Dimension |-> IF d \in warned THEN 1 ELSE 0]

\* What a request that is out or answered has found, and no later step undoes.
Below(d) == d \in Limited => spent[d] < limit[d]
BudgetInv ==
  /\ BudgetTyped
  /\ warned \subseteq Approached
  /\ refusal # "none" => request = "over"
  /\ request = "out" \/ refusal # "none" => Approached \ {"clock"} \subseteq warned
  /\ request = "out" => Below("tokens") /\ Below("usd")
  /\ request \in {"out", "answered"} => Below("turns")
  /\ OverrunIsOneAnswer

\* Spending more leaves a run past every soft line it had passed.
LEMMA LinesStayPassed ==
  ASSUME BudgetTyped, limit' = limit, spent' \in [Dimension -> Nat],
         \A d \in Dimension : spent[d] <= spent'[d]
  PROVE  Approached \subseteq Approached' /\ Limited' = Limited
<1>1. Limited' = Limited
  BY DEF Limited
<1>2. ASSUME NEW d \in Limited, NEW l \in Int, spent[d] >= l PROVE spent'[d] >= l
  <2>1. d \in Dimension
    BY DEF Limited
  <2>2. spent[d] \in Nat /\ spent'[d] \in Nat /\ spent[d] <= spent'[d]
    BY <2>1 DEF BudgetTyped
  <2>3. QED
    BY <1>2, <2>2
<1>3. ASSUME NEW d \in Limited PROVE limit[d] \in Int /\ Soft(limit[d]) \in Int
  <2>1. SoftPart \in Nat /\ MaxCount \in Nat
    BY BudgetAssumption
  <2>2. d \in Dimension /\ limit[d] # NoLimit
    BY DEF Limited
  <2>3. limit \in [Dimension -> (0..MaxCount) \cup {NoLimit}]
    BY DEF BudgetTyped
  <2>4. limit[d] \in 0..MaxCount
    BY <2>2, <2>3
  <2>5. limit[d] \in Int /\ limit[d] * SoftPart \in Int
    BY <2>1, <2>4
  <2>6. (limit[d] * SoftPart) \div 10000 \in Int
    BY <2>5
  <2>7. QED
    BY <2>5, <2>6 DEF Soft
<1>4. Crossed \subseteq Crossed'
  <2>1. ASSUME NEW d \in Crossed PROVE d \in Crossed'
    <3>1. d \in Limited /\ spent[d] >= limit[d]
      BY DEF Crossed
    <3>2. spent'[d] >= limit[d]
      BY <3>1, <1>2, <1>3
    <3>3. QED
      BY <1>1, <3>1, <3>2 DEF Crossed
  <2>2. QED
    BY <2>1
<1>5. ASSUME NEW d \in Limited, spent[d] >= Soft(limit[d]) PROVE spent'[d] >= Soft(limit'[d])
  <2>1. spent'[d] >= Soft(limit[d])
    BY <1>2, <1>3, <1>5
  <2>2. QED
    BY <2>1
<1>6. QED
  BY <1>1, <1>4, <1>5 DEF Approached

\* A saturating sum, at least as large as what it was.
LEMMA PlusSound ==
  ASSUME NEW x \in Nat, NEW y \in Nat, x <= MaxCount
  PROVE  /\ Plus(x, y) \in Nat /\ x <= Plus(x, y) /\ Plus(x, y) <= MaxCount
         /\ Plus(x, y) <= x + y
  BY BudgetAssumption DEF Plus

LEMMA BudgetBegins == ASSUME BudgetInv, Begin PROVE BudgetInv'
<1>1. /\ spent' = Nothing /\ warned' = {} /\ warns' = Nothing /\ request' = "due"
      /\ refusal' = "none" /\ limit' = limit
  BY DEF Begin, Begun
<1>2. MaxCount \in Nat
  BY BudgetAssumption
<1>3. BudgetTyped'
  BY <1>1, <1>2 DEF BudgetInv, BudgetTyped, Nothing
<1>4. \A d \in Limited' : spent'[d] = 0 /\ limit'[d] \in Nat
  BY <1>1, <1>2 DEF Limited, Nothing, BudgetInv, BudgetTyped
<1>5. OverrunIsOneAnswer'
  <2>1. ASSUME NEW d \in Crossed' PROVE limit'[d] = spent'[d]
    <3>1. d \in Limited' /\ spent'[d] >= limit'[d]
      BY DEF Crossed
    <3>2. QED
      BY <3>1, <1>4
  <2>2. "turns" \in Limited' => spent'["turns"] <= limit'["turns"]
    BY <1>4
  <2>3. QED
    BY <2>1, <2>2 DEF OverrunIsOneAnswer
<1>6. QED
  BY <1>1, <1>3, <1>5 DEF BudgetInv

\* Time only brings soft lines nearer.
LEMMA BudgetTicks == ASSUME BudgetInv, Tick PROVE BudgetInv'
<1>1. /\ spent' = [spent EXCEPT !["clock"] = @ + 1]
      /\ UNCHANGED <<limit, warned, warns, request, refusal>>
  BY DEF Tick
<1>2. /\ spent' \in [Dimension -> Nat] /\ \A d \in Dimension : spent[d] <= spent'[d]
      /\ \A d \in Dimension \ {"clock"} : spent'[d] = spent[d]
  BY <1>1 DEF BudgetInv, BudgetTyped, Dimension
<1>3. BudgetTyped'
  BY <1>1, <1>2 DEF BudgetInv, BudgetTyped
<1>4. Approached \subseteq Approached' /\ Limited' = Limited
  BY <1>1, <1>2, LinesStayPassed DEF BudgetInv
<1>5. Approached' \ {"clock"} \subseteq Approached \ {"clock"}
  <2>1. ASSUME NEW d \in Approached', d # "clock" PROVE d \in Approached
    <3>1. d \in Dimension \ {"clock"} /\ d \in Limited
      BY <1>4, <2>1 DEF Approached, Crossed, Limited
    <3>2. spent'[d] = spent[d] /\ limit' = limit
      BY <1>1, <1>2, <3>1
    <3>3. QED
      BY <1>4, <2>1, <3>1, <3>2 DEF Approached, Crossed
  <2>2. QED
    BY <2>1
<1>6. \A d \in Dimension \ {"clock"} : (Below(d) => Below(d)') /\ (d \in Crossed' => d \in Crossed)
  BY <1>1, <1>2, <1>4 DEF Below, Crossed
<1>7. OverrunIsOneAnswer'
  BY <1>1, <1>2, <1>4, <1>6 DEF BudgetInv, OverrunIsOneAnswer, Dimension
<1>8. "tokens" \in Dimension \ {"clock"} /\ "usd" \in Dimension \ {"clock"} /\ "turns" \in Dimension \ {"clock"}
  BY DEF Dimension
<1>9. QED
  BY <1>1, <1>3, <1>4, <1>5, <1>6, <1>7, <1>8 DEF BudgetInv

LEMMA BudgetChecks == ASSUME BudgetInv, Check PROVE BudgetInv'
<1>1. /\ warned' = warned \cup Approached /\ UNCHANGED <<limit, spent>>
      /\ warns' = [d \in Dimension |-> IF d \in Approached \ warned THEN warns[d] + 1 ELSE warns[d]]
      /\ request = "due"
  BY DEF Check
<1>2. Limited' = Limited /\ Crossed' = Crossed /\ Approached' = Approached
  BY <1>1 DEF Limited, Crossed, Approached
<1>3. Approached \subseteq Dimension
  BY DEF Approached, Crossed, Limited
<1>4. BudgetTyped'
  <2>1. \A d \in Dimension : warns'[d] = IF d \in warned' THEN 1 ELSE 0
    BY <1>1 DEF BudgetInv, BudgetTyped
  <2>2. warns' = [d \in Dimension |-> IF d \in warned' THEN 1 ELSE 0]
    BY <1>1, <2>1
  <2>3. QED
    BY <1>1, <1>3, <2>2 DEF BudgetInv, BudgetTyped
<1>5. OverrunIsOneAnswer'
  BY <1>1, <1>2 DEF BudgetInv, OverrunIsOneAnswer
<1>6. CASE Crossed = {}
  <2>1. request' = "out" /\ refusal' = refusal /\ refusal = "none"
    BY <1>1, <1>6 DEF Check, BudgetInv
  <2>2. \A d \in Limited : spent[d] < limit[d]
    <3>1. ASSUME NEW d \in Limited PROVE limit[d] \in Int /\ spent[d] \in Int
      <4>1. d \in Dimension /\ limit[d] # NoLimit
        BY DEF Limited
      <4>2. limit \in [Dimension -> (0..MaxCount) \cup {NoLimit}] /\ spent \in [Dimension -> Nat]
        BY DEF BudgetInv, BudgetTyped
      <4>3. QED
        BY <4>1, <4>2
    <3>2. QED
      BY <1>6, <3>1 DEF Crossed
  <2>3. QED
    BY <1>1, <1>2, <1>4, <1>5, <2>1, <2>2 DEF BudgetInv, Below
<1>7. CASE Crossed # {}
  <2>1. request' = "over"
    BY <1>7 DEF Check
  <2>2. QED
    BY <1>1, <1>2, <1>4, <1>5, <2>1 DEF BudgetInv
<1>8. QED
  BY <1>6, <1>7

\* An answer is charged to a run that was below its limits.
LEMMA BudgetAnswered == ASSUME BudgetInv, NEW a \in Answers, Answered(a) PROVE BudgetInv'
<1>1. /\ request = "out" /\ request' = "answered" /\ UNCHANGED <<limit, warned, warns, refusal>>
      /\ spent' = [spent EXCEPT !["tokens"] = Plus(@, a.tokens), !["usd"] = Plus(@, a.usd)]
  BY DEF Answered
<1>2. a["tokens"] \in Nat /\ a["usd"] \in Nat
  BY BudgetAssumption
<1>3. \A d \in Dimension \ {"clock"} : spent[d] \in Nat /\ spent[d] <= MaxCount
  BY DEF BudgetInv, BudgetTyped
<1>4. /\ spent'["tokens"] = Plus(spent["tokens"], a["tokens"])
      /\ spent'["usd"] = Plus(spent["usd"], a["usd"])
      /\ spent'["turns"] = spent["turns"] /\ spent'["clock"] = spent["clock"]
      /\ DOMAIN spent' = Dimension
  BY <1>1 DEF BudgetInv, BudgetTyped, Dimension
<1>5. \A d \in {"tokens", "usd"} :
         /\ spent'[d] \in Nat /\ spent[d] <= spent'[d] /\ spent'[d] <= MaxCount
         /\ spent'[d] <= spent[d] + a[d]
  <2>1. "tokens" \in Dimension \ {"clock"} /\ "usd" \in Dimension \ {"clock"}
    BY DEF Dimension
  <2>2. ASSUME NEW d \in {"tokens", "usd"}
        PROVE  /\ spent[d] \in Nat /\ spent[d] <= MaxCount /\ a[d] \in Nat
               /\ spent'[d] = Plus(spent[d], a[d])
    BY <1>2, <1>3, <1>4, <2>1
  <2>3. ASSUME NEW d \in {"tokens", "usd"}
        PROVE  /\ Plus(spent[d], a[d]) \in Nat /\ spent[d] <= Plus(spent[d], a[d])
               /\ Plus(spent[d], a[d]) <= MaxCount /\ Plus(spent[d], a[d]) <= spent[d] + a[d]
    BY <2>2, PlusSound
  <2>4. QED
    BY <2>2, <2>3
<1>6. /\ spent' \in [Dimension -> Nat] /\ \A d \in Dimension : spent[d] <= spent'[d]
      /\ \A d \in Dimension \ {"clock"} : spent'[d] <= MaxCount
  <2>1. \A d \in Dimension : spent'[d] \in Nat /\ spent[d] <= spent'[d]
    BY <1>3, <1>4, <1>5 DEF BudgetInv, BudgetTyped, Dimension
  <2>2. \A d \in Dimension \ {"clock"} : spent'[d] <= MaxCount
    BY <1>3, <1>4, <1>5 DEF Dimension
  <2>3. spent' \in [Dimension -> Nat]
    BY <1>1, <2>1 DEF BudgetInv, BudgetTyped
  <2>4. QED
    BY <2>1, <2>2, <2>3
<1>7. BudgetTyped'
  BY <1>1, <1>6 DEF BudgetInv, BudgetTyped
<1>8. Approached \subseteq Approached' /\ Limited' = Limited
  BY <1>1, <1>6, LinesStayPassed DEF BudgetInv
<1>9. Below("turns") /\ Below("turns")' /\ refusal' = "none"
  BY <1>1, <1>4, <1>8 DEF BudgetInv, Below
<1>10. OverrunIsOneAnswer'
  <2>1. ASSUME NEW d \in {"tokens", "usd"}, d \in Crossed' PROVE spent'[d] < limit'[d] + a[d]
    <3>1. d \in Limited /\ d \in Dimension
      BY <1>8, <2>1 DEF Crossed, Limited
    <3>2. spent[d] < limit[d]
      BY <1>1, <3>1 DEF BudgetInv, Below
    <3>3. limit[d] \in Nat /\ limit' = limit
      BY <1>1, <3>1, BudgetAssumption DEF Limited, BudgetInv, BudgetTyped
    <3>4. spent[d] \in Nat /\ a[d] \in Nat
      BY <1>2, <1>3, <3>1
    <3>5. QED
      BY <1>5, <3>2, <3>3, <3>4
  <2>2. "turns" \in Limited' => spent'["turns"] <= limit'["turns"]
    BY <1>1, <1>4, <1>8 DEF BudgetInv, OverrunIsOneAnswer
  <2>3. QED
    BY <2>1, <2>2 DEF OverrunIsOneAnswer
<1>11. QED
  BY <1>1, <1>7, <1>8, <1>9, <1>10 DEF BudgetInv

LEMMA TurnsCounted == ASSUME BudgetInv, TurnEndsWell PROVE BudgetInv'
<1>1. /\ request = "answered" /\ request' \in {"due", "over"}
      /\ UNCHANGED <<limit, warned, warns, refusal>>
      /\ spent' = [spent EXCEPT !["turns"] = Plus(@, 1)]
  BY DEF TurnEndsWell
<1>2. \A d \in Dimension \ {"clock"} : spent[d] \in Nat /\ spent[d] <= MaxCount
  BY DEF BudgetInv, BudgetTyped
<1>3. /\ spent'["turns"] = Plus(spent["turns"], 1)
      /\ \A d \in Dimension \ {"turns"} : spent'[d] = spent[d]
  BY <1>1 DEF BudgetInv, BudgetTyped, Dimension
<1>4. /\ spent'["turns"] \in Nat /\ spent["turns"] <= spent'["turns"]
      /\ spent'["turns"] <= MaxCount /\ spent'["turns"] <= spent["turns"] + 1
  BY <1>2, <1>3, PlusSound DEF Dimension
<1>5. /\ spent' \in [Dimension -> Nat] /\ \A d \in Dimension : spent[d] <= spent'[d]
      /\ \A d \in Dimension \ {"clock"} : spent'[d] <= MaxCount
  <2>1. "turns" \in Dimension /\ \A d \in Dimension : spent[d] \in Nat
    BY DEF Dimension, BudgetInv, BudgetTyped
  <2>2. ASSUME NEW d \in Dimension
        PROVE  /\ spent'[d] \in Nat /\ spent[d] <= spent'[d]
               /\ d # "clock" => spent'[d] <= MaxCount
    <3>1. CASE d = "turns"
      BY <1>4, <3>1
    <3>2. CASE d # "turns"
      BY <1>2, <1>3, <2>1, <3>2
    <3>3. QED
      BY <3>1, <3>2
  <2>3. DOMAIN spent' = Dimension /\ spent' = [d \in Dimension |-> spent'[d]]
    BY <1>1 DEF BudgetInv, BudgetTyped
  <2>4. spent' \in [Dimension -> Nat]
    BY <2>2, <2>3
  <2>5. QED
    BY <2>2, <2>4
<1>6. BudgetTyped'
  BY <1>1, <1>5 DEF BudgetInv, BudgetTyped
<1>7. Approached \subseteq Approached' /\ Limited' = Limited
  BY <1>1, <1>5, LinesStayPassed DEF BudgetInv
<1>8. OverrunIsOneAnswer'
  <2>1. ASSUME "turns" \in Limited' PROVE spent'["turns"] <= limit'["turns"]
    <3>1. spent["turns"] < limit["turns"]
      BY <1>1, <1>7, <2>1 DEF BudgetInv, Below
    <3>2. limit["turns"] \in Nat /\ spent["turns"] \in Nat /\ limit' = limit
      BY <1>1, <1>2, <1>7, <2>1, BudgetAssumption DEF Limited, BudgetInv, BudgetTyped, Dimension
    <3>3. QED
      BY <1>4, <3>1, <3>2
  <2>2. \A d \in {"tokens", "usd"} : spent'[d] = spent[d] /\ (d \in Crossed' => d \in Crossed)
    BY <1>1, <1>3, <1>7 DEF Dimension, Crossed
  <2>3. QED
    BY <1>1, <2>1, <2>2 DEF BudgetInv, OverrunIsOneAnswer
<1>9. QED
  BY <1>1, <1>6, <1>7, <1>8 DEF BudgetInv

THEOREM BudgetInvariant == BudgetSpec => []BudgetInv
<1>1. BudgetInit => BudgetInv
  <2> SUFFICES ASSUME BudgetInit PROVE BudgetInv
    OBVIOUS
  <2>1. MaxCount \in Nat /\ limit \in [Dimension -> 0..MaxCount \cup {NoLimit}]
    BY BudgetAssumption DEF BudgetInit
  <2>2. BudgetTyped
    BY <2>1 DEF BudgetInit, Nothing, BudgetTyped
  <2>3. \A d \in Limited : spent[d] = 0 /\ limit[d] \in Nat
    BY <2>1 DEF BudgetInit, Nothing, Limited
  <2>4. OverrunIsOneAnswer
    BY <2>3 DEF OverrunIsOneAnswer, Crossed
  <2>5. QED
    BY <2>2, <2>4 DEF BudgetInit, BudgetInv
<1>2. BudgetInv /\ [BudgetNext]_budgetVars => BudgetInv'
  <2> SUFFICES ASSUME BudgetInv, [BudgetNext]_budgetVars PROVE BudgetInv'
    OBVIOUS
  <2>1. ASSUME UNCHANGED <<limit, spent, warned, warns, refusal>>,
               \/ request' = request
               \/ request' = "due" /\ request \in {"out", "answered"}
               \/ request' = "over"
        PROVE  BudgetInv'
    <3>1. Limited' = Limited /\ Crossed' = Crossed /\ Approached' = Approached
      BY <2>1 DEF Limited, Crossed, Approached
    <3>2. OverrunIsOneAnswer' /\ BudgetTyped'
      BY <2>1, <3>1 DEF BudgetInv, OverrunIsOneAnswer, BudgetTyped
    <3>3. \A d : Below(d)' <=> Below(d)
      BY <2>1, <3>1 DEF Below
    <3>4. QED
      BY <2>1, <3>1, <3>2, <3>3 DEF BudgetInv
  <2>2. CASE AskAgain
    BY <2>1, <2>2 DEF AskAgain
  <2>3. CASE RunFails
    BY <2>1, <2>3 DEF RunFails
  <2>4. CASE UNCHANGED budgetVars
    BY <2>1, <2>4 DEF budgetVars
  <2>5. QED
    BY <2>2, <2>3, <2>4, BudgetBegins, BudgetTicks, BudgetChecks, BudgetAnswered, TurnsCounted
       DEF BudgetNext
<1>3. QED
  BY <1>1, <1>2, PTL DEF BudgetSpec

\* For all limits: every line is told of once in a run, by the request that
\* finds it passed, and a run overspends by less than one answer.
THEOREM BudgetAlwaysHolds == BudgetSpec => []BudgetHolds
<1>1. BudgetInv => BudgetHolds
  BY DEF BudgetInv, BudgetTyped, BudgetHolds, WarnedOnce, Approached, Crossed, Limited
<1>2. QED
  BY BudgetInvariant, <1>1, PTL

-----------------------------------------------------------------------------
(* The approval channel: an ask has its slot until one answer takes it.      *)

Heard(i) == i \in seen \/ \E k \in 1..Len(outgoing) : outgoing[k] = i

SlotSound(i) ==
  /\ i \in awaiting => park[i] \notin {"idle", "over"} /\ accepted[i] = <<>>
  /\ i \in Parked \ awaiting => answer[i] # "None"
  /\ Heard(i) => park[i] \notin {"idle", "delivers"}
  /\ accepted[i] # <<>> => i \in seen
  /\ accepted[i] \in {<<>>, <<"Approve">>, <<"Deny">>}
  /\ answer[i] = "Approve" <=> accepted[i] = <<"Approve">>
  /\ verdict[i] \in {"Approved", "Denied"} => park[i] = "over"
  /\ verdict[i] = "Approved" => accepted[i] = <<"Approve">>
  /\ verdict[i] = "Denied" => accepted[i] # <<"Approve">>
  /\ approver # "here" /\ i \in awaiting /\ i \in Parked => i \in late

ApprovalTyped ==
  /\ park \in [Ask -> {"idle", "delivers", "waits", "lapsed", "closed", "over"}]
  /\ verdict \in [Ask -> Verdict] /\ awaiting \subseteq Ask
  /\ answer \in [Ask -> Resolution \cup {"None"}] /\ outgoing \in Seq(Ask)
  /\ seen \subseteq Ask /\ DOMAIN accepted = Ask
  /\ approver \in {"here", "drained", "gone"}

ApprovalInv == ApprovalTyped /\ \A i \in Ask : SlotSound(i)

\* A step of one ask that leaves the approver and its queue alone and opens no slot.
LEMMA AskMoves ==
  ASSUME ApprovalInv, NEW i \in Ask, NEW p, NEW v \in Verdict,
         p \in {"waits", "lapsed", "closed", "over"},
         park' = [park EXCEPT ![i] = p], verdict' = [verdict EXCEPT ![i] = v],
         awaiting' = awaiting \/ awaiting' = awaiting \ {i},
         UNCHANGED <<answer, outgoing, approver, seen, accepted, late>>,
         SlotSound(i)'
  PROVE  ApprovalInv'
<1>1. ApprovalTyped'
  BY DEF ApprovalInv, ApprovalTyped
<1>2. ASSUME NEW k \in Ask, k # i PROVE SlotSound(k)'
  <2>1. SlotSound(k) /\ park'[k] = park[k] /\ verdict'[k] = verdict[k]
        /\ (k \in awaiting' <=> k \in awaiting)
    BY <1>2 DEF ApprovalInv, ApprovalTyped
  <2>2. (Heard(k)' <=> Heard(k)) /\ (k \in Parked' <=> k \in Parked)
    BY <2>1 DEF Heard, Parked
  <2>3. QED
    BY <2>1, <2>2 DEF SlotSound
<1>3. QED
  BY <1>1, <1>2 DEF ApprovalInv

\* The end of a wait: the slot goes with it.
LEMMA AskEnds ==
  ASSUME ApprovalInv, NEW i \in Ask, NEW v \in Verdict, park[i] # "idle", Ends(i, v),
         UNCHANGED <<answer, outgoing, approver, seen, accepted, late>>,
         v = "Approved" => accepted[i] = <<"Approve">>,
         v = "Denied" => accepted[i] # <<"Approve">>
  PROVE  ApprovalInv'
<1>1. /\ park' = [park EXCEPT ![i] = "over"] /\ verdict' = [verdict EXCEPT ![i] = v]
      /\ awaiting' = awaiting \ {i}
  BY DEF Ends, Slotless
<1>2. park'[i] = "over" /\ verdict'[i] = v /\ i \notin awaiting' /\ i \notin Parked'
  BY <1>1 DEF ApprovalInv, ApprovalTyped, Parked
<1>3. SlotSound(i)'
  BY <1>2 DEF ApprovalInv, SlotSound
<1>4. QED
  BY <1>1, <1>3, AskMoves

\* The select around a wait is done, or its receiver is gone: nothing else changes.
LEMMA AskLapses ==
  ASSUME ApprovalInv, NEW i \in Ask, NEW p \in {"lapsed", "closed"}, NEW v \in {"Expired", "Cancelled"} \cup {verdict[i]},
         park[i] \notin {"idle", "over"}, park' = [park EXCEPT ![i] = p],
         verdict' = [verdict EXCEPT ![i] = v],
         UNCHANGED <<awaiting, answer, outgoing, approver, seen, accepted, late>>
  PROVE  ApprovalInv'
<1>1. verdict[i] \in Verdict /\ v \in Verdict
  BY DEF ApprovalInv, ApprovalTyped, Verdict
<1>2. park'[i] = p /\ verdict'[i] = v /\ i \notin Parked'
  BY DEF ApprovalInv, ApprovalTyped, Parked
<1>3. SlotSound(i)'
  BY <1>2 DEF ApprovalInv, SlotSound, Heard
<1>4. QED
  BY <1>1, <1>3, AskMoves

LEMMA Parks == ASSUME ApprovalInv, NEW i \in Ask, Park(i) PROVE ApprovalInv'
<1>1. /\ park[i] = "idle" /\ park' = [park EXCEPT ![i] = "delivers"]
      /\ awaiting' = awaiting \cup {i}
      /\ late' = IF approver = "here" THEN late ELSE late \cup {i}
      /\ UNCHANGED <<verdict, answer, outgoing, approver, seen, accepted>>
  BY DEF Park
<1>2. ApprovalTyped'
  BY <1>1 DEF ApprovalInv, ApprovalTyped
<1>3. \A k \in Ask : Heard(k)' <=> Heard(k)
  BY <1>1 DEF Heard
<1>4. \A k \in Ask : SlotSound(k)'
  <2> SUFFICES ASSUME NEW k \in Ask PROVE SlotSound(k)'
    OBVIOUS
  <2>1. CASE k = i
    <3>1. ~Heard(i) /\ accepted[i] = <<>> /\ verdict[i] \notin {"Approved", "Denied"}
      BY <1>1 DEF ApprovalInv, SlotSound, Heard
    <3>2. i \in awaiting' /\ park'[i] = "delivers" /\ (approver' # "here" => i \in late')
      BY <1>1 DEF ApprovalInv, ApprovalTyped
    <3>3. QED
      BY <1>1, <1>3, <2>1, <3>1, <3>2 DEF ApprovalInv, SlotSound
  <2>2. CASE k # i
    <3>1. park'[k] = park[k] /\ (k \in awaiting' <=> k \in awaiting) /\ (k \in late => k \in late')
      BY <1>1, <2>2 DEF ApprovalInv, ApprovalTyped
    <3>2. k \in Parked' <=> k \in Parked
      BY <3>1 DEF Parked
    <3>3. QED
      BY <1>1, <1>3, <3>1, <3>2 DEF ApprovalInv, SlotSound
  <2>3. QED
    BY <2>1, <2>2
<1>5. QED
  BY <1>2, <1>4 DEF ApprovalInv

LEMMA Delivers == ASSUME ApprovalInv, NEW i \in Ask, Deliver(i) PROVE ApprovalInv'
<1>1. /\ park[i] = "delivers" /\ park' = [park EXCEPT ![i] = "waits"]
      /\ outgoing' = Append(outgoing, i)
      /\ UNCHANGED <<verdict, awaiting, answer, approver, seen, accepted, late>>
  BY DEF Deliver
<1>2. ApprovalTyped'
  BY <1>1 DEF ApprovalInv, ApprovalTyped
<1>3. ASSUME NEW k \in Ask, Heard(k)' PROVE Heard(k) \/ k = i
  <2>1. outgoing \in Seq(Ask)
    BY DEF ApprovalInv, ApprovalTyped
  <2>2. CASE k \in seen
    BY <2>2 DEF Heard
  <2>3. CASE k \notin seen
    <3>1. PICK l \in 1..Len(outgoing') : outgoing'[l] = k
      BY <1>1, <1>3, <2>3 DEF Heard
    <3>2. l \in 1..Len(outgoing) \/ outgoing'[l] = i
      BY <1>1, <2>1, <3>1
    <3>3. l \in 1..Len(outgoing) => outgoing'[l] = outgoing[l]
      BY <1>1, <2>1
    <3>4. QED
      BY <3>1, <3>2, <3>3 DEF Heard
  <2>4. QED
    BY <2>2, <2>3
<1>4. ASSUME NEW k \in Ask PROVE SlotSound(k)'
  <2>1. park'[k] = IF k = i THEN "waits" ELSE park[k]
    BY <1>1 DEF ApprovalInv, ApprovalTyped
  <2>2. k \in Parked' <=> k \in Parked
    BY <1>1, <2>1 DEF Parked
  <2>3. QED
    BY <1>1, <1>3, <2>1, <2>2 DEF ApprovalInv, SlotSound
<1>5. QED
  BY <1>2, <1>4 DEF ApprovalInv

LEMMA AskTaken == ASSUME ApprovalInv, NextPending PROVE ApprovalInv'
<1>1. /\ outgoing # <<>> /\ seen' = seen \cup {Head(outgoing)} /\ outgoing' = Tail(outgoing)
      /\ outgoing \in Seq(Ask)
      /\ UNCHANGED <<park, verdict, awaiting, answer, approver, accepted, late>>
  BY DEF NextPending, ApprovalInv, ApprovalTyped
<1>2. Head(outgoing) = outgoing[1] /\ 1 \in 1..Len(outgoing) /\ Head(outgoing) \in Ask
  BY <1>1
<1>3. ApprovalTyped'
  BY <1>1, <1>2 DEF ApprovalInv, ApprovalTyped
<1>4. ASSUME NEW k \in Ask, Heard(k)' PROVE Heard(k)
  <2>1. CASE k \in seen'
    BY <1>1, <1>2, <2>1 DEF Heard
  <2>2. CASE k \notin seen'
    <3>1. PICK l \in 1..Len(outgoing') : outgoing'[l] = k
      BY <1>4, <2>2 DEF Heard
    <3>2. l + 1 \in 1..Len(outgoing) /\ outgoing[l + 1] = k
      BY <1>1, <3>1
    <3>3. QED
      BY <3>2 DEF Heard
  <2>3. QED
    BY <2>1, <2>2
<1>5. Parked' = Parked
  BY <1>1 DEF Parked
<1>6. \A k \in Ask : SlotSound(k)'
  BY <1>1, <1>4, <1>5 DEF ApprovalInv, SlotSound
<1>7. QED
  BY <1>3, <1>6 DEF ApprovalInv

LEMMA Resolves == ASSUME ApprovalInv, NEW i \in Ask, NEW r \in Resolution, Resolve(i, r) PROVE ApprovalInv'
<1>1. /\ i \in seen /\ i \in awaiting /\ awaiting' = awaiting \ {i}
      /\ UNCHANGED <<park, verdict, outgoing, approver, seen, late>>
  BY DEF Resolve, Unslotted
<1>2. Parked' = Parked /\ \A k \in Ask : Heard(k)' <=> Heard(k)
  BY <1>1 DEF Parked, Heard
<1>3. accepted[i] = <<>>
  BY <1>1 DEF ApprovalInv, SlotSound
<1>4. CASE Listening(i)
  <2>1. /\ answer' = [answer EXCEPT ![i] = r]
        /\ accepted' = [accepted EXCEPT ![i] = Append(@, r)]
    BY <1>4 DEF Resolve
  <2>2. accepted'[i] = <<r>>
    BY <1>3, <2>1 DEF ApprovalInv, ApprovalTyped
  <2>3. \A k \in Ask \ {i} : accepted'[k] = accepted[k] /\ answer'[k] = answer[k]
    BY <2>1 DEF ApprovalInv, ApprovalTyped
  <2>4. answer'[i] = r
    BY <2>1 DEF ApprovalInv, ApprovalTyped
  <2>5. ApprovalTyped'
    BY <1>1, <2>1 DEF ApprovalInv, ApprovalTyped
  <2>6. r \in {"Approve", "Deny"} /\ <<r>> # <<>>
    BY DEF Resolution
  <2>7. r = "Approve" <=> <<r>> = <<"Approve">>
    BY <2>6
  <2>8. verdict[i] \notin {"Approved", "Denied"} /\ SlotSound(i)
    BY <1>1 DEF ApprovalInv, SlotSound
  <2>9. SlotSound(i)'
    BY <1>1, <1>2, <2>2, <2>4, <2>6, <2>7, <2>8 DEF SlotSound
  <2>10. \A k \in Ask \ {i} : SlotSound(k)'
    BY <1>1, <1>2, <2>3 DEF ApprovalInv, SlotSound
  <2>11. QED
    BY <2>5, <2>9, <2>10 DEF ApprovalInv
<1>5. CASE ~Listening(i)
  <2>1. UNCHANGED <<answer, accepted>> /\ i \notin Parked
    BY <1>5 DEF Resolve, Listening, Parked
  <2>2. ApprovalTyped'
    BY <1>1, <2>1 DEF ApprovalInv, ApprovalTyped
  <2>3. \A k \in Ask : SlotSound(k)'
    BY <1>1, <1>2, <2>1 DEF ApprovalInv, SlotSound
  <2>4. QED
    BY <2>2, <2>3 DEF ApprovalInv
<1>6. QED
  BY <1>4, <1>5

\* Dropping the approver: every slot is denied, and what waits has heard it.
LEMMA Drains == ASSUME ApprovalInv, Drain PROVE ApprovalInv'
<1>1. /\ approver' = "drained" /\ awaiting' = {}
      /\ answer' = [i \in Ask |-> IF i \in awaiting /\ Listening(i) THEN "Deny" ELSE answer[i]]
      /\ UNCHANGED <<park, verdict, outgoing, seen, accepted, late>>
  BY DEF Drain, Drained
<1>2. Parked' = Parked /\ \A k \in Ask : Heard(k)' <=> Heard(k)
  BY <1>1 DEF Parked, Heard
<1>3. ApprovalTyped'
  BY <1>1 DEF ApprovalInv, ApprovalTyped, Resolution
<1>4. ASSUME NEW k \in Ask PROVE SlotSound(k)'
  <2>1. k \in Parked => Listening(k)
    BY DEF Parked, Listening
  <2>2. k \in awaiting => accepted[k] = <<>>
    BY DEF ApprovalInv, SlotSound
  <2>3. <<>> # <<"Approve">>
    OBVIOUS
  <2>4. QED
    BY <1>1, <1>2, <2>1, <2>2, <2>3 DEF ApprovalInv, SlotSound
<1>5. QED
  BY <1>3, <1>4 DEF ApprovalInv

LEMMA Closes == ASSUME ApprovalInv, Close PROVE ApprovalInv'
<1>1. /\ approver = "drained" /\ approver' = "gone" /\ outgoing' = <<>>
      /\ UNCHANGED <<park, verdict, awaiting, answer, seen, accepted, late>>
  BY DEF Close
<1>2. Parked' = Parked /\ \A k \in Ask : Heard(k)' => Heard(k)
  BY <1>1 DEF Parked, Heard
<1>3. ApprovalTyped'
  BY <1>1 DEF ApprovalInv, ApprovalTyped
<1>4. \A k \in Ask : SlotSound(k)'
  BY <1>1, <1>2 DEF ApprovalInv, SlotSound
<1>5. QED
  BY <1>3, <1>4 DEF ApprovalInv

THEOREM ApprovalInvariant == ApprovalSpec => []ApprovalInv
<1>1. ApprovalInit => ApprovalInv
  BY DEF ApprovalInit, ApprovalInv, ApprovalTyped, SlotSound, Heard, Parked, Verdict
<1>2. ApprovalInv /\ [ApprovalNext]_approvalVars => ApprovalInv'
  <2> SUFFICES ASSUME ApprovalInv, [ApprovalNext]_approvalVars PROVE ApprovalInv'
    OBVIOUS
  <2>1. ASSUME NEW i \in Ask, Undeliverable(i) PROVE ApprovalInv'
    <3>2. /\ park[i] = "delivers" /\ Ends(i, "Denied")
          /\ UNCHANGED <<answer, outgoing, approver, seen, accepted, late>>
      BY <2>1 DEF Undeliverable
    <3>3. accepted[i] = <<>>
      BY <3>2 DEF ApprovalInv, SlotSound, Heard
    <3>4. "Denied" \in Verdict /\ <<>> # <<"Approve">>
      BY DEF Verdict
    <3>5. QED
      BY <3>2, <3>3, <3>4, AskEnds
  <2>2. ASSUME NEW i \in Ask, HearsAnswer(i) PROVE ApprovalInv'
    <3> DEFINE v == IF answer[i] = "Approve" THEN "Approved" ELSE "Denied"
    <3>1. /\ park[i] = "waits" /\ Ends(i, v)
          /\ UNCHANGED <<answer, outgoing, approver, seen, accepted, late>>
      BY <2>2 DEF HearsAnswer
    <3>2. /\ v = "Approved" => accepted[i] = <<"Approve">>
          /\ v = "Denied" => accepted[i] # <<"Approve">>
      BY DEF ApprovalInv, SlotSound
    <3>3. v \in Verdict
      BY DEF Verdict
    <3> HIDE DEF v
    <3>4. QED
      BY <3>1, <3>2, <3>3, AskEnds
  <2>3. ASSUME NEW i \in Ask, Expire(i) PROVE ApprovalInv'
    BY <2>3, AskLapses DEF Expire, Lapses
  <2>4. ASSUME NEW i \in Ask, CancelAsk(i) PROVE ApprovalInv'
    <3>1. park[i] \in {"delivers", "waits"}
      BY <2>4 DEF CancelAsk, Parked
    <3>2. QED
      BY <2>4, <3>1, AskLapses DEF CancelAsk, Lapses
  <2>5. ASSUME NEW i \in Ask, DropReceiver(i) PROVE ApprovalInv'
    <3>1. verdict' = [verdict EXCEPT ![i] = verdict[i]]
      BY <2>5 DEF DropReceiver, ApprovalInv, ApprovalTyped
    <3>2. /\ park[i] = "lapsed" /\ park' = [park EXCEPT ![i] = "closed"]
          /\ UNCHANGED <<awaiting, answer, outgoing, approver, seen, accepted, late>>
      BY <2>5 DEF DropReceiver
    <3>3. QED
      BY <3>1, <3>2, AskLapses
  <2>6. ASSUME NEW i \in Ask, DropSlot(i) PROVE ApprovalInv'
    <3>1. /\ park[i] = "closed" /\ Ends(i, verdict[i])
          /\ UNCHANGED <<answer, outgoing, approver, seen, accepted, late>>
      BY <2>6 DEF DropSlot
    <3>2. verdict[i] \in Verdict /\ verdict[i] \notin {"Approved", "Denied"}
      BY <3>1 DEF ApprovalInv, ApprovalTyped, SlotSound
    <3>3. QED
      BY <3>1, <3>2, AskEnds
  <2>7. ASSUME RaiseCancel \/ UNCHANGED approvalVars PROVE ApprovalInv'
    <3>1. UNCHANGED <<park, verdict, awaiting, answer, outgoing, approver, seen, accepted, late>>
      BY <2>7 DEF RaiseCancel, approvalVars
    <3>2. QED
      BY <3>1 DEF ApprovalInv, ApprovalTyped, SlotSound, Heard, Parked
  <2>8. QED
    BY <2>1, <2>2, <2>3, <2>4, <2>5, <2>6, <2>7, Parks, Delivers, AskTaken, Resolves, Drains,
       Closes DEF ApprovalNext
<1>3. QED
  BY <1>1, <1>2, PTL DEF ApprovalSpec

\* For any number of asks and any queue, however answers, expiries, cancellations
\* and the drop of the approver fall together.
THEOREM AsksAlwaysAnsweredOnce == ApprovalSpec => []AsksAreAnsweredOnce
<1>1. ApprovalInv => AsksAreAnsweredOnce
  <2> SUFFICES ASSUME ApprovalInv PROVE AsksAreAnsweredOnce
    OBVIOUS
  <2>1. awaiting \subseteq Ask /\ Parked \subseteq Ask /\ \A i \in Ask : SlotSound(i)
    BY DEF ApprovalInv, ApprovalTyped, Parked
  <2>2. \A i \in Ask : Len(accepted[i]) <= 1
    <3>1. \A i \in Ask : accepted[i] \in {<<>>, <<"Approve">>, <<"Deny">>}
      BY <2>1 DEF SlotSound
    <3>2. Len(<<>>) = 0 /\ Len(<<"Approve">>) = 1 /\ Len(<<"Deny">>) = 1
      OBVIOUS
    <3>3. ASSUME NEW i \in Ask PROVE Len(accepted[i]) <= 1
      <4>1. CASE accepted[i] = <<>>
        BY <3>2, <4>1
      <4>2. CASE accepted[i] = <<"Approve">>
        BY <3>2, <4>2
      <4>3. CASE accepted[i] = <<"Deny">>
        BY <3>2, <4>3
      <4>4. QED
        BY <3>1, <4>1, <4>2, <4>3
    <3>4. QED
      BY <3>3
  <2>3. QED
    BY <2>1, <2>2 DEF AsksAreAnsweredOnce, SlotSound
<1>2. QED
  BY ApprovalInvariant, <1>1, PTL

-----------------------------------------------------------------------------
(* The ledger's writers: whoever sleeps on a condition variable waits for     *)
(* something that has not come, or is about to be woken.                     *)

SinkTyped ==
  /\ sink \in [Sink -> WriterState] /\ caller \in [Caller -> CallerState]
  /\ asleep \subseteq Sink \cup Caller /\ made \in Nat /\ ledger \in Seq(Int)

\* Where sleepers are.
Resting == /\ \A s \in Sink : s \in asleep => sink[s].at = "ready"
           /\ \A c \in Caller : c \in asleep => caller[c].at = "flushes"

\* One worker is at the file, and nobody cuts it back behind another's write.
Locked == \A s \in Sink : sink[s].at \in {"writes", "repairs"}
                          => /\ appender = {s} /\ sink[s].start <= Len(ledger)
                             /\ sink[s].hand # <<>>

SinkInv == SinkTyped /\ Resting /\ Locked /\ NobodySleepsThrough

\* What a caller does for a writer is a wakeup to come.
Promised(s) == \E c \in Caller : caller[c].of = s /\ caller[c].at \in {"notifies", "closes"}

\* A worker that is awake changes its own state, and tells of an emptied queue.
LEMMA WorkerMoves ==
  ASSUME SinkInv, NEW s \in Sink, NEW w \in WriterState, s \notin asleep,
         sink' = [sink EXCEPT ![s] = w], UNCHANGED <<caller, asleep, made>>,
         ledger' \in Seq(Int), Len(ledger) <= Len(ledger') \/ appender = {s},
         w.at \in {"writes", "repairs"}
            => appender' = {s} /\ w.start <= Len(ledger') /\ w.hand # <<>>,
         \/ appender' = appender
         \/ (appender' = {s} /\ appender = {})
         \/ (appender' = {} /\ appender = {s}),
         sink[s].at # "notifies",
         IsDrained(w) => w.at = "notifies" \/ IsDrained(sink[s])
  PROVE  SinkInv'
<1>1. sink'[s] = w /\ \A r \in Sink \ {s} : sink'[r] = sink[r]
  BY DEF SinkInv, SinkTyped
<1>2. SinkTyped'
  BY DEF SinkInv, SinkTyped
<1>3. Resting'
  BY <1>1 DEF SinkInv, Resting
<1>4. Locked'
  <2> SUFFICES ASSUME NEW r \in Sink, sink'[r].at \in {"writes", "repairs"}
               PROVE  appender' = {r} /\ sink'[r].start <= Len(ledger') /\ sink'[r].hand # <<>>
    BY DEF Locked
  <2>1. CASE r = s
    BY <1>1, <2>1
  <2>2. CASE r # s
    <3>1. /\ sink'[r] = sink[r] /\ appender = {r} /\ sink[r].start <= Len(ledger)
          /\ sink[r].hand # <<>>
      BY <1>1, <2>2 DEF SinkInv, Locked
    <3>2. appender' = appender /\ Len(ledger) <= Len(ledger')
      BY <2>2, <3>1
    <3>3. sink[r].start \in Nat /\ Len(ledger) \in Nat /\ Len(ledger') \in Nat
      <4>1. sink[r] \in WriterState /\ ledger \in Seq(Int)
        BY DEF SinkInv, SinkTyped
      <4>2. sink[r].start \in Nat
        BY <4>1 DEF WriterState
      <4>3. QED
        BY <4>1, <4>2
    <3>4. QED
      BY <3>1, <3>2, <3>3
  <2>3. QED
    BY <2>1, <2>2
<1>5. NobodySleepsThrough'
  <2> SUFFICES ASSUME NEW r \in Sink
               PROVE  /\ r \in asleep' /\ (sink'[r].lines # <<>> \/ sink'[r].closed) => WakeupDue(r)'
                      /\ \A c \in Caller : /\ c \in asleep' /\ caller'[c].of = r /\ IsDrained(sink'[r])
                                           => WakeupDue(r)'
    BY DEF NobodySleepsThrough
  <2>1. CASE r = s
    <3>1. ASSUME NEW c \in Caller, c \in asleep', caller'[c].of = s, IsDrained(w) PROVE WakeupDue(s)'
      <4>1. CASE w.at = "notifies"
        BY <1>1, <4>1 DEF WakeupDue
      <4>2. CASE IsDrained(sink[s])
        <5>1. WakeupDue(s)
          BY <3>1, <4>2 DEF SinkInv, NobodySleepsThrough
        <5>2. QED
          BY <5>1 DEF WakeupDue
      <4>3. QED
        BY <3>1, <4>1, <4>2
    <3>2. QED
      BY <1>1, <2>1, <3>1
  <2>2. CASE r # s
    <3>1. sink'[r] = sink[r] /\ (WakeupDue(r) => WakeupDue(r)')
      BY <1>1, <2>2 DEF WakeupDue
    <3>2. QED
      BY <3>1 DEF SinkInv, NobodySleepsThrough
  <2>3. QED
    BY <2>1, <2>2
<1>6. QED
  BY <1>2, <1>3, <1>4, <1>5 DEF SinkInv

\* A thread that owes no wakeup moves.
LEMMA CallerMoves ==
  ASSUME SinkInv, NEW c \in Caller, NEW k \in CallerState, c \notin asleep,
         caller' = [caller EXCEPT ![c] = k], caller[c].at \notin {"notifies", "closes"},
         UNCHANGED <<sink, asleep, made, ledger, appender>>
  PROVE  SinkInv'
<1>1. \A d \in Caller \ {c} : caller'[d] = caller[d]
  BY DEF SinkInv, SinkTyped
<1>2. SinkTyped' /\ Locked'
  BY DEF SinkInv, SinkTyped, Locked
<1>3. Resting'
  BY <1>1 DEF SinkInv, Resting
<1>4. \A r \in Sink : WakeupDue(r) => WakeupDue(r)'
  BY <1>1 DEF WakeupDue
<1>5. NobodySleepsThrough'
  BY <1>1, <1>4 DEF SinkInv, NobodySleepsThrough
<1>6. QED
  BY <1>2, <1>3, <1>5 DEF SinkInv

\* A thread changes a queue and owes it a wakeup from then on.
LEMMA CallerPromises ==
  ASSUME SinkInv, NEW c \in Caller, NEW s \in Sink, NEW w \in WriterState,
         NEW what \in {"notifies", "closes"}, Free(c),
         sink' = [sink EXCEPT ![s] = w], w.at = sink[s].at, w.start = sink[s].start,
         w.hand = sink[s].hand, Takes(c, s, what), UNCHANGED <<asleep, ledger, appender>>, made' \in Nat
  PROVE  SinkInv'
<1>1. sink'[s] = w /\ \A r \in Sink \ {s} : sink'[r] = sink[r]
  BY DEF SinkInv, SinkTyped
<1>2. caller' = [caller EXCEPT ![c] = [at |-> what, of |-> s]] /\ [at |-> what, of |-> s] \in CallerState
  BY DEF Takes, CallerState
<1>3. caller'[c].at = what /\ caller'[c].of = s /\ \A d \in Caller \ {c} : caller'[d] = caller[d]
  BY <1>2 DEF SinkInv, SinkTyped
<1>4. caller[c].at = "idle" /\ c \notin asleep
  BY DEF Free, SinkInv, Resting
<1>5. SinkTyped'
  BY <1>2 DEF SinkInv, SinkTyped
<1>6. Resting'
  BY <1>1, <1>3, <1>4 DEF SinkInv, Resting
<1>7. Locked'
  BY <1>1 DEF SinkInv, Locked
<1>8. WakeupDue(s)'
  BY <1>3 DEF WakeupDue
<1>9. \A r \in Sink \ {s} : WakeupDue(r) => WakeupDue(r)'
  BY <1>1, <1>3, <1>4 DEF WakeupDue
<1>10. NobodySleepsThrough'
  BY <1>1, <1>3, <1>4, <1>8, <1>9 DEF SinkInv, NobodySleepsThrough
<1>11. QED
  BY <1>5, <1>6, <1>7, <1>10 DEF SinkInv

\* A wakeup reaches all who wait on the writer.
LEMMA AllAreWoken ==
  ASSUME SinkInv, NEW s \in Sink, Notify(s), UNCHANGED <<made, ledger, appender>>,
         SinkTyped', Resting', Locked',
         \A r \in Sink \ {s} : sink'[r] = sink[r] /\ (WakeupDue(r) => WakeupDue(r)'),
         \A d \in Caller : d \in asleep => caller'[d] = caller[d]
  PROVE  SinkInv'
<1>1. asleep' = asleep \ Sleepers(s)
  BY DEF Notify, Wakeups
<1>2. s \notin asleep' /\ \A d \in Caller : d \in asleep' => d \in asleep /\ caller'[d].of # s
  BY <1>1 DEF Sleepers
<1>3. asleep' \subseteq asleep
  BY <1>1
<1>4. NobodySleepsThrough'
  BY <1>2, <1>3 DEF SinkInv, NobodySleepsThrough
<1>5. QED
  BY <1>4 DEF SinkInv

LEMMA CallerNotifies ==
  ASSUME SinkInv, NEW c \in Caller, caller[c].at \in {"notifies", "closes"},
         NEW what \in {"idle", "joins"}, Notify(caller[c].of), Turns(c, what),
         UNCHANGED <<sink, made, ledger, appender>>
  PROVE  SinkInv'
<1>1. caller[c] \in CallerState /\ caller[c].of \in Sink
  BY DEF SinkInv, SinkTyped, CallerState
<1>2. caller'[c].at = what /\ \A d \in Caller \ {c} : caller'[d] = caller[d]
  BY <1>1 DEF Turns, SinkInv, SinkTyped, CallerState
<1>3. asleep' \subseteq asleep /\ c \notin asleep
  BY DEF Notify, SinkInv, Resting
<1>4. SinkTyped'
  <2>1. caller' = [caller EXCEPT ![c] = [caller[c] EXCEPT !.at = what]]
    BY DEF Turns
  <2>2. [caller[c] EXCEPT !.at = what] \in CallerState
    BY <1>1 DEF CallerState
  <2>3. QED
    BY <1>3, <2>1, <2>2 DEF SinkInv, SinkTyped
<1>5. Resting' /\ Locked'
  BY <1>2, <1>3 DEF SinkInv, Resting, Locked
<1>6. \A r \in Sink \ {caller[c].of} : WakeupDue(r) => WakeupDue(r)'
  BY <1>2 DEF WakeupDue
<1>7. QED
  BY <1>1, <1>2, <1>3, <1>4, <1>5, <1>6, AllAreWoken

\* The record of a writer, with some of its fields changed.
LEMMA WriterFields ==
  ASSUME SinkInv, NEW s \in Sink
  PROVE  /\ sink[s] \in WriterState /\ sink[s].lines \in Seq(Nat) /\ sink[s].hand \in Seq(Nat)
         /\ sink[s].start \in Nat /\ sink[s].writing \in Nat
         /\ Len(sink[s].lines) \in Nat /\ Len(ledger) \in Nat /\ ledger \in Seq(Int)
  BY DEF SinkInv, SinkTyped, WriterState

LEMMA Enqueues == ASSUME SinkInv, NEW c \in Caller, NEW s \in Sink, Enqueue(c, s) PROVE SinkInv'
<1> DEFINE rest == IF AtLimit(s) THEN Tail(sink[s].lines) ELSE sink[s].lines
           w == [sink[s] EXCEPT !.lines = Append(rest, made + 1)]
<1>1. /\ Free(c) /\ made' = made + 1 /\ sink' = [sink EXCEPT ![s] = w] /\ Takes(c, s, "notifies")
      /\ UNCHANGED <<asleep, ledger, appender>>
  BY DEF Enqueue, Sets, OnDisk
<1>2. made + 1 \in Nat
  BY DEF SinkInv, SinkTyped
<1>3. AtLimit(s) => sink[s].lines # <<>>
  BY WriterFields, SinkAssumption DEF AtLimit
<1>4. rest \in Seq(Nat)
  BY <1>3, WriterFields
<1>5. Append(rest, made + 1) \in Seq(Nat)
  BY <1>2, <1>4
<1> HIDE DEF rest
<1>6. w \in WriterState /\ w.at = sink[s].at /\ w.start = sink[s].start /\ w.hand = sink[s].hand
  BY <1>5, WriterFields DEF WriterState
<1> HIDE DEF w
<1>7. QED
  BY <1>1, <1>2, <1>6, CallerPromises

LEMMA ClosesSink == ASSUME SinkInv, NEW c \in Caller, NEW s \in Sink, CloseSink(c, s) PROVE SinkInv'
<1> DEFINE w == [sink[s] EXCEPT !.closed = TRUE]
<1>1. /\ Free(c) /\ made' = made /\ sink' = [sink EXCEPT ![s] = w] /\ Takes(c, s, "closes")
      /\ UNCHANGED <<asleep, ledger, appender>>
  BY DEF CloseSink, Sets, OnDisk
<1>2. w \in WriterState /\ w.at = sink[s].at /\ w.start = sink[s].start /\ w.hand = sink[s].hand
  BY WriterFields DEF WriterState
<1> HIDE DEF w
<1>3. made' \in Nat
  BY <1>1 DEF SinkInv, SinkTyped
<1>4. QED
  BY <1>1, <1>2, <1>3, CallerPromises

LEMMA Flushes == ASSUME SinkInv, NEW c \in Caller, CheckDrained(c) PROVE SinkInv'
<1>1. /\ caller[c].at = "flushes" /\ c \notin asleep /\ caller[c] \in CallerState
      /\ UNCHANGED <<sink, made, ledger, appender>>
  BY DEF CheckDrained, OnDisk, SinkInv, SinkTyped
<1>2. CASE IsDrained(sink[caller[c].of])
  <2>1. caller' = [caller EXCEPT ![c] = [caller[c] EXCEPT !.at = "idle"]] /\ asleep' = asleep
    BY <1>2 DEF CheckDrained, Turns
  <2>2. [caller[c] EXCEPT !.at = "idle"] \in CallerState
    BY <1>1 DEF CallerState
  <2>3. QED
    BY <1>1, <2>1, <2>2, CallerMoves
<1>3. CASE ~IsDrained(sink[caller[c].of])
  <2>1. asleep' = asleep \cup {c} /\ caller' = caller
    BY <1>3 DEF CheckDrained
  <2>2. SinkTyped' /\ Locked'
    BY <1>1, <2>1 DEF SinkInv, SinkTyped, Locked
  <2>3. c \notin Sink
    BY SinkAssumption
  <2>4. Resting'
    BY <1>1, <2>1, <2>3 DEF SinkInv, Resting
  <2>5. NobodySleepsThrough'
    BY <1>1, <1>3, <2>1, <2>3 DEF SinkInv, NobodySleepsThrough, WakeupDue
  <2>6. QED
    BY <2>2, <2>4, <2>5 DEF SinkInv
<1>4. QED
  BY <1>2, <1>3

LEMMA Works == ASSUME SinkInv, NEW s \in Sink, Work(s) PROVE SinkInv'
<1> DEFINE old == sink[s]
<1>1. /\ old.at = "ready" /\ s \notin asleep
      /\ UNCHANGED <<caller, made, ledger, appender>>
  BY DEF Work, Awake, OnDisk
<1>2. CASE /\ old.lines = <<>> /\ ~old.closed /\ asleep' = asleep \cup {s} /\ UNCHANGED sink
  <2>1. SinkTyped' /\ Locked'
    BY <1>1, <1>2 DEF SinkInv, SinkTyped, Locked
  <2>2. s \notin Caller
    BY SinkAssumption
  <2>3. Resting'
    BY <1>1, <1>2, <2>2 DEF SinkInv, Resting
  <2>4. NobodySleepsThrough'
    BY <1>1, <1>2, <2>2 DEF SinkInv, NobodySleepsThrough, WakeupDue
  <2>5. QED
    BY <2>1, <2>3, <2>4 DEF SinkInv
<1>3. CASE /\ old.lines = <<>> /\ old.closed /\ UNCHANGED asleep
           /\ Sets(s, [old EXCEPT !.at = "returned"])
  <2> DEFINE w == [old EXCEPT !.at = "returned"]
  <2>1. w \in WriterState /\ w.at = "returned" /\ w.lines = old.lines /\ w.writing = old.writing
    BY WriterFields DEF WriterState
  <2>2. sink' = [sink EXCEPT ![s] = w] /\ (IsDrained(w) => IsDrained(old))
    BY <1>3, <2>1 DEF Sets, IsDrained
  <2>3. ledger' \in Seq(Int) /\ Len(ledger) <= Len(ledger')
    BY <1>1, WriterFields
  <2> HIDE DEF w
  <2>4. QED
    BY <1>1, <1>3, <2>1, <2>2, <2>3, WorkerMoves
<1>4. CASE /\ old.lines # <<>> /\ UNCHANGED asleep
           /\ Sets(s, [old EXCEPT !.at = "appends", !.hand = old.lines, !.lines = <<>>,
                                  !.writing = Writing(old)])
  <2> DEFINE w == [old EXCEPT !.at = "appends", !.hand = old.lines, !.lines = <<>>,
                              !.writing = Writing(old)]
  <2>1. Writing(old) \in Nat /\ Writing(old) # 0 /\ old.lines \in Seq(Nat)
    BY <1>4, WriterFields DEF Writing
  <2>2. /\ w \in WriterState /\ w.at = "appends" /\ w.writing # 0
    <3>1. old \in WriterState /\ <<>> \in Seq(Nat)
      BY WriterFields
    <3> DEFINE n == Writing(old)
               mine == old.lines
    <3>2. n \in Nat /\ n # 0 /\ mine \in Seq(Nat)
      BY <2>1
    <3>3. w = [old EXCEPT !.at = "appends", !.hand = mine, !.lines = <<>>, !.writing = n]
      OBVIOUS
    <3> HIDE DEF w, n, mine, old
    <3>4. QED
      BY <3>1, <3>2, <3>3 DEF WriterState
  <2>3. sink' = [sink EXCEPT ![s] = w] /\ ~IsDrained(w)
    BY <1>4, <2>2 DEF Sets, IsDrained
  <2>4. ledger' \in Seq(Int) /\ Len(ledger) <= Len(ledger')
    BY <1>1, WriterFields
  <2> HIDE DEF w
  <2>5. QED
    BY <1>1, <1>4, <2>2, <2>3, <2>4, WorkerMoves
<1>5. QED
  BY <1>2, <1>3, <1>4 DEF Work

\* A worker with a batch in hand: the queue it took from is not drained by what
\* it does with a record.
LEMMA HandMoves ==
  ASSUME SinkInv, NEW s \in Sink, s \notin asleep, sink[s].at \in {"appends", "writes", "repairs"},
         NEW at \in {"appends", "writes", "repairs"}, NEW hand \in Seq(Nat), NEW start \in Nat,
         sink' = [sink EXCEPT ![s] = [sink[s] EXCEPT !.at = at, !.hand = hand, !.start = start]],
         UNCHANGED <<caller, asleep, made>>,
         ledger' \in Seq(Int), Len(ledger) <= Len(ledger') \/ appender = {s},
         at \in {"writes", "repairs"} => appender' = {s} /\ start <= Len(ledger') /\ hand # <<>>,
         \/ appender' = appender
         \/ (appender' = {s} /\ appender = {})
         \/ (appender' = {} /\ appender = {s})
  PROVE  SinkInv'
<1> DEFINE w == [sink[s] EXCEPT !.at = at, !.hand = hand, !.start = start]
<1>1. /\ w \in WriterState /\ w.at = at /\ w.start = start /\ w.hand = hand
      /\ w.lines = sink[s].lines /\ w.writing = sink[s].writing
  BY WriterFields DEF WriterState
<1>2. IsDrained(w) => IsDrained(sink[s])
  BY <1>1 DEF IsDrained
<1>3. sink' = [sink EXCEPT ![s] = w]
  OBVIOUS
<1> HIDE DEF w
<1>4. QED
  BY <1>1, <1>2, <1>3, WorkerMoves

LEMMA HandFields ==
  ASSUME SinkInv, NEW s \in Sink, sink[s].hand # <<>>
  PROVE  Head(sink[s].hand) \in Nat /\ Tail(sink[s].hand) \in Seq(Nat)
  BY WriterFields

\* A worker's record is what its fields make it: an update may name more of them.
LEMMA SameFields ==
  ASSUME SinkInv, NEW s \in Sink, NEW at, NEW hand, NEW start
  PROVE  /\ [sink[s] EXCEPT !.at = at, !.hand = hand]
              = [sink[s] EXCEPT !.at = at, !.hand = hand, !.start = sink[s].start]
         /\ [sink[s] EXCEPT !.at = at, !.start = start]
              = [sink[s] EXCEPT !.at = at, !.hand = sink[s].hand, !.start = start]
         /\ [sink[s] EXCEPT !.at = at]
              = [sink[s] EXCEPT !.at = at, !.hand = sink[s].hand, !.start = sink[s].start]
         /\ [sink[s] EXCEPT !.hand = hand]
              = [sink[s] EXCEPT !.at = sink[s].at, !.hand = hand, !.start = sink[s].start]
  BY WriterFields DEF WriterState

LEMMA TakesLock == ASSUME SinkInv, NEW s \in Sink, Locks(s) PROVE SinkInv'
<1>1. /\ sink[s].at = "appends" /\ sink[s].hand # <<>> /\ s \notin asleep /\ appender = {} /\ appender' = {s}
      /\ UNCHANGED <<caller, asleep, ledger, made>>
      /\ sink' = [sink EXCEPT ![s] = [sink[s] EXCEPT !.at = "writes", !.start = Len(ledger)]]
  BY DEF Locks, Awake, LockFree, Sets
<1>2. /\ sink[s].hand \in Seq(Nat) /\ Len(ledger) \in Nat /\ ledger \in Seq(Int)
  BY WriterFields
<1>3. sink' = [sink EXCEPT ![s] = [sink[s] EXCEPT !.at = "writes", !.hand = sink[s].hand, !.start = Len(ledger)]]
  BY <1>1, SameFields
<1>4. ledger' \in Seq(Int) /\ Len(ledger) <= Len(ledger') /\ Len(ledger') = Len(ledger)
  BY <1>1, <1>2
<1>5. QED
  BY <1>1, <1>2, <1>3, <1>4, HandMoves

LEMMA GivesUpLine == ASSUME SinkInv, NEW s \in Sink, CannotOpen(s) PROVE SinkInv'
<1> DEFINE w == [sink[s] EXCEPT !.hand = Tail(@)]
<1>1. /\ sink[s].at = "appends" /\ s \notin asleep /\ sink[s].hand # <<>>
      /\ UNCHANGED <<caller, asleep, ledger, made, appender>>
      /\ sink' = [sink EXCEPT ![s] = w]
  BY DEF CannotOpen, Awake, Sets, OnDisk
<1>2. Tail(sink[s].hand) \in Seq(Nat) /\ Len(ledger) \in Nat /\ ledger \in Seq(Int)
  BY <1>1, HandFields, WriterFields
<1>3. /\ w \in WriterState /\ w.at = "appends"
      /\ w.lines = sink[s].lines /\ w.writing = sink[s].writing
  BY <1>1, <1>2, WriterFields DEF WriterState
<1>4. IsDrained(w) => IsDrained(sink[s])
  BY <1>3 DEF IsDrained
<1>5. ledger' \in Seq(Int) /\ Len(ledger) <= Len(ledger')
  BY <1>1, <1>2
<1> HIDE DEF w
<1>6. QED
  BY <1>1, <1>3, <1>4, <1>5, WorkerMoves

\* A worker at the file goes on to its next record.
LEMMA NextLineMoves ==
  ASSUME SinkInv, NEW s \in Sink, s \notin asleep, sink[s].at \in {"writes", "repairs"},
         NextLine(s), UNCHANGED <<caller, asleep, made>>, ledger' \in Seq(Int)
  PROVE  SinkInv'
<1>1. /\ appender' = {} /\ appender = {s} /\ sink[s].hand # <<>>
      /\ sink' = [sink EXCEPT ![s] = [sink[s] EXCEPT !.at = "appends", !.hand = Tail(@)]]
  BY DEF NextLine, Sets, SinkInv, Locked
<1>2. Tail(sink[s].hand) \in Seq(Nat) /\ sink[s].start \in Nat
  BY <1>1, HandFields, WriterFields
<1>3. sink' = [sink EXCEPT ![s] = [sink[s] EXCEPT !.at = "appends", !.hand = Tail(sink[s].hand),
                                                  !.start = sink[s].start]]
  BY <1>1, SameFields
<1>4. QED
  BY <1>1, <1>2, <1>3, HandMoves

LEMMA FailsLine == ASSUME SinkInv, NEW s \in Sink, LineFails(s) PROVE SinkInv'
<1> DEFINE w == [sink[s] EXCEPT !.at = "repairs"]
<1>1. /\ sink[s].at = "writes" /\ s \notin asleep /\ ledger' \in {ledger, Append(ledger, Fragment)}
      /\ UNCHANGED <<caller, asleep, appender, made>>
      /\ sink' = [sink EXCEPT ![s] = w]
  BY DEF LineFails, Awake, Sets
<1>2. appender = {s} /\ sink[s].start <= Len(ledger) /\ sink[s].hand # <<>>
  BY <1>1 DEF SinkInv, Locked
<1>3. sink[s].start \in Nat /\ Len(ledger) \in Nat /\ ledger \in Seq(Int)
  BY WriterFields
<1>4. ledger' \in Seq(Int) /\ Len(ledger) <= Len(ledger') /\ Len(ledger') \in Nat
  <2>1. CASE ledger' = ledger
    BY <1>3, <2>1
  <2>2. CASE ledger' = Append(ledger, Fragment)
    BY <1>3, <2>2 DEF Fragment
  <2>3. QED
    BY <1>1, <2>1, <2>2
<1>5. /\ w \in WriterState /\ w.at = "repairs" /\ w.hand = sink[s].hand
      /\ w.start = sink[s].start /\ w.lines = sink[s].lines /\ w.writing = sink[s].writing
  BY WriterFields DEF WriterState
<1>6. IsDrained(w) => IsDrained(sink[s])
  BY <1>5 DEF IsDrained
<1>7. w.start <= Len(ledger')
  BY <1>2, <1>3, <1>4, <1>5
<1> HIDE DEF w
<1>8. QED
  BY <1>1, <1>2, <1>4, <1>5, <1>6, <1>7, WorkerMoves

LEMMA FinishesBatch == ASSUME SinkInv, NEW s \in Sink, BatchDone(s) PROVE SinkInv'
<1> DEFINE w == [sink[s] EXCEPT !.writing = 0,
                                !.at = IF sink[s].lines = <<>> THEN "notifies" ELSE "ready"]
<1>1. /\ sink[s].at = "appends" /\ s \notin asleep /\ sink' = [sink EXCEPT ![s] = w]
      /\ UNCHANGED <<caller, asleep, ledger, made, appender>>
  BY DEF BatchDone, Awake, Sets, OnDisk
<1>2. /\ w \in WriterState /\ w.lines = sink[s].lines
      /\ w.at = IF sink[s].lines = <<>> THEN "notifies" ELSE "ready"
  BY WriterFields DEF WriterState
<1>3. IsDrained(w) => w.at = "notifies"
  BY <1>2 DEF IsDrained
<1>4. ledger' \in Seq(Int) /\ Len(ledger) <= Len(ledger')
  BY <1>1, WriterFields
<1> HIDE DEF w
<1>5. QED
  BY <1>1, <1>2, <1>3, <1>4, WorkerMoves

LEMMA TellsBatch == ASSUME SinkInv, NEW s \in Sink, NotifyAfterBatch(s) PROVE SinkInv'
<1> DEFINE w == [sink[s] EXCEPT !.at = "ready"]
<1>1. /\ sink[s].at = "notifies" /\ s \notin asleep /\ Notify(s) /\ sink' = [sink EXCEPT ![s] = w]
      /\ UNCHANGED <<caller, made, ledger, appender>>
  BY DEF NotifyAfterBatch, Awake, Sets, OnDisk
<1>2. w \in WriterState /\ w.at = "ready"
  BY WriterFields DEF WriterState
<1> HIDE DEF w
<1>3. sink'[s] = w /\ \A r \in Sink \ {s} : sink'[r] = sink[r]
  BY <1>1 DEF SinkInv, SinkTyped
<1>4. asleep' \subseteq asleep
  BY <1>1 DEF Notify
<1>5. SinkTyped'
  BY <1>1, <1>2, <1>4 DEF SinkInv, SinkTyped
<1>6. Resting' /\ Locked'
  BY <1>1, <1>2, <1>3, <1>4 DEF SinkInv, Resting, Locked
<1>7. \A r \in Sink \ {s} : WakeupDue(r) => WakeupDue(r)'
  BY <1>1, <1>3 DEF WakeupDue
<1>8. QED
  BY <1>1, <1>3, <1>5, <1>6, <1>7, AllAreWoken

THEOREM SinkInvariant == SinkSpec => []SinkInv
<1>1. SinkInit => SinkInv
  <2> SUFFICES ASSUME SinkInit PROVE SinkInv
    OBVIOUS
  <2>1. (CHOOSE s \in Sink : TRUE) \in Sink
    BY SinkAssumption
  <2>2. NewWriter \in WriterState /\ NewWriter.at = "ready"
    BY DEF NewWriter, WriterState
  <2>3. SinkTyped
    BY <2>1, <2>2 DEF SinkInit, SinkTyped, CallerState
  <2>4. Resting /\ Locked /\ NobodySleepsThrough
    BY <2>2 DEF SinkInit, Resting, Locked, NobodySleepsThrough
  <2>5. QED
    BY <2>3, <2>4 DEF SinkInv
<1>2. SinkInv /\ [SinkNext]_sinkVars => SinkInv'
  <2> SUFFICES ASSUME SinkInv, [SinkNext]_sinkVars PROVE SinkInv'
    OBVIOUS
  <2>1. ASSUME NEW c \in Caller, NEW s \in Handles[c], Enqueue(c, s) \/ BeginFlush(c, s) \/ CloseSink(c, s)
        PROVE  SinkInv'
    <3>1. s \in Sink
      BY SinkAssumption
    <3>2. ASSUME BeginFlush(c, s) PROVE SinkInv'
      <4>1. /\ caller[c].at = "idle" /\ caller' = [caller EXCEPT ![c] = [at |-> "flushes", of |-> s]]
            /\ UNCHANGED <<sink, asleep, made, ledger, appender>>
        BY <3>2 DEF BeginFlush, Free, Takes, OnDisk
      <4>2. [at |-> "flushes", of |-> s] \in CallerState /\ c \notin asleep
        BY <3>1, <4>1 DEF CallerState, SinkInv, Resting
      <4>3. QED
        BY <4>1, <4>2, CallerMoves
    <3>3. QED
      BY <2>1, <3>1, <3>2, Enqueues, ClosesSink
  <2>2. ASSUME NEW c \in Caller, NotifyAfterEnqueue(c) \/ NotifyAfterClose(c) PROVE SinkInv'
    BY <2>2, CallerNotifies DEF NotifyAfterEnqueue, NotifyAfterClose, OnDisk
  <2>3. ASSUME NEW c \in Caller, Join(c) PROVE SinkInv'
    <3>1. /\ caller[c].at = "joins" /\ caller' = [caller EXCEPT ![c] = [caller[c] EXCEPT !.at = "idle"]]
          /\ UNCHANGED <<sink, asleep, made, ledger, appender>>
      BY <2>3 DEF Join, Turns, OnDisk
    <3>2. caller[c] \in CallerState /\ c \notin asleep
      BY <3>1 DEF SinkInv, SinkTyped, Resting
    <3>3. [caller[c] EXCEPT !.at = "idle"] \in CallerState
      BY <3>2 DEF CallerState
    <3>4. QED
      BY <3>1, <3>2, <3>3, CallerMoves
  <2>4. ASSUME NEW s \in Sink, WritesLine(s) PROVE SinkInv'
    <3>1. /\ sink[s].at = "writes" /\ s \notin asleep /\ NextLine(s)
          /\ ledger' = Append(ledger, Head(sink[s].hand)) /\ UNCHANGED <<caller, asleep, made>>
      BY <2>4 DEF WritesLine, Awake
    <3>2. sink[s].hand # <<>>
      BY <3>1 DEF SinkInv, Locked
    <3>3. ledger' \in Seq(Int)
      BY <3>1, <3>2, HandFields, WriterFields
    <3>4. QED
      BY <3>1, <3>3, NextLineMoves
  <2>5. ASSUME NEW s \in Sink, Repair(s) PROVE SinkInv'
    <3>1. /\ sink[s].at = "repairs" /\ s \notin asleep /\ NextLine(s)
          /\ ledger' \in {CutBack(s), Append(ledger, Newline), ledger} /\ UNCHANGED <<caller, asleep, made>>
      BY <2>5 DEF Repair, Awake
    <3>2. sink[s].start <= Len(ledger) /\ sink[s].start \in Nat /\ ledger \in Seq(Int)
      BY <3>1, WriterFields DEF SinkInv, Locked
    <3>3. CutBack(s) \in Seq(Int)
      BY <3>2 DEF CutBack
    <3>4. Append(ledger, Newline) \in Seq(Int)
      BY <3>2 DEF Newline
    <3>5. ledger' \in Seq(Int)
      BY <3>1, <3>2, <3>3, <3>4
    <3>6. QED
      BY <3>1, <3>5, NextLineMoves
  <2>6. ASSUME NEW t \in asleep, WakesUp(t) PROVE SinkInv'
    <3>1. asleep' = asleep \ {t} /\ UNCHANGED <<sink, caller, made, ledger, appender>>
      BY <2>6 DEF WakesUp, OnDisk
    <3>2. QED
      BY <3>1 DEF SinkInv, SinkTyped, Resting, Locked, NobodySleepsThrough, WakeupDue
  <2>7. ASSUME UNCHANGED sinkVars PROVE SinkInv'
    BY <2>7 DEF sinkVars, SinkInv, SinkTyped, Resting, Locked, NobodySleepsThrough, WakeupDue
  <2>8. QED
    BY <2>1, <2>2, <2>3, <2>4, <2>5, <2>6, <2>7, Flushes, Works, TakesLock, GivesUpLine,
       FailsLine, FinishesBatch, TellsBatch DEF SinkNext
<1>3. QED
  BY <1>1, <1>2, PTL DEF SinkSpec

\* With any number of writers and threads, queues of any size and wakeups that
\* come for no reason: no wakeup is lost between the two kinds of waiters that
\* share a condition variable.
THEOREM NobodyEverSleepsThrough == SinkSpec => []NobodySleepsThrough
<1>1. SinkInv => NobodySleepsThrough
  BY DEF SinkInv
<1>2. QED
  BY SinkInvariant, <1>1, PTL

\* The lock around the file lets one worker write, or repair what it wrote, at
\* a time, writers of the same ledger under other names included.
OneAtTheFile ==
  \A r, s \in Sink : r # s => ~(\A w \in {r, s} : sink[w].at \in {"writes", "repairs"})
THEOREM OneAlwaysAtTheFile == SinkSpec => []OneAtTheFile
<1>1. SinkInv => OneAtTheFile
  <2> SUFFICES ASSUME SinkInv, NEW r \in Sink, NEW s \in Sink, r # s,
                      \A w \in {r, s} : sink[w].at \in {"writes", "repairs"}
               PROVE  FALSE
    BY DEF OneAtTheFile
  <2>1. appender = {r} /\ appender = {s}
    BY DEF SinkInv, Locked
  <2>2. QED
    BY <2>1
<1>2. QED
  BY SinkInvariant, <1>1, PTL

-----------------------------------------------------------------------------
(* No record is lost uncounted: each is in one place, a torn line spoils at   *)
(* most the record after it, and for that a failed repair was counted.        *)

\* n records were made, a writer s holds H[s], those in R can be read, those in L are lost.
Places(H, R, L, n) ==
  /\ n \in Nat /\ R \subseteq 1..n /\ L \subseteq 1..n /\ R \cap L = {}
  /\ \A s \in Sink : H[s] \subseteq 1..n /\ H[s] \cap R = {} /\ H[s] \cap L = {}
  /\ \A s, t \in Sink : s # t => H[s] \cap H[t] = {}
Adrift(H, R, L, n) == 1..n \ (R \cup L \cup UNION {H[s] : s \in Sink})
Hands  == [s \in Sink |-> Held(s)]
Unread == Adrift(Hands, Readable, lost, made)

Once(q) == \A i, j \in DOMAIN q : q[i] = q[j] => i = j
Neat(w) == /\ Once(w.lines) /\ Once(w.hand) /\ ItemsOf(w.lines) \cap ItemsOf(w.hand) = {}
           /\ w.hand # <<>> => w.at \in {"appends", "writes", "repairs"} /\ w.writing # 0

\* What can be read of a file l.
LegibleOf(l)   == {i \in DOMAIN l : l[i] > 0 /\ (i > 1 => l[i - 1] # Fragment)}
ReadableOf(l)  == {l[i] : i \in LegibleOf(l)}
WrittenOnce(l) == \A i, j \in LegibleOf(l) : l[i] = l[j] => i = j
EndsTorn(l)    == l # <<>> /\ l[Len(l)] = Fragment

\* What a worker found in the file is there still, and after it at most a torn line.
Before(s) == SubSeq(ledger, 1, sink[s].start)
FileKept ==
  \A s \in Sink : /\ sink[s].at = "writes" => sink[s].start = Len(ledger)
                  /\ sink[s].at = "repairs"
                       => ledger = Before(s) \/ ledger = Append(Before(s), Fragment)

\* A torn line that nobody is repairing is a failed repair that spoiled nothing yet.
Torn == \/ EndsTorn(ledger) /\ \A s \in Sink : sink[s].at # "repairs"
        \/ \E s \in Sink : sink[s].at = "repairs" /\ EndsTorn(Before(s))
Counted == /\ unsealed \in Nat /\ Cardinality(Unread) <= unsealed
           /\ Torn => Cardinality(Unread) < unsealed

Accounted == /\ Places(Hands, Readable, lost, made) /\ \A s \in Sink : Neat(sink[s])
             /\ WrittenOnce(ledger) /\ FileKept /\ Counted

\* One record leaves the hands of a writer; it is lost, or read, or adrift.
LetGo(H, G, s, h) == /\ s \in Sink /\ h \in H[s] /\ G[s] = H[s] \ {h}
                     /\ \A r \in Sink \ {s} : G[r] = H[r]
LEMMA Without ==
  ASSUME NEW H, NEW R, NEW L, NEW n, Places(H, R, L, n), NEW s, NEW h, NEW G, LetGo(H, G, s, h)
  PROVE  /\ h \in 1..n /\ h \notin R /\ h \notin L /\ \A r \in Sink : G[r] \subseteq H[r] /\ h \notin G[r]
         /\ UNION {H[r] : r \in Sink} = (UNION {G[r] : r \in Sink}) \cup {h}
         /\ h \notin UNION {G[r] : r \in Sink}
<1>1. h \in 1..n /\ h \notin R /\ h \notin L /\ \A r \in Sink : G[r] \subseteq H[r] /\ h \notin G[r]
  BY DEF Places, LetGo
<1>2. UNION {H[r] : r \in Sink} = (UNION {G[r] : r \in Sink}) \cup {h}
  <2>1. \A x : (\E r \in Sink : x \in H[r]) <=> (\E r \in Sink : x \in G[r]) \/ x = h
    BY DEF LetGo
  <2>2. QED
    BY <2>1
<1>3. h \notin UNION {G[r] : r \in Sink}
  BY <1>1
<1>4. QED
  BY <1>1, <1>2, <1>3

LEMMA Leaves ==
  ASSUME NEW H, NEW R, NEW L, NEW n, Places(H, R, L, n), NEW s, NEW h, NEW G, LetGo(H, G, s, h)
  PROVE  Places(G, R, L, n) /\ Adrift(G, R, L, n) = Adrift(H, R, L, n) \cup {h}
<1>1. h \in 1..n /\ h \notin R /\ h \notin L /\ \A r \in Sink : G[r] \subseteq H[r] /\ h \notin G[r]
  BY Without
<1>2. Places(G, R, L, n)
  BY <1>1 DEF Places, LetGo
<1>3. QED
  BY <1>2, Without DEF Adrift

LEMMA LeavesRead ==
  ASSUME NEW H, NEW R, NEW L, NEW n, Places(H, R, L, n), NEW s, NEW h, NEW G, LetGo(H, G, s, h)
  PROVE  Places(G, R \cup {h}, L, n) /\ Adrift(G, R \cup {h}, L, n) = Adrift(H, R, L, n)
<1>1. h \in 1..n /\ h \notin R /\ h \notin L /\ \A r \in Sink : G[r] \subseteq H[r] /\ h \notin G[r]
  BY Without
<1>2. Places(G, R \cup {h}, L, n)
  <2>1. n \in Nat /\ R \cup {h} \subseteq 1..n /\ L \subseteq 1..n /\ (R \cup {h}) \cap L = {}
    BY <1>1 DEF Places
  <2>2. \A r \in Sink : G[r] \subseteq 1..n /\ G[r] \cap (R \cup {h}) = {} /\ G[r] \cap L = {}
    BY <1>1 DEF Places
  <2>3. \A r, t \in Sink : r # t => G[r] \cap G[t] = {}
    BY <1>1 DEF Places
  <2>4. QED
    BY <2>1, <2>2, <2>3 DEF Places
<1>3. QED
  BY <1>2, Without DEF Adrift

LEMMA LeavesLost ==
  ASSUME NEW H, NEW R, NEW L, NEW n, Places(H, R, L, n), NEW s, NEW h, NEW G, LetGo(H, G, s, h)
  PROVE  Places(G, R, L \cup {h}, n) /\ Adrift(G, R, L \cup {h}, n) = Adrift(H, R, L, n)
<1>1. h \in 1..n /\ h \notin R /\ h \notin L /\ \A r \in Sink : G[r] \subseteq H[r] /\ h \notin G[r]
  BY Without
<1>2. Places(G, R, L \cup {h}, n)
  BY <1>1 DEF Places, LetGo
<1>3. QED
  BY <1>2, Without DEF Adrift

\* A record is made, and its writer takes it.
LEMMA Comes ==
  ASSUME NEW H, NEW R, NEW L, NEW n, Places(H, R, L, n), NEW s \in Sink,
         NEW G, G[s] = H[s] \cup {n + 1}, \A r \in Sink \ {s} : G[r] = H[r]
  PROVE  Places(G, R, L, n + 1) /\ Adrift(G, R, L, n + 1) = Adrift(H, R, L, n)
<1>1. n \in Nat /\ 1..(n + 1) = 1..n \cup {n + 1} /\ n + 1 \notin 1..n
  BY DEF Places
<1>2. \A r \in Sink : H[r] \subseteq 1..n
  BY DEF Places
<1>3. Places(G, R, L, n + 1)
  <2>1. n + 1 \in Nat /\ R \subseteq 1..(n + 1) /\ L \subseteq 1..(n + 1) /\ R \cap L = {}
    BY <1>1 DEF Places
  <2>2. \A r \in Sink : G[r] \subseteq 1..(n + 1) /\ G[r] \cap R = {} /\ G[r] \cap L = {}
    BY <1>1 DEF Places
  <2>3. \A r, t \in Sink : r # t => G[r] \cap G[t] = {}
    BY <1>1 DEF Places
  <2>4. QED
    BY <2>1, <2>2, <2>3 DEF Places
<1>4. UNION {G[r] : r \in Sink} = (UNION {H[r] : r \in Sink}) \cup {n + 1}
  <2>1. \A x : (\E r \in Sink : x \in G[r]) <=> (\E r \in Sink : x \in H[r]) \/ x = n + 1
    OBVIOUS
  <2>2. QED
    BY <2>1
<1>5. R \subseteq 1..n /\ L \subseteq 1..n
  BY DEF Places
<1>6. n + 1 \notin R \cup L \cup UNION {H[r] : r \in Sink}
  BY <1>1, <1>2, <1>5
<1>7. QED
  BY <1>1, <1>3, <1>4, <1>6 DEF Adrift

\* Nothing moves.
LEMMA Stays ==
  ASSUME NEW H, NEW R, NEW L, NEW n, NEW G, \A r \in Sink : G[r] = H[r]
  PROVE  /\ Places(G, R, L, n) <=> Places(H, R, L, n)
         /\ Adrift(G, R, L, n) = Adrift(H, R, L, n)
<1>1. {G[r] : r \in Sink} = {H[r] : r \in Sink}
  OBVIOUS
<1>2. QED
  BY <1>1 DEF Places, Adrift

LEMMA AdriftFinite ==
  ASSUME NEW H, NEW R, NEW L, NEW n, Places(H, R, L, n)
  PROVE  IsFiniteSet(Adrift(H, R, L, n)) /\ Cardinality(Adrift(H, R, L, n)) \in Nat
<1>1. n \in Nat /\ Adrift(H, R, L, n) \subseteq 1..n
  BY DEF Places, Adrift
<1>2. IsFiniteSet(1..n)
  BY <1>1, FS_Interval
<1>3. IsFiniteSet(Adrift(H, R, L, n))
  BY <1>1, <1>2, FS_Subset
<1>4. QED
  BY <1>3, FS_CardinalityType

\* Queues without repetitions.
LEMMA OnceTail ==
  ASSUME NEW q \in Seq(Nat), Once(q), q # <<>>
  PROVE  /\ Once(Tail(q)) /\ Head(q) \in ItemsOf(q) /\ ItemsOf(Tail(q)) = ItemsOf(q) \ {Head(q)}
<1>1. /\ Len(q) \in Nat /\ Len(q) # 0 /\ Head(q) = q[1] /\ Len(Tail(q)) = Len(q) - 1
      /\ \A i \in 1..(Len(q) - 1) : Tail(q)[i] = q[i + 1]
      /\ DOMAIN q = 1..Len(q) /\ DOMAIN Tail(q) = 1..(Len(q) - 1)
  OBVIOUS
<1>2. Once(Tail(q))
  BY <1>1 DEF Once
<1>3. Head(q) \in ItemsOf(q)
  BY <1>1 DEF ItemsOf
<1>4. ASSUME NEW x PROVE x \in ItemsOf(Tail(q)) <=> x \in ItemsOf(q) \ {Head(q)}
  <2>1. x \in ItemsOf(Tail(q)) <=> \E i \in 1..(Len(q) - 1) : x = q[i + 1]
    BY <1>1 DEF ItemsOf
  <2>2. x \in ItemsOf(q) \ {q[1]} <=> \E i \in 2..Len(q) : x = q[i]
    <3>1. \A i \in 2..Len(q) : q[i] # q[1]
      BY <1>1 DEF Once
    <3>2. \A i \in 1..Len(q) : i = 1 \/ i \in 2..Len(q)
      BY <1>1
    <3>3. \A i \in 2..Len(q) : i \in 1..Len(q)
      BY <1>1
    <3>4. QED
      BY <1>1, <3>1, <3>2, <3>3 DEF ItemsOf
  <2>3. \A i \in 2..Len(q) : i - 1 \in 1..(Len(q) - 1) /\ (i - 1) + 1 = i
    BY <1>1
  <2>4. \A i \in 1..(Len(q) - 1) : i + 1 \in 2..Len(q)
    BY <1>1
  <2>5. QED
    BY <1>1, <2>1, <2>2, <2>3, <2>4
<1>5. QED
  BY <1>2, <1>3, <1>4

LEMMA OnceAppend ==
  ASSUME NEW q \in Seq(Nat), Once(q), NEW x \in Nat, x \notin ItemsOf(q)
  PROVE  Once(Append(q, x)) /\ ItemsOf(Append(q, x)) = ItemsOf(q) \cup {x}
<1> DEFINE p == Append(q, x)
<1>1. /\ Len(q) \in Nat /\ DOMAIN q = 1..Len(q) /\ DOMAIN p = 1..Len(q) \cup {Len(q) + 1}
      /\ \A i \in 1..Len(q) : p[i] = q[i]
  OBVIOUS
<1>2. p[Len(q) + 1] = x /\ Len(q) + 1 \notin 1..Len(q)
  OBVIOUS
<1> HIDE DEF p
<1>3. \A i \in 1..Len(q) : q[i] # x
  BY <1>1 DEF ItemsOf
<1>4. Once(p)
  BY <1>1, <1>2, <1>3 DEF Once
<1>5. ItemsOf(p) = ItemsOf(q) \cup {x}
  BY <1>1, <1>2 DEF ItemsOf
<1>6. QED
  BY <1>4, <1>5 DEF p

LEMMA NothingInside == Once(<<>>) /\ ItemsOf(<<>>) = {}
  BY DEF Once, ItemsOf

\* A line that is no record, or that continues a torn one, is no news to a reader.
LEMMA AppendsUnread ==
  ASSUME NEW l \in Seq(Int), NEW x \in Int, x <= 0 \/ EndsTorn(l)
  PROVE  /\ ReadableOf(Append(l, x)) = ReadableOf(l)
         /\ WrittenOnce(Append(l, x)) <=> WrittenOnce(l)
<1> DEFINE p == Append(l, x)
<1>1. /\ Len(l) \in Nat /\ DOMAIN l = 1..Len(l) /\ DOMAIN p = 1..Len(l) \cup {Len(l) + 1}
      /\ \A i \in 1..Len(l) : p[i] = l[i]
  OBVIOUS
<1>2. p[Len(l) + 1] = x /\ Len(l) + 1 \notin 1..Len(l) /\ (Len(l) + 1) - 1 = Len(l)
  OBVIOUS
<1> HIDE DEF p
<1>3. Len(l) + 1 \notin LegibleOf(p)
  <2>1. CASE x <= 0
    BY <1>2, <2>1 DEF LegibleOf
  <2>2. CASE EndsTorn(l)
    <3>1. Len(l) \in 1..Len(l) /\ l[Len(l)] = Fragment
      <4>1. l # <<>> /\ l[Len(l)] = Fragment
        BY <2>2 DEF EndsTorn
      <4>2. Len(l) # 0
        BY <4>1
      <4>3. QED
        BY <1>1, <4>1, <4>2
    <3>2. p[(Len(l) + 1) - 1] = Fragment /\ Len(l) + 1 > 1
      BY <1>1, <1>2, <3>1
    <3>3. QED
      BY <3>2 DEF LegibleOf
  <2>3. QED
    BY <2>1, <2>2
<1>4. \A i \in 1..Len(l) : i > 1 => i - 1 \in 1..Len(l)
  BY <1>1
<1>5. LegibleOf(p) = LegibleOf(l) /\ \A i \in LegibleOf(l) : p[i] = l[i]
  BY <1>1, <1>3, <1>4 DEF LegibleOf
<1>6. ReadableOf(p) = ReadableOf(l) /\ (WrittenOnce(p) <=> WrittenOnce(l))
  BY <1>5 DEF ReadableOf, WrittenOnce
<1>7. QED
  BY <1>6 DEF p

\* A record after a whole line can be read.
LEMMA AppendsRead ==
  ASSUME NEW l \in Seq(Int), NEW x \in Nat \ {0}, ~EndsTorn(l), x \notin ReadableOf(l)
  PROVE  /\ ReadableOf(Append(l, x)) = ReadableOf(l) \cup {x}
         /\ WrittenOnce(l) => WrittenOnce(Append(l, x))
<1> DEFINE p == Append(l, x)
<1>1. /\ Len(l) \in Nat /\ DOMAIN l = 1..Len(l) /\ DOMAIN p = 1..Len(l) \cup {Len(l) + 1}
      /\ \A i \in 1..Len(l) : p[i] = l[i]
  OBVIOUS
<1>2. p[Len(l) + 1] = x /\ Len(l) + 1 \notin 1..Len(l) /\ (Len(l) + 1) - 1 = Len(l)
  OBVIOUS
<1> HIDE DEF p
<1>3. Len(l) + 1 \in LegibleOf(p)
  <2>1. CASE Len(l) = 0
    BY <1>1, <1>2, <2>1 DEF LegibleOf
  <2>2. CASE Len(l) # 0
    <3>1. Len(l) \in 1..Len(l) /\ l # <<>>
      BY <1>1, <2>2
    <3>2. p[Len(l)] # Fragment
      BY <1>1, <3>1 DEF EndsTorn
    <3>3. QED
      <4> DEFINE k == Len(l) + 1
      <4>0. k \in DOMAIN p /\ p[k] > 0 /\ k - 1 = Len(l)
        BY <1>1, <1>2
      <4> HIDE DEF k
      <4>1. k \in DOMAIN p /\ p[k] > 0 /\ p[k - 1] # Fragment
        BY <3>2, <4>0
      <4>2. k \in LegibleOf(p)
        BY <4>1 DEF LegibleOf
      <4>3. QED
        BY <4>2 DEF k
  <2>3. QED
    BY <2>1, <2>2
<1>4. \A i \in 1..Len(l) : i > 1 => i - 1 \in 1..Len(l)
  BY <1>1
<1>5. LegibleOf(p) = LegibleOf(l) \cup {Len(l) + 1} /\ \A i \in LegibleOf(l) : p[i] = l[i]
  BY <1>1, <1>3, <1>4 DEF LegibleOf
<1>6. ReadableOf(p) = ReadableOf(l) \cup {x}
  BY <1>2, <1>5 DEF ReadableOf
<1>7. ASSUME WrittenOnce(l) PROVE WrittenOnce(p)
  <2>1. \A i \in LegibleOf(l) : p[i] # x
    BY <1>5 DEF ReadableOf
  <2>2. QED
    BY <1>2, <1>5, <1>7, <2>1 DEF WrittenOnce
<1>8. QED
  BY <1>6, <1>7 DEF p

LEMMA EndsIn ==
  ASSUME NEW l \in Seq(Int), NEW x \in Int
  PROVE  EndsTorn(Append(l, x)) <=> x = Fragment
<1>1. Append(l, x) # <<>> /\ Append(l, x)[Len(Append(l, x))] = x
  OBVIOUS
<1>2. QED
  BY <1>1 DEF EndsTorn

\* What one writer holds after it moved.
HeldBy(w) == ItemsOf(w.lines) \cup ItemsOf(w.hand)
LEMMA HandsAfter ==
  ASSUME SinkInv, NEW s \in Sink, NEW w, sink' = [sink EXCEPT ![s] = w]
  PROVE  /\ sink'[s] = w /\ \A r \in Sink \ {s} : sink'[r] = sink[r]
         /\ Hands'[s] = HeldBy(w) /\ \A r \in Sink \ {s} : Hands'[r] = Hands[r]
         /\ Hands[s] = HeldBy(sink[s])
<1>1. sink'[s] = w /\ \A r \in Sink \ {s} : sink'[r] = sink[r]
  BY DEF SinkInv, SinkTyped
<1>2. /\ Hands = [r \in Sink |-> HeldBy(sink[r])] /\ Hands' = [r \in Sink |-> HeldBy(sink'[r])]
  BY DEF Hands, Held, HeldBy
<1>3. QED
  BY <1>1, <1>2

\* A step that leaves the file alone.
LEMMA FileUntouched ==
  ASSUME SinkInv, Accounted, NEW s \in Sink, NEW w, sink' = [sink EXCEPT ![s] = w],
         ledger' = ledger, unsealed' = unsealed, w.at = "repairs" <=> sink[s].at = "repairs",
         w.at = "repairs" => w.start = sink[s].start, w.at = "writes" => w.start = Len(ledger),
         Neat(w), Places(Hands', Readable, lost', made'),
         Adrift(Hands', Readable, lost', made') = Unread
  PROVE  Accounted'
<1>1. sink'[s] = w /\ \A r \in Sink \ {s} : sink'[r] = sink[r]
  BY HandsAfter
<1>2. Readable' = Readable
  BY DEF Readable, Legible
<1>3. Places(Hands, Readable, lost, made)' /\ Unread' = Unread
  BY <1>2 DEF Unread
<1>4. \A r \in Sink : Neat(sink'[r])
  BY <1>1 DEF Accounted
<1>5. \A r \in Sink : /\ sink'[r].at = "repairs" <=> sink[r].at = "repairs"
                      /\ sink[r].at = "repairs" => Before(r)' = Before(r)
  BY <1>1 DEF Before
<1>6. FileKept'
  <2> SUFFICES ASSUME NEW r \in Sink
               PROVE  /\ sink'[r].at = "writes" => sink'[r].start = Len(ledger')
                      /\ sink'[r].at = "repairs" => \/ ledger' = Before(r)'
                                                    \/ ledger' = Append(Before(r)', Fragment)
    BY DEF FileKept
  <2>1. sink'[r].at = "writes" => sink'[r].start = Len(ledger')
    BY <1>1 DEF Accounted, FileKept
  <2>2. QED
    BY <1>5, <2>1 DEF Accounted, FileKept
<1>7. Torn' => Torn
  BY <1>5 DEF Torn
<1>8. QED
  BY <1>3, <1>4, <1>6, <1>7 DEF Accounted, Counted

LEMMA AccountFields ==
  ASSUME SinkInv, Accounted, NEW s \in Sink
  PROVE  /\ sink[s] \in WriterState /\ Neat(sink[s]) /\ Once(sink[s].lines) /\ Once(sink[s].hand)
         /\ sink[s].lines \in Seq(Nat) /\ sink[s].hand \in Seq(Nat) /\ sink[s].start \in Nat
         /\ ledger \in Seq(Int) /\ made \in Nat /\ unsealed \in Nat
         /\ Held(s) = HeldBy(sink[s]) /\ Held(s) \subseteq 1..made
         /\ Places(Hands, Readable, lost, made) /\ IsFiniteSet(Unread) /\ Cardinality(Unread) \in Nat
<1>1. Places(Hands, Readable, lost, made) /\ Hands[s] = Held(s)
  BY DEF Accounted, Hands
<1>2. Held(s) \subseteq 1..made /\ made \in Nat
  BY <1>1 DEF Places
<1>3. IsFiniteSet(Unread) /\ Cardinality(Unread) \in Nat
  BY <1>1, AdriftFinite DEF Unread
<1>4. Neat(sink[s]) /\ Once(sink[s].lines) /\ Once(sink[s].hand) /\ unsealed \in Nat
  BY DEF Accounted, Neat, Counted
<1>5. Held(s) = HeldBy(sink[s])
  BY DEF Held, HeldBy
<1>6. QED
  BY <1>1, <1>2, <1>3, <1>4, <1>5, WriterFields

\* A writer keeps its records.
LEMMA Rearranges ==
  ASSUME SinkInv, Accounted, NEW s \in Sink, NEW w, sink' = [sink EXCEPT ![s] = w],
         UNCHANGED <<ledger, unsealed, lost, made>>, w.at = "repairs" <=> sink[s].at = "repairs",
         w.at = "repairs" => w.start = sink[s].start, w.at = "writes" => w.start = Len(ledger),
         Neat(w), HeldBy(w) = HeldBy(sink[s])
  PROVE  Accounted'
<1>1. \A r \in Sink : Hands'[r] = Hands[r]
  BY HandsAfter
<1>2. Places(Hands', Readable, lost, made) /\ Adrift(Hands', Readable, lost, made) = Unread
  BY <1>1, Stays, AccountFields DEF Unread
<1>3. lost' = lost /\ made' = made /\ ledger' = ledger /\ unsealed' = unsealed
  OBVIOUS
<1>4. Places(Hands', Readable, lost', made') /\ Adrift(Hands', Readable, lost', made') = Unread
  BY <1>2, <1>3
<1>5. QED
  BY <1>3, <1>4, FileUntouched

\* A worker loses the record it was about to write.
LEMMA DropsAtHand ==
  ASSUME SinkInv, Accounted, NEW s \in Sink, sink[s].hand # <<>>,
         NEW w \in WriterState, w.lines = sink[s].lines, w.hand = Tail(sink[s].hand),
         w.at = "appends", w.writing = sink[s].writing
  PROVE  /\ Neat(w) /\ Head(sink[s].hand) \in Held(s) /\ HeldBy(w) = Held(s) \ {Head(sink[s].hand)}
         /\ Head(sink[s].hand) \in Nat \ {0}
<1>1. /\ Once(Tail(sink[s].hand)) /\ Head(sink[s].hand) \in ItemsOf(sink[s].hand)
      /\ ItemsOf(Tail(sink[s].hand)) = ItemsOf(sink[s].hand) \ {Head(sink[s].hand)}
  BY OnceTail, AccountFields
<1>2. sink[s].writing # 0 /\ ItemsOf(sink[s].lines) \cap ItemsOf(sink[s].hand) = {} /\ Once(sink[s].lines)
  BY AccountFields DEF Neat
<1>3. Neat(w)
  BY <1>1, <1>2 DEF Neat
<1>4. Head(sink[s].hand) \in Held(s) /\ HeldBy(w) = Held(s) \ {Head(sink[s].hand)}
  BY <1>1, <1>2, AccountFields DEF HeldBy
<1>5. QED
  BY <1>3, <1>4, AccountFields

LEMMA EnqueueAccounts ==
  ASSUME SinkInv, Accounted, NEW c \in Caller, NEW s \in Sink, Enqueue(c, s) PROVE Accounted'
<1> DEFINE q == sink[s].lines
           rest == IF AtLimit(s) THEN Tail(q) ELSE q
           w == [sink[s] EXCEPT !.lines = Append(rest, made + 1)]
<1>1. /\ made' = made + 1 /\ sink' = [sink EXCEPT ![s] = w] /\ ledger' = ledger /\ unsealed' = unsealed
      /\ lost' = IF AtLimit(s) THEN lost \cup {Head(q)} ELSE lost
  BY DEF Enqueue, Sets, OnDisk
<1>2. q \in Seq(Nat) /\ Once(q) /\ AtLimit(s) => q # <<>>
  BY WriterFields, SinkAssumption, AccountFields DEF AtLimit
<1>3. AtLimit(s) => Once(Tail(q)) /\ Head(q) \in ItemsOf(q) /\ ItemsOf(Tail(q)) = ItemsOf(q) \ {Head(q)}
  BY <1>2, AccountFields, OnceTail
<1>4. rest \in Seq(Nat) /\ Once(rest) /\ ItemsOf(rest) \subseteq ItemsOf(q)
  BY <1>2, <1>3, AccountFields
<1>5. made + 1 \in Nat /\ made + 1 \notin 1..made /\ Held(s) \subseteq 1..made
  BY AccountFields
<1>6. Held(s) = ItemsOf(q) \cup ItemsOf(sink[s].hand) /\ ItemsOf(q) \cap ItemsOf(sink[s].hand) = {}
  BY AccountFields DEF Neat, HeldBy
<1>7. made + 1 \notin ItemsOf(rest) /\ made + 1 \notin ItemsOf(sink[s].hand)
  BY <1>4, <1>5, <1>6
<1> HIDE DEF rest
<1>8. /\ Once(Append(rest, made + 1)) /\ Append(rest, made + 1) \in Seq(Nat)
      /\ ItemsOf(Append(rest, made + 1)) = ItemsOf(rest) \cup {made + 1}
  BY <1>4, <1>5, <1>7, OnceAppend
<1> DEFINE p == Append(rest, made + 1)
<1>9. /\ w.lines = p /\ w.hand = sink[s].hand /\ w.at = sink[s].at /\ w.start = sink[s].start
      /\ w.writing = sink[s].writing
  BY AccountFields DEF WriterState
<1> HIDE DEF w, p
<1>10. Neat(w)
  BY <1>4, <1>6, <1>7, <1>8, <1>9, AccountFields DEF Neat, p
<1>11. HeldBy(w) = (ItemsOf(rest) \cup ItemsOf(sink[s].hand)) \cup {made + 1}
  BY <1>8, <1>9 DEF HeldBy, p
<1>12. Hands'[s] = HeldBy(w) /\ Hands[s] = Held(s) /\ \A r \in Sink \ {s} : Hands'[r] = Hands[r]
  BY <1>1, HandsAfter, AccountFields
<1> DEFINE G == [r \in Sink |-> IF r = s THEN ItemsOf(rest) \cup ItemsOf(sink[s].hand) ELSE Hands[r]]
<1>13. /\ G[s] = ItemsOf(rest) \cup ItemsOf(sink[s].hand) /\ \A r \in Sink \ {s} : G[r] = Hands[r]
       /\ Hands'[s] = G[s] \cup {made + 1} /\ \A r \in Sink \ {s} : Hands'[r] = G[r]
  BY <1>11, <1>12
<1> HIDE DEF G
<1>14. Places(G, Readable, lost', made) /\ Adrift(G, Readable, lost', made) = Unread
  <2>1. CASE AtLimit(s)
    <3> DEFINE h == Head(q)
    <3>1. rest = Tail(q) /\ lost' = lost \cup {h}
      BY <1>1, <2>1 DEF rest
    <3>2. h \in Hands[s] /\ G[s] = Hands[s] \ {h}
      BY <1>3, <1>6, <1>12, <1>13, <2>1, <3>1
    <3>3. Places(Hands, Readable, lost, made)
      BY AccountFields
    <3> HIDE DEF h
    <3>4. /\ Places(G, Readable, lost \cup {h}, made)
          /\ Adrift(G, Readable, lost \cup {h}, made) = Adrift(Hands, Readable, lost, made)
      <4>1. LetGo(Hands, G, s, h)
        BY <1>13, <3>2 DEF LetGo
      <4>2. QED
        BY <3>3, <4>1, LeavesLost
    <3>5. QED
      BY <3>1, <3>4 DEF Unread
  <2>2. CASE ~AtLimit(s)
    <3>1. \A r \in Sink : G[r] = Hands[r]
      BY <1>6, <1>12, <1>13, <2>2 DEF rest
    <3>2. QED
      BY <1>1, <2>2, <3>1, AccountFields, Stays DEF Unread
  <2>3. QED
    BY <2>1, <2>2
<1>15. Places(Hands', Readable, lost', made') /\ Adrift(Hands', Readable, lost', made') = Unread
  BY <1>1, <1>13, <1>14, Comes
<1>16. sink[s].at = "writes" => sink[s].start = Len(ledger)
  BY DEF Accounted, FileKept
<1>17. QED
  BY <1>1, <1>9, <1>10, <1>15, <1>16, FileUntouched

\* A worker gives up a record that it could not write, or wrote it, or lets it go.
LEMMA HandLetsGo ==
  ASSUME SinkInv, Accounted, NEW s \in Sink, sink[s].hand # <<>>, NEW w \in WriterState,
         sink' = [sink EXCEPT ![s] = w], w.lines = sink[s].lines, w.hand = Tail(sink[s].hand),
         w.at = "appends", w.writing = sink[s].writing
  PROVE  /\ Neat(w) /\ Head(sink[s].hand) \in Nat \ {0} /\ Head(sink[s].hand) \notin Readable
         /\ LetGo(Hands, Hands', s, Head(sink[s].hand))
<1>1. /\ Neat(w) /\ Head(sink[s].hand) \in Held(s) /\ HeldBy(w) = Held(s) \ {Head(sink[s].hand)}
      /\ Head(sink[s].hand) \in Nat \ {0}
  BY DropsAtHand
<1>2. Hands'[s] = HeldBy(w) /\ Hands[s] = Held(s) /\ \A r \in Sink \ {s} : Hands'[r] = Hands[r]
  BY HandsAfter, AccountFields
<1>3. Hands[s] \cap Readable = {}
  BY AccountFields DEF Places
<1>4. QED
  BY <1>1, <1>2, <1>3 DEF LetGo

LEMMA CannotOpenAccounts ==
  ASSUME SinkInv, Accounted, NEW s \in Sink, CannotOpen(s) PROVE Accounted'
<1> DEFINE w == [sink[s] EXCEPT !.hand = Tail(@)]
           h == Head(sink[s].hand)
<1>1. /\ sink[s].at = "appends" /\ sink[s].hand # <<>> /\ sink' = [sink EXCEPT ![s] = w]
      /\ lost' = lost \cup {h} /\ made' = made /\ ledger' = ledger /\ unsealed' = unsealed
  BY DEF CannotOpen, Awake, Sets, OnDisk
<1>2. Tail(sink[s].hand) \in Seq(Nat)
  BY <1>1, AccountFields
<1>3. /\ w \in WriterState /\ w.at = "appends" /\ w.lines = sink[s].lines
      /\ w.hand = Tail(sink[s].hand) /\ w.writing = sink[s].writing
  BY <1>1, <1>2, AccountFields DEF WriterState
<1> HIDE DEF w, h
<1>4. Neat(w) /\ LetGo(Hands, Hands', s, h)
  BY <1>1, <1>3, HandLetsGo DEF h
<1>5. Places(Hands, Readable, lost, made)
  BY AccountFields
<1>6. Places(Hands', Readable, lost \cup {h}, made)
      /\ Adrift(Hands', Readable, lost \cup {h}, made) = Unread
  BY <1>4, <1>5, LeavesLost DEF Unread
<1>7. QED
  BY <1>1, <1>3, <1>4, <1>6, FileUntouched

\* Who has the lock is alone at the file.
LEMMA AloneAtFile ==
  ASSUME SinkInv, NEW s \in Sink, sink[s].at \in {"writes", "repairs"}
  PROVE  /\ \A r \in Sink \ {s} : sink[r].at \notin {"writes", "repairs"}
         /\ sink[s].hand # <<>> /\ sink[s].start <= Len(ledger)
  BY DEF SinkInv, Locked

\* Afterwards nobody is at the file.
LEMMA NextLineAccounts ==
  ASSUME SinkInv, Accounted, NEW s \in Sink, sink[s].at \in {"writes", "repairs"}, NextLine(s)
  PROVE  /\ LetGo(Hands, Hands', s, Head(sink[s].hand))
         /\ Head(sink[s].hand) \in Nat \ {0} /\ Head(sink[s].hand) \notin Readable
         /\ \A r \in Sink : Neat(sink'[r]) /\ sink'[r].at \notin {"writes", "repairs"}
<1> DEFINE w == [sink[s] EXCEPT !.at = "appends", !.hand = Tail(@)]
<1>1. sink' = [sink EXCEPT ![s] = w]
  BY DEF NextLine, Sets
<1>2. sink[s].hand # <<>> /\ \A r \in Sink \ {s} : sink[r].at \notin {"writes", "repairs"}
  BY AloneAtFile
<1>3. Tail(sink[s].hand) \in Seq(Nat)
  BY <1>2, AccountFields
<1>4. /\ w \in WriterState /\ w.at = "appends" /\ w.lines = sink[s].lines
      /\ w.hand = Tail(sink[s].hand) /\ w.writing = sink[s].writing
  BY <1>3, AccountFields DEF WriterState
<1> HIDE DEF w
<1>5. /\ Neat(w) /\ Head(sink[s].hand) \in Nat \ {0} /\ Head(sink[s].hand) \notin Readable
      /\ LetGo(Hands, Hands', s, Head(sink[s].hand))
  BY <1>1, <1>2, <1>4, HandLetsGo
<1>6. sink'[s] = w /\ \A r \in Sink \ {s} : sink'[r] = sink[r]
  BY <1>1, HandsAfter
<1>7. \A r \in Sink : Neat(sink[r])
  BY DEF Accounted
<1>8. QED
  BY <1>2, <1>4, <1>5, <1>6, <1>7

LEMMA WritesLineAccounts ==
  ASSUME SinkInv, Accounted, NEW s \in Sink, WritesLine(s) PROVE Accounted'
<1> DEFINE h == Head(sink[s].hand)
<1>1. /\ sink[s].at = "writes" /\ ledger' = Append(ledger, h) /\ NextLine(s)
      /\ lost' = lost /\ made' = made /\ unsealed' = unsealed
  BY DEF WritesLine, Awake
<1>2. /\ LetGo(Hands, Hands', s, h) /\ h \in Nat \ {0} /\ h \notin Readable
      /\ \A r \in Sink : Neat(sink'[r]) /\ sink'[r].at \notin {"writes", "repairs"}
  BY <1>1, NextLineAccounts
<1> HIDE DEF h
<1>3. FileKept' /\ \A r \in Sink : Neat(sink'[r]) /\ sink'[r].at # "repairs"
  BY <1>2 DEF FileKept
<1>4. /\ ledger \in Seq(Int) /\ Places(Hands, Readable, lost, made) /\ WrittenOnce(ledger)
      /\ Cardinality(Unread) \in Nat /\ unsealed \in Nat /\ Cardinality(Unread) <= unsealed
      /\ IsFiniteSet(Unread) /\ (Torn => Cardinality(Unread) < unsealed)
  BY AccountFields DEF Accounted, Counted
<1>5. ~Torn'
  <2>1. h # Fragment /\ h \in Int
    BY <1>2 DEF Fragment
  <2>2. ~EndsTorn(ledger')
    BY <1>1, <1>4, <2>1, EndsIn
  <2>3. QED
    BY <1>3, <2>2 DEF Torn
<1>6. Readable = ReadableOf(ledger) /\ Readable' = ReadableOf(ledger')
  BY DEF Readable, Legible, ReadableOf, LegibleOf
<1>7. CASE EndsTorn(ledger)
  <2>1. Readable' = Readable /\ WrittenOnce(ledger')
    BY <1>1, <1>2, <1>4, <1>6, <1>7, AppendsUnread
  <2>2. Places(Hands', Readable, lost, made)
        /\ Adrift(Hands', Readable, lost, made) = Adrift(Hands, Readable, lost, made) \cup {h}
    BY <1>2, <1>4, Leaves
  <2>3. Places(Hands, Readable, lost, made)' /\ Unread' = Unread \cup {h}
    BY <1>1, <2>1, <2>2 DEF Unread
  <2>4. Torn
    <3>1. \A r \in Sink : sink[r].at # "repairs"
      BY <1>1, AloneAtFile
    <3>2. QED
      BY <1>7, <3>1 DEF Torn
  <2>5. Cardinality(Unread') <= unsealed'
    <3>1. /\ Cardinality(Unread \cup {h}) = Cardinality(Unread)
          \/ Cardinality(Unread \cup {h}) = Cardinality(Unread) + 1
      BY <1>4, FS_AddElement
    <3>2. QED
      BY <1>1, <1>4, <2>3, <2>4, <3>1
  <2>6. QED
    BY <1>1, <1>3, <1>4, <1>5, <2>1, <2>3, <2>5 DEF Accounted, Counted
<1>8. CASE ~EndsTorn(ledger)
  <2>1. Readable' = Readable \cup {h} /\ WrittenOnce(ledger')
    BY <1>1, <1>2, <1>4, <1>6, <1>8, AppendsRead
  <2>2. Places(Hands', Readable \cup {h}, lost, made)
        /\ Adrift(Hands', Readable \cup {h}, lost, made) = Adrift(Hands, Readable, lost, made)
    BY <1>2, <1>4, LeavesRead
  <2>3. Places(Hands, Readable, lost, made)' /\ Unread' = Unread
    BY <1>1, <2>1, <2>2 DEF Unread
  <2>4. QED
    BY <1>1, <1>3, <1>4, <1>5, <2>1, <2>3 DEF Accounted, Counted
<1>9. QED
  BY <1>7, <1>8

LEMMA Untouched ==
  ASSUME Accounted, UNCHANGED <<sink, ledger, unsealed, lost, made>>
  PROVE  Accounted'
<1>1. Hands' = Hands /\ Readable' = Readable
  BY DEF Hands, Held, Readable, Legible
<1>2. Unread' = Unread /\ FileKept' = FileKept /\ Torn' = Torn
  BY <1>1 DEF Unread, FileKept, Torn, Before
<1>3. Counted'
  BY <1>2 DEF Accounted, Counted
<1>4. QED
  BY <1>1, <1>2, <1>3 DEF Accounted

LEMMA LineFailsAccounts ==
  ASSUME SinkInv, Accounted, NEW s \in Sink, LineFails(s) PROVE Accounted'
<1> DEFINE w == [sink[s] EXCEPT !.at = "repairs"]
<1>1. /\ sink[s].at = "writes" /\ sink' = [sink EXCEPT ![s] = w]
      /\ ledger' = ledger \/ ledger' = Append(ledger, Fragment)
      /\ lost' = lost /\ made' = made /\ unsealed' = unsealed
  BY DEF LineFails, Awake, Sets
<1>2. /\ w.lines = sink[s].lines /\ w.hand = sink[s].hand /\ w.at = "repairs"
      /\ w.writing = sink[s].writing /\ w.start = sink[s].start
  BY AccountFields DEF WriterState
<1> HIDE DEF w
<1>3. sink'[s] = w /\ \A r \in Sink \ {s} : sink'[r] = sink[r]
  BY <1>1, HandsAfter
<1>4. \A r \in Sink : Hands'[r] = Hands[r]
  <2>1. HeldBy(w) = HeldBy(sink[s])
    BY <1>2 DEF HeldBy
  <2>2. QED
    BY <1>1, <2>1, HandsAfter
<1>5. \A r \in Sink : Neat(sink'[r])
  <2>1. Neat(w)
    BY <1>2, AccountFields DEF Neat
  <2>2. QED
    BY <1>3, <2>1 DEF Accounted
<1>6. /\ ledger \in Seq(Int) /\ Places(Hands, Readable, lost, made) /\ WrittenOnce(ledger)
      /\ unsealed \in Nat /\ Cardinality(Unread) <= unsealed
      /\ (Torn => Cardinality(Unread) < unsealed) /\ sink[s].start = Len(ledger)
  BY <1>1, AccountFields DEF Accounted, Counted, FileKept
<1>7. Readable = ReadableOf(ledger) /\ Readable' = ReadableOf(ledger')
  BY DEF Readable, Legible, ReadableOf, LegibleOf
<1>8. Readable' = Readable /\ WrittenOnce(ledger')
  <2>1. Fragment \in Int /\ Fragment <= 0
    BY DEF Fragment
  <2>2. ReadableOf(Append(ledger, Fragment)) = ReadableOf(ledger)
        /\ (WrittenOnce(Append(ledger, Fragment)) <=> WrittenOnce(ledger))
    BY <1>6, <2>1, AppendsUnread
  <2>3. QED
    BY <1>1, <1>6, <1>7, <2>2
<1>9. Places(Hands, Readable, lost, made)' /\ Unread' = Unread
  BY <1>1, <1>4, <1>6, <1>8, Stays DEF Unread
<1>10. Before(s)' = ledger
  <2>1. SubSeq(ledger, 1, Len(ledger)) = ledger
    BY <1>6
  <2>2. SubSeq(Append(ledger, Fragment), 1, Len(ledger)) = ledger
    BY <1>6 DEF Fragment
  <2>3. QED
    BY <1>1, <1>2, <1>3, <1>6, <2>1, <2>2 DEF Before
<1>11. \A r \in Sink \ {s} : sink'[r].at \notin {"writes", "repairs"}
  BY <1>1, <1>3, AloneAtFile
<1>12. FileKept'
  <2> SUFFICES ASSUME NEW r \in Sink
               PROVE  /\ sink'[r].at = "writes" => sink'[r].start = Len(ledger')
                      /\ sink'[r].at = "repairs" => \/ ledger' = Before(r)'
                                                    \/ ledger' = Append(Before(r)', Fragment)
    BY DEF FileKept
  <2>1. r # s => sink'[r].at \notin {"writes", "repairs"}
    BY <1>11
  <2>2. sink'[s].at = "repairs"
    BY <1>2, <1>3
  <2>3. QED
    BY <1>1, <1>10, <2>1, <2>2
<1>13. Torn' => Torn
  <2>1. \A r \in Sink : sink[r].at # "repairs"
    BY <1>1, AloneAtFile
  <2>2. Torn' => EndsTorn(ledger)
    BY <1>2, <1>3, <1>10, <1>11 DEF Torn
  <2>3. QED
    BY <2>1, <2>2 DEF Torn
<1>14. QED
  BY <1>1, <1>5, <1>6, <1>8, <1>9, <1>12, <1>13 DEF Accounted, Counted

LEMMA RepairAccounts ==
  ASSUME SinkInv, Accounted, NEW s \in Sink, Repair(s) PROVE Accounted'
<1> DEFINE h == Head(sink[s].hand)
<1>1. /\ sink[s].at = "repairs" /\ NextLine(s) /\ lost' = lost \cup {h} /\ made' = made
      /\ \/ ledger' = Before(s) /\ unsealed' = unsealed
         \/ ledger' = Append(ledger, Newline) /\ unsealed' = unsealed
         \/ ledger' = ledger /\ unsealed' = unsealed + 1
  BY DEF Repair, Awake, CutBack, Before
<1>2. /\ LetGo(Hands, Hands', s, h)
      /\ \A r \in Sink : Neat(sink'[r]) /\ sink'[r].at \notin {"writes", "repairs"}
  BY <1>1, NextLineAccounts
<1> HIDE DEF h
<1>3. FileKept' /\ \A r \in Sink : Neat(sink'[r]) /\ sink'[r].at # "repairs"
  BY <1>2 DEF FileKept
<1>4. /\ ledger \in Seq(Int) /\ Places(Hands, Readable, lost, made) /\ WrittenOnce(ledger)
      /\ Cardinality(Unread) \in Nat /\ unsealed \in Nat /\ Cardinality(Unread) <= unsealed
      /\ (Torn => Cardinality(Unread) < unsealed)
      /\ sink[s].start \in Nat /\ sink[s].start <= Len(ledger)
  BY <1>1, AccountFields, AloneAtFile DEF Accounted, Counted
<1>5. Before(s) \in Seq(Int)
  BY <1>4 DEF Before
<1>6. ledger = Before(s) \/ ledger = Append(Before(s), Fragment)
  BY <1>1 DEF Accounted, FileKept
<1>7. Readable = ReadableOf(ledger) /\ Readable' = ReadableOf(ledger')
  BY DEF Readable, Legible, ReadableOf, LegibleOf
<1>8. ReadableOf(Before(s)) = ReadableOf(ledger) /\ WrittenOnce(Before(s))
  <2>1. Fragment \in Int /\ Fragment <= 0
    BY DEF Fragment
  <2>2. /\ ReadableOf(Append(Before(s), Fragment)) = ReadableOf(Before(s))
        /\ WrittenOnce(Append(Before(s), Fragment)) <=> WrittenOnce(Before(s))
    BY <1>5, <2>1, AppendsUnread
  <2>3. QED
    BY <1>4, <1>6, <2>2
<1>9. Newline \in Int /\ Newline <= 0 /\ Newline # Fragment
  BY DEF Newline, Fragment
<1>10. /\ ReadableOf(Append(ledger, Newline)) = ReadableOf(ledger)
       /\ WrittenOnce(Append(ledger, Newline)) /\ ~EndsTorn(Append(ledger, Newline))
  BY <1>4, <1>9, AppendsUnread, EndsIn
<1>11. Readable' = Readable /\ WrittenOnce(ledger')
  BY <1>1, <1>4, <1>7, <1>8, <1>10
<1>12. Places(Hands', Readable, lost \cup {h}, made)
       /\ Adrift(Hands', Readable, lost \cup {h}, made) = Adrift(Hands, Readable, lost, made)
  BY <1>2, <1>4, LeavesLost
<1>13. Places(Hands, Readable, lost, made)' /\ Unread' = Unread
  BY <1>1, <1>11, <1>12 DEF Unread
<1>14. Torn' <=> EndsTorn(ledger')
  BY <1>3 DEF Torn
<1>15. /\ unsealed' \in Nat /\ Cardinality(Unread) <= unsealed'
       /\ EndsTorn(ledger') => Cardinality(Unread) < unsealed'
  <2>1. CASE ledger' = Before(s) /\ unsealed' = unsealed
    <3>1. EndsTorn(ledger') => Torn
      BY <1>1, <2>1 DEF Torn
    <3>2. QED
      BY <1>4, <2>1, <3>1
  <2>2. CASE ledger' = Append(ledger, Newline) /\ unsealed' = unsealed
    BY <1>4, <1>10, <2>2
  <2>3. CASE ledger' = ledger /\ unsealed' = unsealed + 1
    BY <1>4, <2>3
  <2>4. QED
    BY <1>1, <2>1, <2>2, <2>3
<1>16. QED
  BY <1>3, <1>11, <1>13, <1>14, <1>15 DEF Accounted, Counted

LEMMA WorkAccounts ==
  ASSUME SinkInv, Accounted, NEW s \in Sink, Work(s) PROVE Accounted'
<1> DEFINE old == sink[s]
<1>1. old.at = "ready" /\ UNCHANGED <<ledger, unsealed, lost, made>>
  BY DEF Work, Awake, OnDisk
<1>2. CASE UNCHANGED sink
  BY <1>1, <1>2, Untouched
<1>3. CASE /\ old.lines = <<>> /\ Sets(s, [old EXCEPT !.at = "returned"])
  <2> DEFINE w == [old EXCEPT !.at = "returned"]
  <2>1. w.lines = old.lines /\ w.hand = old.hand /\ w.at = "returned" /\ w.writing = old.writing
    BY AccountFields DEF WriterState
  <2>2. sink' = [sink EXCEPT ![s] = w]
    BY <1>3 DEF Sets
  <2> HIDE DEF w
  <2>3. Neat(w) /\ HeldBy(w) = HeldBy(old)
    BY <1>1, <2>1, AccountFields DEF Neat, HeldBy
  <2>4. QED
    BY <1>1, <2>1, <2>2, <2>3, Rearranges
<1>4. CASE /\ old.lines # <<>>
           /\ Sets(s, [old EXCEPT !.at = "appends", !.hand = old.lines, !.lines = <<>>,
                                  !.writing = Writing(old)])
  <2> DEFINE w == [old EXCEPT !.at = "appends", !.hand = old.lines, !.lines = <<>>,
                              !.writing = Writing(old)]
  <2>1. Writing(old) # 0 /\ old.hand = <<>>
    <3>1. Writing(old) # 0
      BY <1>4, AccountFields DEF Writing
    <3>2. QED
      BY <1>1, <3>1, AccountFields DEF Neat
  <2>2. w.lines = <<>> /\ w.hand = old.lines /\ w.at = "appends" /\ w.writing = Writing(old)
    BY AccountFields DEF WriterState
  <2>3. sink' = [sink EXCEPT ![s] = w]
    BY <1>4 DEF Sets
  <2> HIDE DEF w
  <2>4. Neat(w) /\ HeldBy(w) = HeldBy(old)
    BY <2>1, <2>2, AccountFields, NothingInside DEF Neat, HeldBy
  <2>5. QED
    BY <1>1, <2>2, <2>3, <2>4, Rearranges
<1>5. QED
  BY <1>2, <1>3, <1>4 DEF Work

LEMMA SmallStepsAccount ==
  ASSUME SinkInv, Accounted, NEW s \in Sink, Locks(s) \/ BatchDone(s) \/ NotifyAfterBatch(s)
  PROVE  Accounted'
<1>1. UNCHANGED <<ledger, unsealed, lost, made>>
  BY DEF Locks, BatchDone, NotifyAfterBatch, OnDisk
<1>2. CASE Locks(s)
  <2> DEFINE v == [sink[s] EXCEPT !.at = "writes", !.start = Len(ledger)]
  <2>1. sink' = [sink EXCEPT ![s] = v] /\ sink[s].at = "appends"
    BY <1>2 DEF Locks, Awake, Sets
  <2>2. /\ v.lines = sink[s].lines /\ v.hand = sink[s].hand /\ v.writing = sink[s].writing
        /\ v.at = "writes" /\ v.start = Len(ledger)
    BY AccountFields DEF WriterState
  <2> HIDE DEF v
  <2>3. Neat(v) /\ HeldBy(v) = HeldBy(sink[s])
    BY <2>1, <2>2, AccountFields DEF Neat, HeldBy
  <2>4. QED
    BY <1>1, <2>1, <2>2, <2>3, Rearranges
<1>3. CASE BatchDone(s)
  <2> DEFINE v == [sink[s] EXCEPT !.writing = 0,
                                  !.at = IF sink[s].lines = <<>> THEN "notifies" ELSE "ready"]
  <2>1. sink' = [sink EXCEPT ![s] = v] /\ sink[s].at = "appends" /\ sink[s].hand = <<>>
    BY <1>3 DEF BatchDone, Awake, Sets
  <2>2. v.lines = sink[s].lines /\ v.hand = sink[s].hand /\ v.at \in {"notifies", "ready"}
    BY AccountFields DEF WriterState
  <2> HIDE DEF v
  <2>3. Neat(v) /\ HeldBy(v) = HeldBy(sink[s])
    BY <2>1, <2>2, AccountFields DEF Neat, HeldBy
  <2>4. QED
    BY <1>1, <2>1, <2>2, <2>3, Rearranges
<1>4. CASE NotifyAfterBatch(s)
  <2> DEFINE v == [sink[s] EXCEPT !.at = "ready"]
  <2>1. sink' = [sink EXCEPT ![s] = v] /\ sink[s].at = "notifies"
    BY <1>4 DEF NotifyAfterBatch, Awake, Sets
  <2>2. v.lines = sink[s].lines /\ v.hand = sink[s].hand /\ v.at = "ready"
    BY AccountFields DEF WriterState
  <2> HIDE DEF v
  <2>3. sink[s].hand = <<>>
    BY <2>1, AccountFields DEF Neat
  <2>4. Neat(v) /\ HeldBy(v) = HeldBy(sink[s])
    BY <2>2, <2>3, AccountFields DEF Neat, HeldBy
  <2>5. QED
    BY <1>1, <2>1, <2>2, <2>4, Rearranges
<1>5. QED
  BY <1>2, <1>3, <1>4

LEMMA CloseAccounts ==
  ASSUME SinkInv, Accounted, NEW c \in Caller, NEW s \in Sink, CloseSink(c, s) PROVE Accounted'
<1> DEFINE v == [sink[s] EXCEPT !.closed = TRUE]
<1>1. sink' = [sink EXCEPT ![s] = v] /\ UNCHANGED <<ledger, unsealed, lost, made>>
  BY DEF CloseSink, Sets, OnDisk
<1>2. /\ v.lines = sink[s].lines /\ v.hand = sink[s].hand /\ v.writing = sink[s].writing
      /\ v.at = sink[s].at /\ v.start = sink[s].start
  BY AccountFields DEF WriterState
<1> HIDE DEF v
<1>3. Neat(v) /\ HeldBy(v) = HeldBy(sink[s])
  BY <1>2, AccountFields DEF Neat, HeldBy
<1>4. v.at = "writes" => v.start = Len(ledger)
  BY <1>2 DEF Accounted, FileKept
<1>5. QED
  BY <1>1, <1>2, <1>3, <1>4, Rearranges

LEMMA AccountBegins == SinkInit => Accounted
<1> SUFFICES ASSUME SinkInit PROVE Accounted
  OBVIOUS
<1>1. /\ \A s \in Sink : sink[s].lines = <<>> /\ sink[s].hand = <<>> /\ sink[s].at = "ready"
      /\ ledger = <<>> /\ made = 0 /\ lost = {} /\ unsealed = 0
  BY DEF SinkInit, NewWriter
<1>2. \A s \in Sink : Neat(sink[s]) /\ Hands[s] = {}
  BY <1>1, NothingInside DEF Neat, Hands, Held
<1>3. Readable = {} /\ WrittenOnce(ledger) /\ ~EndsTorn(ledger)
  BY <1>1 DEF Readable, Legible, WrittenOnce, LegibleOf, EndsTorn
<1>4. 1..made = {}
  BY <1>1
<1>5. Places(Hands, Readable, lost, made) /\ Unread = {}
  BY <1>1, <1>2, <1>3, <1>4 DEF Places, Unread, Adrift
<1>6. FileKept /\ ~Torn
  BY <1>1, <1>3 DEF FileKept, Torn
<1>7. Cardinality(Unread) = 0
  BY <1>5, FS_EmptySet
<1>8. QED
  BY <1>1, <1>2, <1>3, <1>5, <1>6, <1>7 DEF Accounted, Counted

LEMMA AccountGoesOn == SinkInv /\ Accounted /\ [SinkNext]_sinkVars => Accounted'
<1> SUFFICES ASSUME SinkInv, Accounted, [SinkNext]_sinkVars PROVE Accounted'
  OBVIOUS
<1>1. ASSUME NEW c \in Caller, NEW s \in Handles[c], Enqueue(c, s) \/ BeginFlush(c, s) \/ CloseSink(c, s)
      PROVE  Accounted'
  <2>1. s \in Sink
    BY SinkAssumption
  <2>2. BeginFlush(c, s) => UNCHANGED <<sink, ledger, unsealed, lost, made>>
    BY DEF BeginFlush, OnDisk
  <2>3. QED
    BY <1>1, <2>1, <2>2, EnqueueAccounts, CloseAccounts, Untouched
<1>2. ASSUME NEW c \in Caller,
             NotifyAfterEnqueue(c) \/ CheckDrained(c) \/ NotifyAfterClose(c) \/ Join(c)
      PROVE  Accounted'
  <2>1. UNCHANGED <<sink, ledger, unsealed, lost, made>>
    BY <1>2 DEF NotifyAfterEnqueue, CheckDrained, NotifyAfterClose, Join, OnDisk
  <2>2. QED
    BY <2>1, Untouched
<1>3. ASSUME (\E t \in asleep : WakesUp(t)) \/ UNCHANGED sinkVars PROVE Accounted'
  <2>1. UNCHANGED <<sink, ledger, unsealed, lost, made>>
    BY <1>3 DEF WakesUp, OnDisk, sinkVars
  <2>2. QED
    BY <2>1, Untouched
<1>4. QED
  BY <1>1, <1>2, <1>3, WorkAccounts, SmallStepsAccount, CannotOpenAccounts, WritesLineAccounts,
     LineFailsAccounts, RepairAccounts DEF SinkNext

\* With any number of writers of one ledger, queues of any size, and writes, repairs
\* and seals that fail at any time: a record is in one place, it is written at most
\* once, and it goes missing without a warning at most once for each repair that
\* failed. A flush that may return leaves nothing in the worker's hands.
THEOREM RecordsAlwaysAccounted == SinkSpec => []RecordsAreAccounted
<1>1. Accounted => RecordsAreAccounted
  <2> SUFFICES ASSUME Accounted PROVE RecordsAreAccounted
    OBVIOUS
  <2>1. Places(Hands, Readable, lost, made) /\ \A s \in Sink : Hands[s] = Held(s)
    BY DEF Accounted, Hands
  <2>2. Unread = 1..made \ (Readable \cup lost \cup UNION {Held(s) : s \in Sink})
    BY <2>1 DEF Unread, Adrift
  <2>3. \A i, j \in Legible : ledger[i] = ledger[j] => i = j
    BY DEF Accounted, WrittenOnce, LegibleOf, Legible
  <2>4. \A s \in Sink : IsDrained(sink[s]) => Held(s) = {}
    BY NothingInside DEF Accounted, Neat, IsDrained, Held
  <2>5. Cardinality(Unread) <= unsealed
    BY DEF Accounted, Counted
  <2>6. /\ \A s, t \in Sink : s # t => Held(s) \cap Held(t) = {}
        /\ \A s \in Sink : Held(s) \cap (Readable \cup lost) = {}
        /\ Readable \cap lost = {}
    BY <2>1 DEF Places
  <2>7. QED
    BY <2>2, <2>3, <2>4, <2>5, <2>6 DEF RecordsAreAccounted
<1>2. QED
  BY <1>1, AccountBegins, AccountGoesOn, SinkInvariant, PTL DEF SinkSpec

-----------------------------------------------------------------------------
(* The cache: it never serves what an acknowledged write has replaced.       *)

\* What a write has made of its paths is on them.
MadeIsThere == \A w \in Writer : \A p \in Path : writer[w].made[p] <= content[p]

SettledIsThere == \A p \in Path : settled[p] <= content[p]

\* A read that may still be inserted has seen every write that returned.
InsertableIsCurrent ==
  \A r \in Reader :
     /\ reader[r].epoch <= epoch
     /\ reader[r].at = "ran" /\ reader[r].epoch = epoch
        => /\ reader[r].key \in Query
           /\ \A p \in Touches[reader[r].key] : reader[r].seen[p] >= settled[p]
     /\ reader[r].at \in {"sent", "missed"} => reader[r].key \in Query

MemoInv == MemoTypeOK /\ MadeIsThere /\ SettledIsThere /\ InsertableIsCurrent /\ NoStaleEntry

LEMMA MemoBegins == MemoInit => MemoInv
<1> USE MemoAssumption
<1>1. Unseen \in Versions  BY DEF Unseen, Versions
<1>2. NoRead \in Reads  BY <1>1 DEF NoRead, Reads
<1>3. NoChange \in Changes  BY <1>1 DEF NoChange, Changes
<1> SUFFICES ASSUME MemoInit PROVE MemoInv  OBVIOUS
<1>4. MemoTypeOK  BY <1>1, <1>2, <1>3 DEF MemoInit, MemoTypeOK
<1>5. MadeIsThere
  <2>1. \A w \in Writer : writer[w].made = Unseen  BY DEF MemoInit, NoChange
  <2>2. \A p \in Path : Unseen[p] <= Unseen[p]  BY DEF Unseen
  <2>3. content = Unseen  BY DEF MemoInit
  <2>4. QED  BY <2>1, <2>2, <2>3 DEF MadeIsThere
<1>6. SettledIsThere
  <2>1. \A p \in Path : Unseen[p] <= Unseen[p]  BY DEF Unseen
  <2>2. content = Unseen /\ settled = Unseen  BY DEF MemoInit
  <2>3. QED  BY <2>1, <2>2 DEF SettledIsThere
<1>7. InsertableIsCurrent  BY DEF MemoInit, InsertableIsCurrent, NoRead
<1>8. NoStaleEntry  BY DEF MemoInit, NoStaleEntry
<1>9. QED  BY <1>4, <1>5, <1>6, <1>7, <1>8 DEF MemoInv

\* Only the calls of a record change with the record.
LEMMA ReadsStep ==
  ASSUME MemoInv, NEW r \in Reader, NEW x \in Reads, reader' = [reader EXCEPT ![r] = x],
         UNCHANGED <<content, settled, cache, epoch, writer, turn, run>>,
         x.epoch <= epoch,
         x.at \in {"sent", "missed"} => x.key \in Query,
         x.at = "ran" => /\ x.key \in Query
                         /\ x.epoch = epoch => \A p \in Touches[x.key] : x.seen[p] >= settled[p]
  PROVE  MemoInv'
<1>1. MemoTypeOK'  BY DEF MemoInv, MemoTypeOK
<1>2. (MadeIsThere /\ SettledIsThere /\ NoStaleEntry)'
  BY DEF MemoInv, MadeIsThere, SettledIsThere, NoStaleEntry
<1>3. InsertableIsCurrent'
  BY DEF MemoInv, MemoTypeOK, InsertableIsCurrent
<1>4. QED  BY <1>1, <1>2, <1>3 DEF MemoInv

LEMMA MemoFields ==
  ASSUME MemoInv, NEW r \in Reader, NEW w \in Writer
  PROVE  /\ reader[r] \in Reads /\ writer[w] \in Changes /\ epoch \in Nat
         /\ reader[r].epoch \in Nat /\ reader[r].seen \in Versions
         /\ writer[w].paths \in SUBSET Path /\ writer[w].made \in Versions
  BY DEF MemoInv, MemoTypeOK, Reads, Changes

LEMMA ReadLemma == ASSUME MemoInv, NEW r \in Reader, Read(r) PROVE MemoInv'
<1> USE MemoAssumption
<1> DEFINE k == reader[r].key
           s == [p \in Path |-> IF p \in Touches[k] THEN content[p] ELSE 0]
           x == [reader[r] EXCEPT !.at = "ran", !.seen = s]
<1>1. reader[r] \in Reads /\ reader[r].epoch \in Nat  BY DEF MemoInv, MemoTypeOK, Reads
<1>2. content \in Versions /\ settled \in Versions /\ epoch \in Nat  BY DEF MemoInv, MemoTypeOK
<1>3. s \in Versions  BY <1>2 DEF Versions
<1>4. k \in Query /\ reader[r].epoch <= epoch
  BY DEF Read, MemoInv, InsertableIsCurrent
<1>5. x \in Reads /\ x.at = "ran" /\ x.seen = s /\ x.key = k /\ x.epoch = reader[r].epoch
  BY <1>1, <1>3 DEF Reads
<1>6. \A p \in Touches[k] : p \in Path /\ s[p] = content[p]  BY <1>4
<1>7. \A p \in Path : content[p] \in Nat /\ settled[p] \in Nat /\ content[p] >= settled[p]
  BY <1>2 DEF MemoInv, SettledIsThere, Versions
<1>8. reader' = [reader EXCEPT ![r] = x]  BY <1>1 DEF Read, MemoInv, MemoTypeOK, Reads
<1>9. \A p \in Touches[x.key] : x.seen[p] >= settled[p]  BY <1>5, <1>6, <1>7
<1>10. UNCHANGED <<content, settled, cache, epoch, writer, turn, run>>  BY DEF Read
<1>11. x.epoch <= epoch /\ x.key \in Query  BY <1>4, <1>5
<1> HIDE DEF x
<1>12. QED  BY <1>5, <1>8, <1>9, <1>10, <1>11, ReadsStep

LEMMA NoReadStep ==
  ASSUME MemoInv, NEW r \in Reader, reader' = [reader EXCEPT ![r] = NoRead],
         UNCHANGED <<content, settled, cache, epoch, writer, turn, run>>
  PROVE  MemoInv'
<1>1. NoRead \in Reads /\ NoRead.at = "idle" /\ NoRead.epoch = 0
  BY DEF NoRead, Reads, Unseen, Versions
<1>2. epoch \in Nat  BY DEF MemoInv, MemoTypeOK
<1>3. NoRead.epoch <= epoch /\ NoRead.at # "ran" /\ NoRead.at \notin {"sent", "missed"}
  BY <1>1, <1>2
<1>4. QED  BY <1>1, <1>3, ReadsStep

LEMMA SendReadLemma == ASSUME MemoInv, NEW r \in Reader, NEW k \in Query, SendRead(r, k) PROVE MemoInv'
<1> DEFINE x == [at |-> "sent", key |-> k, epoch |-> epoch, seen |-> Unseen]
<1>1. epoch \in Nat  BY DEF MemoInv, MemoTypeOK
<1>2. x \in Reads  BY <1>1 DEF Reads, Unseen, Versions
<1>3. x.at = "sent" /\ x.key \in Query /\ x.epoch <= epoch  BY <1>1
<1>4. reader' = [reader EXCEPT ![r] = x]
      /\ UNCHANGED <<content, settled, cache, epoch, writer, turn, run>>
  BY DEF SendRead
<1> HIDE DEF x
<1>5. QED  BY <1>2, <1>3, <1>4, ReadsStep

\* An entry that is taken out, or one that is as current as the others, is no harm.
LEMMA CacheStep ==
  ASSUME MemoInv, NEW r \in Reader, NEW x \in Reads, NEW e \in Entries \cup {NoEntry}, NEW k \in Query,
         reader' = [reader EXCEPT ![r] = x],
         cache' = [cache EXCEPT ![k] = e] ,
         UNCHANGED <<content, settled, epoch, writer, turn, run>>,
         x.epoch <= epoch, x.at # "ran", x.at \in {"sent", "missed"} => x.key \in Query,
         e # NoEntry => \A p \in Touches[k] : e.seen[p] >= settled[p]
  PROVE  MemoInv'
<1>1. MemoTypeOK'  BY DEF MemoInv, MemoTypeOK
<1>2. (MadeIsThere /\ SettledIsThere)'  BY DEF MemoInv, MadeIsThere, SettledIsThere
<1>3. InsertableIsCurrent'  BY DEF MemoInv, MemoTypeOK, InsertableIsCurrent
<1>4. NoStaleEntry'  BY DEF MemoInv, MemoTypeOK, NoStaleEntry
<1>5. QED  BY <1>1, <1>2, <1>3, <1>4 DEF MemoInv

LEMMA LookUpLemma == ASSUME MemoInv, NEW r \in Reader, LookUp(r) PROVE MemoInv'
<1> DEFINE k == reader[r].key
           x == [reader[r] EXCEPT !.at = "missed"]
<1>1. CASE Fresh(k)  BY <1>1, NoReadStep DEF LookUp
<1>2. CASE ~Fresh(k)
  <2>1. reader[r] \in Reads /\ reader[r].epoch \in Nat /\ reader[r].at = "sent"
    BY DEF MemoInv, MemoTypeOK, Reads, LookUp
  <2>2. k \in Query /\ reader[r].epoch <= epoch  BY <2>1 DEF MemoInv, InsertableIsCurrent
  <2>3. x \in Reads /\ x.at = "missed" /\ x.key = k /\ x.epoch = reader[r].epoch
    BY <2>1 DEF Reads
  <2>4. reader' = [reader EXCEPT ![r] = x] /\ cache' = [cache EXCEPT ![k] = NoEntry]
        /\ UNCHANGED <<content, settled, epoch, writer, turn, run>>
    BY <1>2, <2>1 DEF LookUp, MemoInv, MemoTypeOK, Reads
  <2> HIDE DEF x
  <2>5. QED  BY <2>2, <2>3, <2>4, CacheStep
<1>3. QED  BY <1>1, <1>2

LEMMA ReadReturnsLemma == ASSUME MemoInv, NEW r \in Reader, ReadReturns(r) PROVE MemoInv'
<1> DEFINE k == reader[r].key
           e == [seen |-> reader[r].seen, turn |-> turn]
<1>1. CASE ~Current(r)  BY <1>1, NoReadStep DEF ReadReturns
<1>2. CASE Current(r)
  <2>1. /\ reader[r] \in Reads /\ reader[r].seen \in Versions /\ reader[r].at = "ran"
        /\ epoch \in Nat /\ turn \in Nat
    BY DEF MemoInv, MemoTypeOK, Reads, ReadReturns
  <2>2. k \in Query /\ \A p \in Touches[k] : e.seen[p] >= settled[p]
    BY <1>2, <2>1 DEF MemoInv, InsertableIsCurrent, Current
  <2>3. e \in Entries  BY <2>1 DEF Entries
  <2>4. NoRead \in Reads /\ NoRead.at = "idle" /\ NoRead.epoch <= epoch
    BY <2>1 DEF NoRead, Reads, Unseen, Versions
  <2>5. reader' = [reader EXCEPT ![r] = NoRead] /\ cache' = [cache EXCEPT ![k] = e]
        /\ UNCHANGED <<content, settled, epoch, writer, turn, run>>
    BY <1>2 DEF ReadReturns
  <2> HIDE DEF e
  <2>6. QED  BY <2>2, <2>3, <2>4, <2>5, CacheStep
<1>3. QED  BY <1>1, <1>2

\* A write that is in flight, and has made no more of its paths than is there.
LEMMA WritesStep ==
  ASSUME MemoInv, NEW w \in Writer, NEW x \in Changes, writer' = [writer EXCEPT ![w] = x],
         UNCHANGED <<settled, cache, epoch, reader, turn, run>>,
         content' \in Versions, \A p \in Path : content'[p] >= content[p],
         \A p \in Path : x.made[p] <= content'[p]
  PROVE  MemoInv'
<1>1. MemoTypeOK'  BY DEF MemoInv, MemoTypeOK
<1>2. MadeIsThere'
  <2> SUFFICES ASSUME NEW v \in Writer, NEW p \in Path PROVE writer'[v].made[p] <= content'[p]
    BY DEF MadeIsThere
  <2>1. content[p] \in Nat /\ content'[p] \in Nat  BY DEF MemoInv, MemoTypeOK, Versions
  <2>2. writer[v].made[p] \in Nat /\ writer[v].made[p] <= content[p]
    BY DEF MemoInv, MemoTypeOK, Changes, Versions, MadeIsThere
  <2>3. CASE v = w  BY <2>3 DEF MemoInv, MemoTypeOK
  <2>4. CASE v # w  BY <2>1, <2>2, <2>4 DEF MemoInv, MemoTypeOK
  <2>5. QED  BY <2>3, <2>4
<1>3. SettledIsThere'  BY DEF MemoInv, MemoTypeOK, SettledIsThere, Versions
<1>4. (InsertableIsCurrent /\ NoStaleEntry)'
  BY DEF MemoInv, InsertableIsCurrent, NoStaleEntry
<1>5. QED  BY <1>1, <1>2, <1>3, <1>4 DEF MemoInv

LEMMA NoChangeOK == NoChange \in Changes /\ \A p \in Path : NoChange.made[p] = 0
  BY DEF NoChange, Changes, Unseen, Versions

LEMMA SendWriteLemma == ASSUME MemoInv, NEW w \in Writer, NEW P \in Writes, SendWrite(w, P) PROVE MemoInv'
<1> DEFINE x == [at |-> "sent", paths |-> P, made |-> Unseen]
<1>1. x \in Changes /\ \A p \in Path : x.made[p] = 0
  BY MemoAssumption DEF Changes, Unseen, Versions
<1>2. content \in Versions /\ \A p \in Path : content[p] \in Nat  BY DEF MemoInv, MemoTypeOK, Versions
<1>3. writer' = [writer EXCEPT ![w] = x] /\ content' = content
      /\ UNCHANGED <<settled, cache, epoch, reader, turn, run>>
  BY DEF SendWrite
<1> HIDE DEF x
<1>4. \A p \in Path : content'[p] >= content[p] /\ x.made[p] <= content'[p]
  BY <1>1, <1>2, <1>3
<1>5. QED  BY <1>1, <1>2, <1>3, <1>4, WritesStep

LEMMA WriteLostLemma == ASSUME MemoInv, NEW w \in Writer, WriteLost(w) PROVE MemoInv'
<1>1. content \in Versions /\ \A p \in Path : content[p] \in Nat  BY DEF MemoInv, MemoTypeOK, Versions
<1>2. writer' = [writer EXCEPT ![w] = NoChange] /\ content' = content
      /\ UNCHANGED <<settled, cache, epoch, reader, turn, run>>
  BY DEF WriteLost
<1>3. \A p \in Path : content'[p] >= content[p] /\ NoChange.made[p] <= content'[p]
  BY <1>1, <1>2, NoChangeOK
<1>4. QED  BY <1>1, <1>2, <1>3, NoChangeOK, WritesStep

LEMMA ChangeLemma == ASSUME MemoInv, NEW w \in Writer, Change(w) PROVE MemoInv'
<1> DEFINE after == [p \in Path |-> IF p \in writer[w].paths THEN content[p] + 1 ELSE content[p]]
           x == [writer[w] EXCEPT !.at = "ran", !.made = after]
<1>1. writer[w] \in Changes /\ content \in Versions /\ \A p \in Path : content[p] \in Nat
  BY DEF MemoInv, MemoTypeOK, Versions
<1>2. after \in Versions /\ \A p \in Path : after[p] >= content[p] /\ after[p] <= after[p]
  BY <1>1 DEF Versions
<1>3. x \in Changes /\ x.made = after  BY <1>1, <1>2 DEF Changes
<1>4. content' = after /\ writer' = [writer EXCEPT ![w] = x]
      /\ UNCHANGED <<settled, cache, epoch, reader, turn, run>>
  BY <1>1 DEF Change, MemoInv, MemoTypeOK, Changes
<1> HIDE DEF x, after
<1>5. QED  BY <1>2, <1>3, <1>4, WritesStep

LEMMA WriteReturnsLemma == ASSUME MemoInv, NEW w \in Writer, WriteReturns(w) PROVE MemoInv'
<1> USE MemoAssumption
<1> DEFINE P == writer[w].paths
           after == writer[w].made
<1>1. /\ writer[w] \in Changes /\ P \in SUBSET Path /\ after \in Versions
      /\ content \in Versions /\ settled \in Versions /\ epoch \in Nat
      /\ cache \in [Query -> Entries \cup {NoEntry}]
  BY DEF MemoInv, MemoTypeOK, Changes
<1>2. \A p \in Path : /\ after[p] \in Nat /\ content[p] \in Nat /\ settled[p] \in Nat
                      /\ after[p] <= content[p] /\ settled[p] <= content[p]
  BY <1>1 DEF MemoInv, MadeIsThere, SettledIsThere, Versions
<1>3. /\ settled' = [p \in Path |-> IF p \in P /\ after[p] > settled[p] THEN after[p] ELSE settled[p]]
      /\ cache' = [k \in Query |-> IF Touches[k] \cap P # {} THEN NoEntry ELSE cache[k]]
      /\ epoch' = IF P = {} THEN epoch ELSE epoch + 1
      /\ writer' = [writer EXCEPT ![w] = NoChange]
      /\ UNCHANGED <<content, reader, turn, run>>
  BY DEF WriteReturns, Evicted
<1> HIDE DEF P, after
<1>4. settled' \in Versions /\ \A p \in Path : settled'[p] \in Nat /\ settled'[p] <= content[p]
  BY <1>1, <1>2, <1>3 DEF Versions
<1>5. MemoTypeOK'
  <2>1. cache' \in [Query -> Entries \cup {NoEntry}]  BY <1>1, <1>3
  <2>2. epoch' \in Nat  BY <1>1, <1>3
  <2>3. writer' \in [Writer -> Changes]  BY <1>3, NoChangeOK DEF MemoInv, MemoTypeOK
  <2>4. QED  BY <1>3, <1>4, <2>1, <2>2, <2>3 DEF MemoInv, MemoTypeOK
<1>6. MadeIsThere'
  <2> SUFFICES ASSUME NEW v \in Writer, NEW p \in Path PROVE writer'[v].made[p] <= content'[p]
    BY DEF MadeIsThere
  <2>1. CASE v = w  BY <1>2, <1>3, <2>1, NoChangeOK DEF MemoInv, MemoTypeOK
  <2>2. CASE v # w  BY <1>3, <2>2 DEF MemoInv, MemoTypeOK, MadeIsThere
  <2>3. QED  BY <2>1, <2>2
<1>7. SettledIsThere'  BY <1>3, <1>4 DEF SettledIsThere
<1>8. InsertableIsCurrent'
  <2> SUFFICES ASSUME NEW r \in Reader
               PROVE  /\ reader[r].epoch <= epoch'
                      /\ reader[r].at = "ran" /\ reader[r].epoch = epoch'
                         => /\ reader[r].key \in Query
                            /\ \A p \in Touches[reader[r].key] : reader[r].seen[p] >= settled'[p]
                      /\ reader[r].at \in {"sent", "missed"} => reader[r].key \in Query
    BY <1>3 DEF InsertableIsCurrent
  <2>1. reader[r].epoch \in Nat  BY DEF MemoInv, MemoTypeOK, Reads
  <2>2. CASE P = {}
    <3>1. epoch' = epoch  BY <1>3, <2>2
    <3>2. \A p \in Path : settled'[p] = settled[p]  BY <1>3, <2>2
    <3>3. settled' = settled  BY <1>1, <1>4, <3>2 DEF Versions
    <3>4. QED  BY <3>1, <3>3 DEF MemoInv, InsertableIsCurrent
  <2>3. CASE P # {}
    <3>1. epoch' = epoch + 1 /\ reader[r].epoch <= epoch
      BY <1>3, <2>3 DEF MemoInv, InsertableIsCurrent
    <3>2. reader[r].epoch <= epoch' /\ reader[r].epoch # epoch'  BY <1>1, <2>1, <3>1
    <3>3. QED  BY <3>2 DEF MemoInv, InsertableIsCurrent
  <2>4. QED  BY <2>2, <2>3
<1>9. NoStaleEntry'
  <2> SUFFICES ASSUME NEW k \in Query, cache'[k] # NoEntry, NEW p \in Touches[k]
               PROVE  cache'[k].seen[p] >= settled'[p]
    BY DEF NoStaleEntry
  <2>1. Touches[k] \cap P = {} /\ cache'[k] = cache[k]  BY <1>3
  <2>2. p \in Path /\ p \notin P  BY <2>1
  <2>3. settled'[p] = settled[p]  BY <1>3, <2>2
  <2>4. QED  BY <2>1, <2>3 DEF MemoInv, NoStaleEntry
<1>10. QED  BY <1>5, <1>6, <1>7, <1>8, <1>9 DEF MemoInv

LEMMA MemoNextSound == MemoInv /\ [MemoNext]_memoVars => MemoInv'
<1> SUFFICES ASSUME MemoInv, [MemoNext]_memoVars PROVE MemoInv'  OBVIOUS
<1>1. CASE \E r \in Reader : \/ \E k \in Query : SendRead(r, k)
                             \/ LookUp(r) \/ Read(r) \/ ReadReturns(r) \/ ReadLost(r)
  <2>1. PICK r \in Reader : \/ \E k \in Query : SendRead(r, k)
                            \/ LookUp(r) \/ Read(r) \/ ReadReturns(r) \/ ReadLost(r)
    BY <1>1
  <2>2. ReadLost(r) => MemoInv'  BY NoReadStep DEF ReadLost
  <2>3. QED  BY <2>1, <2>2, SendReadLemma, LookUpLemma, ReadLemma, ReadReturnsLemma
<1>2. CASE \E w \in Writer : \/ \E P \in Writes : SendWrite(w, P)
                             \/ Change(w) \/ WriteReturns(w) \/ WriteLost(w)
  BY <1>2, SendWriteLemma, ChangeLemma, WriteReturnsLemma, WriteLostLemma
<1>3. CASE NextTurn \/ NextRun
  <2>1. turn' \in Nat /\ run' \in Nat
        /\ UNCHANGED <<content, settled, cache, epoch, reader, writer>>
    BY <1>3 DEF NextTurn, NextRun, MemoInv, MemoTypeOK
  <2>2. MemoTypeOK'  BY <2>1 DEF MemoInv, MemoTypeOK
  <2>3. QED
    BY <2>1, <2>2
    DEF MemoInv, MadeIsThere, SettledIsThere, InsertableIsCurrent, NoStaleEntry
<1>4. CASE UNCHANGED memoVars
  BY <1>4 DEF memoVars, MemoInv, MemoTypeOK, MadeIsThere, SettledIsThere, InsertableIsCurrent, NoStaleEntry
<1>5. QED  BY <1>1, <1>2, <1>3, <1>4 DEF MemoNext

\* The cache, the epoch and the calls keep their types.
THEOREM MemoTypeCorrect == MemoSpec => []MemoTypeOK
<1>1. MemoInv => MemoTypeOK  BY DEF MemoInv
<1>2. QED  BY <1>1, MemoBegins, MemoNextSound, PTL DEF MemoSpec

\* Whatever calls are in flight, and however they end, no entry is older than
\* a write of its paths that has returned: the epoch a read captures before it
\* runs and the eviction cannot miss each other.
THEOREM NeverStale == MemoSpec => []NoStaleEntry
<1>1. MemoInv => NoStaleEntry  BY DEF MemoInv
<1>2. QED  BY <1>1, MemoBegins, MemoNextSound, PTL DEF MemoSpec
=============================================================================
