------------------------- MODULE ToolDispatchProofs -------------------------
(***************************************************************************)
(* What holds of batches of any size, under any number of permits, with    *)
(* any tools, thresholds and retries.  The invariant joins that of the     *)
(* planner to what each future owes its observers.  The planner's comes    *)
(* first: it says of each wave what its fields stand for, and that keys    *)
(* fill the open waves from the left, from which the order follows.        *)
(***************************************************************************)
EXTENDS ToolDispatch, WellFoundedInduction, TLAPS

W == 1..Len(waves)

\* Every placed call is in a wave, and waves share none.
Shared == /\ \A w \in W : waves[w].members # {} /\ waves[w].members \subseteq 1..placed
          /\ \A i \in 1..placed : \E w \in W : i \in waves[w].members
          /\ \A v, w \in W : \A i \in waves[v].members : i \in waves[w].members => v = w

\* What open and keys say of the members.
OpenMeans == \A w \in W : \A i \in waves[w].members :
               /\ Parallelizable(calls[i]) <=> waves[w].open
               /\ ~waves[w].open => waves[w].members = {i}
KeysMean  == \A w \in W :
               /\ \A i \in waves[w].members : ResourceKey(calls[i]) \in waves[w].keys \cup {NoKey}
               /\ \A k \in waves[w].keys : \E i \in waves[w].members : ResourceKey(calls[i]) = k

\* A key that is in a wave is in every open wave before it.
LeftFilled == \A v, w \in W : v < w /\ waves[v].open => waves[w].keys \subseteq waves[v].keys

InOrder == \A v, w \in W : \A i \in waves[v].members, j \in waves[w].members :
             i < j /\ Ordered(calls[i], calls[j]) => v < w

IInv == /\ PlanTypeOK /\ Shared /\ OpenMeans /\ KeysMean /\ LeftFilled
        /\ WavesAreSafe /\ InOrder
-----------------------------------------------------------------------------
\* The earliest of some waves.
LEMMA ChosenIsFirst ==
  ASSUME NEW S \in SUBSET Nat, S # {}
  PROVE  Chosen(S) \in S /\ \A j \in S : Chosen(S) <= j
<1>1. S \subseteq Nat
  OBVIOUS
<1>2. PICK x \in S : \A y \in S : ~(<<y, x>> \in OpToRel(<, Nat))
  BY <1>1, NatLessThanWellFounded, WFMin, Zenon
<1>3. ASSUME NEW y \in S PROVE x <= y
  <2>1. x \in Nat /\ y \in Nat
    BY <1>1
  <2>2. ~(y < x)
    BY <1>2, <2>1 DEF OpToRel
  <2>3. QED
    BY <2>1, <2>2
<1>4. QED
  BY <1>3 DEF Chosen

\* The keys of a call, and the wave it opens.
LEMMA CallKeys ==
  ASSUME NEW c \in Requests, NEW i \in Nat
  PROVE  /\ ResourceKey(c) \in Key \cup {NoKey} /\ NoKey \notin Key
         /\ KeysOf(c) = IF ResourceKey(c) = NoKey THEN {} ELSE {ResourceKey(c)}
         /\ ~Parallelizable(c) => ResourceKey(c) = NoKey
         /\ Parallelizable(c) \in BOOLEAN /\ NewWave(i, c) \in Wave
<1>1. c \in [tool : Tool, safe : BOOLEAN, key : Key \cup {NoKey}] /\ NoKey \notin Key
  BY RequestsAssumption, KeyAssumption
<1>2. /\ ResourceKey(c) \in Key \cup {NoKey} /\ Parallelizable(c) \in BOOLEAN
      /\ ~Parallelizable(c) => ResourceKey(c) = NoKey
  BY <1>1 DEF ResourceKey, Parallelizable
<1>3. KeysOf(c) \subseteq Key /\ KeysOf(c) = IF ResourceKey(c) = NoKey THEN {} ELSE {ResourceKey(c)}
  BY <1>2 DEF KeysOf
<1>4. NewWave(i, c) \in Wave
  BY <1>2, <1>3 DEF NewWave, Wave
<1>5. QED
  BY <1>1, <1>2, <1>3, <1>4

\* The two ways to place a call, and what is known of the waves before its own.
Opens(c) == /\ waves' = Append(waves, NewWave(placed + 1, c))
            /\ Parallelizable(c) =>
                 \A v \in W : waves[v].open => ResourceKey(c) \in waves[v].keys
Joins(x, c) == /\ Parallelizable(c) /\ waves[x].open /\ ResourceKey(c) \notin waves[x].keys
               /\ waves' = [waves EXCEPT ![x] = Joined(@, placed + 1, c)]
               /\ \A v \in W : v < x /\ waves[v].open => ResourceKey(c) \in waves[v].keys

LEMMA WaysToPlace ==
  ASSUME PlanTypeOK, PlaceNext
  PROVE  LET c == calls[placed + 1]
         IN  /\ c \in Requests /\ placed + 1 \in 1..Len(calls)
             /\ Opens(c) \/ \E x \in W : Joins(x, c)
<1> DEFINE c == calls[placed + 1]
<1>1. /\ Len(calls) \in Nat /\ Len(waves) \in Nat /\ placed \in Nat
      /\ placed + 1 \in 1..Len(calls) /\ c \in Requests
      /\ waves' = Placing(waves, placed + 1, c)
  BY DEF PlanTypeOK, PlaceNext
<1> HIDE DEF c
<1>2. Joinable(waves, c) \in SUBSET W
  BY DEF Joinable, W
<1>3. CASE Parallelizable(c) /\ Joinable(waves, c) # {}
  <2> DEFINE x == Chosen(Joinable(waves, c))
  <2>1. x \in Joinable(waves, c) /\ \A j \in Joinable(waves, c) : x <= j
    BY <1>1, <1>2, <1>3, ChosenIsFirst DEF W
  <2>2. waves' = [waves EXCEPT ![x] = Joined(@, placed + 1, c)]
    BY <1>1, <1>3 DEF Placing
  <2> HIDE DEF x
  <2>3. x \in W /\ waves[x].open /\ ResourceKey(c) \notin waves[x].keys
    BY <2>1 DEF Joinable, W
  <2>4. ASSUME NEW v \in W, v < x, waves[v].open PROVE ResourceKey(c) \in waves[v].keys
    <3>1. v \in Nat /\ x \in Nat
      BY <2>3, <1>1 DEF W
    <3>2. v \notin Joinable(waves, c)
      BY <2>1, <2>4, <3>1
    <3>3. QED
      BY <2>4, <3>2 DEF Joinable, W
  <2>5. QED
    BY <1>1, <1>3, <2>2, <2>3, <2>4 DEF Joins, c
<1>4. CASE ~(Parallelizable(c) /\ Joinable(waves, c) # {})
  <2>1. Opens(c)
    BY <1>1, <1>4 DEF Opens, Placing, Joinable, W
  <2>2. QED
    BY <1>1, <2>1 DEF c
<1>5. QED
  BY <1>3, <1>4

\* A call that opens a wave keeps the invariant: nothing is after it.
LEMMA OpeningKeeps ==
  ASSUME IInv, NEW c, c = calls[placed + 1], c \in Requests, placed + 1 \in 1..Len(calls),
         Opens(c), placed' = placed + 1, calls' = calls
  PROVE  IInv'
<1> DEFINE L == Len(waves)
           n == placed + 1
<1>1. /\ L \in Nat /\ placed \in Nat /\ n \in Nat /\ waves \in Seq(Wave)
      /\ NewWave(n, c) \in Wave
  BY CallKeys DEF IInv, PlanTypeOK
<1>2. /\ waves' \in Seq(Wave) /\ Len(waves') = L + 1
      /\ W' = 1..(L + 1) /\ waves'[L + 1] = NewWave(n, c)
      /\ \A w \in W : w \in W' /\ waves'[w] = waves[w]
      /\ \A w \in W' : w \in W \/ w = L + 1
  BY <1>1 DEF Opens, W
<1>3. /\ waves'[L + 1].members = {n} /\ waves'[L + 1].keys = KeysOf(c)
      /\ waves'[L + 1].open = Parallelizable(c)
  BY <1>2 DEF NewWave
<1>4. PlanTypeOK'
  BY <1>1, <1>2 DEF IInv, PlanTypeOK
<1>5. /\ \A w \in W : \A i \in waves[w].members : i \in 1..placed /\ i < n
      /\ \A w \in W : n \notin waves[w].members /\ w < L + 1
      /\ L + 1 \in W'
  BY <1>1, <1>2 DEF IInv, Shared, W
<1> HIDE DEF L, n
<1>6. Shared'
  <2>1. \A w \in W' : waves'[w].members # {} /\ waves'[w].members \subseteq 1..placed'
    <3>1. 1..placed \subseteq 1..placed' /\ n \in 1..placed'
      BY <1>1 DEF n
    <3>2. ASSUME NEW w \in W
          PROVE  waves'[w].members # {} /\ waves'[w].members \subseteq 1..placed'
      BY <1>2, <3>1 DEF IInv, Shared
    <3>3. waves'[L + 1].members # {} /\ waves'[L + 1].members \subseteq 1..placed'
      BY <1>3, <3>1
    <3>4. QED
      BY <1>2, <3>2, <3>3
  <2>2. ASSUME NEW i \in 1..placed' PROVE \E w \in W' : i \in waves'[w].members
    <3>1. i \in 1..placed \/ i = n
      BY <1>1 DEF n
    <3>2. QED
      BY <1>2, <1>3, <1>5, <3>1 DEF IInv, Shared
  <2>3. ASSUME NEW v \in W', NEW w \in W', NEW i \in waves'[v].members, i \in waves'[w].members
        PROVE  v = w
    <3>1. CASE v \in W /\ w \in W
      <4>1. i \in waves[v].members /\ i \in waves[w].members
        BY <1>2, <2>3, <3>1
      <4>2. QED
        BY <3>1, <4>1 DEF IInv, Shared
    <3>2. CASE v \notin W
      <4>1. v = L + 1 /\ i = n
        BY <1>2, <1>3, <2>3, <3>2
      <4>2. w \notin W
        BY <1>2, <1>5, <2>3, <4>1
      <4>3. QED
        BY <1>2, <4>1, <4>2
    <3>3. CASE w \notin W
      <4>1. w = L + 1 /\ i = n
        BY <1>2, <1>3, <2>3, <3>3
      <4>2. v \notin W
        BY <1>2, <1>5, <2>3, <4>1
      <4>3. QED
        BY <1>2, <4>1, <4>2
    <3>4. QED
      BY <3>1, <3>2, <3>3
  <2>4. QED
    BY <2>1, <2>2, <2>3 DEF Shared
<1>7. OpenMeans'
  <2>1. ASSUME NEW w \in W, NEW i \in waves'[w].members
        PROVE  (Parallelizable(calls'[i]) <=> waves'[w].open) /\ (~waves'[w].open => waves'[w].members = {i})
    <3>1. waves'[w] = waves[w]
      BY <1>2
    <3>2. QED
      BY <3>1 DEF IInv, OpenMeans
  <2>2. Parallelizable(calls'[n]) <=> waves'[L + 1].open
    BY <1>3 DEF n
  <2>3. QED
    BY <1>2, <1>3, <2>1, <2>2 DEF OpenMeans
<1>8. KeysMean'
  <2>1. /\ ResourceKey(c) \in KeysOf(c) \cup {NoKey}
        /\ \A k \in KeysOf(c) : ResourceKey(c) = k
    BY <1>1, CallKeys
  <2>2. calls' = calls /\ calls[n] = c
    BY DEF n
  <2>3. ASSUME NEW w \in W
        PROVE  /\ \A i \in waves'[w].members : ResourceKey(calls'[i]) \in waves'[w].keys \cup {NoKey}
               /\ \A k \in waves'[w].keys : \E i \in waves'[w].members : ResourceKey(calls'[i]) = k
    <3>1. waves'[w] = waves[w]
      BY <1>2
    <3>2. QED
      BY <2>2, <3>1 DEF IInv, KeysMean
  <2>4. /\ \A i \in waves'[L + 1].members : ResourceKey(calls'[i]) \in waves'[L + 1].keys \cup {NoKey}
        /\ \A k \in waves'[L + 1].keys : \E i \in waves'[L + 1].members : ResourceKey(calls'[i]) = k
    BY <1>3, <2>1, <2>2
  <2>5. QED
    BY <1>2, <2>3, <2>4 DEF KeysMean
<1>9. LeftFilled'
  <2>1. ASSUME NEW v \in W, waves[v].open PROVE KeysOf(c) \subseteq waves[v].keys
    BY <1>1, <2>1, CallKeys DEF Opens
  <2>2. ASSUME NEW v \in W', NEW w \in W', v < w, waves'[v].open
        PROVE  waves'[w].keys \subseteq waves'[v].keys
    <3>1. v \in W
      BY <1>1, <1>2, <2>2, <1>5
    <3>2. waves'[v] = waves[v]
      BY <1>2, <3>1
    <3>3. CASE w \in W
      BY <1>2, <2>2, <3>1, <3>2, <3>3 DEF IInv, LeftFilled
    <3>4. CASE w = L + 1
      BY <1>3, <2>1, <2>2, <3>1, <3>2, <3>4
    <3>5. QED
      BY <1>2, <3>3, <3>4
  <2>3. QED
    BY <2>2 DEF LeftFilled
<1>10. WavesAreSafe'
  <2>1. ASSUME NEW w \in W, NEW i \in waves'[w].members, NEW j \in waves'[w].members, i # j
        PROVE  ~Clash(calls'[i], calls'[j])
    <3>1. i \in waves[w].members /\ j \in waves[w].members
      BY <1>2, <2>1
    <3>2. ~Clash(calls[i], calls[j])
      BY <2>1, <3>1 DEF IInv, WavesAreSafe, W
    <3>3. QED
      BY <3>2
  <2>2. \A i, j \in waves'[L + 1].members : i = j
    BY <1>3
  <2>3. QED
    BY <1>2, <2>1, <2>2 DEF WavesAreSafe, W
<1>11. InOrder'
  <2>1. ASSUME NEW v \in W', NEW w \in W', NEW i \in waves'[v].members, NEW j \in waves'[w].members,
               i < j, Ordered(calls'[i], calls'[j])
        PROVE  v < w
    <3>1. CASE v \in W /\ w \in W
      BY <1>2, <2>1, <3>1 DEF IInv, InOrder
    <3>2. CASE v \in W /\ w = L + 1
      BY <1>5, <3>2
    <3>3. CASE v = L + 1
      <4>1. i = n /\ (j \in 1..placed \/ j = n)
        BY <1>2, <1>3, <1>5, <3>3
      <4>2. QED
        BY <1>1, <2>1, <4>1 DEF n
    <3>4. QED
      BY <1>2, <3>1, <3>2, <3>3
  <2>2. QED
    BY <2>1 DEF InOrder
<1>12. QED
  BY <1>4, <1>6, <1>7, <1>8, <1>9, <1>10, <1>11 DEF IInv

\* So does a call that joins a wave: its key is in every open wave before that
\* one, and in none after it.
LEMMA JoiningKeeps ==
  ASSUME IInv, NEW c, c = calls[placed + 1], c \in Requests, placed + 1 \in 1..Len(calls),
         NEW x \in W, Joins(x, c), placed' = placed + 1, calls' = calls
  PROVE  IInv'
<1> DEFINE n == placed + 1
           k == ResourceKey(c)
<1>1. /\ Len(waves) \in Nat /\ placed \in Nat /\ n \in Nat /\ waves \in Seq(Wave)
      /\ waves[x] \in Wave /\ W \subseteq Nat
  BY DEF IInv, PlanTypeOK, W
<1>2. Joined(waves[x], n, c) \in Wave
  <2>1. KeysOf(c) \subseteq Key
    BY <1>1, CallKeys
  <2>2. QED
    BY <1>1, <2>1 DEF Joined, Wave
<1>3. /\ waves' \in Seq(Wave) /\ Len(waves') = Len(waves) /\ W' = W
      /\ waves'[x] = Joined(waves[x], n, c)
      /\ \A w \in W : w # x => waves'[w] = waves[w]
  BY <1>1, <1>2 DEF Joins, W
<1>4. /\ waves'[x].members = waves[x].members \cup {n}
      /\ waves'[x].keys = waves[x].keys \cup KeysOf(c)
      /\ waves'[x].open /\ waves[x].open /\ waves'[x].open = waves[x].open
  <2>1. /\ waves'[x].members = waves[x].members \cup {n}
        /\ waves'[x].keys = waves[x].keys \cup KeysOf(c)
        /\ waves'[x].open = waves[x].open
    <3> DEFINE u == [waves[x] EXCEPT !.members = @ \cup {n}]
    <3>1. /\ u \in [members : SUBSET Nat, keys : SUBSET Key, open : BOOLEAN]
          /\ u.members = waves[x].members \cup {n}
          /\ u.keys = waves[x].keys /\ u.open = waves[x].open
      BY <1>1 DEF Wave
    <3>2. waves'[x] = [u EXCEPT !.keys = waves[x].keys \cup KeysOf(c)]
      BY <1>1, <1>3 DEF Joined, Wave
    <3> HIDE DEF u
    <3>3. QED
      BY <3>1, <3>2
  <2>2. waves[x].open
    BY DEF Joins
  <2>3. QED
    BY <2>1, <2>2
<1>5. PlanTypeOK'
  BY <1>1, <1>3 DEF IInv, PlanTypeOK
<1>6. \A w \in W : n \notin waves[w].members
                   /\ \A i \in waves[w].members : i \in 1..placed /\ i < n
  <2>1. ASSUME NEW w \in W, NEW i \in waves[w].members PROVE i \in 1..placed /\ i < n /\ i # n
    <3>1. i \in 1..placed
      BY DEF IInv, Shared
    <3>2. QED
      BY <1>1, <3>1
  <2>2. QED
    BY <2>1
<1>7. /\ KeysOf(c) = IF k = NoKey THEN {} ELSE {k}
      /\ k \notin waves[x].keys /\ Parallelizable(c) /\ c = calls[n]
      /\ \A v \in W : v < x /\ waves[v].open => k \in waves[v].keys
  BY <1>1, CallKeys DEF Joins
<1> HIDE DEF n, k
<1>8. Shared'
  <2>1. \A w \in W' : waves'[w].members # {} /\ waves'[w].members \subseteq 1..placed'
    <3>1. 1..placed \subseteq 1..placed' /\ n \in 1..placed'
      BY <1>1 DEF n
    <3>2. ASSUME NEW w \in W
          PROVE  waves[w].members # {} /\ waves[w].members \subseteq 1..placed'
      BY <3>1 DEF IInv, Shared
    <3>3. ASSUME NEW w \in W, w # x
          PROVE  waves'[w].members # {} /\ waves'[w].members \subseteq 1..placed'
      BY <1>3, <3>2, <3>3
    <3>4. waves'[x].members # {} /\ waves'[x].members \subseteq 1..placed'
      BY <1>4, <3>1, <3>2
    <3>5. QED
      BY <1>3, <3>3, <3>4
  <2>2. ASSUME NEW i \in 1..placed' PROVE \E w \in W' : i \in waves'[w].members
    <3>1. i \in 1..placed \/ i = n
      BY <1>1 DEF n
    <3>2. QED
      BY <1>3, <1>4, <3>1 DEF IInv, Shared
  <2>3. ASSUME NEW v \in W', NEW w \in W', NEW i \in waves'[v].members, i \in waves'[w].members
        PROVE  v = w
    <3>1. v \in W /\ w \in W
      BY <1>3
    <3>2. CASE i = n
      <4>1. v = x /\ w = x
        BY <1>3, <1>6, <2>3, <3>1, <3>2
      <4>2. QED
        BY <4>1
    <3>3. CASE i # n
      <4>1. i \in waves[v].members /\ i \in waves[w].members
        BY <1>3, <1>4, <2>3, <3>1, <3>3
      <4>2. QED
        BY <3>1, <4>1 DEF IInv, Shared
    <3>4. QED
      BY <3>2, <3>3
  <2>4. QED
    BY <2>1, <2>2, <2>3 DEF Shared
<1>9. OpenMeans'
  BY <1>3, <1>4, <1>7 DEF IInv, OpenMeans
<1>10. KeysMean'
  <2>1. ASSUME NEW w \in W, NEW i \in waves'[w].members
        PROVE  ResourceKey(calls'[i]) \in waves'[w].keys \cup {NoKey}
    BY <1>3, <1>4, <1>7 DEF IInv, KeysMean, k
  <2>2. ASSUME NEW w \in W, NEW l \in waves'[w].keys
        PROVE  \E i \in waves'[w].members : ResourceKey(calls'[i]) = l
    BY <1>3, <1>4, <1>7 DEF IInv, KeysMean, k
  <2>3. QED
    BY <1>3, <2>1, <2>2 DEF KeysMean
<1>11. LeftFilled'
  <2>1. ASSUME NEW v \in W, NEW w \in W, v < w, waves'[v].open
        PROVE  waves'[w].keys \subseteq waves'[v].keys
    <3>1. waves[v].open /\ waves[w].keys \subseteq waves[v].keys
          /\ waves[v].keys \subseteq waves'[v].keys
      BY <1>3, <1>4, <2>1 DEF IInv, LeftFilled
    <3>2. CASE w # x
      BY <1>3, <3>1, <3>2
    <3>3. CASE w = x
      BY <1>3, <1>4, <1>7, <2>1, <3>1, <3>3
    <3>4. QED
      BY <3>2, <3>3
  <2>2. QED
    BY <1>3, <2>1 DEF LeftFilled
<1>12. WavesAreSafe'
  <2>1. ASSUME NEW w \in W, NEW i \in waves'[w].members, NEW j \in waves'[w].members, i # j
        PROVE  ~Clash(calls'[i], calls'[j])
    <3>1. CASE i \in waves[w].members /\ j \in waves[w].members
      BY <2>1, <3>1 DEF IInv, WavesAreSafe, W
    <3>2. ASSUME NEW m \in waves[x].members
          PROVE  ~Clash(calls[m], calls[n]) /\ ~Clash(calls[n], calls[m])
      <4>1. Parallelizable(calls[m])
        BY <1>4, <3>2 DEF IInv, OpenMeans
      <4>2. ResourceKey(calls[m]) = NoKey \/ ResourceKey(calls[m]) # k
        BY <1>7, <3>2 DEF IInv, KeysMean
      <4>3. QED
        BY <1>7, <4>1, <4>2 DEF Clash, k
    <3>3. QED
      BY <1>3, <1>4, <2>1, <3>1, <3>2
  <2>2. QED
    BY <1>3, <2>1 DEF WavesAreSafe, W
<1>13. InOrder'
  <2>1. ASSUME NEW v \in W, NEW w \in W, NEW i \in waves'[v].members, NEW j \in waves'[w].members,
               i < j, Ordered(calls[i], calls[j])
        PROVE  v < w
    <3>1. CASE i \in waves[v].members /\ j \in waves[w].members
      BY <2>1, <3>1 DEF IInv, InOrder
    <3>2. CASE i = n
      <4>1. j \in 1..placed \/ j = n
        BY <1>3, <1>4, <1>6
      <4>2. QED
        BY <1>1, <2>1, <3>2, <4>1 DEF n
    <3>3. CASE i \in waves[v].members /\ j = n /\ w = x
      <4>1. ResourceKey(calls[i]) = k /\ k # NoKey
        BY <1>7, <2>1, <3>3 DEF Ordered, k
      <4>2. k \in waves[v].keys
        BY <3>3, <4>1 DEF IInv, KeysMean
      <4>3. v # x
        BY <1>7, <4>2
      <4>4. ~(x < v)
        BY <1>4, <1>7, <4>2 DEF IInv, LeftFilled
      <4>5. QED
        BY <1>1, <3>3, <4>3, <4>4
    <3>4. QED
      BY <1>3, <1>4, <1>6, <3>1, <3>2, <3>3
  <2>2. QED
    BY <1>3, <2>1 DEF InOrder
<1>14. QED
  BY <1>5, <1>8, <1>9, <1>10, <1>11, <1>12, <1>13 DEF IInv

\* An empty plan has the invariant.
LEMMA EmptyPlan ==
  ASSUME calls \in Seq(Requests), waves = <<>>, placed = 0
  PROVE  IInv
<1>1. Len(calls) \in Nat
  OBVIOUS
<1>2. waves \in Seq(Wave) /\ W = {} /\ 1..placed = {} /\ placed \in 0..Len(calls)
  BY <1>1 DEF W
<1>3. QED
  BY <1>2 DEF IInv, PlanTypeOK, Shared, OpenMeans, KeysMean, LeftFilled, WavesAreSafe, InOrder, W

\* The round of the loop keeps it, and so does whatever leaves the plan alone.
LEMMA PlacingKeeps ==
  ASSUME IInv, PlaceNext
  PROVE  IInv'
<1>1. placed' = placed + 1 /\ calls' = calls /\ PlanTypeOK
  BY DEF PlaceNext, IInv
<1>2. QED
  BY <1>1, WaysToPlace, OpeningKeeps, JoiningKeeps

LEMMA StutterKeeps ==
  ASSUME IInv, UNCHANGED <<calls, waves, placed>>
  PROVE  IInv'
<1>1. QED
  BY DEF IInv, PlanTypeOK, Shared, OpenMeans, KeysMean, LeftFilled, WavesAreSafe, InOrder, W

-----------------------------------------------------------------------------
\* The invariant holds of every plan that is being made.
THEOREM PlanInvariant == PlanSpec => []IInv
<1>1. PlanInit => IInv
  BY BatchesAssumption, EmptyPlan DEF PlanInit
<1>2. IInv /\ [PlaceNext]_<<calls, waves, placed>> => IInv'
  BY PlacingKeeps, StutterKeeps
<1>3. QED
  BY <1>1, <1>2, PTL DEF PlanSpec

\* The plan keeps its type.
THEOREM PlanTypeCorrect == PlanSpec => []PlanTypeOK
<1>1. IInv => PlanTypeOK
  BY DEF IInv
<1>2. QED
  BY PlanInvariant, <1>1, PTL

\* Every call that was placed is in one wave, and no wave is idle.
THEOREM PlanAlwaysPartition == PlanSpec => []PlanIsPartition
<1>1. IInv => PlanIsPartition
  <2> SUFFICES ASSUME Shared PROVE PlanIsPartition
    BY DEF IInv
  <2>1. ASSUME NEW i \in 1..placed PROVE \E w \in WavesOf(i) : WavesOf(i) = {w}
    <3>1. PICK w \in W : i \in waves[w].members
      BY DEF Shared
    <3>2. w \in WavesOf(i)
      BY <3>1 DEF WavesOf, W
    <3>3. ASSUME NEW v \in WavesOf(i) PROVE v = w
      <4>1. v \in W /\ i \in waves[v].members
        BY DEF WavesOf, W
      <4>2. QED
        BY <3>1, <4>1 DEF Shared
    <3>4. WavesOf(i) = {w}
      BY <3>2, <3>3
    <3>5. QED
      BY <3>2, <3>4
  <2>2. \A w \in 1..Len(waves) : waves[w].members # {} /\ waves[w].members \subseteq 1..placed
    BY DEF Shared, W
  <2>3. QED
    BY <2>1, <2>2 DEF PlanIsPartition
<1>2. QED
  BY PlanInvariant, <1>1, PTL

\* Calls of one wave never conflict.
THEOREM WavesAlwaysSafe == PlanSpec => []WavesAreSafe
<1>1. IInv => WavesAreSafe
  BY DEF IInv
<1>2. QED
  BY PlanInvariant, <1>1, PTL

\* Calls that conflict over a resource, and calls that run alone, keep their order.
THEOREM ConflictsAlwaysInOrder == PlanSpec => []ConflictsKeepOrder
<1>1. IInv => ConflictsKeepOrder
  BY DEF IInv, InOrder, ConflictsKeepOrder, WavesOf, W
<1>2. QED
  BY PlanInvariant, <1>1, PTL

-----------------------------------------------------------------------------
(* The dispatch of a plan. *)

\* The plan is the planner's, or that of sequential dispatch.
Singles == \A w \in W : \A i, j \in waves[w].members : i = j
Planned == PlanTypeOK /\ (IInv \/ (Singles /\ placed = Len(calls)))

\* A future under way is in the wave that runs.
Located == /\ phase = "waves" => wave \in W
           /\ phase = "planning" => wave = 0
           /\ \A i \in DOMAIN call : call[i].at \notin {"permit", "settled"} =>
                phase = "waves" /\ i \in waves[wave].members

\* What a future owes its observers, at an await.
Balanced(f) == /\ f.undecided = IF f.at = "ask" \/ f.approved THEN 1 ELSE 0
               /\ \/ f.unpaired = IF f.at \in {"ask", "tool"} THEN 1 ELSE 0
                  \/ f.unpaired = 1 /\ f.result = "Cancelled"
               /\ f.approved => f.at = "tool"
               /\ f.result = "None" <=> f.at # "settled"

DInv == TypeOK /\ Planned /\ Located /\ \A i \in DOMAIN call : Balanced(call[i])

-----------------------------------------------------------------------------
(* The breakers. *)

\* Every method of a breaker leaves a breaker.
LEMMA HealthType ==
  ASSUME NEW b \in Health
  PROVE  /\ AfterRequest(b) \in Health /\ LeaseEnds(b) \in Health /\ Recovers(b) \in Health
         /\ \A ok \in BOOLEAN : Recorded(b, ok) \in Health
<1> USE ThresholdAssumption DEF Health, Circuits
<1>1. AfterRequest(b) \in Health
  BY DEF AfterRequest, Granted, Rearmed
<1>2. LeaseEnds(b) \in Health /\ Recovers(b) \in Health
  BY DEF LeaseEnds, Recovers
<1>3. Succeeded(b) \in Health
  <2> DEFINE c == [b EXCEPT !.failures = 0, !.probe = "None"]
  <2>1. 0 \in 0..FailureThreshold
    OBVIOUS
  <2>2. c \in Health
    BY <2>1
  <2>3. [b EXCEPT !.failures = 0, !.probe = "None", !.circuit = "Closed", !.recovered = FALSE]
          = [c EXCEPT !.circuit = "Closed", !.recovered = FALSE]
    OBVIOUS
  <2> HIDE DEF c
  <2>4. [c EXCEPT !.circuit = "Closed", !.recovered = FALSE] \in Health
    BY <2>2
  <2>5. Rearmed(b) \in Health
    BY DEF Rearmed
  <2>6. QED
    BY <2>3, <2>4, <2>5 DEF Succeeded
<1>4. Failed(b) \in Health
  <2> DEFINE c == [b EXCEPT !.failures = Counted(@), !.recovered = FALSE, !.probe = "None"]
  <2>1. Counted(b.failures) \in 0..FailureThreshold
    BY DEF Counted
  <2>2. c \in Health
    BY <2>1
  <2> HIDE DEF c
  <2>3. [c EXCEPT !.circuit = "Open"] \in Health
    BY <2>2
  <2>4. Failed(b) = c \/ Failed(b) = [c EXCEPT !.circuit = "Open"]
    BY DEF Failed, c
  <2>5. QED
    BY <2>2, <2>3, <2>4
<1>5. QED
  BY <1>1, <1>2, <1>3, <1>4 DEF Recorded

\* The pure question and the request give one answer.
LEMMA OneAnswer ==
  ASSUME NEW b \in Health
  PROVE  WouldAllow(b) <=> Allows(b)
<1>1. QED
  BY DEF Health, Circuits, WouldAllow, Allows, Recoverable, ProbeExpired

-----------------------------------------------------------------------------
(* The futures. *)

LEMMA SettledFields ==
  ASSUME NEW f \in Future, NEW r \in {"Ok", "Soft"} \cup Stops
  PROVE  LET g == Settled(f, r)
         IN  /\ g \in Future /\ g.at = "settled" /\ g.result = r /\ g.approved = FALSE
             /\ g.unpaired = f.unpaired /\ g.undecided = f.undecided
<1>1. QED
  BY DEF Future, Settled, Awaits

LEMMA PostedFields ==
  ASSUME NEW f \in Future
  PROVE  LET g == Posted(f)
         IN  /\ g \in Future /\ g.at = f.at /\ g.result = f.result /\ g.approved = f.approved
             /\ g.unpaired = f.unpaired - 1 /\ g.undecided = f.undecided /\ g.tc = f.tc
<1>1. QED
  BY DEF Future, Posted

LEMMA DecidedFields ==
  ASSUME NEW f \in Future
  PROVE  LET g == Decided(f)
         IN  /\ g \in Future /\ g.at = f.at /\ g.result = f.result /\ g.approved = f.approved
             /\ g.unpaired = f.unpaired /\ g.undecided = f.undecided - 1 /\ g.tc = f.tc
<1>1. QED
  BY DEF Future, Decided

LEMMA ReleasedFields ==
  ASSUME NEW f \in Future
  PROVE  LET g == Released(f)
         IN  /\ g \in Future /\ g.at = f.at /\ g.result = f.result /\ g.approved = FALSE
             /\ g.unpaired = f.unpaired /\ g.tc = f.tc
             /\ g.undecided = IF f.approved THEN f.undecided - 1 ELSE f.undecided
<1>1. f.approved \in BOOLEAN
  BY DEF Future
<1>2. CASE f.approved
  <2> DEFINE d == Decided(f)
  <2>1. /\ d \in Future /\ d.at = f.at /\ d.result = f.result
        /\ d.unpaired = f.unpaired /\ d.undecided = f.undecided - 1 /\ d.tc = f.tc
    BY DecidedFields
  <2>2. Released(f) = [d EXCEPT !.approved = FALSE]
    BY <1>2 DEF Released
  <2> HIDE DEF d
  <2>3. QED
    BY <1>2, <2>1, <2>2 DEF Future
<1>3. CASE ~f.approved
  <2>1. Released(f) = f /\ f.approved = FALSE
    BY <1>1, <1>3 DEF Released
  <2>2. QED
    BY <1>3, <2>1
<1>4. QED
  BY <1>1, <1>2, <1>3

\* What is left to owe once the hooks have let a call pass, to the tool or to
\* its end.
LEMMA AdmitKeeps ==
  ASSUME NEW i, NEW f \in Future, f.undecided = IF f.approved THEN 1 ELSE 0, f.unpaired = 1,
         f.result = "None", TypeOK, Admit(i, f)
  PROVE  /\ \E g \in Future : Balanced(g) /\ Becomes(i, g)
         /\ looping' \in BOOLEAN /\ health' \in [Tool -> Health]
<1> DEFINE u == Released(f)
<1>1. /\ u \in Future /\ u.at = f.at /\ u.result = "None" /\ u.approved = FALSE
      /\ u.unpaired = 1 /\ u.undecided = 0
  <2>1. /\ u \in Future /\ u.at = f.at /\ u.result = f.result /\ u.approved = FALSE
        /\ u.unpaired = f.unpaired
        /\ u.undecided = IF f.approved THEN f.undecided - 1 ELSE f.undecided
    BY ReleasedFields
  <2> HIDE DEF u
  <2>2. QED
    BY <2>1
<1>2. health \in [Tool -> Health] /\ looping \in BOOLEAN /\ Patterns \subseteq BOOLEAN
  BY DEF TypeOK, Patterns
<1>3. /\ [health EXCEPT ![f.tc.tool] = AfterRequest(@)] \in [Tool -> Health]
      /\ looping' \in BOOLEAN /\ health' \in [Tool -> Health]
  <2>1. [health EXCEPT ![f.tc.tool] = AfterRequest(@)] \in [Tool -> Health]
    BY <1>2, HealthType
  <2>2. QED
    BY <1>2, <2>1 DEF Admit
<1> HIDE DEF u
<1>4. ASSUME NEW r \in {"Soft", "LoopDetected"}, Becomes(i, Posted(Settled(u, r)))
      PROVE  \E g \in Future : Balanced(g) /\ Becomes(i, g)
  <2> DEFINE v == Settled(u, r)
             g == Posted(v)
  <2>1. /\ v \in Future /\ v.at = "settled" /\ v.result = r /\ v.approved = FALSE
        /\ v.unpaired = 1 /\ v.undecided = 0
    <3>1. r \in {"Ok", "Soft"} \cup Stops
      BY DEF Stops
    <3>2. /\ v \in Future /\ v.at = "settled" /\ v.result = r /\ v.approved = FALSE
          /\ v.unpaired = u.unpaired /\ v.undecided = u.undecided
      BY <1>1, <3>1, SettledFields
    <3>3. QED
      BY <1>1, <3>2
  <2> HIDE DEF v
  <2>2. /\ g \in Future /\ g.at = "settled" /\ g.result = r /\ g.approved = FALSE
        /\ g.unpaired = 0 /\ g.undecided = 0
    BY <2>1, PostedFields
  <2>3. Becomes(i, g)
    BY <1>4 DEF v
  <2> HIDE DEF g
  <2>4. Balanced(g)
    BY <2>2 DEF Balanced
  <2>5. QED
    BY <2>2, <2>3, <2>4
<1>5. ASSUME Becomes(i, Settled(u, "Cancelled"))
      PROVE  \E g \in Future : Balanced(g) /\ Becomes(i, g)
  <2> DEFINE g == Settled(u, "Cancelled")
  <2>1. /\ g \in Future /\ g.at = "settled" /\ g.result = "Cancelled" /\ g.approved = FALSE
        /\ g.unpaired = 1 /\ g.undecided = 0
    BY <1>1, SettledFields DEF Stops
  <2> HIDE DEF g
  <2>2. Balanced(g)
    BY <2>1 DEF Balanced
  <2>3. QED
    BY <1>5, <2>1, <2>2 DEF g
<1>6. ASSUME Becomes(i, [f EXCEPT !.at = "tool"])
      PROVE  \E g \in Future : Balanced(g) /\ Becomes(i, g)
  <2> DEFINE g == [f EXCEPT !.at = "tool"]
  <2>1. /\ g \in Future /\ g.at = "tool" /\ g.result = "None" /\ g.approved = f.approved
        /\ g.unpaired = 1 /\ g.undecided = IF f.approved THEN 1 ELSE 0
    BY DEF Future, Awaits
  <2> HIDE DEF g
  <2>2. Balanced(g)
    BY <2>1 DEF Balanced
  <2>3. QED
    BY <1>6, <2>1, <2>2 DEF g
<1>7. QED
  BY <1>3, <1>4, <1>5, <1>6 DEF Admit, u

\* An attempt owes a post event from its start, and a decision if it asks.
LEMMA AttemptKeeps ==
  ASSUME NEW i, NEW f \in Future, f.undecided = 0, f.unpaired = 0, f.approved = FALSE,
         f.result = "None", TypeOK, Attempt(i, f)
  PROVE  /\ \E g \in Future : Balanced(g) /\ Becomes(i, g)
         /\ looping' \in BOOLEAN /\ health' \in [Tool -> Health]
<1> DEFINE u == [f EXCEPT !.unpaired = @ + 1]
           h == [u EXCEPT !.undecided = @ + 1]
<1>1. /\ u \in Future /\ u.result = "None" /\ u.approved = FALSE
      /\ u.unpaired = 1 /\ u.undecided = 0
  BY DEF Future
<1> HIDE DEF u
<1>2. /\ h \in Future /\ h.result = "None" /\ h.approved = FALSE
      /\ h.unpaired = 1 /\ h.undecided = 1
  BY <1>1 DEF Future
<1> HIDE DEF h
<1>3. ASSUME UNCHANGED <<health, looping>>
      PROVE  looping' \in BOOLEAN /\ health' \in [Tool -> Health]
  BY <1>3 DEF TypeOK
<1>4. CASE Admit(i, u)
  BY <1>1, <1>4, AdmitKeeps
<1>5. ASSUME NEW v \in Future, v.undecided = 0, v.approved = FALSE, v.unpaired = 1,
             Becomes(i, Posted(Settled(v, "Soft")))
      PROVE  \E g \in Future : Balanced(g) /\ Becomes(i, g)
  <2> DEFINE x == Settled(v, "Soft")
             g == Posted(x)
  <2>1. /\ x \in Future /\ x.at = "settled" /\ x.result = "Soft" /\ x.approved = FALSE
        /\ x.unpaired = 1 /\ x.undecided = 0
    BY <1>5, SettledFields
  <2> HIDE DEF x
  <2>2. /\ g \in Future /\ g.at = "settled" /\ g.result = "Soft" /\ g.approved = FALSE
        /\ g.unpaired = 0 /\ g.undecided = 0
    BY <2>1, PostedFields
  <2>3. Becomes(i, g)
    BY <1>5 DEF x
  <2> HIDE DEF g
  <2>4. Balanced(g)
    BY <2>2 DEF Balanced
  <2>5. QED
    BY <2>2, <2>3, <2>4
<1>6. /\ Decided(h) \in Future /\ Decided(h).undecided = 0 /\ Decided(h).approved = FALSE
      /\ Decided(h).unpaired = 1
  BY <1>2, DecidedFields
<1>7. ASSUME Becomes(i, [h EXCEPT !.at = "ask"])
      PROVE  \E g \in Future : Balanced(g) /\ Becomes(i, g)
  <2> DEFINE g == [h EXCEPT !.at = "ask"]
  <2>1. /\ g \in Future /\ g.at = "ask" /\ g.result = "None" /\ g.approved = FALSE
        /\ g.unpaired = 1 /\ g.undecided = 1
    BY <1>2 DEF Future, Awaits
  <2> HIDE DEF g
  <2>2. Balanced(g)
    BY <2>1 DEF Balanced
  <2>3. QED
    BY <1>7, <2>1, <2>2 DEF g
<1>8. \/ Admit(i, u)
      \/ Becomes(i, Posted(Settled(u, "Soft"))) /\ UNCHANGED <<health, looping>>
      \/ Becomes(i, [h EXCEPT !.at = "ask"]) /\ UNCHANGED <<health, looping>>
      \/ Becomes(i, Posted(Settled(Decided(h), "Soft"))) /\ UNCHANGED <<health, looping>>
  BY DEF Attempt, u, h
<1>9. QED
  BY <1>1, <1>3, <1>4, <1>5, <1>6, <1>7, <1>8

\* A step of one future that leaves it balanced leaves the batch so.
LEMMA FutureStep ==
  ASSUME DInv, BatchStays, NEW i \in DOMAIN call, Runs(i), looping' \in BOOLEAN,
         health' \in [Tool -> Health], \E g \in Future : Balanced(g) /\ Becomes(i, g)
  PROVE  DInv'
<1>1. PICK g \in Future : Balanced(g) /\ call' = [call EXCEPT ![i] = g]
  BY DEF Becomes
<1>2. /\ call \in [1..Len(calls) -> Future] /\ call' \in [1..Len(calls) -> Future]
      /\ DOMAIN call' = DOMAIN call /\ call'[i] = g
      /\ \A j \in DOMAIN call : j # i => call'[j] = call[j]
  BY <1>1 DEF DInv, TypeOK
<1>3. UNCHANGED <<calls, waves, placed, phase, wave, outcome, signal>>
  BY DEF BatchStays
<1>4. PlanTypeOK' /\ Planned'
  <2>1. IInv => IInv'
    BY <1>3, StutterKeeps
  <2>2. PlanTypeOK'
    BY <1>3 DEF DInv, Planned, PlanTypeOK
  <2>3. Singles => Singles'
    BY <1>3 DEF Singles, W
  <2>4. QED
    BY <1>3, <2>1, <2>2, <2>3 DEF DInv, Planned
<1>5. TypeOK'
  BY <1>2, <1>3, <1>4 DEF DInv, TypeOK
<1>6. Located'
  <2>1. i \in waves[wave].members /\ phase = "waves"
    BY DEF Runs
  <2>2. QED
    BY <1>2, <1>3, <2>1 DEF DInv, Located, W
<1>7. \A j \in DOMAIN call' : Balanced(call'[j])
  BY <1>1, <1>2 DEF DInv
<1>8. QED
  BY <1>4, <1>5, <1>6, <1>7 DEF DInv

\* One step per await of a future.
LEMMA FuturesKeep ==
  ASSUME DInv, NEW i \in DOMAIN call,
         \/ TakePermit(i) \/ AskCancelled(i) \/ ToolCancelled(i) \/ BackoffCancelled(i)
         \/ Remembered(i) \/ GivesUp(i) \/ Retries(i)
         \/ Approved(i) \/ Denied(i) \/ ToolReturns(i) \/ BackoffOver(i)
  PROVE  DInv'
<1> DEFINE f == call[i]
           Moves == \E g \in Future : Balanced(g) /\ Becomes(i, g)
           Sound == looping' \in BOOLEAN /\ health' \in [Tool -> Health]
<1>1. /\ f \in Future /\ Balanced(f) /\ TypeOK /\ signal \in BOOLEAN
      /\ looping \in BOOLEAN /\ health \in [Tool -> Health]
  BY DEF DInv, TypeOK
<1>2. ASSUME UNCHANGED <<health, looping>> PROVE Sound
  BY <1>1, <1>2
<1> HIDE DEF f
<1>3. /\ f.approved \in BOOLEAN /\ f.unpaired \in Int /\ f.undecided \in Int
      /\ f.undecided = IF f.at = "ask" \/ f.approved THEN 1 ELSE 0
      /\ f.approved => f.at = "tool"
      /\ f.at # "settled" => f.result = "None"
      /\ f.at \in {"ask", "tool"} => f.unpaired = 1
      /\ f.at \in {"permit", "memory", "reflector", "backoff"} =>
           f.unpaired = 0 /\ f.undecided = 0 /\ f.approved = FALSE
  BY <1>1 DEF Balanced, Future
<1>4. ASSUME NEW g \in Future, NEW r \in {"Ok", "Soft"} \cup Stops, Becomes(i, Settled(g, r)),
             g.undecided = 0, g.unpaired = 0 \/ (g.unpaired = 1 /\ r = "Cancelled")
      PROVE  Moves
  <2> DEFINE v == Settled(g, r)
  <2>1. /\ v \in Future /\ v.at = "settled" /\ v.result = r /\ v.approved = FALSE
        /\ v.unpaired = g.unpaired /\ v.undecided = 0
    BY <1>4, SettledFields
  <2> HIDE DEF v
  <2>2. Balanced(v)
    BY <1>4, <2>1 DEF Balanced, Stops
  <2>3. QED
    BY <1>4, <2>1, <2>2 DEF v
<1>5. ASSUME NEW g \in Future, g.undecided = 0, g.unpaired = 0, g.approved = FALSE,
             g.result = "None", NEW a \in {"memory", "reflector", "backoff"},
             Becomes(i, [g EXCEPT !.at = a])
      PROVE  Moves
  <2> DEFINE v == [g EXCEPT !.at = a]
  <2>1. /\ v \in Future /\ v.at = a /\ v.result = "None" /\ v.approved = FALSE
        /\ v.unpaired = 0 /\ v.undecided = 0
    BY <1>5 DEF Future, Awaits
  <2> HIDE DEF v
  <2>2. Balanced(v)
    BY <2>1 DEF Balanced
  <2>3. QED
    BY <1>5, <2>1, <2>2 DEF v
<1>6. ASSUME f.at = "tool"
      PROVE  LET u == Released(f)
             IN  /\ u \in Future /\ u.undecided = 0 /\ u.unpaired = 1 /\ u.approved = FALSE
                 /\ u.result = "None"
  <2> DEFINE u == Released(f)
  <2>1. /\ u \in Future /\ u.result = f.result /\ u.approved = FALSE
        /\ u.unpaired = f.unpaired
        /\ u.undecided = IF f.approved THEN f.undecided - 1 ELSE f.undecided
    BY <1>1, ReleasedFields
  <2> HIDE DEF u
  <2>2. f.undecided = (IF f.approved THEN 1 ELSE 0) /\ f.unpaired = 1 /\ f.result = "None"
    BY <1>3, <1>6
  <2>3. QED
    BY <2>1, <2>2 DEF u
<1>7. CASE TakePermit(i)
  <2>1. f.at = "permit" /\ Runs(i) /\ BatchStays /\ Attempt(i, f)
    BY <1>7 DEF TakePermit, Waiting, f
  <2>2. QED
    BY <1>1, <1>3, <2>1, AttemptKeeps, FutureStep
<1>8. CASE AskCancelled(i)
  <2>1. /\ f.at = "ask" /\ Runs(i) /\ BatchStays /\ Becomes(i, Settled(Decided(f), "Cancelled"))
        /\ UNCHANGED <<health, looping>>
    BY <1>8 DEF AskCancelled, f
  <2>2. Decided(f) \in Future /\ Decided(f).undecided = 0 /\ Decided(f).unpaired = 1
    BY <1>1, <1>3, <2>1, DecidedFields
  <2>3. Moves
    BY <1>4, <2>1, <2>2 DEF Stops
  <2>4. QED
    BY <1>2, <2>1, <2>3, FutureStep
<1>9. CASE Denied(i)
  <2> DEFINE g == Decided(f)
             v == Settled(g, "Soft")
             x == Posted(v)
  <2>1. /\ f.at = "ask" /\ Runs(i) /\ BatchStays /\ Becomes(i, x)
        /\ UNCHANGED <<health, looping>>
    BY <1>9 DEF Denied, f
  <2>2. g \in Future /\ g.undecided = 0 /\ g.unpaired = 1
    BY <1>1, <1>3, <2>1, DecidedFields
  <2> HIDE DEF g
  <2>3. /\ v \in Future /\ v.at = "settled" /\ v.result = "Soft" /\ v.approved = FALSE
        /\ v.unpaired = 1 /\ v.undecided = 0
    <3>1. "Soft" \in {"Ok", "Soft"} \cup Stops
      OBVIOUS
    <3>2. /\ v \in Future /\ v.at = "settled" /\ v.result = "Soft" /\ v.approved = FALSE
          /\ v.unpaired = g.unpaired /\ v.undecided = g.undecided
      BY <2>2, <3>1, SettledFields, Zenon
    <3>3. QED
      BY <2>2, <3>2
  <2> HIDE DEF v
  <2>4. /\ x \in Future /\ x.at = "settled" /\ x.result = "Soft" /\ x.approved = FALSE
        /\ x.unpaired = 0 /\ x.undecided = 0
    BY <2>3, PostedFields
  <2> HIDE DEF x
  <2>5. Balanced(x)
    BY <2>4 DEF Balanced
  <2>6. QED
    BY <1>2, <2>1, <2>4, <2>5, FutureStep
<1>10. CASE Approved(i)
  <2> DEFINE g == [f EXCEPT !.approved = TRUE]
  <2>1. f.at = "ask" /\ Runs(i) /\ BatchStays /\ Admit(i, g)
    BY <1>10 DEF Approved, f
  <2>2. /\ g \in Future /\ g.approved = TRUE /\ g.undecided = 1 /\ g.unpaired = 1
        /\ g.result = "None"
    BY <1>1, <1>3, <2>1 DEF Future
  <2> HIDE DEF g
  <2>3. QED
    BY <1>1, <2>1, <2>2, AdmitKeeps, FutureStep
<1>11. CASE ToolCancelled(i)
  <2>1. /\ f.at = "tool" /\ Runs(i) /\ BatchStays /\ Becomes(i, Settled(Released(f), "Cancelled"))
        /\ UNCHANGED <<health, looping>>
    BY <1>11 DEF ToolCancelled, f
  <2>2. Released(f) \in Future /\ Released(f).undecided = 0 /\ Released(f).unpaired = 1
    BY <1>6, <2>1
  <2>3. Moves
    BY <1>4, <2>1, <2>2 DEF Stops
  <2>4. QED
    BY <1>2, <2>1, <2>3, FutureStep
<1>12. CASE ToolReturns(i)
  <2> DEFINE u == Released(f)
             g == Posted(u)
  <2>1. f.at = "tool" /\ Runs(i) /\ BatchStays
    BY <1>12 DEF ToolReturns, f
  <2>2. /\ u \in Future /\ u.undecided = 0 /\ u.unpaired = 1 /\ u.approved = FALSE
        /\ u.result = "None"
    BY <1>6, <2>1
  <2> HIDE DEF u
  <2>3. /\ g \in Future /\ g.undecided = 0 /\ g.unpaired = 0 /\ g.approved = FALSE
        /\ g.result = "None"
    BY <2>2, PostedFields
  <2>4. PICK ok \in BOOLEAN :
          /\ health' = [health EXCEPT ![g.tc.tool] = Recorded(@, ok)]
          /\ looping' \in Patterns
          /\ Becomes(i, IF ~ok THEN [g EXCEPT !.at = "reflector"]
                        ELSE IF "memory" \in Setup THEN [g EXCEPT !.at = "memory"]
                        ELSE Settled(g, "Ok"))
    BY <1>12 DEF ToolReturns, f, u
  <2> HIDE DEF g
  <2>5. Moves
    BY <1>4, <1>5, <2>3, <2>4
  <2>6. Sound
    BY <1>1, <2>4, HealthType DEF Patterns
  <2>7. QED
    BY <2>1, <2>5, <2>6, FutureStep
<1>13. CASE Remembered(i) \/ GivesUp(i) \/ Retries(i) \/ BackoffCancelled(i)
  <2>1. /\ f.at \in {"memory", "reflector", "backoff"} /\ Runs(i) /\ BatchStays
        /\ UNCHANGED <<health, looping>>
        /\ \/ \E r \in {"Ok", "Soft", "Cancelled"} : Becomes(i, Settled(f, r))
           \/ Becomes(i, [f EXCEPT !.at = "backoff"])
    BY <1>13 DEF Remembered, GivesUp, Retries, BackoffCancelled, f
  <2>2. /\ f.undecided = 0 /\ f.unpaired = 0 /\ f.approved = FALSE /\ f.result = "None"
    BY <1>3, <2>1
  <2>3. Moves
    BY <1>1, <1>4, <1>5, <2>1, <2>2 DEF Stops
  <2>4. QED
    BY <1>2, <2>1, <2>3, FutureStep
<1>14. CASE BackoffOver(i)
  <2>1. /\ f.at = "backoff" /\ Runs(i) /\ BatchStays
        /\ \/ Becomes(i, Settled(f, "Exhausted")) /\ UNCHANGED <<health, looping>>
           \/ /\ f.attempt # MaxRecovery
              /\ \E c \in Corrected(f.tc) : Attempt(i, [Again(f) EXCEPT !.tc = c])
    BY <1>14 DEF BackoffOver, Spent, f
  <2>2. f.undecided = 0 /\ f.unpaired = 0 /\ f.approved = FALSE /\ f.result = "None"
    BY <1>3, <2>1
  <2>3. CASE Becomes(i, Settled(f, "Exhausted")) /\ UNCHANGED <<health, looping>>
    <3>1. Moves
      BY <1>1, <1>4, <2>2, <2>3 DEF Stops
    <3>2. QED
      BY <1>2, <2>1, <2>3, <3>1, FutureStep
  <2>4. ASSUME f.attempt # MaxRecovery, NEW c \in Corrected(f.tc),
               Attempt(i, [Again(f) EXCEPT !.tc = c])
        PROVE  DInv'
    <3> DEFINE u == Again(f)
               g == [u EXCEPT !.tc = c]
    <3>1. c \in Requests
      BY <1>1, <2>4 DEF Corrected, Future
    <3>2. f.attempt + 1 \in 0..MaxRecovery
      BY <1>1, <2>4, LimitsAssumption DEF Future
    <3>3. /\ u \in Future /\ u.undecided = 0 /\ u.unpaired = 0 /\ u.approved = FALSE
          /\ u.result = "None"
      BY <1>1, <2>2, <3>2 DEF Again, Future
    <3> HIDE DEF u
    <3>4. /\ g \in Future /\ g.undecided = 0 /\ g.unpaired = 0 /\ g.approved = FALSE
          /\ g.result = "None"
      BY <3>1, <3>3 DEF Future
    <3>5. Attempt(i, g)
      BY <2>4 DEF u
    <3> HIDE DEF g
    <3>6. Moves /\ Sound
      BY <1>1, <3>4, <3>5, AttemptKeeps
    <3>7. QED
      BY <2>1, <3>6, FutureStep
  <2>5. QED
    BY <2>1, <2>3, <2>4
<1>15. QED
  BY <1>7, <1>8, <1>9, <1>10, <1>11, <1>12, <1>13, <1>14

-----------------------------------------------------------------------------
(* The batch. *)

\* A sequential plan has one call a wave.
LEMMA SinglesPlan ==
  ASSUME NEW cs \in Seq(Requests), waves = OneByOne(cs)
  PROVE  waves \in Seq(Wave) /\ Singles
<1>1. Len(cs) \in Nat /\ \A i \in 1..Len(cs) : cs[i] \in Requests /\ i \in Nat
  OBVIOUS
<1>2. \A i \in 1..Len(cs) : NewWave(i, cs[i]) \in Wave
  BY <1>1, CallKeys
<1>3. waves \in Seq(Wave) /\ Len(waves) = Len(cs)
      /\ \A i \in 1..Len(cs) : waves[i] = NewWave(i, cs[i])
  BY <1>1, <1>2 DEF OneByOne
<1>4. \A w \in W : waves[w].members = {w}
  <2>1. W = 1..Len(cs)
    BY <1>3 DEF W
  <2>2. ASSUME NEW w \in 1..Len(cs) PROVE waves[w].members = {w}
    <3>1. waves[w] = NewWave(w, cs[w])
      BY <1>3
    <3>2. QED
      BY <3>1 DEF NewWave
  <2>3. QED
    BY <2>1, <2>2
<1>5. QED
  BY <1>3, <1>4 DEF Singles

\* A batch that has not begun to run is as it should be: its plan is the empty
\* one that the planner starts from, or the sequential one.
Fresh == /\ calls \in Seq(Requests) /\ call = [i \in 1..Len(calls) |-> NewFuture(calls[i])]
         /\ \/ placed = 0 /\ waves = <<>>
            \/ placed = Len(calls) /\ waves = OneByOne(calls)
         /\ phase \in {"idle", "planning"} /\ wave = 0 /\ outcome \in {"None", "Ok"} \cup Stops
         /\ health \in [Tool -> Health] /\ looping \in BOOLEAN /\ signal \in BOOLEAN

LEMMA FreshBatch == Fresh => DInv
<1> SUFFICES ASSUME Fresh PROVE DInv
  OBVIOUS
<1>1. Planned
  <2>1. CASE placed = 0 /\ waves = <<>>
    BY <2>1, EmptyPlan DEF Fresh, IInv, Planned
  <2>2. CASE placed = Len(calls) /\ waves = OneByOne(calls)
    <3>1. waves \in Seq(Wave) /\ Singles
      BY <2>2, SinglesPlan DEF Fresh
    <3>2. placed \in 0..Len(calls)
      BY <2>2 DEF Fresh
    <3>3. QED
      BY <2>2, <3>1, <3>2 DEF Fresh, Planned, PlanTypeOK
  <2>3. QED
    BY <2>1, <2>2 DEF Fresh
<1>2. Len(waves) \in Nat /\ 0 \in 0..Len(waves) /\ PlanTypeOK
  BY <1>1 DEF Planned, PlanTypeOK
<1>3. \A c \in Requests : NewFuture(c) \in Future /\ Balanced(NewFuture(c))
                          /\ NewFuture(c).at = "permit"
  BY LimitsAssumption DEF NewFuture, Future, Awaits, Balanced, Stops
<1>4. /\ \A i \in 1..Len(calls) : call[i] = NewFuture(calls[i]) /\ calls[i] \in Requests
      /\ DOMAIN call = 1..Len(calls)
  BY DEF Fresh
<1>5. call \in [1..Len(calls) -> Future]
  BY <1>3, <1>4 DEF Fresh
<1>6. TypeOK
  BY <1>2, <1>5 DEF TypeOK, Fresh
<1>7. Located /\ \A i \in DOMAIN call : Balanced(call[i])
  BY <1>3, <1>4 DEF Located, Fresh
<1>8. QED
  BY <1>1, <1>6, <1>7 DEF DInv

LEMMA StartsSound == Init => DInv
<1> SUFFICES ASSUME Init PROVE DInv
  OBVIOUS
<1>1. calls = <<>> /\ calls \in Seq(Requests) /\ Len(calls) = 0 /\ waves = <<>> /\ placed = 0
  BY DEF Init
<1>2. call = [i \in 1..Len(calls) |-> NewFuture(calls[i])]
  BY <1>1 DEF Init
<1>3. Healthy \in Health
  BY ThresholdAssumption DEF Healthy, Health, Circuits
<1>4. Fresh
  BY <1>1, <1>2, <1>3 DEF Init, Fresh
<1>5. QED
  BY <1>4, FreshBatch

\* The plan of a batch is of its calls, however many the planner has placed.
LEMMA PlanKeepsPlanned ==
  ASSUME Planned, PlaceNext
  PROVE  Planned' /\ Len(waves) \in Nat
<1>1. IInv
  BY DEF Planned, PlanTypeOK, PlaceNext
<1>2. IInv'
  BY <1>1, PlacingKeeps
<1>3. QED
  BY <1>1, <1>2 DEF Planned, IInv, PlanTypeOK

\* And of the rest of the run.
LEMMA StutterKeepsPlanned ==
  ASSUME Planned, UNCHANGED plan
  PROVE  Planned' /\ W' = W
<1>1. IInv => IInv'
  BY StutterKeeps DEF plan
<1>2. QED
  BY <1>1 DEF Planned, Singles, PlanTypeOK, W, plan

\* The error that ends a batch is one of its calls'.
LEMMA ErrorStops ==
  ASSUME Planned, wave \in W, Errors(waves[wave].members) # {}
  PROVE  call[Chosen(Errors(waves[wave].members))].result \in Stops
<1> DEFINE es == Errors(waves[wave].members)
<1>1. waves[wave].members \in SUBSET Nat
  <2>1. waves \in Seq(Wave) /\ wave \in 1..Len(waves)
    BY DEF Planned, PlanTypeOK, W
  <2>2. waves[wave] \in Wave
    BY <2>1
  <2>3. QED
    BY <2>2 DEF Wave
<1>2. es \in SUBSET Nat
  BY <1>1 DEF Errors
<1>3. Chosen(es) \in es
  BY <1>2, ChosenIsFirst
<1>4. QED
  BY <1>3 DEF Errors

\* Moving on to a wave, when no future is under way.
LEMMA NextWaveKeeps ==
  ASSUME DInv, UNCHANGED <<plan, call, signal, health, looping>>,
         \A i \in DOMAIN call : call[i].at \in {"permit", "settled"},
         NextWave \/ \E r \in Stops : Ended(r)
  PROVE  DInv'
<1>1. Planned' /\ W' = W /\ TypeOK
  BY StutterKeepsPlanned DEF DInv
<1>2. /\ Len(waves) \in Nat /\ wave \in 0..Len(waves)
      /\ UNCHANGED <<calls, waves, placed, call, signal, health, looping>>
  BY <1>1 DEF TypeOK, PlanTypeOK, plan
<1>3. /\ phase' \in {"waves", "done"} /\ outcome' \in {"None", "Ok"} \cup Stops
      /\ wave' \in 0..Len(waves)
      /\ phase' = "waves" => wave' \in W
  BY <1>1, <1>2 DEF NextWave, Ended, Stops, TypeOK, W
<1>4. TypeOK'
  BY <1>1, <1>2, <1>3 DEF TypeOK, Planned
<1>5. Located'
  BY <1>1, <1>2, <1>3 DEF Located
<1>6. \A i \in DOMAIN call' : Balanced(call'[i])
  BY <1>2 DEF DInv
<1>7. QED
  BY <1>1, <1>4, <1>5, <1>6 DEF DInv

\* One step per action of the batch.
LEMMA BatchKeeps ==
  ASSUME DInv, \/ Begin \/ Plan \/ FirstWave \/ WaveJoined \/ Taken \/ Dropped
               \/ HostCancels \/ Clock \/ UNCHANGED vars
  PROVE  DInv'
<1>1. /\ TypeOK /\ Planned /\ Located /\ Len(waves) \in Nat /\ Len(calls) \in Nat
      /\ \A i \in DOMAIN call : Balanced(call[i])
  BY DEF DInv, TypeOK, PlanTypeOK
<1>2. ASSUME UNCHANGED <<plan, call, phase, wave>>, TypeOK' PROVE DInv'
  <2>1. Planned' /\ W' = W
    BY <1>1, <1>2, StutterKeepsPlanned
  <2>2. QED
    BY <1>1, <1>2, <2>1 DEF DInv, Located, plan
<1>3. CASE Begin
  <2>1. /\ calls' \in Seq(Requests) /\ call' = [i \in 1..Len(calls') |-> NewFuture(calls'[i])]
        /\ phase' = "planning" /\ wave' = 0 /\ outcome' = "None" /\ health' = health
        /\ signal' \in BOOLEAN /\ looping' \in BOOLEAN
        /\ \/ placed' = 0 /\ waves' = <<>>
           \/ placed' = Len(calls') /\ waves' = OneByOne(calls')
    BY <1>1, <1>3, BatchesAssumption DEF Begin, TypeOK
  <2>2. health' \in [Tool -> Health]
    BY <1>1, <2>1 DEF TypeOK
  <2>3. Fresh'
    BY <2>1, <2>2 DEF Fresh
  <2>4. QED
    BY <2>3, FreshBatch, PTL
<1>4. CASE Plan
  <2>1. /\ PlaceNext /\ phase = "planning" /\ calls' = calls
        /\ UNCHANGED <<phase, wave, call, outcome, signal, health, looping>>
    BY <1>4 DEF Plan, Rest, PlaceNext
  <2>2. Planned' /\ Planned
    BY <1>1, <2>1, PlanKeepsPlanned
  <2>3. Len(waves') \in Nat /\ wave' = 0 /\ wave' \in 0..Len(waves')
    BY <1>1, <2>1, <2>2 DEF Planned, PlanTypeOK, Located
  <2>4. QED
    BY <1>1, <2>1, <2>2, <2>3 DEF DInv, TypeOK, Planned, Located
<1>5. CASE FirstWave
  <2>1. /\ \A i \in DOMAIN call : call[i].at \in {"permit", "settled"}
        /\ UNCHANGED <<plan, call, signal, health, looping>> /\ NextWave
    BY <1>1, <1>5 DEF FirstWave, Rest, Located
  <2>2. QED
    BY <2>1, NextWaveKeeps
<1>6. CASE WaveJoined
  <2>1. /\ \A i \in DOMAIN call : call[i].at \in {"permit", "settled"}
        /\ UNCHANGED <<plan, call, signal, health, looping>>
    BY <1>1, <1>6 DEF WaveJoined, AllJoined, Rest, Located
  <2>2. NextWave \/ \E r \in Stops : Ended(r)
    BY <1>1, <1>6, ErrorStops DEF WaveJoined, Located
  <2>3. QED
    BY <2>1, <2>2, NextWaveKeeps
<1>7. CASE Taken \/ Dropped
  <2>1. /\ calls' = <<>> /\ waves' = <<>> /\ placed' = 0 /\ call' = <<>>
        /\ phase' = "idle" /\ wave' = 0
        /\ UNCHANGED <<outcome, signal, health, looping>>
    BY <1>7 DEF Taken, Dropped, Leave, Rest
  <2>2. /\ calls' \in Seq(Requests) /\ Len(calls') = 0
        /\ call' = [i \in 1..Len(calls') |-> NewFuture(calls'[i])]
    BY <2>1
  <2>3. Fresh'
    BY <1>1, <2>1, <2>2 DEF Fresh, TypeOK
  <2>4. QED
    BY <2>3, FreshBatch, PTL
<1>8. CASE HostCancels
  <2>1. UNCHANGED <<plan, call, phase, wave>> /\ TypeOK'
    BY <1>1, <1>8 DEF HostCancels, TypeOK, PlanTypeOK, plan, Rest
  <2>2. QED
    BY <1>2, <2>1
<1>9. CASE Clock
  <2>1. PICK t \in Tool : Tick(t)
    BY <1>9 DEF Clock
  <2>2. health' \in [Tool -> Health]
    BY <1>1, <2>1, HealthType DEF Tick, TypeOK
  <2>3. UNCHANGED <<plan, call, phase, wave>> /\ TypeOK'
    BY <1>1, <2>1, <2>2 DEF Tick, TypeOK, PlanTypeOK, plan
  <2>4. QED
    BY <1>2, <2>3
<1>10. CASE UNCHANGED vars
  <2>1. UNCHANGED <<plan, call, phase, wave>> /\ TypeOK'
    BY <1>1, <1>10 DEF vars, TypeOK, PlanTypeOK, plan
  <2>2. QED
    BY <1>2, <2>1
<1>11. QED
  BY <1>3, <1>4, <1>5, <1>6, <1>7, <1>8, <1>9, <1>10

-----------------------------------------------------------------------------
(* The theorems. *)

\* The invariant holds of every batch that is dispatched.
THEOREM DispatchInvariant == Spec => []DInv
<1>1. DInv /\ [Next]_vars => DInv'
  <2> SUFFICES ASSUME DInv, [Next]_vars PROVE DInv'
    OBVIOUS
  <2>1. CASE Engine \/ World
    BY <2>1, FuturesKeep, BatchKeeps DEF Engine, World
  <2>2. CASE Host \/ Clock \/ UNCHANGED vars
    BY <2>2, BatchKeeps DEF Host
  <2>3. QED
    BY <2>1, <2>2 DEF Next
<1>2. QED
  BY StartsSound, <1>1, PTL DEF Spec

\* Batches, plans, futures and breakers keep their types.
THEOREM DispatchTypeCorrect == Spec => []TypeOK
<1>1. DInv => TypeOK
  BY DEF DInv
<1>2. QED
  BY DispatchInvariant, <1>1, PTL

\* Every ask ends with one decision in the audit trail, and observers see every
\* attempt end that was not cancelled, whatever way a call leaves its loop.
THEOREM ExitsAlwaysAccounted == Spec => []ExitsAreAccounted
<1>1. DInv => ExitsAreAccounted
  BY DEF DInv, Balanced, AsksDecidedOnce, PairedUnlessCancelled, ExitsAreAccounted
<1>2. QED
  BY DispatchInvariant, <1>1, PTL

\* Calls that execute together are compatible: they are of one wave of a plan
\* whose waves are safe.
THEOREM AlwaysPlannedTogether == Spec => []PlannedTogether
<1>1. DInv => PlannedTogether
  <2> SUFFICES ASSUME DInv, NEW i \in Executing, NEW j \in Executing, i # j
               PROVE  ~Clash(calls[i], calls[j])
    BY DEF PlannedTogether
  <2>1. wave \in W /\ i \in waves[wave].members /\ j \in waves[wave].members
    BY DEF DInv, Located, Executing
  <2>2. WavesAreSafe
    BY <2>1 DEF DInv, Planned, Singles, IInv
  <2>3. QED
    BY <2>1, <2>2 DEF WavesAreSafe, W
<1>2. QED
  BY DispatchInvariant, <1>1, PTL

\* The two questions about a breaker have one answer.
THEOREM OracleAlwaysAgrees == Spec => []OracleAgrees
<1>1. DInv => OracleAgrees
  BY OneAnswer DEF DInv, TypeOK, OracleAgrees
<1>2. QED
  BY DispatchInvariant, <1>1, PTL

-----------------------------------------------------------------------------
(* How far a batch is: the waves behind the one that runs ended well, and     *)
(* nothing of those ahead of it began.                                       *)

Good == {"Ok", "Soft"}
Standing ==
  /\ phase \in {"idle", "planning"} => \A i \in DOMAIN call : call[i].at = "permit"
  /\ phase = "waves" => \A w \in W : \A i \in waves[w].members :
                          /\ w < wave => call[i].result \in Good
                          /\ w > wave => call[i].at = "permit"
Underway == /\ Shared
            /\ phase \in {"waves", "done"} => placed = Len(calls)
            /\ Standing /\ FirstErrorEndsBatch

\* Every call of a planned batch is in one wave.
LEMMA CallsInWaves ==
  ASSUME DInv, Shared
  PROVE  /\ DOMAIN call = 1..Len(calls) /\ wave \in 0..Len(waves) /\ Len(waves) \in Nat
         /\ \A w \in W : waves[w].members \subseteq DOMAIN call /\ waves[w].members \in SUBSET Nat
         /\ placed = Len(calls) => \A i \in DOMAIN call : \E w \in W : i \in waves[w].members
         /\ \A v, w \in W : \A i \in waves[v].members : i \in waves[w].members => v = w
         /\ \A i \in DOMAIN call : call[i] \in Future /\ Balanced(call[i])
<1>1. /\ call \in [1..Len(calls) -> Future] /\ waves \in Seq(Wave) /\ placed \in 0..Len(calls)
      /\ wave \in 0..Len(waves) /\ Len(waves) \in Nat /\ Len(calls) \in Nat
  BY DEF DInv, TypeOK, PlanTypeOK
<1>2. 1..placed \subseteq 1..Len(calls)
  BY <1>1
<1>3. \A w \in W : waves[w].members \subseteq DOMAIN call /\ waves[w].members \in SUBSET Nat
  BY <1>1, <1>2 DEF Shared
<1>4. QED
  BY <1>1, <1>3 DEF Shared, DInv

\* What a future does in the wave that runs is nothing to the other waves.
LEMMA FutureGoesOn ==
  ASSUME DInv, DInv', Underway, NEW i, Runs(i), BatchStays, DOMAIN call' = DOMAIN call,
         \A j \in DOMAIN call \ {i} : call'[j] = call[j]
  PROVE  Underway'
<1>1. UNCHANGED <<calls, waves, placed, phase, wave, outcome>> /\ phase = "waves" /\ W' = W
  BY DEF BatchStays, Runs, W
<1>2. wave \in W /\ i \in waves[wave].members /\ Shared
  BY <1>1 DEF DInv, Located, Runs, Underway
<1>3. Shared' /\ (phase \in {"waves", "done"} => placed = Len(calls))'
  BY <1>1 DEF Underway, Shared
<1>4. ASSUME NEW w \in W, w # wave, NEW j \in waves[w].members PROVE call'[j] = call[j]
  BY <1>2, <1>4, CallsInWaves
<1>5. \A w \in W : w \in Nat /\ wave \in Nat
  BY <1>2 DEF W
<1>6. Standing'
  <2> SUFFICES ASSUME NEW w \in W, NEW j \in waves[w].members
               PROVE  /\ w < wave => call'[j].result \in Good
                      /\ w > wave => call'[j].at = "permit"
    BY <1>1 DEF Standing
  <2>1. CASE w = wave
    BY <1>5, <2>1
  <2>2. CASE w # wave
    BY <1>1, <1>4, <2>2 DEF Underway, Standing
  <2>3. QED
    BY <2>1, <2>2
<1>7. FirstErrorEndsBatch'
  BY <1>1 DEF FirstErrorEndsBatch
<1>8. QED
  BY <1>3, <1>6, <1>7 DEF Underway

LEMMA FuturesGoOn ==
  ASSUME DInv, DInv', Underway, NEW i \in DOMAIN call,
         \/ TakePermit(i) \/ AskCancelled(i) \/ ToolCancelled(i) \/ BackoffCancelled(i)
         \/ Remembered(i) \/ GivesUp(i) \/ Retries(i)
         \/ Approved(i) \/ Denied(i) \/ ToolReturns(i) \/ BackoffOver(i)
  PROVE  Underway'
<1> DEFINE Alone == DOMAIN call' = DOMAIN call /\ \A j \in DOMAIN call \ {i} : call'[j] = call[j]
<1>1. ASSUME NEW f, Becomes(i, f) PROVE Alone
  BY <1>1 DEF Becomes
<1>2. ASSUME NEW f, Admit(i, f) PROVE Alone
  BY <1>1, <1>2 DEF Admit
<1>3. ASSUME NEW f, Attempt(i, f) PROVE Alone
  BY <1>1, <1>2, <1>3 DEF Attempt
<1> HIDE DEF Alone
<1>4. Runs(i) /\ BatchStays
  BY DEF TakePermit, AskCancelled, ToolCancelled, BackoffCancelled, Remembered, GivesUp, Retries,
         Approved, Denied, ToolReturns, BackoffOver
<1>5. CASE TakePermit(i) \/ Approved(i) \/ BackoffOver(i)
  <2>1. Alone
    BY <1>1, <1>2, <1>3, <1>5 DEF TakePermit, Approved, BackoffOver
  <2>2. QED
    BY <1>4, <2>1, FutureGoesOn DEF Alone
<1>6. CASE \/ AskCancelled(i) \/ ToolCancelled(i) \/ BackoffCancelled(i) \/ Remembered(i)
           \/ GivesUp(i) \/ Retries(i) \/ Denied(i) \/ ToolReturns(i)
  <2>1. Alone
    BY <1>1, <1>6 DEF AskCancelled, ToolCancelled, BackoffCancelled, Remembered, GivesUp, Retries,
                      Denied, ToolReturns
  <2>2. QED
    BY <1>4, <2>1, FutureGoesOn DEF Alone
<1>7. QED
  BY <1>5, <1>6

\* A wave that was joined without an error ended well.
LEMMA JoinedWell ==
  ASSUME NEW f \in Future, Balanced(f), f.at = "settled", f.result \notin Stops
  PROVE  f.result \in Good
  BY DEF Future, Balanced, Good

\* From a wave to the next one, or to the end of the batch.
LEMMA NextWaveGoesOn ==
  ASSUME DInv, Underway, UNCHANGED <<plan, call>>, placed = Len(calls), NextWave,
         \A w \in W : \A i \in waves[w].members :
            /\ w <= wave => call[i].result \in Good
            /\ w > wave => call[i].at = "permit"
  PROVE  Underway'
<1>1. UNCHANGED <<calls, waves, placed, call>> /\ W' = W /\ Shared
  BY DEF plan, W, Underway
<1>2. /\ DOMAIN call = 1..Len(calls) /\ wave \in 0..Len(waves) /\ Len(waves) \in Nat
      /\ \A i \in DOMAIN call : \E w \in W : i \in waves[w].members
      /\ \A i \in DOMAIN call : Balanced(call[i])
  BY <1>1, CallsInWaves
<1>3. \A w \in W : w \in Nat /\ w <= Len(waves)
  BY <1>2 DEF W
<1>4. Shared' /\ (phase \in {"waves", "done"} => placed = Len(calls))'
  BY <1>1 DEF Shared
<1>5. CASE wave = Len(waves) /\ Ended("Ok")
  <2>1. \A i \in DOMAIN call : call[i].result \in Good
    BY <1>2, <1>3, <1>5
  <2>2. phase' = "done" /\ outcome' = "Ok"
    BY <1>5 DEF Ended
  <2>3. Standing' /\ FirstErrorEndsBatch'
    BY <1>1, <2>1, <2>2 DEF Standing, FirstErrorEndsBatch, Good
  <2>4. QED
    BY <1>4, <2>3 DEF Underway
<1>6. CASE wave < Len(waves) /\ signal /\ Ended("Cancelled")
  <2>1. phase' = "done" /\ outcome' = "Cancelled" /\ wave' = wave
    BY <1>6 DEF Ended
  <2>2. \A i \in DOMAIN call : call[i].result \in Good \/ call[i].result = "None"
    BY <1>2, <1>3 DEF Balanced
  <2>3. Errors(DOMAIN call) = {}
    BY <2>2 DEF Errors, Good, Stops
  <2>4. \A i \in DOMAIN call : call[i].result = "None" => \A w \in WavesOf(i) : w > wave
    <3>1. ASSUME NEW i \in DOMAIN call, call[i].result = "None", NEW w \in WavesOf(i) PROVE w > wave
      <4>1. w \in W /\ i \in waves[w].members
        BY <3>1 DEF WavesOf, W
      <4>2. ~(w <= wave)
        BY <3>1, <4>1 DEF Good
      <4>3. QED
        BY <1>2, <1>3, <4>1, <4>2
    <3>2. QED
      BY <3>1
  <2>5. FirstErrorEndsBatch'
    BY <1>1, <2>1, <2>3, <2>4 DEF FirstErrorEndsBatch, WavesOf, Errors
  <2>6. QED
    BY <1>4, <2>1, <2>5 DEF Underway, Standing
<1>7. CASE wave' = wave + 1 /\ phase' = "waves"
  <2>1. Standing'
    <3> SUFFICES ASSUME NEW w \in W, NEW i \in waves[w].members
                 PROVE  /\ w < wave + 1 => call[i].result \in Good
                        /\ w > wave + 1 => call[i].at = "permit"
      BY <1>1, <1>7 DEF Standing
    <3>1. w \in Nat /\ wave \in Nat
      BY <1>2, <1>3
    <3>2. (w < wave + 1 => w <= wave) /\ (w > wave + 1 => w > wave)
      BY <3>1
    <3>3. QED
      BY <3>2
  <2>2. FirstErrorEndsBatch'
    BY <1>7 DEF FirstErrorEndsBatch
  <2>3. QED
    BY <1>4, <2>1, <2>2 DEF Underway
<1>8. QED
  BY <1>5, <1>6, <1>7 DEF NextWave

\* A batch that ends on the first error of the wave that was joined.
LEMMA ErrorGoesOn ==
  ASSUME DInv, Underway, UNCHANGED <<plan, call>>, phase = "waves",
         \A i \in waves[wave].members : call[i].at = "settled",
         Errors(waves[wave].members) # {},
         Ended(call[Chosen(Errors(waves[wave].members))].result)
  PROVE  Underway'
<1> DEFINE es == Errors(waves[wave].members)
           e == Chosen(es)
<1>1. /\ UNCHANGED <<calls, waves, placed, call>> /\ W' = W /\ Shared /\ wave \in W
      /\ phase' = "done" /\ outcome' = call[e].result /\ wave' = wave /\ placed = Len(calls)
  BY DEF plan, W, Underway, Ended, DInv, Located
<1>2. /\ DOMAIN call = 1..Len(calls) /\ Len(waves) \in Nat
      /\ \A i \in DOMAIN call : \E w \in W : i \in waves[w].members
      /\ \A w \in W : waves[w].members \subseteq DOMAIN call /\ waves[w].members \in SUBSET Nat
      /\ \A i \in DOMAIN call : Balanced(call[i])
  BY <1>1, CallsInWaves
<1>3. es \in SUBSET Nat /\ es # {} /\ es \subseteq waves[wave].members
  BY <1>1, <1>2 DEF Errors
<1>4. e \in es /\ \A i \in es : e <= i
  BY <1>3, ChosenIsFirst
<1>5. e \in Errors(DOMAIN call) /\ call[e].result \in Stops
  BY <1>1, <1>2, <1>3, <1>4 DEF Errors
<1> HIDE DEF e
<1>6. \A w \in W : w \in Nat /\ wave \in Nat
  BY <1>1 DEF W
<1>7. \A w \in W : \A i \in waves[w].members : /\ w < wave => call[i].result \in Good
                                               /\ w > wave => call[i].at = "permit"
  BY DEF Underway, Standing
<1>8. Errors(DOMAIN call) \subseteq es
  <2> SUFFICES ASSUME NEW i \in DOMAIN call, call[i].result \in Stops PROVE i \in es
    BY DEF Errors
  <2>1. PICK w \in W : i \in waves[w].members
    BY <1>2
  <2>2. w = wave
    <3>1. ~(w < wave)
      BY <1>7, <2>1 DEF Stops, Good
    <3>2. ~(w > wave)
      BY <1>2, <1>7, <2>1 DEF Balanced, Stops
    <3>3. QED
      BY <1>6, <3>1, <3>2
  <2>3. QED
    BY <2>1, <2>2 DEF Errors
<1>9. \A i \in DOMAIN call : call[i].result = "None" => \A w \in WavesOf(i) : w > wave
  <2> SUFFICES ASSUME NEW i \in DOMAIN call, call[i].result = "None", NEW w \in WavesOf(i)
               PROVE  w > wave
    OBVIOUS
  <2>1. w \in W /\ i \in waves[w].members
    BY DEF WavesOf, W
  <2>2. ~(w < wave)
    BY <1>7, <2>1 DEF Good
  <2>3. w # wave
    BY <1>2, <2>1 DEF Balanced
  <2>4. QED
    BY <1>6, <2>1, <2>2, <2>3
<1>10. \A i \in Errors(DOMAIN call) : \E j \in Errors(DOMAIN call) :
          j <= i /\ call[j].result = outcome'
  BY <1>1, <1>4, <1>5, <1>8
<1>11. outcome' # "Ok"
  BY <1>1, <1>5 DEF Stops
<1>12. FirstErrorEndsBatch'
  BY <1>1, <1>9, <1>10, <1>11 DEF FirstErrorEndsBatch, WavesOf, Errors
<1>13. QED
  BY <1>1, <1>12 DEF Underway, Shared, Standing

LEMMA PermitsSound ==
  ASSUME NEW cs \in Seq(Requests), call' = [i \in 1..Len(cs) |-> NewFuture(cs[i])]
  PROVE  \A i \in DOMAIN call' : call'[i].at = "permit"
  BY DEF NewFuture

\* The plan before the first call is placed, and the one of sequential mode, where
\* every call has a wave of its own.
Unplanned  == waves = <<>> /\ placed = 0
Sequential == calls \in Seq(Requests) /\ waves = OneByOne(calls) /\ placed = Len(calls)
LEMMA PlansShare == (Unplanned => Shared) /\ (Sequential => Shared)
<1>1. ASSUME Unplanned PROVE Shared
  <2>1. W = {} /\ 1..placed = {}
    BY <1>1 DEF W, Unplanned
  <2>2. QED
    BY <2>1 DEF Shared
<1>2. ASSUME Sequential PROVE Shared
  <2>1. /\ Len(calls) \in Nat /\ Len(waves) = Len(calls)
        /\ \A i \in 1..Len(calls) : waves[i] = NewWave(i, calls[i])
    BY <1>2 DEF OneByOne, Sequential
  <2>2. W = 1..placed /\ \A w \in W : waves[w] = NewWave(w, calls[w])
    BY <1>2, <2>1 DEF W, Sequential
  <2>3. ASSUME NEW w \in W PROVE waves[w].members = {w}
    <3>1. waves[w] = NewWave(w, calls[w])
      BY <2>2
    <3>2. QED
      BY <3>1 DEF NewWave
  <2>4. QED
    BY <2>2, <2>3 DEF Shared
<1>3. QED
  BY <1>1, <1>2

LEMMA BatchGoesOn ==
  ASSUME DInv, DInv', Underway, \/ Begin \/ Plan \/ FirstWave \/ WaveJoined \/ Taken \/ Dropped
                                \/ HostCancels \/ Clock \/ UNCHANGED vars
  PROVE  Underway'
<1>1. CASE Begin
  <2>1. /\ calls' \in Seq(Requests) /\ call' = [i \in 1..Len(calls') |-> NewFuture(calls'[i])]
        /\ phase' = "planning"
        /\ \/ waves' = <<>> /\ placed' = 0
           \/ waves' = OneByOne(calls') /\ placed' = Len(calls')
    BY <1>1, BatchesAssumption DEF Begin
  <2>2. Shared'
    <3>1. Unplanned' \/ Sequential'
      BY <2>1 DEF Unplanned, Sequential
    <3>2. QED
      BY <3>1, PlansShare, PTL
  <2>3. \A i \in DOMAIN call' : call'[i].at = "permit"
    BY <2>1, PermitsSound
  <2>4. QED
    BY <2>1, <2>2, <2>3 DEF Underway, Standing, FirstErrorEndsBatch
<1>2. CASE Plan
  <2>1. PlaceNext /\ phase = "planning" /\ phase' = "planning" /\ call' = call
    BY <1>2 DEF Plan
  <2>2. IInv
    BY <2>1 DEF DInv, Planned, PlanTypeOK, PlaceNext
  <2>3. Shared'
    BY <2>1, <2>2, PlacingKeeps DEF IInv
  <2>4. QED
    BY <2>1, <2>3 DEF Underway, Standing, FirstErrorEndsBatch
<1>3. CASE FirstWave
  <2>1. /\ phase = "planning" /\ placed = Len(calls) /\ NextWave /\ UNCHANGED <<plan, call>>
        /\ wave = 0
    BY <1>3 DEF FirstWave, DInv, Located
  <2>2. ASSUME NEW w \in W, NEW i \in waves[w].members
        PROVE  (w <= wave => call[i].result \in Good) /\ (w > wave => call[i].at = "permit")
    <3>1. w \in Nat /\ w # 0
      BY DEF W
    <3>2. i \in DOMAIN call
      BY CallsInWaves DEF Underway
    <3>3. QED
      BY <2>1, <3>1, <3>2 DEF Underway, Standing
  <2>3. QED
    BY <2>1, <2>2, NextWaveGoesOn
<1>4. CASE WaveJoined
  <2>1. /\ phase = "waves" /\ \A i \in waves[wave].members : call[i].at = "settled"
        /\ UNCHANGED <<plan, call>> /\ wave \in W /\ placed = Len(calls)
    BY <1>4 DEF WaveJoined, AllJoined, DInv, Located, Underway
  <2>2. CASE Errors(waves[wave].members) # {} /\ Ended(call[Chosen(Errors(waves[wave].members))].result)
    BY <2>1, <2>2, ErrorGoesOn
  <2>3. CASE Errors(waves[wave].members) = {} /\ NextWave
    <3>1. ASSUME NEW w \in W, NEW i \in waves[w].members
          PROVE  (w <= wave => call[i].result \in Good) /\ (w > wave => call[i].at = "permit")
      <4>1. w \in Nat /\ wave \in Nat
        BY <2>1 DEF W
      <4>2. /\ w < wave => call[i].result \in Good
            /\ w > wave => call[i].at = "permit"
        BY <2>1 DEF Underway, Standing
      <4>3. i \in DOMAIN call /\ call[i] \in Future /\ Balanced(call[i])
        BY CallsInWaves DEF Underway
      <4>4. w = wave => call[i].at = "settled" /\ call[i].result \notin Stops
        BY <2>1, <2>3 DEF Errors
      <4>5. w = wave => call[i].result \in Good
        BY <4>3, <4>4, JoinedWell
      <4>6. QED
        BY <4>1, <4>2, <4>5
    <3>2. QED
      BY <2>1, <2>3, <3>1, NextWaveGoesOn
  <2>4. QED
    BY <1>4, <2>2, <2>3 DEF WaveJoined
<1>5. CASE Taken \/ Dropped
  <2>1. waves' = <<>> /\ placed' = 0 /\ call' = <<>> /\ phase' = "idle"
    BY <1>5 DEF Taken, Dropped, Leave
  <2>2. Shared'
    <3>1. Unplanned'
      BY <2>1 DEF Unplanned
    <3>2. QED
      BY <3>1, PlansShare, PTL
  <2>3. DOMAIN call' = {}
    BY <2>1
  <2>4. QED
    BY <2>1, <2>2, <2>3 DEF Underway, Standing, FirstErrorEndsBatch
<1>6. CASE HostCancels \/ Clock \/ UNCHANGED vars
  <2>1. UNCHANGED <<calls, waves, placed, phase, wave, call, outcome>>
    BY <1>6 DEF HostCancels, Clock, Tick, vars, plan
  <2>2. QED
    BY <2>1 DEF Underway, Shared, Standing, FirstErrorEndsBatch, Errors, WavesOf, W
<1>7. QED
  BY <1>1, <1>2, <1>3, <1>4, <1>5, <1>6

\* However its calls end, are cancelled and retried: a batch that ends on an
\* error has begun none of its later waves, and the error is that of its first
\* call that has one; a batch that ends well has had an answer from every call.
THEOREM FirstErrorAlwaysEndsBatch == Spec => []FirstErrorEndsBatch
<1>1. Init => Underway
  <2> SUFFICES ASSUME Init PROVE Underway
    OBVIOUS
  <2>1. waves = <<>> /\ placed = 0 /\ phase = "idle" /\ DOMAIN call = {}
    BY DEF Init
  <2>2. QED
    BY <2>1, PlansShare DEF Unplanned, Underway, Standing, FirstErrorEndsBatch
<1>2. DInv /\ DInv' /\ Underway /\ [Next]_vars => Underway'
  <2> SUFFICES ASSUME DInv, DInv', Underway, [Next]_vars PROVE Underway'
    OBVIOUS
  <2>1. CASE Engine \/ World
    BY <2>1, FuturesGoOn, BatchGoesOn DEF Engine, World
  <2>2. CASE Host \/ Clock \/ UNCHANGED vars
    BY <2>2, BatchGoesOn DEF Host
  <2>3. QED
    BY <2>1, <2>2 DEF Next
<1>3. Underway => FirstErrorEndsBatch
  BY DEF Underway
<1>4. QED
  BY <1>1, <1>2, <1>3, DispatchInvariant, PTL DEF Spec
=============================================================================
