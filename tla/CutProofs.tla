------------------------------ MODULE CutProofs ------------------------------
(***************************************************************************)
(* Where the cuts of Cuts lie, and that no exchange is torn by them, for   *)
(* every conversation.                                                     *)
(***************************************************************************)
EXTENDS Cuts, SequenceTheorems, FiniteSetTheorems, WellFoundedInduction, TLAPS

\* A set of numbers has a least one.
LEMMA LeastNumber ==
  ASSUME NEW S \in SUBSET Nat, S # {}
  PROVE  \E m \in S : \A k \in S : m <= k
<1>1. S \subseteq Nat
  OBVIOUS
<1>2. PICK m \in S : \A k \in S : ~(<<k, m>> \in OpToRel(<, Nat))
  BY <1>1, NatLessThanWellFounded, WFMin, Zenon
<1>3. \A k \in S : k \in Nat /\ m \in Nat /\ ~(k < m)
  BY <1>2 DEF OpToRel
<1>4. QED
  BY <1>3

LEMMA LeastProperties ==
  ASSUME NEW S \in SUBSET Nat
  PROVE  /\ S # {} => LeastOf(S) \in S /\ \A k \in S : LeastOf(S) <= k
         /\ S = {} => LeastOf(S) = 0
<1>1. CASE S # {}
  <2>1. PICK m \in S : \A k \in S : m <= k
    BY <1>1, LeastNumber
  <2>2. Min(S) \in S /\ \A k \in S : Min(S) <= k
    BY <2>1 DEF Min
  <2>3. QED
    BY <1>1, <2>2 DEF LeastOf
<1>2. CASE S = {}
  BY <1>2 DEF LeastOf
<1>3. QED
  BY <1>1, <1>2

\* A set of numbers that are not above n has a largest one.
LEMMA LargestProperties ==
  ASSUME NEW n \in Nat, NEW S \in SUBSET (0..n)
  PROVE  /\ S # {} => LargestOf(S) \in S /\ \A k \in S : k <= LargestOf(S)
         /\ S = {} => LargestOf(S) = 0
<1>1. CASE S # {}
  <2> DEFINE T == {k \in 0..n : n - k \in S}
  <2>1. T \in SUBSET Nat /\ T # {}
    <3>1. PICK x \in S : TRUE
      BY <1>1
    <3>2. n - x \in 0..n /\ n - (n - x) = x
      OBVIOUS
    <3>3. n - x \in T
      BY <3>2
    <3>4. \A k \in T : k \in Nat
      OBVIOUS
    <3> HIDE DEF T
    <3>5. QED
      BY <3>3, <3>4
  <2>2. PICK m \in T : \A k \in T : m <= k
    BY <2>1, LeastNumber
  <2>3. n - m \in S
    OBVIOUS
  <2>4. ASSUME NEW k \in S PROVE n - m >= k
    <3>1. k \in 0..n /\ n - k \in 0..n /\ n - (n - k) = k
      OBVIOUS
    <3>2. m <= n - k
      BY <2>2, <3>1
    <3>3. m \in 0..n
      OBVIOUS
    <3>4. QED
      BY <3>1, <3>2, <3>3
  <2>5. Max(S) \in S /\ \A k \in S : Max(S) >= k
    BY <2>3, <2>4 DEF Max
  <2>6. QED
    <3>1. S \subseteq 0..n
      OBVIOUS
    <3>2. QED
      BY <1>1, <2>5, <3>1 DEF LargestOf
<1>2. CASE S = {}
  BY <1>2 DEF LargestOf
<1>3. QED
  BY <1>1, <1>2

\* A function that is defined step by step exists, and its values have the type
\* that each step keeps.
StepByStep(g, n, start, F) ==
  g = [i \in 0..n |-> IF i = 0 THEN start ELSE F[i][g[i-1]]]

LEMMA StepsExist ==
  ASSUME NEW V, NEW start \in V, NEW n \in Nat, NEW F \in [1..n -> [V -> V]]
  PROVE  \E g \in [0..n -> V] : StepByStep(g, n, start, F)
<1> DEFINE Good(m) == \E g \in [0..m -> V] :
                        g[0] = start /\ \A i \in 1..m : g[i] = F[i][g[i-1]]
           Bad == {m \in 0..n : ~Good(m)}
<1>1. Bad = {}
  <2>1. SUFFICES ASSUME Bad # {} PROVE FALSE
    OBVIOUS
  <2>2. PICK m \in Bad : \A k \in Bad : m <= k
    <3>1. Bad \in SUBSET Nat
      OBVIOUS
    <3> HIDE DEF Bad
    <3>2. QED
      BY <2>1, <3>1, LeastNumber
  <2>3. m \in 0..n /\ ~Good(m)
    OBVIOUS
  <2>4. CASE m = 0
    <3> DEFINE h == [i \in 0..0 |-> start]
    <3>1. h \in [0..0 -> V] /\ h[0] = start /\ 1..0 = {}
      OBVIOUS
    <3> HIDE DEF h
    <3>2. Good(0)
      BY <3>1
    <3>3. QED
      BY <2>3, <2>4, <3>2
  <2>5. CASE m # 0
    <3>1. m - 1 \in 0..n /\ ~(m <= m - 1) /\ m \in 1..n
      BY <2>3, <2>5
    <3>2. Good(m-1)
      BY <2>2, <3>1
    <3>3. PICK g \in [0..(m-1) -> V] : g[0] = start /\ \A i \in 1..(m-1) : g[i] = F[i][g[i-1]]
      BY <3>2
    <3> DEFINE h == [i \in 0..m |-> IF i = m THEN F[m][g[m-1]] ELSE g[i]]
    <3>4. h \in [0..m -> V]
      <4>1. g[m-1] \in V /\ F[m] \in [V -> V]
        BY <3>1
      <4>2. \A i \in 0..m : i # m => i \in 0..(m-1)
        BY <3>1
      <4>3. QED
        BY <4>1, <4>2
    <3>5. h[0] = start
      BY <3>1, <3>3
    <3>6. ASSUME NEW i \in 1..m PROVE h[i] = F[i][h[i-1]]
      <4>1. i - 1 \in 0..m /\ i \in 0..m /\ i - 1 # m
        BY <3>1
      <4>2. h[i-1] = g[i-1]
        BY <4>1
      <4>3. CASE i = m
        BY <4>1, <4>2, <4>3
      <4>4. CASE i # m
        <5>1. i \in 1..(m-1)
          BY <3>1, <4>4
        <5>2. QED
          BY <3>3, <4>1, <4>2, <4>4, <5>1
      <4>5. QED
        BY <4>3, <4>4
    <3>7. Good(m)
      <4> HIDE DEF h
      <4>1. QED
        BY <3>4, <3>5, <3>6
    <3>8. QED
      BY <2>3, <3>7
  <2>6. QED
    BY <2>4, <2>5
<1>2. Good(n)
  <2>1. n \in 0..n
    OBVIOUS
  <2> HIDE DEF Good
  <2>2. QED
    BY <1>1, <2>1
<1>3. PICK g \in [0..n -> V] : g[0] = start /\ \A i \in 1..n : g[i] = F[i][g[i-1]]
  BY <1>2
<1>4. StepByStep(g, n, start, F)
  <2>1. ASSUME NEW i \in 0..n PROVE g[i] = IF i = 0 THEN start ELSE F[i][g[i-1]]
    BY <1>3
  <2>2. QED
    BY <2>1 DEF StepByStep
<1>5. QED
  BY <1>4

-----------------------------------------------------------------------------
(* ToolPairing. *)

\* A message does not call and answer at once: calls are the model's, results the
\* host's.
OneWay(f) == \A i \in 1..Len(f) : f[i].calls = {} \/ f[i].results = {}

\* What waits behind a message is what waited behind the one before it, and its
\* own call, or less the call that it answers.
Passed(f, c, i, w) == IF c \in f[i].calls THEN w \cup {i}
                      ELSE IF c \in f[i].results THEN w \ {LargestOf(w)} ELSE w

LEMMA WaitingSteps ==
  ASSUME NEW f, Len(f) \in Nat, NEW c
  PROVE  /\ Waiting(f, c)[0] = {}
         /\ \A i \in 1..Len(f) : Waiting(f, c)[i] = Passed(f, c, i, Waiting(f, c)[i-1])
         /\ \A i \in 0..Len(f) : Waiting(f, c)[i] \subseteq {h \in 1..i : c \in f[h].calls}
<1> DEFINE L == Len(f)
           Body(g) == [i \in 0..L |->
                         IF i = 0 THEN {}
                         ELSE LET w == g[i-1] IN
                              IF c \in f[i].calls THEN w \cup {i}
                              ELSE IF c \in f[i].results THEN w \ {LargestOf(w)} ELSE w]
           F == [i \in 1..L |-> [w \in SUBSET (1..L) |-> Passed(f, c, i, w)]]
           W == Waiting(f, c)
<1>1. F \in [1..L -> [SUBSET (1..L) -> SUBSET (1..L)]]
  <2>1. ASSUME NEW i \in 1..L, NEW w \in SUBSET (1..L) PROVE Passed(f, c, i, w) \in SUBSET (1..L)
    BY DEF Passed
  <2>2. QED
    BY <2>1
<1>2. PICK g \in [0..L -> SUBSET (1..L)] : StepByStep(g, L, {}, F)
  <2> HIDE DEF F
  <2>1. QED
    BY <1>1, StepsExist
<1>3. g = Body(g)
  <2>1. ASSUME NEW i \in 0..L
        PROVE  (IF i = 0 THEN {} ELSE F[i][g[i-1]]) =
               (IF i = 0 THEN {}
                ELSE LET w == g[i-1] IN
                     IF c \in f[i].calls THEN w \cup {i}
                     ELSE IF c \in f[i].results THEN w \ {LargestOf(w)} ELSE w)
    <3>1. CASE i = 0
      BY <3>1
    <3>2. CASE i # 0
      <4>1. i \in 1..L /\ i - 1 \in 0..L
        BY <3>2
      <4>2. F[i][g[i-1]] = Passed(f, c, i, g[i-1])
        BY <4>1
      <4>3. QED
        BY <3>2, <4>2 DEF Passed
    <3>3. QED
      BY <3>1, <3>2
  <2>2. QED
    BY <1>2, <2>1 DEF StepByStep
<1>4. W = Body(W)
  <2>1. W = CHOOSE h : h = Body(h)
    BY DEF Waiting
  <2>2. QED
    BY <1>3, <2>1
<1>5. W[0] = {}
  BY <1>4
<1>6. ASSUME NEW i \in 1..L PROVE W[i] = Passed(f, c, i, W[i-1])
  <2>1. i \in 0..L /\ i # 0
    OBVIOUS
  <2> HIDE DEF W
  <2>2. W[i] = Body(W)[i]
    BY <1>4
  <2>3. QED
    BY <2>1, <2>2 DEF Passed
<1> HIDE DEF W, Body, F
<1>7. ASSUME NEW i \in 0..L PROVE W[i] \subseteq {h \in 1..i : c \in f[h].calls}
  <2> DEFINE Bad == {k \in 0..L : ~(W[k] \subseteq {h \in 1..k : c \in f[h].calls})}
  <2>1. SUFFICES ASSUME Bad # {} PROVE FALSE
    OBVIOUS
  <2>2. Bad \in SUBSET Nat
    OBVIOUS
  <2>3. PICK m \in Bad : \A k \in Bad : m <= k
    <3> HIDE DEF Bad
    <3>1. QED
      BY <2>1, <2>2, LeastNumber
  <2>4. m \in 0..L /\ ~(W[m] \subseteq {h \in 1..m : c \in f[h].calls})
    OBVIOUS
  <2>5. m # 0
    BY <1>5, <2>4
  <2>6. m \in 1..L /\ m - 1 \in 0..L /\ ~(m <= m - 1) /\ 1..(m-1) \subseteq 1..m
    BY <2>4, <2>5
  <2>7. W[m-1] \subseteq {h \in 1..(m-1) : c \in f[h].calls}
    BY <2>3, <2>6
  <2>8. PICK h \in W[m] : h \notin {k \in 1..m : c \in f[k].calls}
    BY <2>4
  <2>9. h \in Passed(f, c, m, W[m-1])
    BY <1>6, <2>6, <2>8
  <2>10. h \in W[m-1] \/ (h = m /\ c \in f[m].calls)
    BY <2>9 DEF Passed
  <2>11. (h \in 1..(m-1) /\ c \in f[h].calls) \/ (h = m /\ c \in f[m].calls)
    BY <2>7, <2>10
  <2>12. h \in 1..m /\ c \in f[h].calls
    BY <2>6, <2>11
  <2>13. QED
    BY <2>8, <2>12
<1>8. QED
  BY <1>5, <1>6, <1>7 DEF W

\* The call of a result is before it and has its id.
LEMMA CallIsBefore ==
  ASSUME NEW f, Len(f) \in Nat, NEW j \in 1..Len(f), NEW c
  PROVE  /\ CallOf(f, j, c) \in 0..(j-1)
         /\ CallOf(f, j, c) # 0 => /\ c \in f[CallOf(f, j, c)].calls
                                   /\ CallOf(f, j, c) \in Waiting(f, c)[j-1]
<1> DEFINE w == Waiting(f, c)[j-1]
<1>1. j - 1 \in Nat /\ j - 1 \in 0..Len(f)
  OBVIOUS
<1>2. w \subseteq {h \in 1..(j-1) : c \in f[h].calls}
  BY <1>1, WaitingSteps
<1>3. CallOf(f, j, c) = LargestOf(w)
  BY DEF CallOf
<1> HIDE DEF w
<1>4. w \in SUBSET (0..(j-1))
  BY <1>2
<1>5. (w # {} => LargestOf(w) \in w) /\ (w = {} => LargestOf(w) = 0)
  BY <1>1, <1>4, LargestProperties
<1>6. QED
  BY <1>1, <1>2, <1>3, <1>5 DEF w

\* A call that has its result waits no more.
LEMMA AnsweredWaitsNoMore ==
  ASSUME NEW f, Len(f) \in Nat, OneWay(f), NEW c,
         NEW j \in 1..Len(f), c \in f[j].results, CallOf(f, j, c) # 0,
         NEW i \in j..Len(f)
  PROVE  CallOf(f, j, c) \notin Waiting(f, c)[i]
<1> DEFINE W == Waiting(f, c)
           h == CallOf(f, j, c)
           Bad == {k \in j..Len(f) : h \in W[k]}
<1>1. h = LargestOf(W[j-1]) /\ h \in Nat /\ h < j
  BY CallIsBefore DEF CallOf
<1>2. \A k \in 1..Len(f) : W[k] = Passed(f, c, k, W[k-1])
  BY WaitingSteps
<1> HIDE DEF W, h
<1>3. Bad = {}
  <2>1. SUFFICES ASSUME Bad # {} PROVE FALSE
    OBVIOUS
  <2>2. Bad \in SUBSET Nat
    OBVIOUS
  <2>3. PICK m \in Bad : \A k \in Bad : m <= k
    <3> HIDE DEF Bad
    <3>1. QED
      BY <2>1, <2>2, LeastNumber
  <2>4. m \in j..Len(f) /\ h \in W[m] /\ m \in 1..Len(f)
    OBVIOUS
  <2>5. W[m] = Passed(f, c, m, W[m-1])
    BY <1>2, <2>4
  <2>6. CASE m = j
    <3>1. c \notin f[j].calls
      BY DEF OneWay
    <3>2. QED
      BY <1>1, <2>4, <2>5, <2>6, <3>1 DEF Passed
  <2>7. CASE m # j
    <3>1. m - 1 \in j..Len(f) /\ ~(m <= m - 1) /\ h # m
      BY <1>1, <2>4, <2>7
    <3>2. h \notin W[m-1]
      BY <2>3, <3>1
    <3>3. QED
      BY <2>4, <2>5, <3>1, <3>2 DEF Passed
  <2>8. QED
    BY <2>6, <2>7
<1>4. QED
  BY <1>3 DEF W, h

\* A result answers one call, and no two results the same one: the result of the
\* call of a result is that result, however often its id was used.
THEOREM PairingMatches ==
  ASSUME NEW f, Len(f) \in Nat, OneWay(f), NEW c,
         NEW j \in 1..Len(f), c \in f[j].results, CallOf(f, j, c) # 0
  PROVE  /\ CallOf(f, j, c) \in 1..(j-1)
         /\ c \in f[CallOf(f, j, c)].calls
         /\ ResultOf(f, CallOf(f, j, c), c) = j
<1> DEFINE h == CallOf(f, j, c)
           S == {k \in h+1..Len(f) : c \in f[k].results /\ CallOf(f, k, c) = h}
<1>1. h \in 1..(j-1) /\ c \in f[h].calls
  BY CallIsBefore
<1>2. j \in S
  BY <1>1
<1>3. ASSUME NEW k \in S PROVE k = j
  <2>1. k \in 1..Len(f) /\ c \in f[k].results /\ CallOf(f, k, c) = h /\ h # 0
    BY <1>1
  <2>2. ~(j < k)
    <3>1. SUFFICES ASSUME j < k PROVE FALSE
      OBVIOUS
    <3>2. k - 1 \in j..Len(f)
      BY <2>1, <3>1
    <3>3. h \notin Waiting(f, c)[k-1]
      BY <3>2, AnsweredWaitsNoMore
    <3>4. QED
      BY <2>1, <3>3, CallIsBefore
  <2>3. ~(k < j)
    <3>1. SUFFICES ASSUME k < j PROVE FALSE
      OBVIOUS
    <3>2. j - 1 \in k..Len(f)
      BY <2>1, <3>1
    <3>3. h \notin Waiting(f, c)[j-1]
      <4> HIDE DEF h
      <4>1. CallOf(f, k, c) \notin Waiting(f, c)[j-1]
        BY <2>1, <3>2, AnsweredWaitsNoMore
      <4>2. QED
        BY <2>1, <4>1
    <3>4. QED
      BY <2>1, <3>3, CallIsBefore
  <2>4. QED
    BY <2>1, <2>2, <2>3
<1>4. S = {j} /\ S \in SUBSET Nat
  BY <1>1, <1>2, <1>3
<1>5. ResultOf(f, h, c) = LeastOf(S)
  BY DEF ResultOf
<1> HIDE DEF S
<1>6. LeastOf(S) \in S
  BY <1>4, LeastProperties
<1>7. QED
  BY <1>1, <1>4, <1>5, <1>6

\* And the call of the result of a call is that call.
LEMMA ResultIsBehind ==
  ASSUME NEW f, Len(f) \in Nat, NEW i \in 1..Len(f), NEW c, ResultOf(f, i, c) # 0
  PROVE  /\ ResultOf(f, i, c) \in i+1..Len(f)
         /\ c \in f[ResultOf(f, i, c)].results
         /\ CallOf(f, ResultOf(f, i, c), c) = i
<1> DEFINE S == {j \in i+1..Len(f) : c \in f[j].results /\ CallOf(f, j, c) = i}
<1>1. S \in SUBSET Nat /\ ResultOf(f, i, c) = LeastOf(S)
  BY DEF ResultOf
<1>2. LeastOf(S) \in S
  <2> HIDE DEF S
  <2>1. QED
    BY <1>1, LeastProperties
<1>3. QED
  BY <1>1, <1>2

-----------------------------------------------------------------------------
(* Where a cut may lie. *)

\* No result is kept whose call is dropped.
CleanSplit(f, s) == \A j \in Kept(f, s) : CallsFor(f, j) \cap Dropped(s) = {}

\* adjusted_split stays where no call is left before its result, and no clean cut
\* lies between a split and where it moves to.
LEMMA AdjustedProperties ==
  ASSUME NEW f, Len(f) \in Nat, NEW s \in Nat
  PROVE  /\ Adjusted(f, s) \in 0..s
         /\ Adjusted(f, s) = s <=> CleanSplit(f, s)
         /\ \A k \in 0..s : CleanSplit(f, k) => k <= Adjusted(f, s)
<1> DEFINE A == UNION {CallsFor(f, j) : j \in s+1..Len(f)}
           S == {s} \cup {i - 1 : i \in 1..s \cap A}
           a == Adjusted(f, s)
<1>1. a = Min(S)
  BY DEF Adjusted
<1>2. \A x \in S : x \in 0..s
  OBVIOUS
<1>3. a \in S /\ \A k \in S : a <= k
  <2> HIDE DEF S, a
  <2>1. S \in SUBSET Nat /\ s \in S
    BY <1>2 DEF S
  <2>2. \E m \in S : \A k \in S : m <= k
    BY <2>1, LeastNumber
  <2>3. QED
    BY <1>1, <2>2 DEF Min
<1> HIDE DEF a
<1>4. 1..s \cap A = {} <=> CleanSplit(f, s)
  BY DEF CleanSplit, Kept, Dropped
<1> HIDE DEF A
<1>5. CASE 1..s \cap A = {}
  <2>1. a = s
    BY <1>3, <1>5
  <2>2. QED
    BY <1>4, <1>5, <2>1 DEF a
<1>6. CASE 1..s \cap A # {}
  <2>1. PICK i \in 1..s \cap A : TRUE
    BY <1>6
  <2>2. i \in 1..s /\ i - 1 \in S /\ i - 1 < s
    BY <2>1
  <2>3. a < s /\ a \in 0..s
    BY <1>2, <1>3, <2>2
  <2>4. PICK h \in 1..s \cap A : a = h - 1
    BY <1>3, <2>3
  <2>5. PICK j \in s+1..Len(f) : h \in CallsFor(f, j)
    BY <2>4 DEF A
  <2>6. ASSUME NEW k \in 0..s, CleanSplit(f, k) PROVE k <= a
    <3>1. SUFFICES ASSUME a < k PROVE FALSE
      BY <2>3
    <3>2. h \in Dropped(k) /\ j \in Kept(f, k)
      BY <2>3, <2>4, <2>5, <3>1 DEF Dropped, Kept
    <3>3. QED
      BY <2>5, <2>6, <3>2 DEF CleanSplit
  <2>7. QED
    BY <1>4, <1>6, <2>3, <2>6 DEF a
<1>7. QED
  BY <1>5, <1>6

\* Sliding a split ends at the last clean cut that is not behind it.
THEOREM SlidesToTheLastCleanCut ==
  ASSUME NEW f, Len(f) \in Nat, NEW s \in Nat
  PROVE  /\ Slide(f, s) \in 0..s
         /\ CleanSplit(f, Slide(f, s))
         /\ \A k \in 0..s : CleanSplit(f, k) => k <= Slide(f, s)
<1> DEFINE C(k) == {m \in 0..k : CleanSplit(f, m)}
           Body(g) == [k \in 0..s |-> IF Adjusted(f, k) = k THEN k ELSE g[Adjusted(f, k)]]
           last == [k \in 0..s |-> LargestOf(C(k))]
           slide == CHOOSE g : g = Body(g)
<1>1. Slide(f, s) = slide[s]
  BY DEF Slide
<1>2. \A k \in 0..s : k \in Nat /\ Adjusted(f, k) \in 0..k /\ Adjusted(f, k) \in 0..s
  BY AdjustedProperties
<1>3. CleanSplit(f, 0)
  BY DEF CleanSplit, Dropped
<1>4. ASSUME NEW k \in 0..s
      PROVE  LargestOf(C(k)) \in C(k) /\ \A m \in C(k) : m <= LargestOf(C(k))
  <2>1. k \in Nat /\ C(k) \in SUBSET (0..k) /\ 0 \in C(k)
    BY <1>3
  <2> HIDE DEF C
  <2>2. QED
    BY <2>1, LargestProperties
<1>5. ASSUME NEW k \in 0..s, Adjusted(f, k) = k PROVE LargestOf(C(k)) = k
  <2>1. k \in C(k)
    BY <1>5, AdjustedProperties
  <2>2. LargestOf(C(k)) \in 0..k /\ k <= LargestOf(C(k))
    BY <1>4, <2>1
  <2>3. QED
    BY <2>2
<1>6. ASSUME NEW k \in 0..s PROVE C(k) = C(Adjusted(f, k))
  <2>1. k \in Nat /\ Adjusted(f, k) \in 0..k
    BY <1>2
  <2>2. \A m \in 0..k : CleanSplit(f, m) => m <= Adjusted(f, k)
    BY <2>1, AdjustedProperties
  <2>3. QED
    BY <2>1, <2>2
<1> HIDE DEF C
<1>7. last = Body(last)
  <2>1. ASSUME NEW k \in 0..s
        PROVE  LargestOf(C(k)) = IF Adjusted(f, k) = k THEN k ELSE last[Adjusted(f, k)]
    BY <1>2, <1>5, <1>6
  <2>2. QED
    BY <2>1
<1>8. slide = Body(slide)
  <2> HIDE DEF last, Body
  <2>1. QED
    BY <1>7
<1>5a. \A k \in 0..s : slide[k] = IF Adjusted(f, k) = k THEN k ELSE slide[Adjusted(f, k)]
  <2> HIDE DEF slide
  <2>1. QED
    BY <1>8
<1> HIDE DEF slide
<1>10. \A k \in 0..s : slide[k] = LargestOf(C(k))
  <2> DEFINE Bad == {k \in 0..s : slide[k] # LargestOf(C(k))}
  <2>1. SUFFICES ASSUME Bad # {} PROVE FALSE
    OBVIOUS
  <2>2. Bad \in SUBSET Nat
    OBVIOUS
  <2>3. PICK m \in Bad : \A k \in Bad : m <= k
    <3> HIDE DEF Bad
    <3>1. QED
      BY <2>1, <2>2, LeastNumber
  <2>4. m \in 0..s /\ slide[m] # LargestOf(C(m))
    OBVIOUS
  <2>5. Adjusted(f, m) # m
    BY <1>5, <1>5a, <2>4
  <2>6. Adjusted(f, m) \in 0..s /\ ~(m <= Adjusted(f, m))
    BY <1>2, <2>4, <2>5
  <2>7. slide[Adjusted(f, m)] = LargestOf(C(Adjusted(f, m)))
    BY <2>3, <2>6
  <2>8. QED
    BY <1>6, <1>5a, <2>4, <2>5, <2>7
<1>11. s \in 0..s
  OBVIOUS
<1>12. Slide(f, s) \in C(s) /\ \A m \in C(s) : m <= Slide(f, s)
  BY <1>1, <1>4, <1>10, <1>11
<1>13. QED
  BY <1>12 DEF C

-----------------------------------------------------------------------------
(* What crosses a cut. *)

\* What the terminal puts together: the opening message, what is pulled, and the
\* kept side, each with whether it was pulled.
Live(f, s, pulls)  == {1} \cup pulls \cup Kept(f, s)
Slots(f, s, pulls) == {<<1, FALSE>>} \cup {<<i, TRUE>> : i \in pulls}
                      \cup {<<i, FALSE>> : i \in Kept(f, s)}
Shown(f, s, pulls, slot) == Sanitized(f, slot[1], Live(f, s, pulls), slot[2])

LEMMA ShownParts ==
  ASSUME NEW f \in Seq(Message), NEW s, NEW pulls, NEW i \in 1..Len(f), NEW isPulled \in BOOLEAN
  PROVE  LET m == Shown(f, s, pulls, <<i, isPulled>>) IN
         /\ \A c : c \in m.calls <=>
              c \in f[i].calls /\ (isPulled => ResultOf(f, i, c) \in Live(f, s, pulls))
         /\ \A c : c \in m.results <=>
              /\ c \in f[i].results /\ CallOf(f, i, c) # 0
              /\ isPulled => CallOf(f, i, c) \in Live(f, s, pulls)
<1>1. f[i] \in Message
  OBVIOUS
<1> DEFINE live == Live(f, s, pulls)
           cs == {c \in f[i].calls : isPulled => ResultOf(f, i, c) \in live}
           rs == {c \in f[i].results : /\ CallOf(f, i, c) # 0
                                       /\ isPulled => CallOf(f, i, c) \in live}
<1>2. Shown(f, s, pulls, <<i, isPulled>>) = [f[i] EXCEPT !.calls = cs, !.results = rs]
  BY DEF Shown, Sanitized
<1>3. /\ [f[i] EXCEPT !.calls = cs, !.results = rs].calls = cs
      /\ [f[i] EXCEPT !.calls = cs, !.results = rs].results = rs
  <2> HIDE DEF cs, rs
  <2>1. QED
    BY <1>1 DEF Message
<1>4. QED
  BY <1>2, <1>3

\* A cut at a clean split tears no exchange, whatever else is pulled across it, as
\* long as the results of the opening message are: each result that is shown has
\* its call shown, each call that is shown and was answered has its result, and
\* what was not pulled keeps its calls, those that wait among them.
THEOREM ExchangesCrossWhole ==
  ASSUME NEW f \in Seq(Message), OneWay(f), NEW s \in 1..Len(f), CleanSplit(f, s),
         NEW pulls \in SUBSET Dropped(s), FirstMates(f, s) \subseteq pulls,
         NEW slot \in Slots(f, s, pulls), NEW c
  PROVE  /\ c \in Shown(f, s, pulls, slot).results =>
              \E other \in Slots(f, s, pulls) :
                /\ other[1] = CallOf(f, slot[1], c)
                /\ c \in Shown(f, s, pulls, other).calls
         /\ c \in Shown(f, s, pulls, slot).calls /\ ResultOf(f, slot[1], c) # 0 =>
              \E other \in Slots(f, s, pulls) :
                /\ other[1] = ResultOf(f, slot[1], c)
                /\ c \in Shown(f, s, pulls, other).results
         /\ ~slot[2] /\ c \in f[slot[1]].calls => c \in Shown(f, s, pulls, slot).calls
<1> DEFINE live == Live(f, s, pulls)
           slots == Slots(f, s, pulls)
           m(sl) == Shown(f, s, pulls, sl)
<1>1. Len(f) \in Nat /\ s \in Nat /\ pulls \subseteq 1..s
  BY DEF Dropped
<1>2. PICK i \in 1..Len(f), isPulled \in BOOLEAN :
        /\ slot = <<i, isPulled>> /\ slot[1] = i /\ slot[2] = isPulled
        /\ isPulled => i \in pulls
        /\ ~isPulled => i = 1 \/ i \in Kept(f, s)
  <2>1. \A k \in pulls \cup Kept(f, s) \cup {1} : k \in 1..Len(f)
    BY <1>1 DEF Kept
  <2>2. CASE slot = <<1, FALSE>>
    BY <2>1, <2>2
  <2>3. ASSUME NEW k \in pulls, slot = <<k, TRUE>>
        PROVE  slot[1] = k /\ slot[2] = TRUE /\ k \in 1..Len(f)
    BY <2>1, <2>3
  <2>4. ASSUME NEW k \in Kept(f, s), slot = <<k, FALSE>>
        PROVE  slot[1] = k /\ slot[2] = FALSE /\ k \in 1..Len(f)
    BY <2>1, <2>4
  <2>5. \/ slot = <<1, FALSE>>
        \/ \E k \in pulls : slot = <<k, TRUE>>
        \/ \E k \in Kept(f, s) : slot = <<k, FALSE>>
    BY DEF Slots
  <2>6. QED
    BY <2>2, <2>3, <2>4, <2>5
<1>3. ASSUME NEW k \in 1..Len(f)
      PROVE  /\ k \in live => k \in pulls \/ k = 1 \/ k \in Kept(f, s)
             /\ k \in pulls => <<k, TRUE>> \in slots
             /\ k = 1 \/ k \in Kept(f, s) => <<k, FALSE>> \in slots
             /\ k \in pulls \/ k = 1 \/ k \in Kept(f, s) => k \in live
  BY DEF Live, Slots
<1> HIDE DEF live, slots
<1>4. ASSUME NEW k \in 1..Len(f), NEW b \in BOOLEAN
      PROVE  /\ c \in m(<<k, b>>).calls <=>
                  c \in f[k].calls /\ (b => ResultOf(f, k, c) \in live)
             /\ c \in m(<<k, b>>).results <=>
                  /\ c \in f[k].results /\ CallOf(f, k, c) # 0
                  /\ b => CallOf(f, k, c) \in live
  BY ShownParts DEF live
<1> HIDE DEF m
<1>5. i \in live
  BY <1>2, <1>3
<1>6. ASSUME c \in m(slot).results
      PROVE  \E other \in slots : other[1] = CallOf(f, i, c) /\ c \in m(other).calls
  <2> DEFINE h == CallOf(f, i, c)
  <2>1. c \in f[i].results /\ h # 0 /\ (isPulled => h \in live)
    BY <1>2, <1>4, <1>6
  <2>2. h \in 1..(i-1) /\ c \in f[h].calls /\ ResultOf(f, h, c) = i
    BY <1>1, <2>1, PairingMatches
  <2> HIDE DEF h
  <2>3. h \in 1..Len(f)
    BY <1>2, <2>2
  <2>4. h \in live /\ (~isPulled => h \in Kept(f, s))
    <3>1. CASE isPulled
      BY <2>1, <3>1
    <3>2. CASE ~isPulled
      <4>1. i \in Kept(f, s)
        BY <1>2, <2>2, <3>2
      <4>2. h \in CallsFor(f, i)
        BY <2>1 DEF CallsFor, h
      <4>3. h \notin Dropped(s)
        BY <4>1, <4>2 DEF CleanSplit
      <4>4. h \in Kept(f, s)
        BY <1>1, <2>3, <4>3 DEF Dropped, Kept
      <4>5. QED
        BY <1>3, <2>3, <4>4
    <3>3. QED
      BY <3>1, <3>2
  <2>5. CASE h \in pulls
    <3>1. <<h, TRUE>> \in slots /\ c \in m(<<h, TRUE>>).calls
      BY <1>3, <1>4, <1>5, <2>2, <2>3, <2>5
    <3>2. QED
      BY <3>1 DEF h
  <2>6. CASE h = 1 \/ h \in Kept(f, s)
    <3>1. <<h, FALSE>> \in slots /\ c \in m(<<h, FALSE>>).calls
      BY <1>3, <1>4, <2>2, <2>3, <2>6
    <3>2. QED
      BY <3>1 DEF h
  <2>7. QED
    BY <1>3, <2>3, <2>4, <2>5, <2>6
<1>7. ASSUME c \in m(slot).calls, ResultOf(f, i, c) # 0
      PROVE  \E other \in slots : other[1] = ResultOf(f, i, c) /\ c \in m(other).results
  <2> DEFINE j == ResultOf(f, i, c)
  <2>1. c \in f[i].calls /\ (isPulled => j \in live)
    BY <1>2, <1>4, <1>7
  <2>2. j \in i+1..Len(f) /\ c \in f[j].results /\ CallOf(f, j, c) = i
    BY <1>1, <1>7, ResultIsBehind
  <2>3. i = 1 => j \in AnswersTo(f, 1)
    BY <1>7, <2>1 DEF AnswersTo
  <2> HIDE DEF j
  <2>4. j \in 1..Len(f) /\ j # 1 /\ i # 0
    BY <1>2, <2>2
  <2>5. j \in pulls \/ j \in Kept(f, s)
    <3>1. CASE isPulled
      BY <1>3, <2>1, <2>4, <3>1
    <3>2. CASE i \in Kept(f, s)
      BY <1>1, <2>2, <3>2 DEF Kept
    <3>3. CASE i = 1
      <4>1. j \in Dropped(s) => j \in pulls
        BY <2>3, <3>3 DEF FirstMates
      <4>2. QED
        BY <1>1, <2>4, <4>1 DEF Dropped, Kept
    <3>4. QED
      BY <1>2, <3>1, <3>2, <3>3
  <2>6. CASE j \in pulls
    <3>1. <<j, TRUE>> \in slots /\ c \in m(<<j, TRUE>>).results
      BY <1>3, <1>4, <1>5, <2>2, <2>4, <2>6
    <3>2. QED
      BY <3>1 DEF j
  <2>7. CASE j \in Kept(f, s)
    <3>1. <<j, FALSE>> \in slots /\ c \in m(<<j, FALSE>>).results
      BY <1>3, <1>4, <2>2, <2>4, <2>7
    <3>2. QED
      BY <3>1 DEF j
  <2>8. QED
    BY <2>5, <2>6, <2>7
<1>8. ~isPulled /\ c \in f[i].calls => c \in m(slot).calls
  BY <1>2, <1>4
<1>9. QED
  BY <1>2, <1>6, <1>7, <1>8 DEF m, slots

-----------------------------------------------------------------------------
(* Sizes. *)

\* Adding up natural numbers over a finite set: the sum is made by taking one
\* element after another.
Adds(it, S, h) ==
  it = [t \in SUBSET S |-> IF t = {} THEN 0
                           ELSE LET x == CHOOSE x \in t : TRUE IN h[x] + it[t \ {x}]]

LEMMA SumExists ==
  ASSUME NEW S, IsFiniteSet(S), NEW h \in [S -> Nat]
  PROVE  \E it : Adds(it, S, h)
<1> DEFINE V == [SUBSET S -> Nat]
           One(x) == CHOOSE y \in x : TRUE
           Adding(v) == [t \in SUBSET S |-> IF t = {} THEN 0 ELSE h[One(t)] + v[t \ {One(t)}]]
           n == Cardinality(S)
           F == [i \in 1..n |-> [v \in V |-> Adding(v)]]
           zero == [t \in SUBSET S |-> 0]
<1>1. n \in Nat /\ \A t \in SUBSET S : IsFiniteSet(t) /\ Cardinality(t) \in 0..n
  <2>1. n \in Nat
    BY FS_CardinalityType
  <2>2. ASSUME NEW t \in SUBSET S PROVE IsFiniteSet(t) /\ Cardinality(t) \in 0..n
    <3>1. IsFiniteSet(t) /\ Cardinality(t) <= n
      BY FS_Subset
    <3>2. Cardinality(t) \in Nat
      BY <3>1, FS_CardinalityType
    <3>3. QED
      BY <2>1, <3>1, <3>2
  <2>3. QED
    BY <2>1, <2>2
<1>2. ASSUME NEW t \in SUBSET S, t # {}
      PROVE  One(t) \in t /\ t \ {One(t)} \in SUBSET S /\ h[One(t)] \in Nat
  BY <1>2
<1>3. zero \in V
  OBVIOUS
<1> HIDE DEF One
<1>4. ASSUME NEW v \in V PROVE Adding(v) \in V
  <2>1. ASSUME NEW t \in SUBSET S
        PROVE  (IF t = {} THEN 0 ELSE h[One(t)] + v[t \ {One(t)}]) \in Nat
    BY <1>2
  <2>2. QED
    BY <2>1
<1> HIDE DEF Adding
<1>5. F \in [1..n -> [V -> V]]
  BY <1>4
<1>6. PICK g \in [0..n -> V] : StepByStep(g, n, zero, F)
  <2> HIDE DEF F, V, n, zero
  <2>1. QED
    BY <1>1, <1>3, <1>5, StepsExist
<1>7. g[0] = zero /\ \A i \in 1..n : g[i] = Adding(g[i-1])
  <2>1. ASSUME NEW i \in 1..n PROVE g[i] = Adding(g[i-1])
    <3>1. i \in 0..n /\ i # 0 /\ i - 1 \in 0..n
      BY <1>1
    <3>2. g[i-1] \in V
      BY <3>1
    <3>3. g[i] = F[i][g[i-1]]
      BY <1>6, <3>1 DEF StepByStep
    <3> HIDE DEF V
    <3>4. QED
      BY <3>2, <3>3
  <2>2. g[0] = zero
    BY <1>1, <1>6 DEF StepByStep
  <2>3. QED
    BY <2>1, <2>2
<1> DEFINE it == [t \in SUBSET S |-> g[Cardinality(t)][t]]
<1>8. ASSUME NEW t \in SUBSET S
      PROVE  it[t] = IF t = {} THEN 0 ELSE h[One(t)] + it[t \ {One(t)}]
  <2>1. CASE t = {}
    BY <1>7, <2>1, FS_EmptySet
  <2>2. CASE t # {}
    <3> DEFINE x == One(t)
               r == t \ {x}
               k == Cardinality(t)
    <3>1. x \in t /\ r \in SUBSET S
      BY <1>2, <2>2
    <3>2. Cardinality(r) = k - 1
      BY <1>1, <3>1, FS_RemoveElement
    <3>3. k \in 1..n
      <4>1. k \in 0..n /\ Cardinality(r) \in 0..n
        BY <1>1, <3>1
      <4> HIDE DEF k, n
      <4>2. QED
        BY <1>1, <3>2, <4>1
    <3>4. g[k] = Adding(g[k-1])
      BY <1>7, <3>3
    <3>5. g[k][t] = h[x] + g[k-1][r]
      BY <2>2, <3>4 DEF Adding
    <3>6. it[r] = g[k-1][r]
      BY <3>1, <3>2
    <3>7. QED
      BY <2>2, <3>5, <3>6
  <2>3. QED
    BY <2>1, <2>2
<1>9. it = [t \in SUBSET S |-> IF t = {} THEN 0 ELSE h[One(t)] + it[t \ {One(t)}]]
  <2>1. it = [t \in SUBSET S |-> it[t]]
    OBVIOUS
  <2> HIDE DEF it
  <2>2. QED
    BY <1>8, <2>1
<1>10. QED
  BY <1>9 DEF Adds, One

LEMMA SumIsNatural ==
  ASSUME NEW S, IsFiniteSet(S), NEW h \in [S -> Nat], NEW it, Adds(it, S, h)
  PROVE  it[S] \in Nat
<1> DEFINE Bad == {k \in Nat : \E t \in SUBSET S : Cardinality(t) = k /\ it[t] \notin Nat}
<1>1. \A t \in SUBSET S : IsFiniteSet(t) /\ Cardinality(t) \in Nat
  BY FS_Subset, FS_CardinalityType
<1>2. Bad = {}
  <2>1. SUFFICES ASSUME Bad # {} PROVE FALSE
    OBVIOUS
  <2>2. PICK m \in Bad : \A k \in Bad : m <= k
    <3>1. Bad \in SUBSET Nat
      OBVIOUS
    <3> HIDE DEF Bad
    <3>2. QED
      BY <2>1, <3>1, LeastNumber
  <2>3. PICK t \in SUBSET S : Cardinality(t) = m /\ it[t] \notin Nat
    OBVIOUS
  <2> DEFINE x == CHOOSE x \in t : TRUE
             r == t \ {x}
  <2>4. it[t] = IF t = {} THEN 0 ELSE h[x] + it[r]
    BY DEF Adds
  <2>5. t # {}
    BY <2>3, <2>4
  <2>6. x \in t /\ r \in SUBSET S /\ h[x] \in Nat
    BY <2>5
  <2>7. Cardinality(r) = m - 1 /\ Cardinality(r) \in Nat
    BY <1>1, <2>3, <2>6, FS_RemoveElement
  <2>8. it[r] \in Nat
    <3>1. Cardinality(r) \notin Bad
      <4>1. m \in Nat /\ ~(m <= m - 1)
        OBVIOUS
      <4> HIDE DEF Bad, r
      <4>2. QED
        BY <2>2, <2>7, <4>1
    <3> HIDE DEF r
    <3>2. QED
      BY <2>6, <2>7, <3>1
  <2>9. QED
    BY <2>3, <2>4, <2>5, <2>6, <2>8
<1>3. QED
  BY <1>1, <1>2

\* Each message has finitely many parts.
Finite(f) == \A i \in 1..Len(f) : IsFiniteSet(f[i].calls) /\ IsFiniteSet(f[i].results)

\* The size of a conversation, and of some of its messages, is a natural number.
LEMMA CharsAreNatural ==
  ASSUME NEW f \in Seq(Message), Finite(f)
  PROVE  CharsIn(f) \in Nat
<1> DEFINE S == 1..Len(f)
           h == [i \in S |-> Chars(f[i])]
           Body(it) == [t \in SUBSET S |-> IF t = {} THEN 0
                           ELSE LET x == CHOOSE x \in t : TRUE IN Chars(f[x]) + it[t \ {x}]]
           it == CHOOSE it : it = Body(it)
<1>1. ASSUME NEW i \in S PROVE Chars(f[i]) \in Nat
  <2>1. f[i] \in Message
    OBVIOUS
  <2>2. f[i].text \in Nat /\ f[i].bulk \in Nat
    BY <2>1 DEF Message
  <2>3. Cardinality(f[i].calls) \in Nat /\ Cardinality(f[i].results) \in Nat
    BY FS_CardinalityType DEF Finite
  <2>4. f[i].bulk * Cardinality(f[i].results) \in Nat
    BY <2>2, <2>3
  <2>5. QED
    BY <2>2, <2>3, <2>4 DEF Chars
<1>2. IsFiniteSet(S) /\ h \in [S -> Nat]
  <2>1. IsFiniteSet(S)
    BY FS_Interval
  <2>2. QED
    BY <1>1, <2>1
<1>3. \A g : g = Body(g) <=> Adds(g, S, h)
  <2>1. ASSUME NEW t \in SUBSET S, t # {}
        PROVE  h[CHOOSE x \in t : TRUE] = Chars(f[CHOOSE x \in t : TRUE])
    BY <2>1
  <2> HIDE DEF h
  <2>2. ASSUME NEW g
        PROVE  Body(g) = [t \in SUBSET S |-> IF t = {} THEN 0
                  ELSE LET x == CHOOSE x \in t : TRUE IN h[x] + g[t \ {x}]]
    BY <2>1
  <2> HIDE DEF Body
  <2>3. QED
    BY <2>2 DEF Adds
<1>4. CharsIn(f) = it[S]
  <2>1. DOMAIN f = S
    OBVIOUS
  <2>2. CharsIn(f) = MapThenSumSet(LAMBDA i : Chars(f[i]), S)
    BY <2>1 DEF CharsIn
  <2>3. QED
    BY <2>2 DEF MapThenSumSet, MapThenFoldSet
<1>5. it = Body(it)
  <2> HIDE DEF Body, S, h
  <2>1. \E g : g = Body(g)
    BY <1>2, <1>3, SumExists
  <2>2. QED
    BY <2>1
<1>6. QED
  <2> HIDE DEF Body, S, h, it
  <2>1. QED
    BY <1>2, <1>3, <1>4, <1>5, SumIsNatural

LEMMA ApartIsNatural ==
  ASSUME NEW f \in Seq(Message), Finite(f), NEW P \in SUBSET (1..Len(f))
  PROVE  Apart(f, P) \in Nat
<1> DEFINE h == [i \in P |-> Count(<<f[i]>>)]
           Body(it) == [t \in SUBSET P |-> IF t = {} THEN 0
                           ELSE LET x == CHOOSE x \in t : TRUE IN Count(<<f[x]>>) + it[t \ {x}]]
           it == CHOOSE it : it = Body(it)
<1>1. ASSUME NEW i \in P PROVE Count(<<f[i]>>) \in Nat
  <2>1. f[i] \in Message /\ IsFiniteSet(f[i].calls) /\ IsFiniteSet(f[i].results)
    BY DEF Finite
  <2> DEFINE m == f[i]
  <2> HIDE DEF m
  <2>2. <<m>> \in Seq(Message) /\ Len(<<m>>) = 1 /\ <<m>>[1] = m
    BY <2>1 DEF m
  <2>3. Finite(<<m>>)
    BY <2>1, <2>2 DEF Finite, m
  <2>4. CharsIn(<<m>>) \in Nat
    BY <2>2, <2>3, CharsAreNatural
  <2>5. CharsIn(<<m>>) \div PerToken \in Nat
    BY <2>4, CutsAssumption
  <2>6. QED
    BY <2>5 DEF Count, m
<1>2. IsFiniteSet(P) /\ h \in [P -> Nat]
  <2>1. IsFiniteSet(1..Len(f))
    BY FS_Interval
  <2>2. QED
    BY <1>1, <2>1, FS_Subset
<1>3. \A g : g = Body(g) <=> Adds(g, P, h)
  <2>1. ASSUME NEW t \in SUBSET P, t # {}
        PROVE  h[CHOOSE x \in t : TRUE] = Count(<<f[CHOOSE x \in t : TRUE]>>)
    BY <2>1
  <2> HIDE DEF h
  <2>2. ASSUME NEW g
        PROVE  Body(g) = [t \in SUBSET P |-> IF t = {} THEN 0
                  ELSE LET x == CHOOSE x \in t : TRUE IN h[x] + g[t \ {x}]]
    BY <2>1
  <2> HIDE DEF Body
  <2>3. QED
    BY <2>2 DEF Adds
<1>4. Apart(f, P) = it[P]
  BY DEF Apart, MapThenSumSet, MapThenFoldSet
<1>5. it = Body(it)
  <2> HIDE DEF Body, h
  <2>1. \E g : g = Body(g)
    BY <1>2, <1>3, SumExists
  <2>2. QED
    BY <2>1
<1>6. QED
  <2> HIDE DEF Body, h, it
  <2>1. QED
    BY <1>2, <1>3, <1>4, <1>5, SumIsNatural

-----------------------------------------------------------------------------
(* What is pulled, and the cuts that are made. *)

\* An exchange in front of a cut is in front of it as a whole.
LEMMA ExchangeInFront ==
  ASSUME NEW f \in Seq(Message), NEW s \in 0..Len(f), NEW j \in Dropped(s)
  PROVE  Exchange(f, j) \in SUBSET Dropped(s) /\ Exchange(f, j) \in SUBSET (1..Len(f))
<1>1. j \in 1..s /\ j \in 1..Len(f) /\ Len(f) \in Nat
  BY DEF Dropped
<1>2. ASSUME NEW h \in CallsFor(f, j) PROVE h \in 1..s /\ h \in 1..Len(f)
  <2>1. PICK c \in f[j].results : h = CallOf(f, j, c) /\ h # 0
    BY DEF CallsFor
  <2>2. h \in 0..(j-1)
    BY <1>1, <2>1, CallIsBefore
  <2>3. QED
    BY <1>1, <2>1, <2>2
<1>3. QED
  BY <1>1, <1>2 DEF Exchange, Dropped

\* The durable exchanges that fit a budget are exchanges before the cut, whole.
LEMMA PulledFromTheFront ==
  ASSUME NEW f \in Seq(Message), Finite(f), NEW s \in 0..Len(f), NEW budget \in Nat
  PROVE  /\ WithinBudget(f, s, budget) \in SUBSET Dropped(s)
         /\ \A i \in WithinBudget(f, s, budget) :
              \E j \in DurableIn(f, s) :
                i \in Exchange(f, j) /\ Exchange(f, j) \subseteq WithinBudget(f, s, budget)
<1> DEFINE D == DurableIn(f, s)
           Wholes == {p \in SUBSET Dropped(s) :
                        \A i \in p : \E j \in D : i \in Exchange(f, j) /\ Exchange(f, j) \subseteq p}
           V == [left : Nat, pulled : Wholes]
           start == [left |-> budget, pulled |-> {}]
           Takes(n, w) == LET j == s + 1 - n
                              cost == Apart(f, Exchange(f, j)) IN
                          IF j \in D /\ cost <= w.left
                          THEN [left |-> w.left - cost, pulled |-> w.pulled \cup Exchange(f, j)]
                          ELSE w
           F == [n \in 1..s |-> [w \in V |-> Takes(n, w)]]
           Body(g) == [n \in 0..s |->
                         IF n = 0 THEN [left |-> budget, pulled |-> {}]
                         ELSE LET w == g[n-1]
                                  j == s + 1 - n
                                  cost == Apart(f, Exchange(f, j)) IN
                              IF j \in DurableIn(f, s) /\ cost <= w.left
                              THEN [left |-> w.left - cost, pulled |-> w.pulled \cup Exchange(f, j)]
                              ELSE w]
           walk == CHOOSE g : g = Body(g)
<1>1. s \in Nat /\ start \in V
  OBVIOUS
<1>2. ASSUME NEW n \in 1..s, NEW w \in V PROVE Takes(n, w) \in V
  <2> DEFINE j == s + 1 - n
             x == Exchange(f, j)
             cost == Apart(f, x)
  <2>1. w.left \in Nat /\ w.pulled \in Wholes /\ w = [left |-> w.left, pulled |-> w.pulled]
    OBVIOUS
  <2>2. CASE j \in D /\ cost <= w.left
    <3>1. j \in Dropped(s)
      BY <2>2 DEF DurableIn
    <3>2. x \in SUBSET Dropped(s) /\ x \in SUBSET (1..Len(f))
      BY <3>1, ExchangeInFront
    <3>3. cost \in Nat
      BY <3>2, ApartIsNatural
    <3> HIDE DEF x, cost
    <3>4. w.left - cost \in Nat
      BY <2>1, <2>2, <3>3
    <3>5. w.pulled \cup x \in Wholes
      <4>1. ASSUME NEW i \in w.pulled \cup x
            PROVE  \E k \in D : i \in Exchange(f, k) /\ Exchange(f, k) \subseteq w.pulled \cup x
        <5>1. CASE i \in x
          BY <2>2, <5>1 DEF x
        <5>2. CASE i \in w.pulled
          BY <2>1, <5>2
        <5>3. QED
          BY <5>1, <5>2
      <4>2. QED
        BY <2>1, <3>2, <4>1
    <3>6. Takes(n, w) = [left |-> w.left - cost, pulled |-> w.pulled \cup x]
      BY <2>2 DEF cost, x
    <3> HIDE DEF Wholes, Takes
    <3>7. QED
      BY <3>4, <3>5, <3>6
  <2>3. CASE ~(j \in D /\ cost <= w.left)
    BY <2>3
  <2>4. QED
    BY <2>2, <2>3
<1> HIDE DEF V, Takes
<1>3. F \in [1..s -> [V -> V]]
  BY <1>2
<1>4. \A g : StepByStep(g, s, start, F) /\ (\A n \in 0..s : g[n] \in V) => g = Body(g)
  <2>1. SUFFICES ASSUME NEW g, StepByStep(g, s, start, F), \A n \in 0..s : g[n] \in V
                 PROVE  g = Body(g)
    OBVIOUS
  <2>2. ASSUME NEW n \in 0..s
        PROVE  g[n] = IF n = 0 THEN start ELSE Takes(n, g[n-1])
    <3>1. n # 0 => n \in 1..s /\ n - 1 \in 0..s
      OBVIOUS
    <3>2. n # 0 => F[n][g[n-1]] = Takes(n, g[n-1])
      BY <2>1, <3>1
    <3> HIDE DEF F, start
    <3>3. QED
      BY <2>1, <3>2 DEF StepByStep
  <2>3. g = [n \in 0..s |-> g[n]]
    BY <2>1 DEF StepByStep
  <2>4. QED
    BY <2>2, <2>3 DEF Takes
<1>5. walk = Body(walk)
  <2>1. PICK g \in [0..s -> V] : StepByStep(g, s, start, F)
    <3> HIDE DEF F, start
    <3>1. QED
      BY <1>1, <1>3, StepsExist
  <2>2. g = Body(g)
    BY <1>4, <2>1
  <2> HIDE DEF Body
  <2>3. QED
    BY <2>2
<1>6. walk[0] = start /\ \A n \in 1..s : walk[n] = Takes(n, walk[n-1])
  <2> HIDE DEF walk
  <2>1. walk[0] = start
    BY <1>1, <1>5
  <2>2. ASSUME NEW n \in 1..s PROVE walk[n] = Takes(n, walk[n-1])
    <3>1. n \in 0..s /\ n # 0
      OBVIOUS
    <3>2. walk[n] = Body(walk)[n]
      BY <1>5
    <3>3. QED
      BY <3>1, <3>2 DEF Takes
  <2>3. QED
    BY <2>1, <2>2
<1>7. WithinBudget(f, s, budget) = walk[s].pulled
  BY DEF WithinBudget
<1> HIDE DEF walk, start
<1>8. \A n \in 0..s : walk[n] \in V
  <2> DEFINE Bad == {n \in 0..s : walk[n] \notin V}
  <2>1. SUFFICES ASSUME Bad # {} PROVE FALSE
    OBVIOUS
  <2>2. Bad \in SUBSET Nat
    OBVIOUS
  <2>3. PICK m \in Bad : \A k \in Bad : m <= k
    <3> HIDE DEF Bad
    <3>1. QED
      BY <2>1, <2>2, LeastNumber
  <2>4. m \in 0..s /\ walk[m] \notin V
    OBVIOUS
  <2>5. m # 0
    BY <1>1, <1>6, <2>4
  <2>6. m \in 1..s /\ m - 1 \in 0..s /\ ~(m <= m - 1)
    BY <2>4, <2>5
  <2>7. walk[m-1] \in V
    BY <2>3, <2>6
  <2>8. QED
    BY <1>2, <1>6, <2>4, <2>6, <2>7
<1>9. walk[s].pulled \in Wholes
  <2>1. walk[s] \in V
    BY <1>1, <1>8
  <2> HIDE DEF Wholes
  <2>2. QED
    BY <2>1 DEF V
<1>10. QED
  BY <1>7, <1>9

\* What the terminal's estimate may choose, and where the splitter of the
\* summarizers may cut, are clean cuts that spare the messages said last.
SparesRecent(f, s) == s \in 0..Len(f) /\ s <= Less(Len(f), PreserveRecent) /\ CleanSplit(f, s)

LEMMA SlidesSpareRecent ==
  ASSUME NEW f, Len(f) \in Nat, NEW k \in 0..Less(Len(f), PreserveRecent)
  PROVE  SparesRecent(f, Slide(f, k)) /\ Slide(f, k) \in Nat
<1>1. Less(Len(f), PreserveRecent) \in 0..Len(f)
  BY CutsAssumption DEF Less
<1>2. k \in Nat
  BY <1>1
<1>3. Slide(f, k) \in 0..k /\ CleanSplit(f, Slide(f, k))
  BY <1>2, SlidesToTheLastCleanCut
<1>4. QED
  BY <1>1, <1>2, <1>3 DEF SparesRecent

LEMMA NoSplitIsClean ==
  ASSUME NEW f, Len(f) \in Nat
  PROVE  SparesRecent(f, 0)
<1>1. 0 <= Less(Len(f), PreserveRecent)
  BY CutsAssumption DEF Less
<1>2. QED
  BY <1>1 DEF SparesRecent, CleanSplit, Dropped

LEMMA ChosenSplitIsClean ==
  ASSUME NEW f, Len(f) \in Nat, NEW target
  PROVE  SparesRecent(f, ChooseSplit(f, target))
<1> DEFINE R == Less(Len(f), PreserveRecent)
           S == {s \in {Slide(f, k) : k \in 2..R} : Fits(f, s, target)}
<1>1. ASSUME NEW s \in S PROVE s \in Nat /\ SparesRecent(f, s)
  <2>1. PICK k \in 2..R : s = Slide(f, k)
    OBVIOUS
  <2>2. k \in 0..R
    BY CutsAssumption DEF Less
  <2>3. QED
    BY <2>1, <2>2, SlidesSpareRecent
<1>2. ChooseSplit(f, target) = LeastOf(S)
  BY DEF ChooseSplit
<1> HIDE DEF S
<1>3. S \in SUBSET Nat
  BY <1>1
<1>4. LeastOf(S) \in S \/ LeastOf(S) = 0
  BY <1>3, LeastProperties
<1>5. QED
  BY <1>1, <1>2, <1>4, NoSplitIsClean

LEMMA SplitterIsClean ==
  ASSUME NEW f, Len(f) \in Nat, NEW budget
  PROVE  SparesRecent(f, SplitWithinBudget(f, budget))
<1> DEFINE R == Less(Len(f), PreserveRecent)
           turns == {Slide(f, k) : k \in {k \in 1..R : StartsTurn(f, k)}}
           fit == {s \in turns \ {0} : Count(Behind(f, s)) <= budget}
<1>1. ASSUME NEW s \in turns PROVE s \in 0..Len(f) /\ SparesRecent(f, s)
  <2>1. PICK k \in 1..R : s = Slide(f, k)
    OBVIOUS
  <2>2. k \in 0..R
    BY CutsAssumption DEF Less
  <2>3. SparesRecent(f, s)
    BY <2>1, <2>2, SlidesSpareRecent
  <2>4. QED
    BY <2>3 DEF SparesRecent
<1>2. SplitWithinBudget(f, budget) =
        IF Len(f) <= MinMessages THEN 0 ELSE IF fit # {} THEN Min(fit) ELSE LargestOf(turns)
  BY DEF SplitWithinBudget
<1>3. turns \in SUBSET (0..Len(f)) /\ fit \in SUBSET Nat /\ fit \subseteq turns
  BY <1>1
<1> HIDE DEF turns, fit
<1>4. LargestOf(turns) \in turns \/ LargestOf(turns) = 0
  BY <1>3, LargestProperties
<1>5. fit # {} => Min(fit) \in fit
  <2>1. LeastOf(fit) = IF fit = {} THEN 0 ELSE Min(fit)
    BY DEF LeastOf
  <2>2. QED
    BY <1>3, <2>1, LeastProperties
<1>6. QED
  BY <1>1, <1>2, <1>3, <1>4, <1>5, NoSplitIsClean

LEMMA PinsAreNatural == PinTokens \in Nat
<1>1. <<PinText>> \in Seq(Message) /\ Len(<<PinText>>) = 1 /\ <<PinText>>[1] = PinText
  <2>1. PinText \in Message
    BY CutsAssumption DEF PinText, Text, Message
  <2>2. QED
    BY <2>1
<1>2. PinText.calls = {} /\ PinText.results = {}
  BY DEF PinText, Text
<1>3. Finite(<<PinText>>)
  BY <1>1, <1>2, FS_EmptySet DEF Finite
<1>4. CharsIn(<<PinText>>) \in Nat
  BY <1>1, <1>3, CharsAreNatural
<1>5. CharsIn(<<PinText>>) \div PerToken \in Nat
  BY <1>4, CutsAssumption
<1>6. QED
  BY <1>5 DEF PinTokens, Count

\* What is behind a cut, with the opening message or without.
LEMMA BehindIsTyped ==
  ASSUME NEW f \in Seq(Message), Finite(f), NEW s \in 0..Len(f)
  PROVE  /\ Behind(f, s) \in Seq(Message) /\ Len(Behind(f, s)) = Len(f) - s
         /\ \A i \in 1..Len(f)-s : Behind(f, s)[i] = f[s+i]
         /\ Finite(Behind(f, s))
         /\ Count(Behind(f, s)) \in Nat
         /\ s # 0 => Count(<<f[1]>> \o Behind(f, s)) \in Nat
<1> DEFINE v == s + 1
           l == Len(f)
           b == SubSeq(f, v, l)
<1>1. v \in Int /\ l \in Nat /\ \A i \in v..l : f[i] \in Message
  OBVIOUS
<1>2. /\ b \in Seq(Message)
      /\ Len(b) = IF v <= l THEN l - v + 1 ELSE 0
      /\ \A i \in 1..(l - v + 1) : b[i] = f[v + i - 1]
  <2> HIDE DEF v, l
  <2>1. QED
    BY <1>1, SubSeqProperties
<1>3. b = Behind(f, s)
  BY DEF Behind
<1> HIDE DEF b
<1>4. /\ b \in Seq(Message) /\ Len(b) = l - s
      /\ \A i \in 1..l-s : b[i] = f[s+i]
  BY <1>2
<1>5. Finite(b)
  <2>1. ASSUME NEW i \in 1..Len(b) PROVE IsFiniteSet(b[i].calls) /\ IsFiniteSet(b[i].results)
    <3>1. b[i] = f[s+i] /\ s + i \in 1..Len(f)
      BY <1>4
    <3>2. QED
      BY <3>1 DEF Finite
  <2>2. QED
    BY <2>1 DEF Finite
<1>6. Count(b) \in Nat
  <2>1. CharsIn(b) \in Nat
    BY <1>4, <1>5, CharsAreNatural
  <2>2. QED
    BY <2>1, CutsAssumption DEF Count
<1>7. ASSUME s # 0 PROVE Count(<<f[1]>> \o b) \in Nat
  <2> DEFINE o == <<f[1]>>
             u == o \o b
  <2>1. f[1] \in Message /\ IsFiniteSet(f[1].calls) /\ IsFiniteSet(f[1].results)
    BY <1>7 DEF Finite
  <2>2. o \in Seq(Message) /\ Len(o) = 1 /\ o[1] = f[1]
    BY <2>1
  <2> HIDE DEF o
  <2>3. /\ u \in Seq(Message) /\ Len(u) = 1 + Len(b)
        /\ \A i \in 1..Len(u) : u[i] = IF i <= 1 THEN o[i] ELSE b[i - 1]
    <3>1. /\ u \in Seq(Message) /\ Len(u) = Len(o) + Len(b)
          /\ \A i \in 1..(Len(o) + Len(b)) : u[i] = IF i <= Len(o) THEN o[i] ELSE b[i - Len(o)]
      BY <1>4, <2>2, ConcatProperties, Zenon
    <3> HIDE DEF u
    <3>2. QED
      BY <2>2, <3>1
  <2> HIDE DEF u
  <2>4. Finite(u)
    <3>1. ASSUME NEW i \in 1..Len(u) PROVE IsFiniteSet(u[i].calls) /\ IsFiniteSet(u[i].results)
      <4>1. CASE i = 1
        BY <2>1, <2>2, <2>3, <4>1
      <4>2. CASE i # 1
        <5>1. i - 1 \in 1..Len(b) /\ u[i] = b[i-1]
          BY <1>4, <2>3, <4>2
        <5>2. QED
          BY <1>5, <5>1 DEF Finite
      <4>3. QED
        BY <4>1, <4>2
    <3>2. QED
      BY <3>1 DEF Finite
  <2>5. CharsIn(u) \in Nat
    BY <2>3, <2>4, CharsAreNatural
  <2>6. QED
    BY <2>5, CutsAssumption DEF Count, u, o
<1>8. QED
  BY <1>3, <1>4, <1>5, <1>6, <1>7

\* What comes of a pass of the terminal over a conversation: it cuts at a clean
\* split, spares what was said last and pulls the results of the opening message
\* across, with durable exchanges, each whole; or it changes nothing.
THEOREM TerminalCutsClean ==
  ASSUME NEW f \in Seq(Message), Finite(f), NEW target \in Nat, NEW o \in Truncate(f, target)
  PROVE  \E s \in 0..Len(f) : \E pulls \in SUBSET Dropped(s) :
           /\ SparesRecent(f, s) /\ FirstMates(f, s) \subseteq pulls
           /\ \A i \in pulls \ FirstMates(f, s) :
                \E j \in DurableIn(f, s) : i \in Exchange(f, j) /\ Exchange(f, j) \subseteq pulls
           /\ o = IF s = 0 \/ Assembled(f, s, pulls).messages = <<>> THEN Unchanged(f)
                  ELSE [Assembled(f, s, pulls) EXCEPT !.messages = WithPins(@)]
<1> DEFINE effective == Less(target, PinTokens)
           cut == IF Len(f) <= MinMessages THEN 0
                ELSE IF effective = 0 THEN Slide(f, Less(Len(f), PreserveRecent))
                ELSE ChooseSplit(f, effective)
           budget == IF effective = 0 THEN CharsIn(f)
                     ELSE Less(effective, Count(<<f[1]>> \o Behind(f, cut)))
           carried == FirstMates(f, cut) \cup WithinBudget(f, cut, budget)
<1>1. o = TruncatedAt(f, cut, effective)
  BY DEF Truncate
<1>2. Len(f) \in Nat /\ effective \in Nat
  BY PinsAreNatural DEF Less
<1>3. SparesRecent(f, cut)
  <2>1. Less(Len(f), PreserveRecent) \in Nat
    BY CutsAssumption DEF Less
  <2>2. SparesRecent(f, Slide(f, Less(Len(f), PreserveRecent)))
    <3>1. Less(Len(f), PreserveRecent) \in 0..Less(Len(f), PreserveRecent)
      BY <2>1
    <3>2. QED
      BY <1>2, <3>1, SlidesSpareRecent
  <2> HIDE DEF effective
  <2>3. QED
    BY <1>2, <2>2, NoSplitIsClean, ChosenSplitIsClean
<1>4. o = IF cut = 0 \/ Assembled(f, cut, carried).messages = <<>> THEN Unchanged(f)
          ELSE [Assembled(f, cut, carried) EXCEPT !.messages = WithPins(@)]
  <2> HIDE DEF effective, cut
  <2>1. QED
    BY <1>1 DEF TruncatedAt
<1> HIDE DEF effective, cut
<1>5. cut \in 0..Len(f)
  BY <1>3 DEF SparesRecent
<1>6. CASE cut = 0
  <2>1. {} \in SUBSET Dropped(cut) /\ FirstMates(f, cut) = {}
    BY <1>6 DEF FirstMates, Dropped
  <2>2. o = Unchanged(f)
    BY <1>4, <1>6
  <2>3. QED
    BY <1>3, <1>5, <1>6, <2>1, <2>2
<1>7. CASE cut # 0
  <2>1. budget \in Nat
    BY <1>2, <1>5, <1>7, CharsAreNatural, BehindIsTyped DEF Less
  <2> HIDE DEF budget
  <2>2. /\ WithinBudget(f, cut, budget) \in SUBSET Dropped(cut)
        /\ \A i \in WithinBudget(f, cut, budget) :
             \E j \in DurableIn(f, cut) :
               i \in Exchange(f, j) /\ Exchange(f, j) \subseteq WithinBudget(f, cut, budget)
    BY <1>5, <2>1, PulledFromTheFront
  <2>3. carried \in SUBSET Dropped(cut) /\ FirstMates(f, cut) \subseteq carried
    BY <2>2 DEF FirstMates
  <2>4. \A i \in carried \ FirstMates(f, cut) :
          \E j \in DurableIn(f, cut) : i \in Exchange(f, j) /\ Exchange(f, j) \subseteq carried
    BY <2>2
  <2> HIDE DEF carried
  <2>5. QED
    BY <1>3, <1>4, <1>5, <2>3, <2>4
<1>8. QED
  BY <1>6, <1>7

\* A function on numbers that passes each on to a lower one, until one of some set
\* is met, exists: it is the value where what can be reached meets that set.
Passes(g, R, Stops, v) == g = [n \in Nat |-> IF n \in Stops THEN v[n] ELSE g[R[n]]]

LEMMA PassingExists ==
  ASSUME NEW R \in [Nat -> Nat], NEW Stops \in SUBSET Nat, NEW v
  PROVE  \E g : Passes(g, R, Stops, v)
<1> DEFINE Closed(A) == \A m \in A \ Stops : R[m] \in A
           Reach(n) == {m \in Nat : \A A \in SUBSET Nat : n \in A /\ Closed(A) => m \in A}
           End(T) == CHOOSE m : m \in T
           g == [n \in Nat |-> v[End(Stops \cap Reach(n))]]
<1>1. ASSUME NEW n \in Stops PROVE Stops \cap Reach(n) = {n}
  <2>1. {n} \in SUBSET Nat /\ n \in {n} /\ Closed({n})
    OBVIOUS
  <2>2. Reach(n) \subseteq {n}
    BY <2>1
  <2>3. n \in Reach(n)
    OBVIOUS
  <2>4. QED
    BY <2>2, <2>3
<1>2. ASSUME NEW n \in Nat \ Stops PROVE Stops \cap Reach(n) = Stops \cap Reach(R[n])
  <2> DEFINE B == {n} \cup Reach(R[n])
  <2>1. ASSUME NEW m \in Reach(R[n]) PROVE m \in Reach(n)
    <3>1. SUFFICES ASSUME NEW A \in SUBSET Nat, n \in A, Closed(A) PROVE m \in A
      OBVIOUS
    <3>2. R[n] \in A
      BY <3>1
    <3> HIDE DEF Closed
    <3>3. QED
      BY <3>1, <3>2
  <2>2. Closed(B)
    <3>1. SUFFICES ASSUME NEW m \in B \ Stops PROVE R[m] \in B
      OBVIOUS
    <3>2. CASE m = n
      <4>1. R[n] \in Nat
        OBVIOUS
      <4>2. R[n] \in Reach(R[n])
        BY <4>1
      <4>3. QED
        BY <3>2, <4>2
    <3>3. CASE m # n
      <4>1. m \in Reach(R[n])
        BY <3>3
      <4>2. ASSUME NEW A \in SUBSET Nat, R[n] \in A, Closed(A) PROVE R[m] \in A
        <5>1. m \in A
          BY <4>1, <4>2
        <5>2. QED
          BY <4>2, <5>1
      <4>3. R[m] \in Nat
        BY <4>1
      <4> HIDE DEF Closed
      <4>4. R[m] \in Reach(R[n])
        BY <4>2, <4>3
      <4>5. QED
        BY <4>4
    <3>4. QED
      BY <3>2, <3>3
  <2>3. B \in SUBSET Nat /\ n \in B
    OBVIOUS
  <2>4. Reach(n) \subseteq B
    <3> HIDE DEF B, Closed
    <3>1. QED
      BY <2>2, <2>3
  <2>5. n \notin Stops
    OBVIOUS
  <2> HIDE DEF Reach
  <2>6. QED
    BY <2>1, <2>4, <2>5
<1> HIDE DEF Reach
<1>3. ASSUME NEW n \in Nat
      PROVE  g[n] = IF n \in Stops THEN v[n] ELSE g[R[n]]
  <2>1. CASE n \in Stops
    BY <1>1, <2>1
  <2>2. CASE n \notin Stops
    <3>1. R[n] \in Nat
      OBVIOUS
    <3>2. Stops \cap Reach(n) = Stops \cap Reach(R[n])
      BY <1>2, <2>2
    <3> HIDE DEF End
    <3>3. QED
      BY <2>2, <3>1, <3>2
  <2>3. QED
    BY <2>1, <2>2
<1>4. g = [n \in Nat |-> g[n]]
  OBVIOUS
<1> HIDE DEF g
<1>5. g = [n \in Nat |-> IF n \in Stops THEN v[n] ELSE g[R[n]]]
  BY <1>3, <1>4
<1>6. QED
  BY <1>5 DEF Passes

LEMMA PassingEnds ==
  ASSUME NEW R \in [Nat -> Nat], NEW Stops \in SUBSET Nat, NEW v,
         \A n \in Nat \ Stops : R[n] < n,
         NEW g, Passes(g, R, Stops, v), NEW n \in Nat
  PROVE  \E m \in Stops : g[n] = v[m]
<1> DEFINE Bad == {k \in Nat : ~\E m \in Stops : g[k] = v[m]}
<1>1. \A k \in Nat : g[k] = IF k \in Stops THEN v[k] ELSE g[R[k]]
  BY DEF Passes
<1>2. Bad = {}
  <2>1. SUFFICES ASSUME Bad # {} PROVE FALSE
    OBVIOUS
  <2>2. PICK b \in Bad : \A k \in Bad : b <= k
    <3>1. Bad \in SUBSET Nat
      OBVIOUS
    <3> HIDE DEF Bad
    <3>2. QED
      BY <2>1, <3>1, LeastNumber
  <2>3. b \in Nat /\ ~\E m \in Stops : g[b] = v[m]
    OBVIOUS
  <2>4. b \notin Stops
    BY <1>1, <2>3
  <2>5. R[b] \in Nat /\ ~(b <= R[b])
    BY <2>3, <2>4
  <2>6. \E m \in Stops : g[R[b]] = v[m]
    BY <2>2, <2>5
  <2>7. QED
    BY <1>1, <2>3, <2>4, <2>6
<1>3. QED
  BY <1>2

\* The summarizers, which look for a cut and a pull that fit together, end with a
\* clean cut as well, that spares what was said last, and with whole exchanges.
THEOREM SummaryCutsClean ==
  ASSUME NEW f \in Seq(Message), Finite(f), NEW budget \in Nat
  PROVE  LET cut == BudgetedSplit(f, budget) IN
         /\ SparesRecent(f, cut.split) /\ cut.pulled \in SUBSET Dropped(cut.split)
         /\ \A i \in cut.pulled :
              \E j \in DurableIn(f, cut.split) :
                i \in Exchange(f, j) /\ Exchange(f, j) \subseteq cut.pulled
<1> DEFINE cut == [b \in Nat |-> LET s == SplitWithinBudget(f, b)
                                 IN [split |-> s, pulled |-> WithinBudget(f, s, b)]]
           At(g, b) == LET left == Less(b, Apart(f, cut[b].pulled)) IN
                       IF left = b \/ cut[left] = cut[b] THEN cut[b] ELSE g[left]
           Body(g) == [b \in Nat |-> At(g, b)]
           settled == CHOOSE g : g = Body(g)
           R == [b \in Nat |-> Less(b, Apart(f, cut[b].pulled))]
           Stops == {b \in Nat : R[b] = b \/ cut[R[b]] = cut[b]}
           Fine(x) == /\ SparesRecent(f, x.split) /\ x.pulled \in SUBSET Dropped(x.split)
                      /\ \A i \in x.pulled :
                           \E j \in DurableIn(f, x.split) :
                             i \in Exchange(f, j) /\ Exchange(f, j) \subseteq x.pulled
<1>1. ASSUME NEW b \in Nat PROVE Fine(cut[b]) /\ Less(b, Apart(f, cut[b].pulled)) \in 0..b
  <2> DEFINE s == SplitWithinBudget(f, b)
  <2>1. SparesRecent(f, s)
    BY SplitterIsClean
  <2>2. s \in 0..Len(f) /\ s \in Nat
    BY <2>1 DEF SparesRecent
  <2>3. cut[b].split = s /\ cut[b].pulled = WithinBudget(f, s, b)
    <3> HIDE DEF s
    <3>1. cut[b] = [split |-> s, pulled |-> WithinBudget(f, s, b)]
      BY DEF s
    <3> HIDE DEF cut
    <3>2. QED
      BY <3>1
  <2> HIDE DEF s, cut
  <2>4. Fine(cut[b])
    BY <2>1, <2>2, <2>3, PulledFromTheFront
  <2>5. cut[b].pulled \in SUBSET (1..Len(f))
    BY <2>2, <2>3, <2>4 DEF Dropped
  <2>6. Apart(f, cut[b].pulled) \in Nat
    BY <2>5, ApartIsNatural
  <2>7. QED
    BY <2>4, <2>6 DEF Less
<1>2. BudgetedSplit(f, budget) = settled[budget]
  BY DEF BudgetedSplit
<1> HIDE DEF cut, Fine
<1>3. R \in [Nat -> Nat] /\ \A b \in Nat : R[b] \in 0..b
  <2>1. \A b \in Nat : R[b] \in 0..b /\ R[b] \in Nat
    BY <1>1
  <2>2. R = [b \in Nat |-> R[b]]
    OBVIOUS
  <2> HIDE DEF R
  <2>3. QED
    BY <2>1, <2>2
<1>4. Stops \in SUBSET Nat /\ \A n \in Nat \ Stops : R[n] < n
  <2>1. ASSUME NEW n \in Nat \ Stops PROVE R[n] < n
    <3>1. R[n] # n /\ R[n] \in 0..n
      BY <1>3
    <3> HIDE DEF R, Stops
    <3>2. QED
      BY <3>1
  <2>2. QED
    BY <2>1
<1>5. \A g : g = Body(g) <=> Passes(g, R, Stops, cut)
  <2>1. ASSUME NEW g, NEW b \in Nat
        PROVE  At(g, b) = IF b \in Stops THEN cut[b] ELSE g[R[b]]
    OBVIOUS
  <2> HIDE DEF Stops, R, At
  <2>2. ASSUME NEW g PROVE Body(g) = [b \in Nat |-> IF b \in Stops THEN cut[b] ELSE g[R[b]]]
    BY <2>1
  <2> HIDE DEF Body
  <2>3. QED
    BY <2>2 DEF Passes
<1> HIDE DEF Stops, R, Body
<1>6. settled = Body(settled)
  <2>1. \E g : g = Body(g)
    BY <1>3, <1>4, <1>5, PassingExists
  <2>2. QED
    BY <2>1
<1> HIDE DEF settled
<1>7. PICK m \in Stops : settled[budget] = cut[m]
  <2>1. Passes(settled, R, Stops, cut)
    BY <1>5, <1>6
  <2>2. QED
    BY <1>3, <1>4, <2>1, PassingEnds
<1>8. Fine(settled[budget])
  BY <1>1, <1>4, <1>7
<1>9. QED
  BY <1>2, <1>8 DEF Fine
=============================================================================
