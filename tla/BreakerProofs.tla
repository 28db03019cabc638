---------------------------- MODULE BreakerProofs ----------------------------
(***************************************************************************)
(* The circuit breaker for chains, thresholds and limits of any size.  The *)
(* manager's record stays Good under each of its methods (one lemma each); *)
(* what the driver knows of the request in flight is InStep.               *)
(***************************************************************************)
EXTENDS Breaker, SequenceTheorems, WellFoundedInduction, TLAPS

\* A fallback has no failures on its count: they start over when it is left.
Good(b) == /\ b \in State
           /\ b.active = FirstUsable(b.chain)
           /\ CountsBelow(b)
           /\ b.state = "Fallback" => b.consecutive_failures = 0

InStep == /\ request \in Model \cup {NoModel} /\ streak \in Nat
          /\ request # NoModel /\ breaker.state = "Fallback" => request = breaker.active
          /\ breaker.state = "Recovering" => breaker.primary_success_count <= streak

IInv == Good(breaker) /\ InStep

-----------------------------------------------------------------------------
(* Choosing from the chain. *)

\* A non-empty set of positions has a first one.
LEMMA FirstOf ==
  ASSUME NEW n \in Nat, NEW S \in SUBSET (1..n), S # {}
  PROVE  LET k == CHOOSE i \in S : \A j \in S : i <= j
         IN  k \in S /\ \A j \in S : k <= j
<1>1. S \subseteq Nat
  OBVIOUS
<1>2. PICK x \in S : \A y \in S : ~(<<y, x>> \in OpToRel(<, Nat))
  BY <1>1, NatLessThanWellFounded, WFMin, Zenon
<1>3. \A y \in S : x <= y
  <2>1. ASSUME NEW y \in S PROVE x <= y
    <3>1. x \in Nat /\ y \in Nat
      BY <1>1
    <3>2. ~(y < x)
      BY <1>2, <3>1 DEF OpToRel
    <3>3. QED
      BY <3>1, <3>2
  <2>2. QED
    BY <2>1
<1>4. \E i \in S : \A j \in S : i <= j
  BY <1>3
<1>5. QED
  BY <1>4

\* What serves in a fallback is a model of the chain, or none.
LEMMA FirstUsableType ==
  ASSUME NEW c \in Seq(Entry)
  PROVE  FirstUsable(c) \in Model \cup {NoModel}
<1>1. CASE Usable(c) = {}
  BY <1>1 DEF FirstUsable
<1>2. CASE Usable(c) # {}
  <2> DEFINE k == CHOOSE i \in Usable(c) : \A j \in Usable(c) : i <= j
  <2>1. Len(c) \in Nat /\ Usable(c) \in SUBSET (1..Len(c))
    BY DEF Usable
  <2>2. k \in Usable(c)
    BY <1>2, <2>1, FirstOf
  <2>3. k \in 1..Len(c)
    BY <2>1, <2>2
  <2>4. c[k] \in Entry
    BY <2>3
  <2>5. QED
    BY <1>2, <2>4 DEF FirstUsable, Entry
<1>3. QED
  BY <1>1, <1>2

\* The methods that name an entry find one of that name.
LEMMA AtNamed ==
  ASSUME NEW c \in Seq(Entry), NEW name \in Model, Named(c, name) # {}
  PROVE  At(c, name) \in 1..Len(c) /\ c[At(c, name)].name = name
<1>1. Len(c) \in Nat /\ Named(c, name) \in SUBSET (1..Len(c))
  BY DEF Named
<1>2. At(c, name) \in Named(c, name)
  BY <1>1, FirstOf DEF At
<1>3. QED
  BY <1>2 DEF Named

-----------------------------------------------------------------------------
(* Each method keeps the record good. *)

\* Whatever the new chain, the choice from it is made anew.
LEMMA WithChainGood ==
  ASSUME NEW b, Good(b), NEW c \in Seq(Entry)
  PROVE  Good(WithChain(b, c))
<1>1. FirstUsable(c) \in Model \cup {NoModel}
  BY FirstUsableType
<1>2. b \in State
  BY DEF Good
<1>3. WithChain(b, c) \in State
  BY <1>1, <1>2 DEF WithChain, State
<1>4. /\ WithChain(b, c).chain = c /\ WithChain(b, c).active = FirstUsable(c)
      /\ WithChain(b, c).state = b.state
      /\ WithChain(b, c).consecutive_failures = b.consecutive_failures
      /\ WithChain(b, c).primary_success_count = b.primary_success_count
  BY <1>2 DEF WithChain, State
<1>5. QED
  BY <1>3, <1>4 DEF Good, CountsBelow

\* Forgetting every failure of the chain.
LEMMA ClearAllGood ==
  ASSUME NEW b, Good(b)
  PROVE  /\ Good(ClearAll(b))
         /\ ClearAll(b).state = b.state
<1> DEFINE c == [i \in 1..Len(b.chain) |-> [b.chain[i] EXCEPT !.attempts = 0]]
<1>1. b \in State /\ b.chain \in Seq(Entry) /\ Len(b.chain) \in Nat
  BY DEF Good, State
<1>2. ASSUME NEW i \in 1..Len(b.chain) PROVE c[i] \in Entry
  <2>1. b.chain[i] \in Entry
    BY <1>1
  <2>2. [b.chain[i] EXCEPT !.attempts = 0] \in Entry
    BY <2>1 DEF Entry
  <2>3. QED
    BY <2>2
<1>3. c \in Seq(Entry)
  <2>1. c \in [1..Len(b.chain) -> Entry]
    BY <1>2
  <2>2. QED
    BY <1>1, <2>1
<1>4. Good(WithChain(b, c))
  BY <1>3, WithChainGood
<1>5. WithChain(b, c).state = b.state
  BY <1>1 DEF WithChain, State
<1>6. QED
  BY <1>4, <1>5 DEF ClearAll

\* The three transitions.
LEMMA TransitionsGood ==
  ASSUME NEW b, Good(b)
  PROVE  /\ Good(ToFallback(b)) /\ ToFallback(b).state = "Fallback"
         /\ Good(ToRecovering(b)) /\ ToRecovering(b).state = "Recovering"
         /\ ToRecovering(b).primary_success_count = 0
         /\ Good(ToPrimary(b)) /\ ToPrimary(b).state = "Primary"
<1>1. b \in State
  BY DEF Good
<1>2. Good(ToFallback(b)) /\ ToFallback(b).state = "Fallback"
  BY <1>1 DEF Good, ToFallback, State, CountsBelow
<1>3. /\ Good(ToRecovering(b)) /\ ToRecovering(b).state = "Recovering"
      /\ ToRecovering(b).primary_success_count = 0
  <2>1. TripThreshold \in Nat /\ RecoverySuccessesNeeded \in Nat
    BY ConfigAssumption
  <2>2. b.consecutive_failures < AtLeastOne(TripThreshold)
    BY <1>1, <2>1 DEF Good, CountsBelow, AtLeastOne
  <2>3. 0 < AtLeastOne(RecoverySuccessesNeeded)
    BY <2>1 DEF AtLeastOne
  <2>4. /\ ToRecovering(b) \in State /\ ToRecovering(b).state = "Recovering"
        /\ ToRecovering(b).chain = b.chain /\ ToRecovering(b).active = b.active
        /\ ToRecovering(b).primary_success_count = 0
        /\ ToRecovering(b).consecutive_failures = b.consecutive_failures
    BY <1>1 DEF ToRecovering, State
  <2>5. QED
    BY <2>2, <2>3, <2>4 DEF Good, CountsBelow
<1>4. Good(ToPrimary(b)) /\ ToPrimary(b).state = "Primary"
  <2> DEFINE d == [b EXCEPT !.state = "Primary", !.switched_at = "None",
                            !.primary_success_count = 0, !.consecutive_failures = 0,
                            !.fallback_activated = FALSE]
  <2>1. TripThreshold \in Nat
    BY ConfigAssumption
  <2>2. 0 < AtLeastOne(TripThreshold)
    BY <2>1 DEF AtLeastOne
  <2>3. /\ d \in State /\ d.state = "Primary" /\ d.chain = b.chain
        /\ d.active = b.active /\ d.consecutive_failures = 0
    BY <1>1 DEF State
  <2>4. Good(d)
    BY <2>2, <2>3 DEF Good, CountsBelow
  <2>5. QED
    BY <2>3, <2>4, ClearAllGood DEF ToPrimary
<1>5. QED
  BY <1>2, <1>3, <1>4

\* A failure is counted, and trips the breaker if it is due.
LEMMA FailureGood ==
  ASSUME NEW b, Good(b), b.state # "Fallback"
  PROVE  /\ Good(TripIfDue(CountFailure(b)))
         /\ TripIfDue(CountFailure(b)).chain = b.chain
         /\ TripIfDue(CountFailure(b)).state \in {b.state, "Fallback"}
         /\ TripIfDue(CountFailure(b)).state = b.state
            => TripIfDue(CountFailure(b)).primary_success_count = b.primary_success_count
<1> DEFINE d == CountFailure(b)
<1>1. b \in State /\ TripThreshold \in Nat
  BY ConfigAssumption DEF Good
<1>2. /\ d \in State /\ d.state = b.state /\ d.chain = b.chain /\ d.active = b.active
      /\ d.primary_success_count = b.primary_success_count
  BY <1>1 DEF CountFailure, State
<1>3. CASE d.consecutive_failures >= TripThreshold
  BY <1>1, <1>2, <1>3 DEF TripIfDue, ToFallback, Good, State, CountsBelow
<1>4. CASE ~(d.consecutive_failures >= TripThreshold)
  <2>1. TripIfDue(d) = d
    BY <1>4 DEF TripIfDue
  <2>2. d.consecutive_failures < AtLeastOne(TripThreshold)
    BY <1>1, <1>2, <1>4 DEF AtLeastOne, State
  <2>3. QED
    BY <1>2, <2>1, <2>2 DEF Good, CountsBelow
<1>5. QED
  BY <1>3, <1>4

\* record_failure: the chain is left alone, and a fallback takes no count.
LEMMA RecordFailureGood ==
  ASSUME NEW b, Good(b), NEW kind \in {"Transient", "RateLimit"}
  PROVE  LET c == RecordFailure(b, kind) IN
         /\ Good(c) /\ c.chain = b.chain
         /\ b.state = "Fallback" => c = b
         /\ c.state = "Recovering" => c.primary_success_count = 0
<1>1. b \in State /\ b.state \in {"Primary", "Fallback", "Recovering"}
  BY DEF Good, State
<1>2. CASE b.state = "Primary"
  BY <1>2, FailureGood DEF RecordFailure
<1>3. CASE b.state = "Fallback"
  BY <1>3 DEF RecordFailure
<1>4. CASE b.state = "Recovering" /\ kind = "RateLimit"
  <2>1. RecordFailure(b, kind) = ToFallback(b)
    BY <1>4 DEF RecordFailure
  <2>2. ToFallback(b).chain = b.chain
    BY <1>1 DEF ToFallback, State
  <2>3. QED
    BY <1>4, <2>1, <2>2, TransitionsGood
<1>5. CASE b.state = "Recovering" /\ kind = "Transient"
  <2> DEFINE d == [b EXCEPT !.primary_success_count = 0]
  <2>1. RecoverySuccessesNeeded \in Nat
    BY ConfigAssumption
  <2>2. 0 < AtLeastOne(RecoverySuccessesNeeded)
    BY <2>1 DEF AtLeastOne
  <2>3. /\ d \in State /\ d.state = "Recovering" /\ d.chain = b.chain /\ d.active = b.active
        /\ d.primary_success_count = 0 /\ d.consecutive_failures = b.consecutive_failures
    BY <1>1, <1>5 DEF State
  <2>4. Good(d)
    BY <1>5, <2>2, <2>3 DEF Good, CountsBelow
  <2>5. RecordFailure(b, kind) = TripIfDue(CountFailure(d))
    BY <1>5 DEF RecordFailure, FailedProbe
  <2> HIDE DEF d
  <2>6. QED
    BY <1>5, <2>3, <2>4, <2>5, FailureGood
<1>6. QED
  BY <1>1, <1>2, <1>3, <1>4, <1>5

\* record_success: the breaker stays as it is, or closes and forgives the chain.
LEMMA RecordSuccessGood ==
  ASSUME NEW b, Good(b)
  PROVE  LET c == RecordSuccess(b) IN
         /\ Good(c)
         /\ c.chain = b.chain \/ (b.state = "Recovering" /\ c = ToPrimary(CountSuccess(b)))
         /\ c.state = "Recovering" => /\ b.state = "Recovering"
                                      /\ c.primary_success_count = b.primary_success_count + 1
         /\ b.state = "Recovering" /\ c.state = "Primary"
            => b.primary_success_count + 1 >= RecoverySuccessesNeeded
<1>1. /\ b \in State /\ b.state \in {"Primary", "Fallback", "Recovering"}
      /\ TripThreshold \in Nat /\ RecoverySuccessesNeeded \in Nat
  BY ConfigAssumption DEF Good, State
<1>2. CASE b.state = "Primary"
  <2> DEFINE d == [b EXCEPT !.consecutive_failures = 0]
  <2>1. /\ d \in State /\ d.state = "Primary" /\ d.chain = b.chain /\ d.active = b.active
        /\ d.consecutive_failures = 0
    BY <1>1, <1>2 DEF State
  <2>2. 0 < AtLeastOne(TripThreshold)
    BY <1>1 DEF AtLeastOne
  <2>3. RecordSuccess(b) = d
    BY <1>2 DEF RecordSuccess
  <2>4. QED
    BY <1>2, <2>1, <2>2, <2>3 DEF Good, CountsBelow
<1>3. CASE b.state = "Fallback"
  BY <1>3 DEF RecordSuccess
<1>4. CASE b.state = "Recovering"
  <2> DEFINE d == CountSuccess(b)
  <2>1. /\ d \in State /\ d.state = "Recovering" /\ d.chain = b.chain /\ d.active = b.active
        /\ d.consecutive_failures = 0
        /\ d.primary_success_count = b.primary_success_count + 1
    <3> DEFINE f == [b EXCEPT !.consecutive_failures = 0]
    <3>1. /\ f \in State /\ f.state = "Recovering" /\ f.chain = b.chain /\ f.active = b.active
          /\ f.consecutive_failures = 0 /\ f.primary_success_count = b.primary_success_count
      BY <1>1, <1>4 DEF State
    <3>2. d = [f EXCEPT !.primary_success_count = f.primary_success_count + 1]
      BY <1>1, <3>1 DEF CountSuccess, State
    <3> HIDE DEF f, d
    <3>3. QED
      BY <3>1, <3>2 DEF State
  <2>2. 0 < AtLeastOne(TripThreshold)
    BY <1>1 DEF AtLeastOne
  <2>3. CASE d.primary_success_count >= RecoverySuccessesNeeded
    <3>1. RecordSuccess(b) = ToPrimary(d)
      BY <1>4, <2>3 DEF RecordSuccess
    <3> DEFINE e == [d EXCEPT !.state = "Primary", !.switched_at = "None",
                              !.primary_success_count = 0, !.consecutive_failures = 0,
                              !.fallback_activated = FALSE]
    <3>2. /\ e \in State /\ e.state = "Primary" /\ e.chain = b.chain
          /\ e.active = b.active /\ e.consecutive_failures = 0
      BY <2>1 DEF State
    <3>3. Good(e)
      BY <2>2, <3>2 DEF Good, CountsBelow
    <3>4. Good(ToPrimary(d)) /\ ToPrimary(d).state = "Primary"
      BY <3>2, <3>3, ClearAllGood DEF ToPrimary
    <3>5. QED
      BY <1>4, <2>1, <2>3, <3>1, <3>4
  <2>4. CASE ~(d.primary_success_count >= RecoverySuccessesNeeded)
    <3>1. RecordSuccess(b) = d
      BY <1>4, <2>4 DEF RecordSuccess
    <3>2. d.primary_success_count < AtLeastOne(RecoverySuccessesNeeded)
      BY <1>1, <2>1, <2>4 DEF AtLeastOne, State
    <3>3. QED
      BY <1>4, <2>1, <2>2, <3>1, <3>2 DEF Good, CountsBelow
  <2>5. QED
    BY <2>3, <2>4
<1>5. QED
  BY <1>1, <1>2, <1>3, <1>4

\* Writing an entry back under its name.
LEMMA PutGood ==
  ASSUME NEW b, Good(b), NEW name \in Model, NEW e,
         Named(b.chain, name) # {} => e \in Entry
  PROVE  Good(Put(b, name, e)) /\ Put(b, name, e).state = b.state
<1>1. b \in State /\ b.chain \in Seq(Entry)
  BY DEF Good, State
<1>2. CASE Named(b.chain, name) = {}
  BY <1>2 DEF Put
<1>3. CASE Named(b.chain, name) # {}
  <2> DEFINE c == [b.chain EXCEPT ![At(b.chain, name)] = e]
  <2>1. c \in Seq(Entry)
    BY <1>1, <1>3, AtNamed
  <2>2. Put(b, name, e) = WithChain(b, c)
    BY <1>3 DEF Put
  <2>3. WithChain(b, c).state = b.state
    BY <1>1 DEF WithChain, State
  <2>4. QED
    BY <2>1, <2>2, <2>3, WithChainGood
<1>4. QED
  BY <1>2, <1>3

\* The four judgements a name can be given.
LEMMA JudgeGood ==
  ASSUME NEW b, Good(b), NEW name \in Model, NEW available \in BOOLEAN
  PROVE  /\ Good(MarkFailed(b, name)) /\ MarkFailed(b, name).state = b.state
         /\ Good(ClearFailed(b, name)) /\ ClearFailed(b, name).state = b.state
         /\ Good(SetAvailable(b, name, available))
         /\ SetAvailable(b, name, available).state = b.state
<1> DEFINE f == Found(b, name)
<1>1. Named(b.chain, name) # {} => f \in Entry
  <2>1. b.chain \in Seq(Entry)
    BY DEF Good, State
  <2>2. QED
    BY <2>1, AtNamed DEF Found
<1>2. MaxFailCount \in Nat
  BY ConfigAssumption
<1>3. f \in Entry => /\ [f EXCEPT !.attempts = CountedAttempts(@)] \in Entry
                     /\ [f EXCEPT !.attempts = 0] \in Entry
                     /\ [f EXCEPT !.available = available] \in Entry
  BY <1>2 DEF Entry, CountedAttempts
<1>4. /\ MarkFailed(b, name) = Put(b, name, [f EXCEPT !.attempts = CountedAttempts(@)])
      /\ ClearFailed(b, name) = Put(b, name, [f EXCEPT !.attempts = 0])
      /\ SetAvailable(b, name, available) = Put(b, name, [f EXCEPT !.available = available])
  BY DEF MarkFailed, ClearFailed, SetAvailable
<1> HIDE DEF f
<1>5. QED
  BY <1>1, <1>3, <1>4, PutGood

\* Adding to the chain and taking from it.
LEMMA EditedChain ==
  ASSUME NEW c \in Seq(Entry)
  PROVE  /\ \A k \in 0..Len(c), e \in Entry : Inserted(c, k, e) \in Seq(Entry)
         /\ \A j \in 1..Len(c) : Removed(c, j) \in Seq(Entry)
<1>1. Len(c) \in Nat
  OBVIOUS
<1>2. ASSUME NEW k \in 0..Len(c), NEW e \in Entry PROVE Inserted(c, k, e) \in Seq(Entry)
  <2>1. SubSeq(c, 1, k) \in Seq(Entry) /\ SubSeq(c, k + 1, Len(c)) \in Seq(Entry)
    BY <1>1
  <2>2. <<e>> \in Seq(Entry)
    OBVIOUS
  <2>3. QED
    BY <2>1, <2>2, ConcatProperties DEF Inserted
<1>3. ASSUME NEW j \in 1..Len(c) PROVE Removed(c, j) \in Seq(Entry)
  <2>1. SubSeq(c, 1, j - 1) \in Seq(Entry) /\ SubSeq(c, j + 1, Len(c)) \in Seq(Entry)
    BY <1>1
  <2>2. QED
    BY <2>1, ConcatProperties DEF Removed
<1>4. QED
  BY <1>2, <1>3

-----------------------------------------------------------------------------
(* Each action keeps the invariant. *)

\* A loop begins with no chain and the breaker closed.
LEMMA InvInit == BreakerInit => IInv
<1>1. SUFFICES ASSUME NEW original \in {NoModel, ClientModel},
                      breaker = [state |-> "Primary", consecutive_failures |-> 0,
                        primary_success_count |-> 0, fallback_activated |-> FALSE,
                        original |-> original, chain |-> <<>>, active |-> NoModel,
                        switched_at |-> "None"],
                      request = NoModel, streak = 0
               PROVE  IInv
  BY DEF BreakerInit
<1>2. <<>> \in Seq(Entry) /\ FirstUsable(<<>>) = NoModel
  BY DEF FirstUsable, Usable
<1>3. 0 < AtLeastOne(TripThreshold)
  BY ConfigAssumption DEF AtLeastOne
<1>4. breaker \in State
  BY <1>1, <1>2, ModelAssumption DEF State
<1>5. QED
  BY <1>1, <1>2, <1>3, <1>4 DEF IInv, Good, InStep, CountsBelow

\* One step per action.
LEMMA InvNext == IInv /\ [BreakerNext]_breakerVars => IInv'
<1> SUFFICES ASSUME Good(breaker), InStep, [BreakerNext]_breakerVars PROVE IInv'
  BY DEF IInv
<1>a. /\ breaker \in State /\ breaker.chain \in Seq(Entry) /\ Len(breaker.chain) \in Nat
      /\ breaker.state \in {"Primary", "Fallback", "Recovering"}
      /\ breaker.active \in Model \cup {NoModel} /\ breaker.original \in Model \cup {NoModel}
      /\ breaker.primary_success_count \in Nat
  BY DEF Good, State
<1>b. ClientModel \in Model /\ NoModel \notin Model /\ MaxChain \in Nat /\ MaxFailCount \in Nat
  BY ModelAssumption, ConfigAssumption
<1>1. CASE Ask
  <2> DEFINE b == Resumed
  <2>1. /\ Good(b)
        /\ b.state = "Recovering" /\ breaker.state # "Recovering" => b.primary_success_count = 0
        /\ b.state = breaker.state => b = breaker
    BY <1>a, TransitionsGood DEF Resumed, ShouldTryResumePrimary
  <2>2. b.active \in Model \cup {NoModel} /\ b.original \in Model \cup {NoModel}
        /\ b.state \in {"Primary", "Fallback", "Recovering"}
    BY <2>1 DEF Good, State
  <2>3. /\ breaker' = b
        /\ request' = CASE ChainExhausted(b) -> NoModel
                        [] ~ChainExhausted(b) /\ ActiveModel(b) # NoModel -> ActiveModel(b)
                        [] OTHER -> ClientModel
        /\ streak' = IF b.state = breaker.state THEN streak ELSE 0
    BY <1>1 DEF Ask
  <2> HIDE DEF b
  <2>4. request' \in Model \cup {NoModel}
        /\ (request' # NoModel /\ b.state = "Fallback" => request' = b.active)
    BY <1>b, <2>2, <2>3 DEF ChainExhausted, ActiveModel
  <2>5. streak' \in Nat /\ (b.state = "Recovering" => b.primary_success_count <= streak')
    BY <2>1, <2>3 DEF InStep
  <2>6. QED
    BY <2>1, <2>3, <2>4, <2>5 DEF IInv, InStep
<1>2. CASE Served
  <2>1. Good(breaker') /\ request' = NoModel /\ streak' \in Nat
    BY <1>2, RecordSuccessGood DEF Served, InStep
  <2>2. breaker'.state = "Recovering" => breaker'.primary_success_count <= streak'
    BY <1>2, <1>a, RecordSuccessGood DEF Served, InStep
  <2>3. QED
    BY <2>1, <2>2 DEF IInv, InStep
<1>3. CASE NotServed
  <2>1. PICK kind \in {"Transient", "RateLimit"} :
          breaker' = IF Blame(breaker, RecordFailure(breaker, kind))
                        /\ RecordFailure(breaker, kind).active # NoModel
                     THEN MarkFailed(RecordFailure(breaker, kind), RecordFailure(breaker, kind).active)
                     ELSE RecordFailure(breaker, kind)
    BY <1>3 DEF NotServed
  <2> DEFINE c == RecordFailure(breaker, kind)
  <2>2. Good(c) /\ (breaker.state = "Fallback" => c = breaker)
        /\ (c.state = "Recovering" => c.primary_success_count = 0)
    BY RecordFailureGood
  <2>3. request' = NoModel /\ streak' = 0
    BY <1>3 DEF NotServed
  <2>4. CASE Blame(breaker, c) /\ c.active # NoModel
    <3>1. c.active \in Model /\ c.state = "Fallback"
      BY <1>a, <2>2, <2>4 DEF Blame
    <3>2. breaker' = MarkFailed(c, c.active)
      BY <2>1, <2>4
    <3> HIDE DEF c
    <3>3. Good(breaker') /\ breaker'.state = "Fallback"
      BY <2>2, <3>1, <3>2, JudgeGood
    <3>4. QED
      BY <2>3, <3>3 DEF IInv, InStep
  <2>5. CASE ~(Blame(breaker, c) /\ c.active # NoModel)
    <3>1. breaker' = c
      BY <2>1, <2>5
    <3>2. QED
      BY <2>2, <2>3, <3>1 DEF IInv, InStep
  <2>6. QED
    BY <2>4, <2>5
<1>4. CASE Cancelled
  BY <1>4 DEF Cancelled, IInv, InStep
<1>5. CASE Cooldown
  <2>1. breaker' = [breaker EXCEPT !.switched_at = "LongAgo"] /\ UNCHANGED <<request, streak>>
    BY <1>5 DEF Cooldown
  <2>2. /\ breaker' \in State /\ breaker'.chain = breaker.chain /\ breaker'.active = breaker.active
        /\ breaker'.state = breaker.state
        /\ breaker'.consecutive_failures = breaker.consecutive_failures
        /\ breaker'.primary_success_count = breaker.primary_success_count
    BY <1>a, <2>1 DEF State
  <2>3. QED
    BY <2>1, <2>2 DEF IInv, Good, InStep, CountsBelow
\* The host's calls find no request in flight; those that do not move the state
\* of the breaker leave the recovery count alone.
<1>c. ASSUME Good(breaker'), request = NoModel, UNCHANGED <<request, streak>>,
             breaker'.state = breaker.state,
             breaker'.primary_success_count = breaker.primary_success_count
      PROVE  IInv'
  BY <1>c DEF IInv, InStep
<1>d. ASSUME NEW d, Good(d), d.state = breaker.state,
             d.primary_success_count = breaker.primary_success_count,
             NEW c \in Seq(Entry)
      PROVE  /\ WithChain(d, c).state = breaker.state /\ Good(WithChain(d, c))
             /\ WithChain(d, c).primary_success_count = breaker.primary_success_count
  <2>1. d \in State
    BY <1>d DEF Good
  <2>2. Good(WithChain(d, c))
    BY <1>d, WithChainGood
  <2>3. /\ WithChain(d, c).state = d.state
        /\ WithChain(d, c).primary_success_count = d.primary_success_count
    BY <2>1 DEF WithChain, State
  <2>4. QED
    BY <1>d, <2>2, <2>3
<1>6. CASE SetOriginal
  <2>1. PICK m \in Model : breaker' = [breaker EXCEPT !.original = m]
    BY <1>6 DEF SetOriginal
  <2>2. /\ breaker' \in State /\ breaker'.chain = breaker.chain /\ breaker'.active = breaker.active
        /\ breaker'.state = breaker.state
        /\ breaker'.consecutive_failures = breaker.consecutive_failures
        /\ breaker'.primary_success_count = breaker.primary_success_count
    BY <1>a, <2>1 DEF State
  <2>3. Good(breaker')
    BY <2>2 DEF Good, CountsBelow
  <2>4. QED
    BY <1>6, <1>c, <2>2, <2>3 DEF SetOriginal, HostActs
<1>7. CASE SetChain
  <2>a. PICK n \in 0..MaxChain : \E names \in [1..n -> Model] :
          breaker' = WithChain(breaker, [i \in 1..n |-> Fresh(names[i])])
    BY <1>7 DEF SetChain
  <2>1. PICK names \in [1..n -> Model] :
          breaker' = WithChain(breaker, [i \in 1..n |-> Fresh(names[i])])
    BY <2>a
  <2>2. [i \in 1..n |-> Fresh(names[i])] \in Seq(Entry)
    <3>1. n \in Nat
      BY <1>b
    <3>2. [i \in 1..n |-> Fresh(names[i])] \in [1..n -> Entry]
      BY DEF Fresh, Entry
    <3>3. QED
      BY <3>1, <3>2
  <2>3. QED
    BY <1>7, <1>c, <1>d, <2>1, <2>2 DEF SetChain, HostActs
<1>8. CASE Insert
  <2>1. PICK m \in Model, k \in 0..Len(breaker.chain) :
          breaker' = WithChain(breaker, Inserted(breaker.chain, k, Fresh(m)))
    BY <1>8 DEF Insert
  <2>2. Fresh(m) \in Entry
    BY DEF Fresh, Entry
  <2>3. Inserted(breaker.chain, k, Fresh(m)) \in Seq(Entry)
    BY <1>a, <2>2, EditedChain
  <2>4. QED
    BY <1>8, <1>c, <1>d, <2>1, <2>3 DEF Insert, HostActs
<1>9. CASE Remove
  <2>1. PICK m \in Model : Named(breaker.chain, m) # {}
          /\ breaker' = WithChain(breaker, Removed(breaker.chain, At(breaker.chain, m)))
    BY <1>9 DEF Remove
  <2>2. At(breaker.chain, m) \in 1..Len(breaker.chain)
    BY <1>a, <2>1, AtNamed
  <2>3. Removed(breaker.chain, At(breaker.chain, m)) \in Seq(Entry)
    BY <1>a, <2>2, EditedChain
  <2>4. QED
    BY <1>9, <1>c, <1>d, <2>1, <2>3 DEF Remove, HostActs
<1>10. CASE Judge
  <2>1. \/ breaker' = ClearAll(breaker)
        \/ \E m \in Model, available \in BOOLEAN :
             \/ breaker' = MarkFailed(breaker, m)
             \/ breaker' = ClearFailed(breaker, m)
             \/ breaker' = SetAvailable(breaker, m, available)
    BY <1>10 DEF Judge
  <2>2. Good(breaker') /\ breaker'.state = breaker.state
    BY <2>1, ClearAllGood, JudgeGood
  <2>3. breaker'.primary_success_count = breaker.primary_success_count
    BY <1>a, <2>1 DEF ClearAll, MarkFailed, ClearFailed, SetAvailable, Put, WithChain, State
  <2>4. QED
    BY <1>10, <1>c, <2>2, <2>3 DEF Judge, HostActs
<1>11. CASE Transition
  <2>1. Good(breaker') /\ (breaker'.state = "Recovering" => breaker'.primary_success_count = 0)
    BY <1>11, TransitionsGood DEF Transition
  <2>2. request = NoModel /\ request' = request /\ streak' = 0
    BY <1>11 DEF Transition
  <2>3. QED
    BY <2>1, <2>2 DEF IInv, InStep
<1>12. CASE Forgive
  <2>1. breaker' = [breaker EXCEPT !.consecutive_failures = 0]
    BY <1>12 DEF Forgive
  <2>2. /\ breaker' \in State /\ breaker'.chain = breaker.chain /\ breaker'.active = breaker.active
        /\ breaker'.state = breaker.state /\ breaker'.consecutive_failures = 0
        /\ breaker'.primary_success_count = breaker.primary_success_count
    BY <1>a, <2>1 DEF State
  <2>3. 0 < AtLeastOne(TripThreshold)
    BY ConfigAssumption DEF AtLeastOne
  <2>4. Good(breaker')
    BY <2>2, <2>3 DEF Good, CountsBelow
  <2>5. QED
    BY <1>12, <1>c, <2>2, <2>4 DEF Forgive, HostActs
<1>13. CASE UNCHANGED breakerVars
  BY <1>13 DEF breakerVars, IInv, InStep
<1>14. QED
  BY <1>1, <1>2, <1>3, <1>4, <1>5, <1>6, <1>7, <1>8, <1>9, <1>10, <1>11, <1>12, <1>13
  DEF BreakerNext, Driver, Host

-----------------------------------------------------------------------------
(* Theorems. *)

\* The invariant holds of every reachable state.
THEOREM AlwaysGood == BreakerSpec => []IInv
<1>1. QED
  BY InvInit, InvNext, PTL DEF BreakerSpec

\* The manager's record and the request keep their types.
THEOREM TypeCorrect == BreakerSpec => []BreakerTypeOK
<1>1. IInv => BreakerTypeOK
  BY DEF IInv, Good, InStep, BreakerTypeOK
<1>2. QED
  BY AlwaysGood, <1>1, PTL

\* Requests always fall back to the first model of the chain that can serve.
THEOREM ActiveAlwaysFirstUsable == BreakerSpec => []ActiveIsFirstUsable
<1>1. IInv => ActiveIsFirstUsable
  BY DEF IInv, Good, ActiveIsFirstUsable
<1>2. QED
  BY AlwaysGood, <1>1, PTL

\* No failure that trips the breaker, and no success that closes it, is missed.
THEOREM CountsAlwaysStayBelow == BreakerSpec => []CountsStayBelow
<1>1. IInv => CountsStayBelow
  BY DEF IInv, Good, CountsStayBelow
<1>2. QED
  BY AlwaysGood, <1>1, PTL

\* A primary in recovery is trusted again only after the probes asked for, in a row.
THEOREM ClosesOnlyAfterAStreak == BreakerSpec => ClosesAfterAStreak
<1>1. IInv /\ [BreakerNext]_breakerVars =>
        [request # NoModel /\ breaker.state = "Recovering" /\ breaker'.state = "Primary"
         => streak + 1 >= RecoverySuccessesNeeded]_breakerVars
  <2> SUFFICES ASSUME IInv, BreakerNext, request # NoModel, breaker.state = "Recovering",
                      breaker'.state = "Primary"
               PROVE  streak + 1 >= RecoverySuccessesNeeded
    BY DEF breakerVars
  <2>1. /\ Good(breaker) /\ breaker.primary_success_count <= streak /\ streak \in Nat
        /\ breaker.primary_success_count \in Nat /\ RecoverySuccessesNeeded \in Nat
        /\ breaker \in State
    BY ConfigAssumption DEF IInv, InStep, Good, State
  <2>2. CASE Served
    BY <2>1, <2>2, RecordSuccessGood DEF Served
  <2>3. CASE NotServed
    <3>1. PICK kind \in {"Transient", "RateLimit"} : breaker' = RecordFailure(breaker, kind)
      BY <2>3 DEF NotServed, Blame
    <3>2. RecordFailure(breaker, kind).state # "Primary"
      BY <2>1 DEF RecordFailure, FailedProbe, TripIfDue, CountFailure, ToFallback, State
    <3>3. QED
      BY <3>1, <3>2
  <2>4. CASE Cooldown
    BY <2>1, <2>4 DEF Cooldown, State
  <2>5. QED
    BY <2>2, <2>3, <2>4 DEF BreakerNext, Driver, Host, Ask, Cancelled, SetOriginal, SetChain, Insert,
                             Remove, Judge, Transition, Forgive, HostActs
<1>2. QED
  BY AlwaysGood, <1>1, PTL DEF BreakerSpec, ClosesAfterAStreak

\* A failure is put down to the model that served the request, and to no other:
\* not to a fallback the failure itself brought in.
THEOREM OnlyTheServerIsEverBlamed == BreakerSpec => OnlyTheServerIsBlamed
<1>1. IInv /\ [BreakerNext]_breakerVars =>
        [request # NoModel =>
           \A i \in 1..Len(breaker.chain) :
             breaker'.chain[i].attempts > breaker.chain[i].attempts
             => breaker.chain[i].name = request]_breakerVars
  <2> SUFFICES ASSUME IInv, BreakerNext, request # NoModel, NEW i \in 1..Len(breaker.chain),
                      breaker'.chain[i].attempts > breaker.chain[i].attempts
               PROVE  breaker.chain[i].name = request
    BY DEF breakerVars
  <2>1. /\ Good(breaker) /\ breaker \in State /\ breaker.chain \in Seq(Entry)
        /\ breaker.state = "Fallback" => request = breaker.active
    BY DEF IInv, InStep, Good, State
  <2>2. breaker.chain[i] \in Entry
    BY <2>1
  <2>3. breaker.chain[i].attempts \in Nat
    BY <2>2 DEF Entry
  <2>4. CASE Served
    <3>1. breaker' = ToPrimary(CountSuccess(breaker))
      BY <2>1, <2>3, <2>4, RecordSuccessGood DEF Served
    <3>2. ToPrimary(CountSuccess(breaker)).chain
            = [j \in 1..Len(breaker.chain) |-> [breaker.chain[j] EXCEPT !.attempts = 0]]
      BY <2>1 DEF ToPrimary, CountSuccess, ClearAll, WithChain, State
    <3>3. breaker'.chain[i].attempts = 0
      BY <2>2, <3>1, <3>2 DEF Entry
    <3>4. QED
      BY <2>3, <3>3
  <2>5. CASE NotServed
    <3>1. PICK kind \in {"Transient", "RateLimit"} :
            breaker' = IF Blame(breaker, RecordFailure(breaker, kind))
                          /\ RecordFailure(breaker, kind).active # NoModel
                       THEN MarkFailed(RecordFailure(breaker, kind), RecordFailure(breaker, kind).active)
                       ELSE RecordFailure(breaker, kind)
      BY <2>5 DEF NotServed
    <3>2. RecordFailure(breaker, kind).chain = breaker.chain
          /\ (breaker.state = "Fallback" => RecordFailure(breaker, kind) = breaker)
      BY <2>1, RecordFailureGood
    <3>3. breaker.state = "Fallback" /\ breaker' = MarkFailed(breaker, request)
      BY <2>1, <2>3, <3>1, <3>2 DEF Blame
    <3>4. Named(breaker.chain, request) # {}
      BY <2>1, <2>3, <3>3 DEF MarkFailed, Put
    <3>5. breaker'.chain = [breaker.chain EXCEPT ![At(breaker.chain, request)] =
                              [Found(breaker, request) EXCEPT !.attempts = CountedAttempts(@)]]
      BY <2>1, <3>3, <3>4 DEF MarkFailed, Put, WithChain, State
    <3>6. request \in Model
      BY DEF IInv, InStep
    <3>7. breaker.chain[At(breaker.chain, request)].name = request
      BY <2>1, <3>4, <3>6, AtNamed
    <3>8. CASE i = At(breaker.chain, request)
      BY <3>7, <3>8
    <3>9. CASE i # At(breaker.chain, request)
      <4>1. breaker'.chain[i] = breaker.chain[i]
        BY <2>1, <3>5, <3>9
      <4>2. QED
        BY <2>3, <4>1
    <3>10. QED
      BY <3>8, <3>9
  <2>6. CASE Cooldown
    BY <2>1, <2>3, <2>6 DEF Cooldown, State
  <2>7. CASE Cancelled
    BY <2>3, <2>7 DEF Cancelled
  <2>8. QED
    BY <2>4, <2>5, <2>6, <2>7 DEF BreakerNext, Driver, Host, Ask, SetOriginal, SetChain, Insert,
                                  Remove, Judge, Transition, Forgive, HostActs
<1>2. QED
  BY AlwaysGood, <1>1, PTL DEF BreakerSpec, OnlyTheServerIsBlamed
=============================================================================
