--------------------------- MODULE BareLoopProofs ---------------------------
(***************************************************************************)
(* The driver and the machine together: whatever the provider, the tools,  *)
(* the compactor and the host do, the driver calls the machine's methods   *)
(* only where they are sound, brackets its turns, sends what it has        *)
(* weighed and assembled, retries a bounded number of times, and keeps the *)
(* session's promise.                                                      *)
(***************************************************************************)
EXTENDS BareLoop, LoopMachineProofs, FunctionTheorems

(* What the driver knows of the machine at each await. *)

Guidance(ms) == \A i \in 1..Len(ms) : ms[i].calls = {} /\ ms[i].results = {}

TraceSet == [run : Nat, attempts : Nat, open : BOOLEAN, accepted : [Steers -> Nat],
             handed : SUBSET Text, said : SUBSET Text]

AtAwait ==
  /\ pc \in {"resolve", "arm"} => machine.state = "Start"
  /\ pc \in {"assemble", "model"} =>
       machine.state = "AwaitingModel" /\ machine.turns_taken < RunPolicy.max_turns
  /\ pc = "model" => driver.request \in Request
  /\ pc = "tools" => machine.state = "AwaitingTools"
  /\ pc = "compact" => machine.state = "AwaitingCompaction"
  /\ pc = "followup" => machine.outcome = "Completed"
  /\ pc = "finalize" =>
       machine.state = "Terminal" /\ (driver.error = "None" => machine.outcome = "Completed")
  /\ pc \notin {"idle", "finalize", "consolidate"} => ~machine.cancelled

DriverSound ==
  /\ LoopTypeOK /\ trace \in TraceSet /\ Guidance(steering.waiting)
  /\ Sound(machine) /\ AtAwait

-----------------------------------------------------------------------------
(* What each method leaves as it is. *)

SameTalk(m, n) == n.history = m.history /\ n.pending = m.pending

\* The next step depends on the figures alone, and the model is only asked below
\* the emergency line.
LEMMA NextStepFrame ==
  ASSUME NEW m, Sound(m), NEW p \in Policies
  PROVE  LET n == NextStep(m, p) IN
         /\ SameTalk(m, n) /\ n.turns_taken = m.turns_taken
         /\ n.context_tokens = m.context_tokens /\ n.cancelled = m.cancelled
         /\ m.state = "Terminal" => n = m
         /\ m.state = "AwaitingTools" /\ ~m.cancelled => n = m
         /\ m.state = "AwaitingCompaction" /\ ~m.cancelled => n = m
         /\ m.state # "Terminal" /\ m.cancelled => n.state = "Terminal" /\ n.outcome = "Cancelled"
         /\ m.state \in {"Start", "AwaitingModel"} /\ ~m.cancelled =>
              /\ n.state \in {"AwaitingModel", "AwaitingCompaction", "Terminal"}
              /\ n.state = "Terminal" => n.outcome = "MaxTurnsExceeded"
              /\ m.turns_taken < p.max_turns => n.state # "Terminal"
              /\ n.state = "AwaitingModel" =>
                   /\ m.turns_taken < p.max_turns /\ ~IsEmergency(m, p)
                   /\ n.turn = IF m.state = "AwaitingModel" THEN m.turn ELSE m.turns_taken
<1> DEFINE n == NextStep(m, p)
<1>1. /\ m \in Machine /\ m.turns_taken \in Nat /\ p.max_turns \in Nat
      /\ m.cancelled \in BOOLEAN /\ m.state \in States
  BY PoliciesAssumption DEF Sound, Machine
<1>2. CASE IsTerminal(m)
  BY <1>1, <1>2 DEF NextStep, SameTalk, IsTerminal
<1>3. CASE ~IsTerminal(m) /\ m.cancelled
  <2>1. n = Terminate(m, "Cancelled")
    BY <1>3 DEF NextStep
  <2>2. QED
    BY <2>1, <1>1, <1>3 DEF SameTalk, IsTerminal, Terminate, Enter, Machine
<1>4. CASE ~IsTerminal(m) /\ ~m.cancelled /\ ~AsksModel(m)
  <2>1. n = m
    BY <1>4 DEF NextStep
  <2>2. QED
    BY <2>1, <1>1, <1>4 DEF SameTalk, IsTerminal, AsksModel
<1>5. CASE ~IsTerminal(m) /\ ~m.cancelled /\ AsksModel(m)
  <2>1. n = RequestModel(m, p) /\ m.state \in {"Start", "AwaitingModel"}
    BY <1>5 DEF NextStep, AsksModel
  <2>2. m.turns_taken < p.max_turns <=> ~(m.turns_taken >= p.max_turns)
    BY <1>1
  <2>3. CASE m.turns_taken >= p.max_turns
    <3>1. n = Terminate(m, "MaxTurnsExceeded")
      BY <2>1, <2>2, <2>3 DEF RequestModel
    <3>2. QED
      BY <3>1, <1>1, <1>5, <2>1, <2>2, <2>3 DEF SameTalk, IsTerminal, Terminate, Enter, Machine
  <2>4. CASE m.turns_taken < p.max_turns /\ IsEmergency(m, p)
    <3>1. n = AwaitCompaction(m, "Emergency")
      BY <2>1, <2>2, <2>4 DEF RequestModel
    <3>2. QED
      BY <3>1, <1>1, <1>5, <2>1 DEF SameTalk, IsTerminal, AwaitCompaction, Enter, Machine
  <2>5. CASE /\ m.turns_taken < p.max_turns /\ ~IsEmergency(m, p)
             /\ p.auto_compact /\ ~m.deferred_compaction /\ ShouldCompact(m, p)
    <3>1. n = AwaitCompaction(m, "ThresholdExceeded")
      BY <2>1, <2>2, <2>5 DEF RequestModel
    <3>2. QED
      BY <3>1, <1>1, <1>5, <2>1 DEF SameTalk, IsTerminal, AwaitCompaction, Enter, Machine
  <2>6. CASE /\ m.turns_taken < p.max_turns /\ ~IsEmergency(m, p)
             /\ ~(p.auto_compact /\ ~m.deferred_compaction /\ ShouldCompact(m, p))
    <3> DEFINE k == IF m.state = "AwaitingModel" THEN m.turn ELSE m.turns_taken
           r == [Enter(m, "AwaitingModel") EXCEPT !.turn = k]
    <3>1. NextStep(m, p) = r
      BY <2>1, <2>2, <2>6 DEF RequestModel
    <3>2. /\ SameTalk(m, r) /\ r.turns_taken = m.turns_taken /\ r.state = "AwaitingModel"
          /\ r.context_tokens = m.context_tokens /\ r.cancelled = m.cancelled /\ r.turn = k
      BY <1>1 DEF SameTalk, Enter, Machine
    <3> HIDE DEF r
    <3>3. QED
      BY <3>1, <3>2, <1>5, <2>1, <2>6 DEF IsTerminal
  <2>7. QED
    BY <2>2, <2>3, <2>4, <2>5, <2>6
<1>6. QED
  BY <1>2, <1>3, <1>4, <1>5

\* Setting the figure changes nothing else.
LEMMA SetFrame ==
  ASSUME NEW m, Sound(m), m.state # "Terminal", NEW k \in Nat
  PROVE  LET n == SetContextTokens(m, k) IN
         /\ Sound(n) /\ SameTalk(m, n) /\ n.turns_taken = m.turns_taken
         /\ n.cancelled = m.cancelled /\ n.state = m.state /\ n.turn = m.turn
         /\ n.context_tokens = k
<1>1. Sound(SetContextTokens(m, k))
  BY SettersSound
<1>2. m \in Machine
  BY DEF Sound
<1>3. SetContextTokens(m, k) = [m EXCEPT !.context_tokens = k]
  BY DEF SetContextTokens, IsTerminal
<1>4. QED
  BY <1>1, <1>2, <1>3 DEF Machine, SameTalk

\* A run that breaks off keeps what was said, and is terminal.
LEMMA BrokenFrame ==
  ASSUME NEW m, Sound(m), NEW e \in Errors
  PROVE  LET n == Broken(m, e) IN
         /\ Sound(n) /\ SameTalk(m, n) /\ n.turns_taken = m.turns_taken
         /\ n.state = "Terminal"
<1>1. m \in Machine /\ m.cancelled \in BOOLEAN
  BY DEF Sound, Machine
<1>2. CASE e = "Cancelled"
  <2> DEFINE c == Cancel(m)
  <2>1. Sound(c)
    BY SettersSound, 0 \in Nat
  <2>2. /\ SameTalk(m, c) /\ c.turns_taken = m.turns_taken /\ c.cancelled
    BY <1>1 DEF Cancel, SameTalk, Machine
  <2>3. Broken(m, e) = NextStep(c, RunPolicy)
    BY <1>2 DEF Broken
  <2> HIDE DEF c
  <2>4. Sound(NextStep(c, RunPolicy))
    BY <2>1, NextStepSound, RunPolicyAssumption
  <2>5. LET n == NextStep(c, RunPolicy) IN
        SameTalk(c, n) /\ n.turns_taken = c.turns_taken /\ n.state = "Terminal"
    BY <2>1, <2>2, NextStepFrame, RunPolicyAssumption
  <2>6. QED
    BY <2>2, <2>3, <2>4, <2>5 DEF SameTalk
<1>3. CASE e # "Cancelled"
  <2>1. Broken(m, e) = Fail(m, "Failed")
    BY <1>3 DEF Broken
  <2>2. Sound(Fail(m, "Failed"))
    BY SettersSound, 0 \in Nat
  <2>3. QED
    BY <1>1, <2>1, <2>2 DEF Fail, IsTerminal, Terminate, Enter, Machine, SameTalk
<1>4. QED
  BY <1>2, <1>3

-----------------------------------------------------------------------------
(* Figures are numbers. *)

LEMMA RawType == ASSUME NEW s \in Conversation PROVE Raw(s) \in Nat
<1>1. Len(s) \in Nat
  BY DEF Conversation
<1>2. Outputs(s) \in SUBSET (1..Len(s))
  BY DEF Outputs
<1>3. Cardinality(Outputs(s)) \in Nat
  <2>1. IsFiniteSet(1..Len(s))
    BY <1>1, FS_Interval
  <2>2. QED
    BY <1>2, <2>1, FS_Subset, FS_CardinalityType
<1>4. Light \in Nat /\ Heavy \in Nat
  BY SizesAssumption
<1>5. QED
  BY <1>1, <1>3, <1>4 DEF Raw

LEMMA ApplyType == ASSUME NEW n \in Nat PROVE Apply(n) \in Nat
<1>1. Ratio \in Nat
  BY RatioAssumption
<1>2. n * Ratio \in Nat
  BY <1>1
<1>3. \A k \in Nat : k \div 1000 \in Nat
  OBVIOUS
<1>4. QED
  BY <1>2, <1>3 DEF Apply

LEMMA FigureType ==
  ASSUME NEW a \in Anchor \cup {None}, NEW n \in Nat
  PROVE  Figure(a, n) \in Nat
<1>1. CASE a = None
  BY <1>1, ApplyType DEF Figure
<1>2. CASE a # None
  <2>1. a.input \in Nat /\ a.raw \in Nat
    BY <1>2 DEF Anchor
  <2>2. Above(n, a.raw) \in Nat
    BY <2>1 DEF Above
  <2>3. Apply(Above(n, a.raw)) \in Nat
    BY <2>2, ApplyType
  <2>4. QED
    BY <1>2, <2>1, <2>3 DEF Figure
<1>3. QED
  BY <1>1, <1>2

LEMMA FullType ==
  ASSUME NEW m, Sound(m)
  PROVE  /\ m \in Machine /\ m.history \in Conversation /\ m.pending \in Conversation
         /\ FullHistory(m) \in Conversation
BY ConcatConversation DEF Sound, Machine, FullHistory

LEMMA PayloadType ==
  ASSUME NEW m, Sound(m), NEW k \in Nat
  PROVE  Payload(m, k) \in Nat
<1>1. Raw(FullHistory(m)) \in Nat
  BY FullType, RawType
<1>2. Overhead \in Nat
  BY SizesAssumption
<1>3. QED
  BY <1>1, <1>2 DEF Payload

\* Weighing a feed tells the machine its figure and nothing else.
LEMMA MeasuredFrame ==
  ASSUME NEW m, Sound(m), m.state # "Terminal", NEW d \in DriverSet, NEW k \in Transients
  PROVE  LET n == Measured(m, d, k) IN
         /\ Sound(n) /\ SameTalk(m, n) /\ n.turns_taken = m.turns_taken
         /\ n.cancelled = m.cancelled /\ n.state = m.state /\ n.turn = m.turn
         /\ n.context_tokens = Figure(d.anchor, Payload(m, k))
<1>1. k \in Nat /\ d.anchor \in Anchor \cup {None}
  BY SizesAssumption DEF DriverSet
<1>2. Figure(d.anchor, Payload(m, k)) \in Nat
  BY <1>1, PayloadType, FigureType
<1>3. QED
  BY <1>2, SetFrame DEF Measured

LEMMA PreparationsType ==
  ASSUME NEW m, Sound(m), NEW turn \in Nat, NEW p \in Preparations(m, turn)
  PROVE  p \in Prepared /\ p.basis = FullHistory(m) /\ p.tokens \in Transients
BY FullType DEF Preparations, Prepared

\* What is taken for a turn is the stash, or what was made for it.
LEMMA TakenType ==
  ASSUME NEW m, Sound(m), NEW d \in DriverSet, NEW x \in Taken(m, d)
  PROVE  /\ x.d \in DriverSet /\ x.d.prepared = None
         /\ x.p \in Prepared /\ x.p.tokens \in Transients
         /\ x.p.basis = FullHistory(m) \/ (d.prepared # None /\ x.p = d.prepared)
         /\ x.d.anchor \in {d.anchor, None}
         /\ x.d.target = d.target
         /\ x.d.overflow_retry = d.overflow_retry /\ x.d.truncation_retry = d.truncation_retry
<1>1. m.turn \in Nat
  BY DEF Sound, Machine
<1>2. CASE d.prepared # None /\ d.prepared.turn = m.turn
  <2>1. x = [d |-> [d EXCEPT !.prepared = None], p |-> d.prepared]
    BY <1>2 DEF Taken
  <2>2. d.prepared \in Prepared
    BY <1>2 DEF DriverSet
  <2>3. d.prepared.tokens \in Transients
    BY <2>2 DEF Prepared
  <2>4. QED
    BY <2>1, <2>2, <2>3, <1>2 DEF DriverSet
<1>3. CASE ~(d.prepared # None /\ d.prepared.turn = m.turn)
  <2>1. PICK p \in Preparations(m, m.turn), changed \in Switches :
           x = [d |-> Unanchored([d EXCEPT !.prepared = None], changed), p |-> p]
    BY <1>3 DEF Taken
  <2>2. p \in Prepared /\ p.basis = FullHistory(m) /\ p.tokens \in Transients
    BY <1>1, PreparationsType
  <2>3. QED
    BY <2>1, <2>2 DEF DriverSet, Unanchored
<1>4. QED
  BY <1>2, <1>3

\* A report arms the anchor on the request it is about.
LEMMA AnchoredType ==
  ASSUME DriverSound, pc = "model",
         NEW input \in Reports(Payload(machine, driver.request.tokens))
  PROVE  LET d == Anchored(driver, machine, input) IN
         /\ d \in DriverSet
         /\ \/ d.anchor = driver.anchor
            \/ d.anchor.feed = FullHistory(machine) /\ d.anchor.run = trace.run
         /\ d.prepared = driver.prepared /\ d.target = driver.target
         /\ d.overflow_retry = driver.overflow_retry
         /\ d.truncation_retry = driver.truncation_retry
<1>1. /\ driver \in DriverSet /\ Sound(machine) /\ trace.run \in Nat
      /\ driver.request.tokens \in Nat
  BY SizesAssumption DEF DriverSound, LoopTypeOK, TraceSet, AtAwait, Request
<1>2. Payload(machine, driver.request.tokens) \in Nat /\ FullHistory(machine) \in Conversation
  BY <1>1, PayloadType, FullType
<1>3. input \in Nat
  <2>1. \A k \in Skews : k \in Nat
    BY SizesAssumption
  <2>2. QED
    BY <1>2, <2>1 DEF Reports
<1>4. CASE input = 0
  BY <1>1, <1>4 DEF Anchored
<1>5. CASE input # 0
  <2> DEFINE a == [input |-> input, raw |-> Payload(machine, driver.request.tokens),
                   feed |-> FullHistory(machine), run |-> trace.run]
  <2>1. a \in Anchor /\ a.feed = FullHistory(machine) /\ a.run = trace.run
    BY <1>1, <1>2, <1>3 DEF Anchor
  <2>2. Anchored(driver, machine, input) = [driver EXCEPT !.anchor = a]
    BY <1>5 DEF Anchored
  <2> HIDE DEF a
  <2>3. QED
    BY <1>1, <2>1, <2>2 DEF DriverSet
<1>6. QED
  BY <1>4, <1>5

-----------------------------------------------------------------------------
(* What the driver's helpers come to. *)

\* Nothing was said, and no turn was taken.
Still(m, n) == SameTalk(m, n) /\ n.turns_taken = m.turns_taken

LEMMA FailRunKeeps ==
  ASSUME DriverSound, NEW m, Sound(m), NEW d \in DriverSet,
         NEW e \in Errors \ {"None"}, FailRun(m, d, e),
         signal' \in BOOLEAN, steering' \in Slots, Guidance(steering'.waiting), trace' \in TraceSet
  PROVE  /\ DriverSound' /\ Still(m, machine') /\ machine'.state = "Terminal"
         /\ pc' = "finalize" /\ driver' = [d EXCEPT !.error = e, !.request = None]
<1>1. machine' = Broken(m, e) /\ pc' = "finalize" /\ driver' = [d EXCEPT !.error = e, !.request = None]
  BY DEF FailRun
<1>2. Sound(machine') /\ Still(m, machine') /\ machine'.state = "Terminal"
  BY <1>1, BrokenFrame DEF Still
<1>3. driver' \in DriverSet /\ driver'.error = e /\ pc' \in Awaits
  BY <1>1 DEF DriverSet, Awaits
<1>4. AtAwait'
  BY <1>1, <1>2, <1>3 DEF AtAwait
<1>5. QED
  BY <1>1, <1>2, <1>3, <1>4 DEF DriverSound, LoopTypeOK, Sound

LEMMA ArmTurnKeeps ==
  ASSUME DriverSound, NEW m, Sound(m), m.state = "Start", ~m.cancelled, NEW turn \in Nat,
         ArmTurn(m, turn), UNCHANGED <<signal, steering>>, trace' \in TraceSet
  PROVE  /\ DriverSound' /\ Still(m, machine') /\ machine'.state = "Start" /\ pc' = "step"
         /\ driver'.prepared.basis = FullHistory(machine')
         /\ driver'.anchor \in {driver.anchor, None} /\ driver'.target = driver.target
         /\ driver'.overflow_retry = driver.overflow_retry
         /\ driver'.truncation_retry = driver.truncation_retry
<1>1. PICK p \in Preparations(m, turn), changed \in Switches :
         LET d == Unanchored(driver, changed) IN
         /\ machine' = Measured(m, d, p.tokens)
         /\ driver' = [d EXCEPT !.prepared = p, !.request = None]
         /\ pc' = "step"
  BY DEF ArmTurn
<1>2. p \in Prepared /\ p.basis = FullHistory(m) /\ p.tokens \in Transients
  BY PreparationsType
<1> DEFINE d == Unanchored(driver, changed)
<1>3. /\ d \in DriverSet /\ d.anchor \in {driver.anchor, None} /\ d.target = driver.target
      /\ d.overflow_retry = driver.overflow_retry /\ d.truncation_retry = driver.truncation_retry
  BY DEF DriverSound, LoopTypeOK, DriverSet, Unanchored
<1>4. machine' = Measured(m, d, p.tokens) /\ pc' = "step"
      /\ driver' = [d EXCEPT !.prepared = p, !.request = None]
  BY <1>1
<1> HIDE DEF d
<1>5. /\ Sound(machine') /\ SameTalk(m, machine') /\ machine'.turns_taken = m.turns_taken
      /\ machine'.cancelled = m.cancelled /\ machine'.state = "Start"
  BY <1>2, <1>3, <1>4, MeasuredFrame
<1>6. FullHistory(machine') = FullHistory(m)
  BY <1>5 DEF SameTalk, FullHistory
<1>7. /\ driver' \in DriverSet /\ driver'.prepared = p /\ driver'.anchor = d.anchor
      /\ driver'.target = d.target /\ driver'.overflow_retry = d.overflow_retry
      /\ driver'.truncation_retry = d.truncation_retry
  BY <1>2, <1>3, <1>4 DEF DriverSet
<1>8. DriverSound'
  <2>1. AtAwait'
    BY <1>4, <1>5 DEF AtAwait
  <2>2. QED
    BY <2>1, <1>4, <1>5, <1>7 DEF DriverSound, LoopTypeOK, Sound, Awaits
<1>9. QED
  BY <1>2, <1>3, <1>4, <1>5, <1>6, <1>7, <1>8 DEF Still

\* A pass that steps aside leaves the conversation.
LEMMA StepAsideFrame ==
  ASSUME NEW m, Sound(m), m.state = "AwaitingCompaction", NEW k \in Nat
  PROVE  LET n == StepAside(m, k) IN
         /\ Sound(n) /\ Still(m, n) /\ n.cancelled = m.cancelled
         /\ n.state \in {"Start", "Terminal"} /\ n.outcome # "Completed"
<1>1. m \in Machine /\ Unanswered(m.pending) = {}
  BY DEF Sound, CallsMatch
<1>2. Sound(CompactionNoop(m, k, k)) /\ Sound(CompactionDeferred(m, k))
  BY <1>1, CompactionNoopSound
<1>3. CompactionNoop(m, k, k) = Terminate(m, "CompactionStalled")
  BY DEF CompactionNoop, IsTerminal
<1>4. CompactionDeferred(m, k) =
        [Enter(m, "Start") EXCEPT !.context_tokens = k, !.deferred_compaction = TRUE]
  BY DEF CompactionDeferred, IsTerminal
<1>5. LET n == CompactionNoop(m, k, k) IN
      /\ Still(m, n) /\ n.cancelled = m.cancelled /\ n.state = "Terminal"
      /\ n.outcome = "CompactionStalled"
  BY <1>1, <1>3 DEF Terminate, Enter, Machine, Still, SameTalk
<1>6. LET n == CompactionDeferred(m, k) IN
      /\ Still(m, n) /\ n.cancelled = m.cancelled /\ n.state = "Start" /\ n.outcome = "None"
  BY <1>1, <1>4 DEF Enter, Machine, Still, SameTalk
<1>7. QED
  BY <1>2, <1>5, <1>6 DEF StepAside

\* A pass that gives something back replaces the conversation.
LEMMA CompactionFrame ==
  ASSUME NEW m, Sound(m), m.state = "AwaitingCompaction", NEW c \in Conversation, Coherent(c),
         NEW b \in Nat, NEW a \in Nat
  PROVE  LET n == CompactionResult(m, c, b, a) IN
         /\ Sound(n) /\ n.turns_taken = m.turns_taken /\ n.cancelled = m.cancelled
         /\ \/ SameTalk(m, n) /\ n.state = "Terminal" /\ n.outcome = "CompactionStalled"
            \/ n.history = Coalesce(c) /\ n.pending = <<>> /\ n.state = "Start" /\ n.outcome = "None"
<1>1. m \in Machine /\ Unanswered(m.pending) = {}
  BY DEF Sound, CallsMatch
<1>2. Sound(CompactionResult(m, c, b, a))
  BY <1>1, CompactionResultSound
<1> DEFINE h == Coalesce(c)
<1>3. CASE a >= b
  <2>1. CompactionResult(m, c, b, a) = Terminate(m, "CompactionStalled")
    BY <1>3 DEF CompactionResult, IsTerminal
  <2>2. QED
    BY <1>1, <1>2, <2>1 DEF Terminate, Enter, Machine, SameTalk
<1>4. CASE ~(a >= b)
  <2>1. CompactionResult(m, c, b, a) =
          [Enter(m, "Start") EXCEPT !.history = h, !.pending = <<>>, !.context_tokens = a]
    BY <1>4 DEF CompactionResult, IsTerminal
  <2> HIDE DEF h
  <2>2. LET n == CompactionResult(m, c, b, a) IN
        /\ n.turns_taken = m.turns_taken /\ n.cancelled = m.cancelled
        /\ n.history = h /\ n.pending = <<>> /\ n.state = "Start" /\ n.outcome = "None"
    BY <1>1, <2>1 DEF Enter, Machine
  <2>3. QED
    BY <1>2, <2>2 DEF h
<1>5. QED
  BY <1>3, <1>4

\* Telling the machine that the window is exceeded says nothing either.
LEMMA OverfullFrame ==
  ASSUME DriverSound, pc = "model"
  PROVE  LET n == Overfull(machine) IN
         /\ Sound(n) /\ Still(machine, n) /\ ~n.cancelled /\ n.outcome # "Completed"
         /\ n.state = "AwaitingModel" => n.turn = machine.turn
<1>1. /\ Sound(machine) /\ machine.state = "AwaitingModel" /\ ~machine.cancelled
  BY DEF DriverSound, AtAwait
<1>2. Window + 1 \in Nat
  BY RunPolicyAssumption, PoliciesAssumption DEF Window
<1> DEFINE m == SetContextTokens(machine, Window + 1)
<1>3. /\ Sound(m) /\ SameTalk(machine, m) /\ m.turns_taken = machine.turns_taken
      /\ m.cancelled = machine.cancelled /\ m.state = machine.state /\ m.turn = machine.turn
  BY <1>1, <1>2, SetFrame
<1>4. Overfull(machine) = NextStep(m, RunPolicy)
  BY DEF Overfull
<1> HIDE DEF m
<1>5. Sound(NextStep(m, RunPolicy))
  BY <1>3, NextStepSound, RunPolicyAssumption
<1>6. LET n == NextStep(m, RunPolicy) IN
      /\ SameTalk(m, n) /\ n.turns_taken = m.turns_taken /\ ~n.cancelled
      /\ n.state \in {"AwaitingModel", "AwaitingCompaction", "Terminal"}
      /\ n.state = "Terminal" => n.outcome = "MaxTurnsExceeded"
      /\ n.state = "AwaitingModel" => n.turn = m.turn
  BY <1>1, <1>3, NextStepFrame, RunPolicyAssumption
<1>7. NextStep(m, RunPolicy).outcome # "Completed"
  BY <1>5, <1>6 DEF Sound
<1>8. QED
  BY <1>3, <1>4, <1>5, <1>6, <1>7 DEF Still, SameTalk

-----------------------------------------------------------------------------
(* Conversations that are joined, split and blanked. *)

LEMMA JoinFull ==
  ASSUME NEW a \in Conversation, NEW b \in Conversation, NEW c \in Conversation
  PROVE  (a \o b) \o c = a \o (b \o c)
<1>1. a \in Seq(Message) /\ b \in Seq(Message) /\ c \in Seq(Message)
  BY DEF Conversation
<1>2. QED
  BY <1>1, ConcatAssociative

LEMMA SplitWhole ==
  ASSUME NEW s \in Conversation, NEW n \in Nat
  PROVE  Take(s, n) \o Drop(s, n) = s
<1>1. s \in Seq(Message) /\ Len(s) \in Nat
  BY DEF Conversation
<1> DEFINE w == Within(s, n)
<1>2. w \in 0..Len(s)
  BY <1>1, SplitProperties
<1>3. 1 \in 1..Len(s)+1 /\ w \in 1-1..Len(s) /\ Len(s) \in w..Len(s)
  BY <1>1, <1>2
<1> HIDE DEF w
<1>4. SubSeq(s, 1, w) \o SubSeq(s, w + 1, Len(s)) = SubSeq(s, 1, Len(s))
  BY <1>1, <1>3, ConcatAdjacentSubSeq
<1>5. SubSeq(s, 1, Len(s)) = s
  BY <1>1, SubSeqFull
<1>6. QED
  BY <1>4, <1>5 DEF w, Take, Drop

\* What stands first in a conversation does so in a longer one.
LEMMA StandsFirstGrows ==
  ASSUME NEW s \in Conversation, NEW t \in Conversation, NEW u \in Conversation,
         StandsFirst(s, t)
  PROVE  StandsFirst(s, t \o u)
<1>1. /\ s \in Seq(Message) /\ t \in Seq(Message) /\ u \in Seq(Message)
      /\ Len(s) \in Nat /\ Len(t) \in Nat /\ Len(u) \in Nat
  BY DEF Conversation
<1>2. Len(s) <= Len(t) /\ SubSeq(t, 1, Len(s)) = s
  BY DEF StandsFirst
<1>3. Len(t \o u) = Len(t) + Len(u)
  BY ConcatConversation
<1>4. CASE Len(s) = 0
  <2>1. SubSeq(t \o u, 1, Len(s)) = <<>>
    BY <1>4, SubSeqEmpty
  <2>2. s = <<>>
    BY <1>1, <1>4
  <2>3. QED
    BY <1>1, <1>2, <1>3, <2>1, <2>2 DEF StandsFirst
<1>5. CASE Len(s) # 0
  <2>1. 1 \in 1..Len(t) /\ Len(s) \in 1..Len(t)
    BY <1>1, <1>2, <1>5
  <2>2. SubSeq(t \o u, 1, Len(s)) = SubSeq(t, 1, Len(s))
    BY <1>1, <2>1, SubSeqOfConcat1
  <2>3. QED
    BY <1>1, <1>2, <1>3, <2>2 DEF StandsFirst
<1>6. QED
  BY <1>4, <1>5

LEMMA StandsFirstSame == ASSUME NEW s \in Conversation PROVE StandsFirst(s, s)
<1>1. s \in Seq(Message) /\ Len(s) \in Nat
  BY DEF Conversation
<1>2. SubSeq(s, 1, Len(s)) = s
  BY <1>1, SubSeqFull
<1>3. QED
  BY <1>1, <1>2 DEF StandsFirst

\* Reclaiming an output does not show once all outputs are blanked.
LEMMA BlankedPruned ==
  ASSUME NEW s \in Conversation, NEW is \in SUBSET Results(s)
  PROVE  Blanked(Pruned(s, is)) = Blanked(s)
<1> DEFINE u == Pruned(s, is)
<1>1. /\ Len(s) \in Nat /\ Len(u) = Len(s)
      /\ \A i \in 1..Len(s) : s[i] \in Message
  BY PrunedSame DEF Conversation
<1>2. \A i \in 1..Len(s) : u[i] = IF i \in is THEN [s[i] EXCEPT !.text = {}] ELSE s[i]
  BY DEF Pruned
<1>3. Results(u) = Results(s)
  <2> HIDE DEF u
  <2>1. \A i \in 1..Len(s) : u[i].results = s[i].results
    BY <1>1, <1>2 DEF Message
  <2>2. QED
    BY <1>1, <2>1 DEF Results
<1> HIDE DEF u
<1>4. ASSUME NEW i \in 1..Len(s)
      PROVE  (IF i \in Results(u) THEN [u[i] EXCEPT !.text = {}] ELSE u[i]) =
             (IF i \in Results(s) THEN [s[i] EXCEPT !.text = {}] ELSE s[i])
  <2>1. CASE i \in is
    <3>1. i \in Results(s) /\ i \in Results(u) /\ s[i] \in Message
      BY <1>1, <1>3, <2>1
    <3>2. [u[i] EXCEPT !.text = {}] = [s[i] EXCEPT !.text = {}]
      BY <1>2, <2>1, <3>1 DEF Message
    <3>3. QED
      BY <3>1, <3>2
  <2>2. CASE i \notin is
    BY <1>2, <1>3, <2>2
  <2>3. QED
    BY <2>1, <2>2
<1>5. Blanked(u) = Blanked(s)
  BY <1>1, <1>4, Zenon DEF Blanked, Pruned
<1>6. QED
  BY <1>5 DEF u

\* Guidance neither calls nor answers.
LEMMA GuidanceOpen ==
  ASSUME NEW ms \in Conversation, Guidance(ms)
  PROVE  NoOrphans(ms) /\ Unanswered(ms) = {}
<1>1. Len(ms) \in Nat
  BY DEF Conversation
<1>2. \A n \in 0..Len(ms) : Open(ms, n) = {}
  BY <1>1 DEF Guidance, Open
<1>3. QED
  BY <1>1, <1>2 DEF NoOrphans, Unanswered, Guidance

LEMMA SaidJoined ==
  ASSUME NEW a \in Conversation, NEW b \in Conversation
  PROVE  Said(a \o b) = Said(a) \cup Said(b)
<1>1. /\ Len(a) \in Nat /\ Len(b) \in Nat /\ Len(a \o b) = Len(a) + Len(b)
      /\ \A i \in 1..(Len(a) + Len(b)) : (a \o b)[i] = IF i <= Len(a) THEN a[i] ELSE b[i - Len(a)]
  <2>1. a \in Seq(Message) /\ b \in Seq(Message)
    BY DEF Conversation
  <2>2. QED
    BY <2>1, ConcatProperties
<1>2. ASSUME NEW x \in Said(a \o b) PROVE x \in Said(a) \cup Said(b)
  <2>1. PICK i \in 1..(Len(a) + Len(b)) : x \in (a \o b)[i].text
    BY <1>1 DEF Said
  <2>2. CASE i <= Len(a)
    BY <1>1, <2>1, <2>2 DEF Said
  <2>3. CASE ~(i <= Len(a))
    <3>1. i - Len(a) \in 1..Len(b) /\ x \in b[i - Len(a)].text
      BY <1>1, <2>1, <2>3
    <3>2. QED
      BY <3>1 DEF Said
  <2>4. QED
    BY <2>2, <2>3
<1>3. ASSUME NEW x \in Said(a) PROVE x \in Said(a \o b)
  <2>1. PICK i \in 1..Len(a) : x \in a[i].text
    BY DEF Said
  <2>2. i \in 1..Len(a \o b) /\ (a \o b)[i] = a[i]
    BY <1>1
  <2>3. QED
    BY <2>1, <2>2 DEF Said
<1>4. ASSUME NEW x \in Said(b) PROVE x \in Said(a \o b)
  <2>1. PICK i \in 1..Len(b) : x \in b[i].text
    BY DEF Said
  <2>2. Len(a) + i \in 1..Len(a \o b) /\ (a \o b)[Len(a) + i] = b[i]
    BY <1>1
  <2>3. QED
    BY <2>1, <2>2 DEF Said
<1>5. QED
  BY <1>2, <1>3, <1>4

LEMMA SaidOne == ASSUME NEW x PROVE Said(<<x>>) = x.text /\ Said(<<>>) = {}
<1>1. Len(<<x>>) = 1 /\ <<x>>[1] = x /\ Len(<<>>) = 0
  OBVIOUS
<1>2. QED
  BY <1>1 DEF Said

LEMMA OnePrompt ==
  ASSUME NEW t \in SUBSET Text
  PROVE  /\ UserText(t) \in Message /\ WellFormed(UserText(t))
         /\ <<UserText(t)>> \in Conversation
         /\ \A s \in Conversation : Append(s, UserText(t)) = s \o <<UserText(t)>>
         /\ Guidance(<<UserText(t)>>) /\ Said(<<UserText(t)>>) = t
<1>1. UserText(t) \in Message /\ WellFormed(UserText(t))
  BY DEF UserText, Message, WellFormed
<1>2. Append(<<>>, UserText(t)) \in Conversation
  BY <1>1, EmptyCoherent, AppendConversation
<1>3. Append(<<>>, UserText(t)) = <<UserText(t)>>
  OBVIOUS
<1>4. \A s \in Conversation : Append(s, UserText(t)) = s \o <<UserText(t)>>
  BY <1>1, AppendIsConcat DEF Conversation
<1>5. Guidance(<<UserText(t)>>)
  BY DEF Guidance, UserText
<1>6. Said(<<UserText(t)>>) = t
  BY SaidOne DEF UserText
<1>7. QED
  BY <1>1, <1>2, <1>3, <1>4, <1>5, <1>6

-----------------------------------------------------------------------------
(* The last moment before a request. *)

\* Guidance drained into the feed is said behind it.
LEMMA InjectAllFrame ==
  ASSUME NEW m, Sound(m), m.state = "AwaitingModel", NEW ms \in Conversation, Guidance(ms)
  PROVE  LET n == InjectAll(m, ms) IN
         /\ Sound(n) /\ n.history = m.history /\ n.pending = m.pending \o ms
         /\ n.turns_taken = m.turns_taken /\ n.state = m.state /\ n.turn = m.turn
         /\ n.cancelled = m.cancelled
<1>1. /\ m \in Machine /\ m.pending \in Conversation /\ m.pending \in Seq(Message)
      /\ ms \in Seq(Message) /\ NoOrphans(m.pending) /\ Unanswered(m.pending) = {}
  BY DEF Sound, Machine, CallsMatch, Conversation
<1> DEFINE q == m.pending \o ms
           n == [m EXCEPT !.pending = q]
<1>2. q \in Conversation /\ NoOrphans(q) /\ Unanswered(q) = {}
  BY <1>1, ConcatConversation, GuidanceOpen, CoherentConcat DEF Coherent
<1>3. InjectAll(m, ms) = n
  BY DEF InjectAll, IsTerminal
<1> HIDE DEF q
<1>4. /\ n \in Machine /\ n.history = m.history /\ n.pending = q
      /\ n.turns_taken = m.turns_taken /\ n.state = m.state /\ n.turn = m.turn
      /\ n.cancelled = m.cancelled /\ n.outcome = m.outcome
      /\ n.deferred_compaction = m.deferred_compaction
  BY <1>1, <1>2 DEF Machine
<1> HIDE DEF n
<1>5. Sound(n)
  BY <1>2, <1>4 DEF Sound, CallsMatch, LatchScoped, OneTurnOpen
<1>6. QED
  BY <1>3, <1>4, <1>5 DEF q

\* A reclamation blanks outputs and leaves the conversation divided as it was.
LEMMA ReclaimFrame ==
  ASSUME NEW m, Sound(m), m.state = "AwaitingModel", NEW is \in Reclaims(m)
  PROVE  LET n == AdoptPruned(m, Pruned(FullHistory(m), is), Len(m.history)) IN
         /\ Sound(n) /\ Blanked(FullHistory(n)) = Blanked(FullHistory(m))
         /\ Said(n.pending) \subseteq Said(m.pending)
         /\ n.turns_taken = m.turns_taken /\ n.state = m.state /\ n.turn = m.turn
         /\ n.cancelled = m.cancelled
<1> DEFINE feed == FullHistory(m)
           u    == Pruned(feed, is)
           k    == Len(m.history)
<1>1. /\ m \in Machine /\ m.history \in Conversation /\ m.pending \in Conversation
      /\ feed \in Conversation /\ k \in Nat /\ Unanswered(m.pending) = {}
      /\ Len(feed) = k + Len(m.pending) /\ Len(m.pending) \in Nat
  <2>1. m.history \in Conversation /\ m.pending \in Conversation /\ feed \in Conversation
    BY FullType
  <2>2. Len(feed) = k + Len(m.pending)
    BY <2>1, ConcatConversation DEF FullHistory
  <2>3. k \in Nat /\ Len(m.pending) \in Nat
    BY <2>1 DEF Conversation
  <2>4. m \in Machine /\ Unanswered(m.pending) = {}
    BY DEF Sound, CallsMatch
  <2>5. QED
    BY <2>1, <2>2, <2>3, <2>4
<1>2. is \in SUBSET Results(feed)
  BY DEF Reclaims, Outputs, Results
<1>3. u \in Conversation /\ Len(u) = Len(feed) /\ SameCalls(u, feed, Len(u))
  BY <1>1, <1>2, PrunedSame
<1>4. Sound(AdoptPruned(m, u, k))
  BY <1>1, <1>3, AdoptPrunedSound
<1> DEFINE h == Take(u, k)
           q == Drop(u, k)
           n == [m EXCEPT !.history = h, !.pending = q]
<1>5. AdoptPruned(m, u, k) = n
  BY DEF AdoptPruned, IsTerminal
<1>6. h \o q = u
  BY <1>1, <1>3, SplitWhole
<1>7. Said(q) \subseteq Said(m.pending)
  <2>1. /\ Len(q) = Len(m.pending)
        /\ \A i \in 1..Len(m.pending) : q[i] = u[k + i]
    <3>1. u \in Seq(Message) /\ Within(u, k) = k
      <4>1. u \in Seq(Message)
        BY <1>3 DEF Conversation
      <4>2. k \in Nat /\ Len(m.pending) \in Nat /\ Len(u) = k + Len(m.pending)
        BY <1>1, <1>3
      <4> HIDE DEF u, k
      <4>3. Within(u, k) = k
        BY <4>2 DEF Within
      <4>4. QED
        BY <4>1, <4>3
    <3>2. /\ Len(q) = Len(u) - Within(u, k)
          /\ \A i \in 1..(Len(u) - Within(u, k)) : q[i] = u[Within(u, k) + i]
      BY <1>1, <3>1, SplitProperties
    <3>3. Len(u) - Within(u, k) = Len(m.pending)
      BY <1>1, <1>3, <3>1
    <3>4. QED
      BY <3>1, <3>2, <3>3
  <2>2. ASSUME NEW i \in 1..Len(m.pending) PROVE q[i].text \subseteq m.pending[i].text
    <3>1. k + i \in 1..Len(feed) /\ feed[k + i] = m.pending[i]
      <4>1. m.history \in Seq(Message) /\ m.pending \in Seq(Message)
        BY <1>1 DEF Conversation
      <4>2. \A j \in 1..(k + Len(m.pending)) :
               feed[j] = IF j <= k THEN m.history[j] ELSE m.pending[j - k]
        BY <4>1, ConcatProperties DEF FullHistory
      <4>3. k \in Nat /\ Len(m.pending) \in Nat /\ Len(feed) = k + Len(m.pending)
        BY <1>1
      <4> HIDE DEF k, feed
      <4>4. k + i \in 1..(k + Len(m.pending)) /\ ~(k + i <= k) /\ k + i - k = i
        BY <4>3
      <4>5. QED
        BY <4>2, <4>3, <4>4
    <3>2. u[k + i] = IF k + i \in is THEN [feed[k + i] EXCEPT !.text = {}] ELSE feed[k + i]
      BY <3>1 DEF Pruned
    <3>3. feed[k + i] \in Message
      BY <1>1, <3>1 DEF Conversation
    <3>4. u[k + i].text \subseteq feed[k + i].text
      BY <3>2, <3>3 DEF Message
    <3>5. q[i] = u[k + i]
      BY <2>1
    <3>6. QED
      BY <3>1, <3>4, <3>5
  <2>3. QED
    BY <2>1, <2>2 DEF Said
<1>8. Blanked(u) = Blanked(feed)
  BY <1>1, <1>2, BlankedPruned
<1> HIDE DEF h, q, u
<1>9. /\ n.history = h /\ n.pending = q /\ n.turns_taken = m.turns_taken
      /\ n.state = m.state /\ n.turn = m.turn /\ n.cancelled = m.cancelled
  BY <1>1 DEF Machine
<1> HIDE DEF n
<1>10. FullHistory(n) = u
  BY <1>6, <1>9 DEF FullHistory
<1>11. LET x == AdoptPruned(m, u, k) IN
       /\ Sound(x) /\ Blanked(FullHistory(x)) = Blanked(feed)
       /\ Said(x.pending) \subseteq Said(m.pending)
       /\ x.turns_taken = m.turns_taken /\ x.state = m.state /\ x.turn = m.turn
       /\ x.cancelled = m.cancelled
  BY <1>4, <1>5, <1>7, <1>8, <1>9, <1>10
<1>12. QED
  BY <1>11 DEF u

\* A machine m about to be asked, by a driver d, with a turn prepared as p.
Assembled(m, d, p) ==
  LET fed == FullHistory(machine) \o steering.waiting IN
  /\ Sound(m) /\ m.state = "AwaitingModel" /\ ~m.cancelled
  /\ m.turn = machine.turn /\ m.turns_taken = machine.turns_taken
  /\ m.context_tokens = Figure(d.anchor, Payload(m, p.tokens))
  /\ Said(m.pending) \subseteq Said(machine.pending) \cup Said(steering.waiting)
  /\ d \in DriverSet /\ d.prepared = None /\ d.target = driver.target
  /\ d.overflow_retry = driver.overflow_retry /\ d.truncation_retry = driver.truncation_retry
  /\ p \in Prepared /\ p.tokens \in Transients
  /\ p.basis = fed \/ (steering.waiting = <<>> /\ driver.prepared # None /\ p = driver.prepared)
  /\ \/ /\ m.history = machine.history /\ FullHistory(m) = fed
        /\ d.anchor \in {driver.anchor, None}
     \/ Blanked(FullHistory(m)) = Blanked(fed) /\ d.anchor = None

\* Assembly comes to such a machine, whatever is drained and reclaimed.
LEMMA AssembleDoes ==
  ASSUME DriverSound, Assemble
  PROVE  \E m, d, p : /\ Assembled(m, d, p)
                      /\ Submit(m, d, p) \/ (FailRun(m, d, "Cancelled") /\ trace' = Heard)
<1>1. /\ Sound(machine) /\ machine.state = "AwaitingModel" /\ ~machine.cancelled
      /\ pc = "assemble" /\ driver \in DriverSet
      /\ steering.waiting \in Conversation /\ Guidance(steering.waiting)
  BY DEF DriverSound, LoopTypeOK, AtAwait, Slots, Assemble
<1> DEFINE w  == steering.waiting
           m0 == InjectAll(machine, w)
<1>2. /\ Sound(m0) /\ m0.history = machine.history /\ m0.pending = machine.pending \o w
      /\ m0.turns_taken = machine.turns_taken /\ m0.state = "AwaitingModel"
      /\ m0.turn = machine.turn /\ ~m0.cancelled
  <2> HIDE DEF w
  <2>1. w \in Conversation /\ Guidance(w)
    BY <1>1 DEF w
  <2>2. QED
    BY <1>1, <2>1, InjectAllFrame
<1> DEFINE d0  == IF w = <<>> THEN driver ELSE Steered(driver)
           fed == FullHistory(machine) \o w
<1>3. /\ d0 \in DriverSet /\ d0.target = driver.target
      /\ d0.overflow_retry = driver.overflow_retry
      /\ d0.truncation_retry = driver.truncation_retry
      /\ d0.anchor \in {driver.anchor, None}
      /\ d0.prepared # None => w = <<>> /\ d0 = driver
  BY <1>1 DEF Steered, DriverSet
<1>4. FullHistory(m0) = fed
  <2>1. machine.history \in Conversation /\ machine.pending \in Conversation
    BY <1>1, FullType
  <2>2. (machine.history \o machine.pending) \o w = machine.history \o (machine.pending \o w)
    BY <1>1, <2>1, JoinFull
  <2> HIDE DEF m0, w
  <2>3. QED
    BY <1>2, <2>2 DEF FullHistory
<1>5. PICK t \in Taken(m0, d0) :
         LET m1 == Measured(m0, t.d, t.p.tokens) IN
         \/ Submit(m1, t.d, t.p)
         \/ \E is \in Reclaims(m1) :
              LET d2 == [t.d EXCEPT !.anchor = None]
                  m2 == AdoptPruned(m1, Pruned(FullHistory(m1), is), Len(m1.history))
              IN IF signal THEN FailRun(m1, t.d, "Cancelled") /\ trace' = Heard
                 ELSE Submit(Measured(m2, d2, t.p.tokens), d2, t.p)
  BY DEF Assemble
<1> DEFINE d  == t.d
           p  == t.p
           m1 == Measured(m0, d, p.tokens)
<1>6. /\ d \in DriverSet /\ d.prepared = None /\ p \in Prepared /\ p.tokens \in Transients
      /\ p.basis = fed \/ (w = <<>> /\ driver.prepared # None /\ p = driver.prepared)
      /\ d.anchor \in {driver.anchor, None} /\ d.target = driver.target
      /\ d.overflow_retry = driver.overflow_retry /\ d.truncation_retry = driver.truncation_retry
  <2> HIDE DEF m0, d0
  <2>1. /\ t.d \in DriverSet /\ t.d.prepared = None
        /\ t.p \in Prepared /\ t.p.tokens \in Transients
        /\ t.p.basis = FullHistory(m0) \/ (d0.prepared # None /\ t.p = d0.prepared)
        /\ t.d.anchor \in {d0.anchor, None}
        /\ t.d.target = d0.target
        /\ t.d.overflow_retry = d0.overflow_retry /\ t.d.truncation_retry = d0.truncation_retry
    BY <1>2, <1>3, TakenType
  <2>2. QED
    BY <2>1, <1>3, <1>4
<1> HIDE DEF m0, d0, d, p
<1>7. /\ Sound(m1) /\ SameTalk(m0, m1) /\ m1.turns_taken = m0.turns_taken
      /\ m1.cancelled = m0.cancelled /\ m1.state = m0.state /\ m1.turn = m0.turn
      /\ m1.context_tokens = Figure(d.anchor, Payload(m0, p.tokens))
  BY <1>2, <1>6, MeasuredFrame
<1>8. FullHistory(m1) = fed /\ m1.history = machine.history
  BY <1>2, <1>4, <1>7 DEF SameTalk, FullHistory
<1>9. Payload(m1, p.tokens) = Payload(m0, p.tokens)
  BY <1>4, <1>8 DEF Payload
<1>10. Said(m1.pending) \subseteq Said(machine.pending) \cup Said(w)
  BY <1>1, <1>2, <1>7, FullType, SaidJoined DEF SameTalk
<1> HIDE DEF m1
<1>11. Assembled(m1, d, p)
  BY <1>2, <1>6, <1>7, <1>8, <1>9, <1>10 DEF Assembled
<1>12. CASE Submit(m1, d, p)
  BY <1>11, <1>12
<1>13. ASSUME NEW is \in Reclaims(m1),
              LET d2 == [d EXCEPT !.anchor = None]
                  m2 == AdoptPruned(m1, Pruned(FullHistory(m1), is), Len(m1.history))
              IN IF signal THEN FailRun(m1, d, "Cancelled") /\ trace' = Heard
                 ELSE Submit(Measured(m2, d2, p.tokens), d2, p)
       PROVE  \E x, y, z : /\ Assembled(x, y, z)
                           /\ Submit(x, y, z) \/ (FailRun(x, y, "Cancelled") /\ trace' = Heard)
  <2>1. CASE signal
    BY <1>11, <1>13, <2>1
  <2>2. CASE ~signal
    <3> DEFINE d2 == [d EXCEPT !.anchor = None]
               m2 == AdoptPruned(m1, Pruned(FullHistory(m1), is), Len(m1.history))
               m3 == Measured(m2, d2, p.tokens)
    <3>1. Submit(m3, d2, p)
      BY <1>13, <2>2
    <3>2. /\ d2 \in DriverSet /\ d2.prepared = None /\ d2.anchor = None
          /\ d2.target = d.target /\ d2.overflow_retry = d.overflow_retry
          /\ d2.truncation_retry = d.truncation_retry
      BY <1>6 DEF DriverSet
    <3>3. /\ Sound(m2) /\ Blanked(FullHistory(m2)) = Blanked(FullHistory(m1))
          /\ Said(m2.pending) \subseteq Said(m1.pending)
          /\ m2.turns_taken = m1.turns_taken /\ m2.state = m1.state /\ m2.turn = m1.turn
          /\ m2.cancelled = m1.cancelled
      BY <1>2, <1>7, ReclaimFrame
    <3> HIDE DEF m2, d2
    <3>4. /\ Sound(m3) /\ SameTalk(m2, m3) /\ m3.turns_taken = m2.turns_taken
          /\ m3.cancelled = m2.cancelled /\ m3.state = m2.state /\ m3.turn = m2.turn
          /\ m3.context_tokens = Figure(d2.anchor, Payload(m2, p.tokens))
      BY <1>2, <1>6, <1>7, <3>2, <3>3, MeasuredFrame
    <3> HIDE DEF m3
    <3>5. FullHistory(m3) = FullHistory(m2)
      BY <3>4 DEF SameTalk, FullHistory
    <3>6. Payload(m3, p.tokens) = Payload(m2, p.tokens)
      BY <3>5 DEF Payload
    <3>7. Said(m3.pending) \subseteq Said(machine.pending) \cup Said(w)
      BY <1>10, <3>3, <3>4 DEF SameTalk
    <3>8. Blanked(FullHistory(m3)) = Blanked(fed)
      BY <1>8, <3>3, <3>5
    <3>9. Assembled(m3, d2, p)
      BY <1>2, <1>6, <1>7, <3>2, <3>3, <3>4, <3>6, <3>7, <3>8 DEF Assembled
    <3>10. QED
      BY <3>1, <3>9
  <2>3. QED
    BY <2>1, <2>2
<1>14. QED
  BY <1>5, <1>12, <1>13 DEF m1, d, p

\* The marks that outlive an await: the staged target and the spent retries.
SameMarks(d, e) == /\ e.target = d.target /\ e.overflow_retry = d.overflow_retry
                   /\ e.truncation_retry = d.truncation_retry

LEMMA SaidType == ASSUME NEW s \in Conversation PROVE Said(s) \subseteq Text
<1>1. \A i \in 1..Len(s) : s[i].text \subseteq Text
  <2>1. \A i \in 1..Len(s) : s[i] \in Message
    BY DEF Conversation
  <2>2. QED
    BY <2>1 DEF Message
<1>2. QED
  BY <1>1 DEF Said

LEMMA HeardType ==
  ASSUME DriverSound
  PROVE  /\ Heard \in TraceSet /\ Drained(steering) \in Slots
         /\ Guidance(Drained(steering).waiting)
         /\ [Heard EXCEPT !.open = TRUE, !.attempts = Counted(@)] \in TraceSet
<1>1. /\ trace \in TraceSet /\ steering \in Slots /\ steering.waiting \in Conversation
      /\ Said(steering.waiting) \subseteq Text
  BY SaidType DEF DriverSound, LoopTypeOK, Slots
<1>2. trace.said \cup Said(steering.waiting) \in SUBSET Text
  BY <1>1 DEF TraceSet
<1>3. Heard \in TraceSet
  BY <1>1, <1>2 DEF Heard, TraceSet
<1>4. Counted(Heard.attempts) \in Nat
  BY <1>3 DEF TraceSet, Counted
<1>5. Drained(steering) \in Slots /\ Drained(steering).waiting = <<>>
  BY <1>1, EmptyCoherent DEF Drained, Slots
<1>6. Guidance(Drained(steering).waiting)
  BY <1>5, EmptyCoherent DEF Guidance
<1> DEFINE h == Heard
<1>7. [h EXCEPT !.open = TRUE, !.attempts = Counted(@)] \in TraceSet
  <2>1. h \in TraceSet /\ Counted(h.attempts) \in Nat
    BY <1>3, <1>4
  <2> HIDE DEF h
  <2>2. QED
    BY <2>1 DEF TraceSet
<1>8. QED
  BY <1>3, <1>5, <1>6, <1>7

\* The last word before a request: compaction after all, cancelled by now, or the
\* model is asked, below the emergency line.
LEMMA SubmitDoes ==
  ASSUME DriverSound, pc = "assemble", NEW m, NEW d, NEW p, Assembled(m, d, p),
         Submit(m, d, p), UNCHANGED signal, steering' = Drained(steering)
  PROVE  /\ DriverSound' /\ Still(m, machine') /\ SameMarks(d, driver')
         /\ driver'.prepared = None
         /\ \/ /\ pc' = "step" /\ machine'.state = "AwaitingCompaction" /\ trace' = Heard
               /\ driver'.anchor = None
            \/ /\ pc' = "finalize" /\ trace' = Heard /\ driver'.anchor = d.anchor
            \/ /\ pc' = "model" /\ machine'.turn = m.turn /\ ~IsEmergency(m, RunPolicy)
               /\ driver'.request = [basis |-> p.basis, tokens |-> p.tokens,
                                     counted |-> d.anchor = None]
               /\ driver'.anchor \in {d.anchor, None}
               /\ trace' = [Heard EXCEPT !.open = TRUE, !.attempts = Counted(@)]
<1> DEFINE n == NextStep(m, RunPolicy)
<1>1. /\ Sound(m) /\ m.state = "AwaitingModel" /\ ~m.cancelled
      /\ m.turns_taken = machine.turns_taken /\ machine.turns_taken < RunPolicy.max_turns
      /\ d \in DriverSet /\ d.prepared = None /\ p \in Prepared /\ p.tokens \in Transients
  BY DEF Assembled, DriverSound, AtAwait
<1>2. /\ Sound(n) /\ Still(m, n) /\ ~n.cancelled
      /\ n.state \in {"AwaitingModel", "AwaitingCompaction"}
      /\ n.state = "AwaitingModel" => ~IsEmergency(m, RunPolicy) /\ n.turn = m.turn
  BY <1>1, NextStepSound, NextStepFrame, RunPolicyAssumption DEF Still
<1>3. signal' \in BOOLEAN /\ steering' \in Slots /\ Guidance(steering'.waiting)
  BY HeardType DEF DriverSound, LoopTypeOK
<1> HIDE DEF n
<1>4. CASE /\ n.state = "AwaitingCompaction" /\ machine' = n /\ pc' = "step"
           /\ driver' = [d EXCEPT !.transients = p.tokens, !.anchor = None]
           /\ trace' = Heard
  <2>1. p.tokens \in Nat
    BY <1>1, SizesAssumption
  <2>2. driver' \in DriverSet /\ driver'.prepared = None /\ SameMarks(d, driver')
        /\ driver'.anchor = None
    BY <1>1, <1>4, <2>1 DEF DriverSet, SameMarks
  <2>3. trace' \in TraceSet
    BY <1>4, HeardType
  <2>4. AtAwait'
    BY <1>2, <1>4 DEF AtAwait
  <2>5. DriverSound'
    BY <1>2, <1>3, <1>4, <2>2, <2>3, <2>4 DEF DriverSound, LoopTypeOK, Sound, Awaits
  <2>6. QED
    BY <1>2, <1>4, <2>2, <2>5
<1>5. ASSUME n.state # "AwaitingCompaction", machine' = n, pc' = "model",
             NEW changed \in Switches,
             driver' = [Unanchored(d, changed) EXCEPT
                          !.request = [basis |-> p.basis, tokens |-> p.tokens,
                                       counted |-> d.anchor = None]],
             trace' = [Heard EXCEPT !.open = TRUE, !.attempts = Counted(@)]
      PROVE  /\ DriverSound' /\ Still(m, machine') /\ SameMarks(d, driver')
             /\ driver'.prepared = None
             /\ machine'.turn = m.turn /\ ~IsEmergency(m, RunPolicy)
             /\ driver'.request = [basis |-> p.basis, tokens |-> p.tokens,
                                   counted |-> d.anchor = None]
             /\ driver'.anchor \in {d.anchor, None}
  <2> DEFINE e == Unanchored(d, changed)
             r == [basis |-> p.basis, tokens |-> p.tokens, counted |-> d.anchor = None]
  <2>1. /\ e \in DriverSet /\ e.prepared = None /\ SameMarks(d, e)
        /\ e.anchor \in {d.anchor, None}
    BY <1>1 DEF Unanchored, DriverSet, SameMarks
  <2>2. r \in Request
    <3>1. (d.anchor = None) \in BOOLEAN /\ p.basis \in Conversation
      BY <1>1 DEF Prepared
    <3>2. QED
      BY <1>1, <3>1 DEF Request
  <2>3. driver' = [e EXCEPT !.request = r]
    BY <1>5
  <2> HIDE DEF e, r
  <2>4. /\ driver' \in DriverSet /\ driver'.prepared = None /\ SameMarks(d, driver')
        /\ driver'.anchor = e.anchor /\ driver'.request = r
    BY <2>1, <2>2, <2>3 DEF DriverSet, SameMarks
  <2>5. trace' \in TraceSet
    BY <1>5, HeardType
  <2>6. AtAwait'
    BY <1>1, <1>2, <1>5, <2>2, <2>4 DEF AtAwait, Still
  <2>7. DriverSound'
    BY <1>2, <1>3, <1>5, <2>4, <2>5, <2>6 DEF DriverSound, LoopTypeOK, Sound, Awaits
  <2>8. QED
    BY <1>2, <1>5, <2>1, <2>4, <2>7 DEF r
<1>6. \/ /\ n.state = "AwaitingCompaction" /\ machine' = n /\ pc' = "step"
         /\ driver' = [d EXCEPT !.transients = p.tokens, !.anchor = None]
         /\ trace' = Heard
      \/ FailRun(n, d, "Cancelled") /\ trace' = Heard
      \/ /\ n.state # "AwaitingCompaction" /\ machine' = n /\ pc' = "model"
         /\ \E changed \in Switches :
              driver' = [Unanchored(d, changed) EXCEPT
                           !.request = [basis |-> p.basis, tokens |-> p.tokens,
                                        counted |-> d.anchor = None]]
         /\ trace' = [Heard EXCEPT !.open = TRUE, !.attempts = Counted(@)]
  BY DEF Submit, n
<1>7. CASE /\ n.state # "AwaitingCompaction" /\ machine' = n /\ pc' = "model"
           /\ \E changed \in Switches :
                driver' = [Unanchored(d, changed) EXCEPT
                             !.request = [basis |-> p.basis, tokens |-> p.tokens,
                                          counted |-> d.anchor = None]]
           /\ trace' = [Heard EXCEPT !.open = TRUE, !.attempts = Counted(@)]
  BY <1>5, <1>7
<1>8. CASE FailRun(n, d, "Cancelled") /\ trace' = Heard
  <2>1. /\ DriverSound' /\ Still(m, machine') /\ SameMarks(d, driver')
        /\ driver'.prepared = None /\ pc' = "finalize" /\ driver'.anchor = d.anchor
    <3>1. "Cancelled" \in Errors \ {"None"} /\ trace' \in TraceSet
      BY <1>8, HeardType DEF Errors
    <3>2. /\ DriverSound' /\ Still(n, machine') /\ pc' = "finalize"
          /\ driver' = [d EXCEPT !.error = "Cancelled", !.request = None]
      BY <1>1, <1>2, <1>3, <1>8, <3>1, FailRunKeeps
    <3>3. /\ driver'.prepared = None /\ SameMarks(d, driver') /\ driver'.anchor = d.anchor
      BY <1>1, <3>2 DEF DriverSet, SameMarks
    <3>4. QED
      BY <1>2, <3>2, <3>3 DEF Still, SameTalk
  <2>2. QED
    BY <1>8, <2>1
<1>9. QED
  BY <1>4, <1>6, <1>7, <1>8

(* A step of a run, as what it carries over and as what it decides. *)

\* What stood first in the feed still does.
Keeps == \A s \in Conversation : StandsFirst(s, FullHistory(machine))
                                 => StandsFirst(s, FullHistory(machine'))

\* The anchor is dropped, armed on the feed that was sent, or left where the feed
\* only grows; a compaction pass alone may replace the feed, and has no anchor.
AnchorMoves ==
  /\ \/ driver'.anchor = None
     \/ driver'.anchor = driver.anchor /\ (Keeps \/ pc = "compact")
     \/ /\ driver'.anchor.feed = FullHistory(machine) /\ driver'.anchor.run = trace.run
        /\ Keeps
  /\ pc' = "compact" => driver'.anchor = None

\* Guidance stays, or is drained and said; the run says nothing else but speech.
Hears ==
  /\ trace'.run = trace.run /\ trace'.accepted = trace.accepted /\ trace'.handed = trace.handed
  /\ steering'.running = steering.running /\ steering'.leftovers = steering.leftovers
  /\ \/ steering'.waiting = steering.waiting /\ trace'.said = trace.said
     \/ /\ steering'.waiting = <<>>
        /\ trace'.said = trace.said \cup Said(steering.waiting)
  /\ Said(machine'.pending) \subseteq Said(machine.pending) \cup Said(steering.waiting) \cup Speech

Carries == /\ pc # "idle" /\ pc' # "idle" /\ AnchorMoves /\ Hears
           /\ driver'.target \in {driver.target, None, trace.run}

LEMMA StillKeeps ==
  ASSUME NEW n, machine' = n, Still(machine, n)
  PROVE  Keeps /\ FullHistory(machine') = FullHistory(machine)
         /\ machine'.pending = machine.pending
BY DEF Still, SameTalk, FullHistory, Keeps

\* Most steps of a run leave the slot and the talk alone.
LEMMA QuietCarries ==
  ASSUME DriverSound, pc # "idle", pc' \notin {"idle", "compact"},
         Still(machine, machine'), UNCHANGED steering,
         trace'.run = trace.run, trace'.accepted = trace.accepted,
         trace'.handed = trace.handed, trace'.said = trace.said,
         \/ driver'.anchor \in {driver.anchor, None}
         \/ driver'.anchor.feed = FullHistory(machine) /\ driver'.anchor.run = trace.run,
         driver'.target \in {driver.target, None, trace.run}
  PROVE  Carries
<1>1. Keeps /\ machine'.pending = machine.pending
  BY StillKeeps
<1>2. AnchorMoves
  BY <1>1 DEF AnchorMoves
<1>3. Hears
  BY <1>1 DEF Hears
<1>4. QED
  BY <1>2, <1>3 DEF Carries

LEMMA TurnEndsType ==
  ASSUME DriverSound, TurnEnds
  PROVE  /\ trace' \in TraceSet /\ trace'.open = FALSE /\ trace'.attempts = trace.attempts
         /\ trace'.run = trace.run /\ trace'.accepted = trace.accepted
         /\ trace'.handed = trace.handed /\ trace'.said = trace.said
BY DEF DriverSound, TraceSet, TurnEnds

\* A run that breaks off.
Breaks == /\ DriverSound' /\ Carries /\ pc' = "finalize" /\ trace'.attempts = trace.attempts
          /\ machine'.turns_taken = machine.turns_taken
          /\ trace'.open => trace.open /\ pc \in {"resolve", "assemble", "compact", "followup"}

LEMMA BreaksOpenTurn ==
  ASSUME DriverSound, pc \in {"model", "tools"}, NEW m, Sound(m), Still(machine, m), NEW d \in DriverSet,
         NEW e \in Errors \ {"None"}, FailRun(m, d, e), TurnEnds, UNCHANGED <<signal, steering>>,
         \/ d.anchor = driver.anchor
         \/ d.anchor.feed = FullHistory(machine) /\ d.anchor.run = trace.run,
         d.target \in {driver.target, trace.run}
  PROVE  Breaks
<1>1. /\ trace' \in TraceSet /\ trace'.open = FALSE /\ trace'.attempts = trace.attempts
      /\ trace'.run = trace.run /\ trace'.accepted = trace.accepted
      /\ trace'.handed = trace.handed /\ trace'.said = trace.said
  BY TurnEndsType
<1>2. signal' \in BOOLEAN /\ steering' \in Slots /\ Guidance(steering'.waiting)
  BY DEF DriverSound, LoopTypeOK
<1>3. /\ DriverSound' /\ Still(m, machine') /\ pc' = "finalize"
      /\ driver' = [d EXCEPT !.error = e, !.request = None]
  BY <1>1, <1>2, FailRunKeeps
<1>4. driver'.anchor = d.anchor /\ driver'.target = d.target
  BY <1>3 DEF DriverSet
<1>5. Still(machine, machine')
  BY <1>3 DEF Still, SameTalk
<1>6. Carries
  BY <1>1, <1>3, <1>4, <1>5, QuietCarries
<1>7. QED
  BY <1>1, <1>3, <1>5, <1>6 DEF Breaks, Still

LEMMA BreaksElsewhere ==
  ASSUME DriverSound, pc \in {"resolve", "assemble", "compact"},
         NEW d \in DriverSet, NEW e \in Errors \ {"None"}, FailRun(machine, d, e),
         UNCHANGED <<signal, steering, trace>>,
         d.anchor = driver.anchor, d.target \in {driver.target, None}
  PROVE  Breaks
<1>1. /\ signal' \in BOOLEAN /\ steering' \in Slots /\ Guidance(steering'.waiting)
      /\ trace' \in TraceSet /\ Sound(machine)
  BY DEF DriverSound, LoopTypeOK
<1>2. /\ DriverSound' /\ Still(machine, machine') /\ pc' = "finalize"
      /\ driver' = [d EXCEPT !.error = e, !.request = None]
  BY <1>1, FailRunKeeps
<1>3. driver'.anchor = d.anchor /\ driver'.target = d.target
  BY <1>2 DEF DriverSet
<1>4. Carries
  BY <1>2, <1>3, QuietCarries
<1>5. QED
  BY <1>2, <1>4 DEF Breaks, Still

LEMMA ResolveCancelledDoes == ASSUME DriverSound, ResolveCancelled PROVE Breaks
<1>1. "Cancelled" \in Errors \ {"None"} /\ driver \in DriverSet
  BY DEF Errors, DriverSound, LoopTypeOK
<1>2. QED
  BY <1>1, BreaksElsewhere DEF ResolveCancelled

LEMMA FallbackExhaustedDoes == ASSUME DriverSound, FallbackExhausted PROVE Breaks
<1>1. "Failed" \in Errors \ {"None"} /\ driver \in DriverSet
  BY DEF Errors, DriverSound, LoopTypeOK
<1>2. QED
  BY <1>1, BreaksElsewhere DEF FallbackExhausted

LEMMA ConsumedType ==
  ASSUME NEW d \in DriverSet
  PROVE  LET e == Consumed(d) IN
         /\ e \in DriverSet /\ e.anchor = d.anchor /\ e.target = None
         /\ e.prepared = d.prepared /\ e.overflow_retry = d.overflow_retry
         /\ e.truncation_retry = d.truncation_retry
BY DEF Consumed, DriverSet

LEMMA PassCancelledDoes == ASSUME DriverSound, PassCancelled PROVE Breaks
<1>1. "Cancelled" \in Errors \ {"None"} /\ driver \in DriverSet
  BY DEF Errors, DriverSound, LoopTypeOK
<1>2. \A d \in {driver, Consumed(driver)} :
        d \in DriverSet /\ d.anchor = driver.anchor /\ d.target \in {driver.target, None}
  BY <1>1, ConsumedType
<1>3. PICK d \in {driver, Consumed(driver)} : FailRun(machine, d, "Cancelled")
  BY DEF PassCancelled
<1>4. QED
  BY <1>1, <1>2, <1>3, BreaksElsewhere DEF PassCancelled

LEMMA ModelFailsDoes == ASSUME DriverSound, ModelFails PROVE Breaks
<1>1. /\ "Failed" \in Errors \ {"None"} /\ driver \in DriverSet /\ Sound(machine)
      /\ Still(machine, machine)
  BY DEF Errors, DriverSound, LoopTypeOK, Still, SameTalk
<1>2. PICK input \in Reports(Payload(machine, driver.request.tokens)) :
         FailRun(machine, Anchored(driver, machine, input), "Failed")
  BY DEF ModelFails
<1> DEFINE d == Anchored(driver, machine, input)
<1>3. /\ d \in DriverSet /\ d.target = driver.target
      /\ \/ d.anchor = driver.anchor
         \/ d.anchor.feed = FullHistory(machine) /\ d.anchor.run = trace.run
  BY AnchoredType DEF ModelFails
<1>4. FailRun(machine, d, "Failed")
  BY <1>2
<1> HIDE DEF d
<1>5. QED
  BY <1>1, <1>3, <1>4, BreaksOpenTurn DEF ModelFails

LEMMA ModelCancelledDoes == ASSUME DriverSound, ModelCancelled PROVE Breaks
<1>1. /\ "Cancelled" \in Errors \ {"None"} /\ driver \in DriverSet /\ Sound(machine)
      /\ Still(machine, machine)
  BY DEF Errors, DriverSound, LoopTypeOK, Still, SameTalk
<1>2. QED
  BY <1>1, BreaksOpenTurn DEF ModelCancelled

LEMMA ToolsBreakDoes == ASSUME DriverSound, ToolsFail \/ ToolsCancelled PROVE Breaks
<1>1. /\ {"Cancelled", "Failed"} \subseteq Errors \ {"None"} /\ driver \in DriverSet
      /\ Sound(machine) /\ Still(machine, machine)
  BY DEF Errors, DriverSound, LoopTypeOK, Still, SameTalk
<1>2. CASE ToolsFail
  BY <1>1, <1>2, BreaksOpenTurn DEF ToolsFail
<1>3. CASE ToolsCancelled
  BY <1>1, <1>3, BreaksOpenTurn DEF ToolsCancelled
<1>4. QED
  BY <1>2, <1>3

-----------------------------------------------------------------------------
(* A turn, from its arming to the model. *)

\* The next turn is armed: the stash is for the feed as it is.
Arms == /\ DriverSound' /\ Carries /\ pc' \in {"arm", "step"} /\ machine'.state = "Start"
        /\ machine'.turns_taken = machine.turns_taken
        /\ driver'.overflow_retry = driver.overflow_retry
        /\ driver'.truncation_retry = driver.truncation_retry
        /\ trace'.attempts = trace.attempts
        /\ pc' = "step" => driver'.prepared.basis = FullHistory(machine')
        /\ pc \in {"resolve", "arm", "tools", "followup"}
        /\ trace'.open => trace.open /\ pc # "tools"

LEMMA ResolveWindowDoes == ASSUME DriverSound, ResolveWindow PROVE Arms
<1>1. /\ pc = "resolve" /\ pc' = "arm" /\ machine.state = "Start" /\ ~machine.cancelled
      /\ UNCHANGED <<machine, driver, signal, steering, trace>>
  BY DEF ResolveWindow, DriverSound, AtAwait
<1>2. AtAwait'
  BY <1>1 DEF AtAwait
<1>3. DriverSound'
  BY <1>1, <1>2 DEF DriverSound, LoopTypeOK, Sound, Awaits
<1>4. Carries
  BY <1>1, QuietCarries DEF Still, SameTalk
<1>5. QED
  BY <1>1, <1>3, <1>4 DEF Arms

LEMMA ArmDoes == ASSUME DriverSound, Arm PROVE Arms
<1>1. /\ Sound(machine) /\ machine.state = "Start" /\ ~machine.cancelled /\ pc = "arm"
      /\ machine.turns_taken \in Nat /\ trace' \in TraceSet
  BY DEF DriverSound, AtAwait, Arm, Sound, Machine
<1>2. /\ DriverSound' /\ Still(machine, machine') /\ machine'.state = "Start" /\ pc' = "step"
      /\ driver'.prepared.basis = FullHistory(machine')
      /\ driver'.anchor \in {driver.anchor, None} /\ driver'.target = driver.target
      /\ driver'.overflow_retry = driver.overflow_retry
      /\ driver'.truncation_retry = driver.truncation_retry
  BY <1>1, ArmTurnKeeps DEF Arm
<1>3. Carries
  BY <1>1, <1>2, QuietCarries DEF Arm
<1>4. QED
  BY <1>1, <1>2, <1>3 DEF Arms, Arm, Still

\* What is said last leaves what stood first where it was.
LEMMA SaidLast ==
  ASSUME NEW m, Sound(m), NEW c \in Conversation, NEW n,
         n.history = m.history, n.pending = m.pending \o c
  PROVE  /\ FullHistory(n) = FullHistory(m) \o c
         /\ \A s \in Conversation : StandsFirst(s, FullHistory(m)) => StandsFirst(s, FullHistory(n))
         /\ Said(n.pending) = Said(m.pending) \cup Said(c)
<1>1. m.history \in Conversation /\ m.pending \in Conversation /\ FullHistory(m) \in Conversation
  BY FullType
<1>2. FullHistory(n) = FullHistory(m) \o c
  <2>1. (m.history \o m.pending) \o c = m.history \o (m.pending \o c)
    BY <1>1, JoinFull
  <2>2. QED
    BY <2>1 DEF FullHistory
<1>3. QED
  BY <1>1, <1>2, StandsFirstGrows, SaidJoined

LEMMA OneMessage ==
  ASSUME NEW x \in Message, WellFormed(x)
  PROVE  /\ <<x>> \in Conversation /\ Said(<<x>>) = x.text
         /\ \A s \in Conversation : Append(s, x) = s \o <<x>>
<1>1. Append(<<>>, x) \in Conversation /\ Append(<<>>, x) = <<x>>
  <2>1. Append(<<>>, x) \in Conversation
    BY EmptyCoherent, AppendConversation
  <2>2. Append(<<>>, x) = <<x>>
    OBVIOUS
  <2>3. QED
    BY <2>1, <2>2
<1>2. \A s \in Conversation : Append(s, x) = s \o <<x>>
  BY AppendIsConcat DEF Conversation
<1>3. QED
  BY <1>1, <1>2, SaidOne

LEMMA GrownCarries ==
  ASSUME DriverSound, pc # "idle", pc' \notin {"idle", "compact"},
         NEW c \in Conversation, Said(c) \subseteq Speech,
         machine'.history = machine.history, machine'.pending = machine.pending \o c,
         UNCHANGED steering,
         trace'.run = trace.run, trace'.accepted = trace.accepted,
         trace'.handed = trace.handed, trace'.said = trace.said,
         \/ driver'.anchor \in {driver.anchor, None}
         \/ driver'.anchor.feed = FullHistory(machine) /\ driver'.anchor.run = trace.run,
         driver'.target \in {driver.target, None, trace.run}
  PROVE  Carries
<1>1. Sound(machine)
  BY DEF DriverSound
<1>2. Keeps /\ Said(machine'.pending) = Said(machine.pending) \cup Said(c)
  BY <1>1, SaidLast DEF Keeps
<1>3. AnchorMoves
  BY <1>2 DEF AnchorMoves
<1>4. Hears
  BY <1>2 DEF Hears
<1>5. QED
  BY <1>3, <1>4 DEF Carries

LEMMA ToolsAnswerDoes == ASSUME DriverSound, ToolsAnswer PROVE Arms
<1>1. /\ Sound(machine) /\ machine.state = "AwaitingTools" /\ ~machine.cancelled /\ pc = "tools"
      /\ machine \in Machine /\ machine.pending \in Conversation /\ machine.turn + 1 \in Nat
  BY FullType DEF DriverSound, AtAwait, ToolsAnswer, Sound, Machine
<1>2. PICK t \in Speech :
         ArmTurn(ReceiveResults(machine, Answers({t}, CallsInFlight(machine))), machine.turn + 1)
  BY DEF ToolsAnswer
<1> DEFINE x == Answers({t}, CallsInFlight(machine))
           m == ReceiveResults(machine, x)
<1>3. x \in Message /\ WellFormed(x) /\ x.text = {t}
  <2>1. CallsInFlight(machine) \in SUBSET CallId
    BY <1>1 DEF CallsInFlight, Machine, PendingCall
  <2>2. {t} \in SUBSET Text
    BY DEF Speech
  <2>3. QED
    BY <2>1, <2>2 DEF Answers, Message, WellFormed
<1>4. Sound(m)
  <2>1. {t} \in SUBSET Text
    BY DEF Speech
  <2>2. QED
    BY <1>1, <2>1, ReceiveResultsSound
<1>5. <<x>> \in Conversation /\ Said(<<x>>) = {t} /\ Append(machine.pending, x) = machine.pending \o <<x>>
  BY <1>1, <1>3, OneMessage
<1> HIDE DEF x
<1>6. /\ m.history = machine.history /\ m.pending = machine.pending \o <<x>>
      /\ m.turns_taken = machine.turns_taken /\ m.cancelled = machine.cancelled
      /\ m.state = "Start"
  <2> DEFINE q == Append(machine.pending, x)
             r == [Enter(machine, "Start") EXCEPT !.pending = q, !.pending_tools = {}]
  <2>1. m = r
    BY <1>1 DEF ReceiveResults, IsTerminal, Enter, Machine
  <2> HIDE DEF m, q
  <2>2. /\ r.history = machine.history /\ r.pending = q
        /\ r.turns_taken = machine.turns_taken /\ r.cancelled = machine.cancelled
        /\ r.state = "Start"
    BY <1>1 DEF Enter, Machine
  <2>3. QED
    BY <2>1, <2>2, <1>5 DEF q
<1>7. ArmTurn(m, machine.turn + 1)
  BY <1>2 DEF x
<1> HIDE DEF m
<1>8. /\ trace' \in TraceSet /\ trace'.open = FALSE /\ trace'.attempts = trace.attempts
      /\ trace'.run = trace.run /\ trace'.accepted = trace.accepted
      /\ trace'.handed = trace.handed /\ trace'.said = trace.said
      /\ UNCHANGED <<signal, steering>>
  BY TurnEndsType DEF ToolsAnswer
<1>9. /\ DriverSound' /\ Still(m, machine') /\ machine'.state = "Start" /\ pc' = "step"
      /\ driver'.prepared.basis = FullHistory(machine')
      /\ driver'.anchor \in {driver.anchor, None} /\ driver'.target = driver.target
      /\ driver'.overflow_retry = driver.overflow_retry
      /\ driver'.truncation_retry = driver.truncation_retry
  BY <1>1, <1>4, <1>6, <1>7, <1>8, ArmTurnKeeps
<1>10. machine'.history = machine.history /\ machine'.pending = machine.pending \o <<x>>
       /\ machine'.turns_taken = machine.turns_taken
  BY <1>6, <1>9 DEF Still, SameTalk
<1>11. Carries
  <2>1. Said(<<x>>) \subseteq Speech
    BY <1>5
  <2>2. QED
    BY <1>1, <1>5, <1>8, <1>9, <1>10, <2>1, GrownCarries
<1>12. QED
  BY <1>1, <1>8, <1>9, <1>10, <1>11 DEF Arms

LEMMA FollowupDoes == ASSUME DriverSound, Followup PROVE Arms
<1>1. /\ Sound(machine) /\ machine.outcome = "Completed" /\ ~machine.cancelled /\ pc = "followup"
      /\ machine \in Machine /\ machine.pending \in Conversation /\ pc' = "arm"
      /\ driver' = [driver EXCEPT !.followed = TRUE] /\ driver \in DriverSet
      /\ UNCHANGED <<signal, steering, trace>>
  BY FullType DEF DriverSound, LoopTypeOK, AtAwait, Followup
<1>2. PICK t \in Speech : machine' = AcceptFollowup(machine, UserText({t}))
  BY DEF Followup
<1> DEFINE x == UserText({t})
<1>3. /\ {t} \in SUBSET Text /\ <<x>> \in Conversation /\ Said(<<x>>) = {t}
      /\ Append(machine.pending, x) = machine.pending \o <<x>>
  <2>1. {t} \in SUBSET Text
    BY DEF Speech
  <2>2. QED
    BY <1>1, <2>1, OnePrompt
<1>4. Sound(machine')
  BY <1>1, <1>2, <1>3, AcceptFollowupSound
<1> HIDE DEF x
<1>5. /\ machine'.history = machine.history /\ machine'.pending = machine.pending \o <<x>>
      /\ machine'.turns_taken = machine.turns_taken /\ machine'.cancelled = machine.cancelled
      /\ machine'.state = "Start"
  <2> DEFINE q == Append(machine.pending, x)
             r == [Enter(machine, "Start") EXCEPT !.pending = q]
  <2>1. machine' = r
    BY <1>1, <1>2 DEF AcceptFollowup, Enter, Machine, x
  <2> HIDE DEF q
  <2>2. /\ r.history = machine.history /\ r.pending = q
        /\ r.turns_taken = machine.turns_taken /\ r.cancelled = machine.cancelled
        /\ r.state = "Start"
    BY <1>1 DEF Enter, Machine
  <2>3. QED
    BY <2>1, <2>2, <1>3 DEF q
<1>6. /\ driver' \in DriverSet /\ driver'.anchor = driver.anchor /\ driver'.target = driver.target
      /\ driver'.overflow_retry = driver.overflow_retry
      /\ driver'.truncation_retry = driver.truncation_retry
  BY <1>1 DEF DriverSet
<1>7. AtAwait'
  BY <1>1, <1>5 DEF AtAwait
<1>8. DriverSound'
  BY <1>1, <1>4, <1>6, <1>7 DEF DriverSound, LoopTypeOK, Sound, Awaits
<1>9. Carries
  <2>1. Said(<<x>>) \subseteq Speech
    BY <1>3
  <2>2. QED
    BY <1>1, <1>3, <1>5, <1>6, <2>1, GrownCarries
<1>10. QED
  BY <1>1, <1>5, <1>6, <1>8, <1>9 DEF Arms

\* The step the machine hands out, up to the await it leads to.
Steps == /\ DriverSound' /\ Carries /\ pc = "step" /\ Still(machine, machine')
         /\ driver'.overflow_retry = driver.overflow_retry
         /\ driver'.truncation_retry = driver.truncation_retry
         /\ trace' = trace
         /\ pc' \in {"assemble", "tools", "compact", "followup", "finalize"}
         /\ pc' = "tools" <=> machine.state = "AwaitingTools"
         /\ pc' = "assemble" <=> machine'.state = "AwaitingModel"
         /\ pc' = "assemble" =>
              /\ driver'.prepared = driver.prepared
              /\ machine'.turn = IF machine.state = "AwaitingModel" THEN machine.turn
                                 ELSE machine.turns_taken
         /\ pc' = "compact" => driver'.prepared = None

LEMMA StepDoes == ASSUME DriverSound, Step PROVE Steps
<1> DEFINE m == NextStep(machine, RunPolicy)
<1>1. /\ Sound(machine) /\ ~machine.cancelled /\ machine.turns_taken \in Nat /\ pc = "step"
      /\ driver \in DriverSet /\ machine.state \in States /\ machine' = m
      /\ UNCHANGED <<signal, steering, trace>>
  BY DEF DriverSound, LoopTypeOK, AtAwait, Step, Sound, Machine
<1>2. Sound(m) /\ m.state \in States
  BY <1>1, NextStepSound, RunPolicyAssumption DEF Sound, Machine
<1>3. /\ Still(machine, m) /\ ~m.cancelled
      /\ machine.state = "Terminal" => m = machine
      /\ machine.state = "AwaitingTools" => m = machine
      /\ machine.state = "AwaitingCompaction" => m = machine
      /\ machine.state \in {"Start", "AwaitingModel"} =>
           /\ m.state \in {"AwaitingModel", "AwaitingCompaction", "Terminal"}
           /\ m.state = "AwaitingModel" =>
                /\ machine.turns_taken < RunPolicy.max_turns
                /\ m.turn = IF machine.state = "AwaitingModel" THEN machine.turn
                            ELSE machine.turns_taken
  BY <1>1, NextStepFrame, RunPolicyAssumption DEF Still
<1>4. m.state = "Terminal" <=> m.outcome # "None"
  BY <1>2 DEF Sound
<1>5. \/ m.state = "AwaitingModel" /\ pc' = "assemble" /\ driver' = driver
      \/ m.state = "AwaitingTools" /\ pc' = "tools" /\ driver' = driver
      \/ m.state = "AwaitingCompaction" /\ pc' = "compact" /\ driver' = Forgetful(driver)
      \/ m.outcome = "Completed" /\ pc' = "followup" /\ driver' = driver
      \/ /\ m.state = "Terminal" /\ m.outcome # "Completed" /\ pc' = "finalize"
         /\ driver' = [driver EXCEPT !.error = ErrorOf(m.outcome)]
  BY DEF Step, m, IsTerminal
<1> HIDE DEF m
<1>6. /\ driver' \in DriverSet
      /\ driver'.overflow_retry = driver.overflow_retry
      /\ driver'.truncation_retry = driver.truncation_retry /\ driver'.target = driver.target
      /\ driver'.anchor \in {driver.anchor, None}
      /\ pc' = "compact" => driver'.anchor = None /\ driver'.prepared = None
      /\ pc' = "finalize" => driver'.error # "None"
  <2>1. CASE pc' \in {"assemble", "tools", "followup"} /\ driver' = driver
    BY <1>1, <2>1
  <2>2. CASE pc' = "compact" /\ driver' = Forgetful(driver)
    BY <1>1, <2>2 DEF Forgetful, DriverSet
  <2>3. CASE pc' = "finalize" /\ driver' = [driver EXCEPT !.error = ErrorOf(m.outcome)]
    <3>1. ErrorOf(m.outcome) \in Errors /\ ErrorOf(m.outcome) # "None"
      BY DEF ErrorOf, Errors
    <3>2. QED
      BY <1>1, <2>3, <3>1 DEF DriverSet
  <2>4. QED
    BY <1>5, <2>1, <2>2, <2>3
<1>7. pc' = "tools" <=> machine.state = "AwaitingTools"
  BY <1>1, <1>3, <1>4, <1>5 DEF States
<1>8. /\ pc' = "assemble" <=> m.state = "AwaitingModel"
      /\ pc' = "assemble" => driver' = driver
                             /\ machine.state \in {"Start", "AwaitingModel"}
  BY <1>1, <1>3, <1>4, <1>5 DEF States
<1>9. AtAwait'
  <2>1. pc' = "assemble" => machine'.turns_taken < RunPolicy.max_turns
    BY <1>1, <1>3, <1>8 DEF Still
  <2>2. QED
    BY <1>1, <1>3, <1>4, <1>5, <1>6, <2>1 DEF AtAwait
<1>10. DriverSound'
  BY <1>1, <1>2, <1>5, <1>6, <1>9 DEF DriverSound, LoopTypeOK, Sound, Awaits
<1>11. Carries
  <2>1. Keeps /\ machine'.pending = machine.pending
    BY <1>1, <1>3, StillKeeps
  <2>2. AnchorMoves
    BY <1>6, <2>1 DEF AnchorMoves
  <2>3. Hears
    BY <1>1, <2>1 DEF Hears
  <2>4. QED
    BY <1>1, <1>5, <1>6, <2>2, <2>3 DEF Carries
<1>12. QED
  BY <1>1, <1>3, <1>5, <1>6, <1>7, <1>8, <1>10, <1>11 DEF Steps

LEMMA AssemblyCarries ==
  ASSUME DriverSound, pc = "assemble", NEW m, NEW d, NEW p, Assembled(m, d, p),
         Still(m, machine'), driver'.anchor \in {d.anchor, None}, driver'.target = d.target,
         trace'.run = Heard.run, trace'.accepted = Heard.accepted,
         trace'.handed = Heard.handed, trace'.said = Heard.said,
         steering' = Drained(steering), pc' \notin {"idle", "compact"}
  PROVE  /\ Carries /\ FullHistory(machine') = FullHistory(m)
         /\ machine'.turns_taken = machine.turns_taken
         /\ Blanked(FullHistory(machine')) = Blanked(FullHistory(machine) \o steering.waiting)
<1> DEFINE fed == FullHistory(machine) \o steering.waiting
<1>1. /\ Sound(machine) /\ trace \in TraceSet /\ steering \in Slots
      /\ steering.waiting \in Conversation /\ FullHistory(machine) \in Conversation
  BY FullType DEF DriverSound, LoopTypeOK, Slots
<1>2. /\ m.turns_taken = machine.turns_taken /\ d.target = driver.target
      /\ Said(m.pending) \subseteq Said(machine.pending) \cup Said(steering.waiting)
      /\ \/ FullHistory(m) = fed /\ d.anchor \in {driver.anchor, None}
         \/ Blanked(FullHistory(m)) = Blanked(fed) /\ d.anchor = None
  BY DEF Assembled
<1>3. FullHistory(machine') = FullHistory(m) /\ machine'.pending = m.pending
  BY DEF Still, SameTalk, FullHistory
<1>4. AnchorMoves
  <2>1. CASE FullHistory(m) = fed /\ d.anchor \in {driver.anchor, None}
    <3>1. Keeps
      BY <1>1, <1>3, <2>1, StandsFirstGrows DEF Keeps
    <3>2. QED
      BY <2>1, <3>1 DEF AnchorMoves
  <2>2. CASE d.anchor = None
    BY <2>2 DEF AnchorMoves
  <2>3. QED
    BY <1>2, <2>1, <2>2
<1>5. Hears
  <2>1. /\ Heard.run = trace.run /\ Heard.accepted = trace.accepted
        /\ Heard.handed = trace.handed /\ Heard.said = trace.said \cup Said(steering.waiting)
    BY <1>1 DEF Heard, TraceSet
  <2>2. /\ steering'.running = steering.running /\ steering'.leftovers = steering.leftovers
        /\ steering'.waiting = <<>>
    BY <1>1 DEF Drained, Slots
  <2>3. QED
    BY <1>2, <1>3, <2>1, <2>2 DEF Hears
<1>6. Carries
  BY <1>2, <1>4, <1>5 DEF Carries
<1>7. Blanked(FullHistory(machine')) = Blanked(fed)
  BY <1>2, <1>3
<1>8. QED
  BY <1>2, <1>3, <1>6, <1>7 DEF Still

\* The turn goes to the model, unless it is cancelled or compacted first.
Assembles ==
  /\ DriverSound' /\ Carries /\ pc = "assemble"
  /\ machine'.turns_taken = machine.turns_taken
  /\ driver'.overflow_retry = driver.overflow_retry
  /\ driver'.truncation_retry = driver.truncation_retry
  /\ \/ pc' = "finalize" /\ trace'.open = trace.open /\ trace'.attempts = trace.attempts
     \/ /\ pc' = "step" /\ machine'.state = "AwaitingCompaction" /\ driver'.prepared = None
        /\ trace'.open = trace.open /\ trace'.attempts = trace.attempts
     \/ /\ pc' = "model" /\ machine'.turn = machine.turn /\ driver'.prepared = None
        /\ trace'.open = TRUE /\ trace'.attempts = Counted(trace.attempts)
        /\ RequestBelowEmergency'
        /\ (driver.prepared # None => driver.prepared.basis = FullHistory(machine))
             => AssembledForWhatIsSent'

\* The figure the machine was given is the count of what it is asked.
LEMMA BelowTheLine ==
  ASSUME NEW m, NEW a, NEW k, m.context_tokens = Figure(a, Payload(m, k)), a = None,
         ~IsEmergency(m, RunPolicy), Window # 0, m \in Machine
  PROVE  Apply(Payload(m, k)) < (Window * 95) \div 100
<1>1. ~(m.context_tokens >= (Window * 95) \div 100)
  BY DEF IsEmergency, Window
<1>2. m.context_tokens \in Nat /\ Window \in Nat
  BY RunPolicyAssumption, PoliciesAssumption DEF Machine, Window
<1>3. (Window * 95) \div 100 \in Int
  BY <1>2
<1>4. m.context_tokens < (Window * 95) \div 100
  BY <1>1, <1>2, <1>3
<1>5. QED
  BY <1>4 DEF Figure

LEMMA AssemblyDoes == ASSUME DriverSound, Assemble PROVE Assembles
<1>1. /\ pc = "assemble" /\ UNCHANGED signal /\ steering' = Drained(steering)
      /\ trace \in TraceSet
      /\ signal' \in BOOLEAN /\ steering' \in Slots /\ Guidance(steering'.waiting)
  BY HeardType DEF Assemble, DriverSound, LoopTypeOK
<1>2. PICK m, d, p : /\ Assembled(m, d, p)
                     /\ Submit(m, d, p) \/ (FailRun(m, d, "Cancelled") /\ trace' = Heard)
  BY AssembleDoes
<1>3. /\ Sound(m) /\ d \in DriverSet /\ d.target = driver.target /\ m.turn = machine.turn
      /\ d.overflow_retry = driver.overflow_retry /\ d.truncation_retry = driver.truncation_retry
      /\ m.context_tokens = Figure(d.anchor, Payload(m, p.tokens))
      /\ \/ p.basis = FullHistory(machine) \o steering.waiting
         \/ steering.waiting = <<>> /\ driver.prepared # None /\ p = driver.prepared
  BY <1>2 DEF Assembled
<1>4. Heard.open = trace.open /\ Heard.attempts = trace.attempts
  BY <1>1 DEF Heard, TraceSet
<1>5. CASE FailRun(m, d, "Cancelled") /\ trace' = Heard
  <2>1. "Cancelled" \in Errors \ {"None"} /\ trace' \in TraceSet
    BY <1>5, HeardType DEF Errors
  <2>2. /\ DriverSound' /\ Still(m, machine') /\ pc' = "finalize"
        /\ driver' = [d EXCEPT !.error = "Cancelled", !.request = None]
    BY <1>1, <1>3, <1>5, <2>1, FailRunKeeps
  <2>3. /\ driver'.anchor = d.anchor /\ driver'.target = d.target
        /\ driver'.overflow_retry = d.overflow_retry
        /\ driver'.truncation_retry = d.truncation_retry
    BY <1>3, <2>2 DEF DriverSet
  <2>4. Carries /\ machine'.turns_taken = machine.turns_taken
    BY <1>1, <1>2, <1>5, <2>2, <2>3, AssemblyCarries
  <2>5. QED
    BY <1>1, <1>3, <1>4, <1>5, <2>2, <2>3, <2>4 DEF Assembles
<1>6. CASE Submit(m, d, p)
  <2>1. /\ DriverSound' /\ Still(m, machine') /\ SameMarks(d, driver')
        /\ driver'.prepared = None
        /\ \/ /\ pc' = "step" /\ machine'.state = "AwaitingCompaction" /\ trace' = Heard
              /\ driver'.anchor = None
           \/ /\ pc' = "finalize" /\ trace' = Heard /\ driver'.anchor = d.anchor
           \/ /\ pc' = "model" /\ machine'.turn = m.turn /\ ~IsEmergency(m, RunPolicy)
              /\ driver'.request = [basis |-> p.basis, tokens |-> p.tokens,
                                    counted |-> d.anchor = None]
              /\ driver'.anchor \in {d.anchor, None}
              /\ trace' = [Heard EXCEPT !.open = TRUE, !.attempts = Counted(@)]
    BY <1>1, <1>2, <1>6, SubmitDoes
  <2>2. /\ trace'.run = Heard.run /\ trace'.accepted = Heard.accepted
        /\ trace'.handed = Heard.handed /\ trace'.said = Heard.said
        /\ pc' \notin {"idle", "compact"} /\ driver'.anchor \in {d.anchor, None}
        /\ pc' = "model" => trace'.open = TRUE /\ trace'.attempts = Counted(trace.attempts)
    <3>1. Heard \in TraceSet
      BY HeardType
    <3>2. QED
      BY <1>4, <2>1, <3>1 DEF TraceSet
  <2>3. /\ Carries /\ FullHistory(machine') = FullHistory(m)
        /\ machine'.turns_taken = machine.turns_taken
        /\ Blanked(FullHistory(machine')) = Blanked(FullHistory(machine) \o steering.waiting)
    BY <1>1, <1>2, <2>1, <2>2, AssemblyCarries DEF SameMarks
  <2>4. CASE pc' = "model"
    <3>1. /\ machine'.turn = m.turn /\ ~IsEmergency(m, RunPolicy)
          /\ driver'.request.basis = p.basis /\ driver'.request.tokens = p.tokens
          /\ driver'.request.counted = (d.anchor = None)
      <4>1. /\ machine'.turn = m.turn /\ ~IsEmergency(m, RunPolicy)
            /\ driver'.request = [basis |-> p.basis, tokens |-> p.tokens,
                                  counted |-> d.anchor = None]
        BY <2>1, <2>4
      <4> DEFINE first == d.anchor = None
                 r == [basis |-> p.basis, tokens |-> p.tokens, counted |-> first]
      <4>2. driver'.request = r
        BY <4>1
      <4> HIDE DEF first
      <4>3. r.basis = p.basis /\ r.tokens = p.tokens /\ r.counted = first
        OBVIOUS
      <4> HIDE DEF r
      <4>4. /\ driver'.request.basis = p.basis /\ driver'.request.tokens = p.tokens
            /\ driver'.request.counted = first
        BY <4>2, <4>3
      <4>5. QED
        BY <4>1, <4>4, Zenon DEF first
    <3>2. Payload(machine', p.tokens) = Payload(m, p.tokens) /\ m \in Machine
      BY <1>3, <2>3 DEF Payload, Sound
    <3>3. RequestBelowEmergency'
      <4>1. driver'.request.counted /\ Window # 0
            => Apply(Payload(m, p.tokens)) < (Window * 95) \div 100
        BY <1>3, <3>1, <3>2, BelowTheLine, Zenon
      <4>2. QED
        BY <3>1, <3>2, <4>1 DEF RequestBelowEmergency
    <3>4. ASSUME driver.prepared # None => driver.prepared.basis = FullHistory(machine)
          PROVE  AssembledForWhatIsSent'
      <4>1. FullHistory(machine) \o <<>> = FullHistory(machine)
        <5>1. FullHistory(machine) \in Seq(Message)
          BY FullType DEF DriverSound, Conversation
        <5>2. QED
          BY <5>1, ConcatEmptySeq
      <4>2. p.basis = FullHistory(machine) \o steering.waiting
        BY <1>3, <3>4, <4>1
      <4>3. QED
        BY <2>3, <3>1, <4>2 DEF AssembledForWhatIsSent
    <3>5. QED
      BY <1>1, <1>3, <2>1, <2>2, <2>3, <2>4, <3>1, <3>3, <3>4 DEF Assembles, SameMarks
  <2>5. CASE pc' # "model"
    <3>1. trace' = Heard
      BY <2>1, <2>5
    <3>2. QED
      BY <1>1, <1>3, <1>4, <2>1, <2>3, <2>5, <3>1 DEF Assembles, SameMarks
  <2>6. QED
    BY <2>4, <2>5
<1>7. QED
  BY <1>2, <1>5, <1>6

(* What the provider's answer leads to. *)

\* An answer is kept, and its turn stays open while its calls are out.
Serves == /\ DriverSound' /\ Carries /\ pc = "model" /\ pc' = "step"
          /\ machine'.state \in {"AwaitingTools", "Terminal"}
          /\ trace'.open <=> machine'.state = "AwaitingTools"
          /\ trace'.attempts = 0 /\ driver'.prepared = driver.prepared

LEMMA ResponseFrame ==
  ASSUME NEW m, Sound(m), m.state = "AwaitingModel",
         NEW x \in Message, x.role = "assistant", x.results = {},
         NEW known \in Registries, NEW k \in Nat
  PROVE  LET n == ModelResponse(m, x, known, k) IN
         /\ Sound(n) /\ n.history = m.history
         /\ n.pending = m.pending \o <<x>> /\ n.cancelled = m.cancelled
         /\ \/ x.calls = {} /\ n.state = "Terminal"
            \/ x.calls # {} /\ n.state = "AwaitingTools"
<1>1. WellFormed(x) /\ known \in SUBSET CallId /\ m \in Machine
  BY RegistriesAssumption DEF WellFormed, Sound
<1>2. Sound(ModelResponse(m, x, known, k))
  BY <1>1, ModelResponseSound
<1> DEFINE q == Append(m.pending, x)
           a == Answered(m, x, k)
<1>3. q = m.pending \o <<x>>
  BY <1>1, OneMessage DEF Machine
<1>4. /\ a.history = m.history /\ a.pending = q /\ a.cancelled = m.cancelled
      /\ a \in [history : Conversation, pending : {q}, state : States, turn : Nat,
                reason : Reasons, outcome : Outcomes, turns_taken : Nat, context_tokens : Nat,
                cancelled : BOOLEAN, pending_tools : SUBSET PendingCall,
                deferred_compaction : BOOLEAN]
  <2>1. a = [m EXCEPT !.deferred_compaction = FALSE, !.pending = q,
                      !.context_tokens = k, !.turns_taken = m.turns_taken + 1]
    BY <1>1 DEF Answered, Machine
  <2>2. m.turns_taken + 1 \in Nat
    BY <1>1 DEF Machine
  <2> HIDE DEF a, q
  <2>3. QED
    BY <1>1, <2>1, <2>2 DEF Machine
<1>5. CASE x.calls = {}
  <2> DEFINE r == Terminate(a, "Completed")
  <2>1. ModelResponse(m, x, known, k) = r
    BY <1>1, <1>5 DEF ModelResponse, IsTerminal
  <2> HIDE DEF a, q
  <2>2. r.history = m.history /\ r.pending = q /\ r.cancelled = m.cancelled /\ r.state = "Terminal"
    BY <1>4 DEF Terminate, Enter
  <2> HIDE DEF r
  <2>3. QED
    BY <1>2, <1>3, <1>5, <2>1, <2>2 DEF q
<1>6. CASE x.calls # {}
  <2> DEFINE ps == Classify(x.calls, known)
             r  == [Enter(a, "AwaitingTools") EXCEPT !.turn = m.turns_taken, !.pending_tools = ps]
  <2>1. ModelResponse(m, x, known, k) = r
    BY <1>1, <1>6 DEF ModelResponse, IsTerminal
  <2> HIDE DEF a, q, ps
  <2>2. r.history = m.history /\ r.pending = q /\ r.cancelled = m.cancelled /\ r.state = "AwaitingTools"
    BY <1>4 DEF Enter
  <2> HIDE DEF r
  <2>3. QED
    BY <1>2, <1>3, <1>6, <2>1, <2>2 DEF q
<1>7. QED
  BY <1>5, <1>6

LEMMA ModelServesDoes == ASSUME DriverSound, ModelServes PROVE Serves
<1>1. /\ Sound(machine) /\ machine.state = "AwaitingModel" /\ ~machine.cancelled /\ pc = "model"
      /\ pc' = "step" /\ UNCHANGED <<signal, steering>> /\ trace \in TraceSet
      /\ driver.request.tokens \in Nat /\ FullHistory(machine) \in Conversation
      /\ trace \in TraceSet
  BY SizesAssumption, FullType DEF DriverSound, AtAwait, Request, ModelServes
<1>2. PICK t \in Speech, cs \in SUBSET CallId, known \in Registries,
           input \in Reports(Payload(machine, driver.request.tokens)) :
         LET msg == Assistant({t}, cs)
             d   == Anchored(driver, machine, input)
             now == Raw(Append(FullHistory(machine), msg)) + Overhead + driver.request.tokens
         IN /\ machine' = ModelResponse(machine, msg, known, Figure(d.anchor, now))
            /\ driver' = [d EXCEPT !.request = None]
            /\ trace' = [trace EXCEPT !.attempts = 0, !.open = StillOpen(cs)]
  BY DEF ModelServes
<1> DEFINE x == Assistant({t}, cs)
           d == Anchored(driver, machine, input)
           now == Raw(Append(FullHistory(machine), x)) + Overhead + driver.request.tokens
           k == Figure(d.anchor, now)
<1>3. /\ d \in DriverSet /\ d.prepared = driver.prepared /\ d.target = driver.target
      /\ \/ d.anchor = driver.anchor
         \/ d.anchor.feed = FullHistory(machine) /\ d.anchor.run = trace.run
  BY <1>1, AnchoredType
<1>4. t \in Text /\ {t} \in SUBSET Text
  BY DEF Speech
<1>5. /\ x \in Message /\ WellFormed(x) /\ x.text = {t}
      /\ x.role = "assistant" /\ x.results = {} /\ x.calls = cs
  BY <1>4 DEF Assistant, Message, WellFormed
<1>6. <<x>> \in Conversation /\ Said(<<x>>) = {t}
  BY <1>5, OneMessage
<1>7. k \in Nat
  <2>1. Append(FullHistory(machine), x) \in Conversation
    BY <1>1, <1>5, AppendConversation
  <2>2. Raw(Append(FullHistory(machine), x)) \in Nat /\ Overhead \in Nat
    BY <2>1, RawType, SizesAssumption
  <2>3. now \in Nat
    BY <1>1, <2>2
  <2>4. d.anchor \in Anchor \cup {None}
    BY <1>3 DEF DriverSet
  <2> HIDE DEF now, d
  <2>5. QED
    BY <2>3, <2>4, FigureType
<1>8. /\ machine' = ModelResponse(machine, x, known, k)
      /\ driver' = [d EXCEPT !.request = None]
      /\ trace' = [trace EXCEPT !.attempts = 0, !.open = StillOpen(cs)]
  BY <1>2
<1> HIDE DEF d, k
<1>9. /\ Sound(machine') /\ machine'.history = machine.history
      /\ machine'.pending = machine.pending \o <<x>> /\ ~machine'.cancelled
      /\ \/ cs = {} /\ machine'.state = "Terminal"
         \/ cs # {} /\ machine'.state = "AwaitingTools"
  <2>1. LET n == ModelResponse(machine, x, known, k) IN
        /\ Sound(n) /\ n.history = machine.history
        /\ n.pending = machine.pending \o <<x>> /\ n.cancelled = machine.cancelled
        /\ \/ x.calls = {} /\ n.state = "Terminal"
           \/ x.calls # {} /\ n.state = "AwaitingTools"
    <3> HIDE DEF x
    <3>1. QED
      BY <1>1, <1>5, <1>7, ResponseFrame
  <2> HIDE DEF x
  <2>2. QED
    BY <1>1, <1>5, <1>8, <2>1
<1>10. /\ driver' \in DriverSet /\ driver'.prepared = driver.prepared
       /\ driver'.anchor = d.anchor /\ driver'.target = driver.target
  BY <1>3, <1>8 DEF DriverSet
<1>11. /\ trace' \in TraceSet /\ trace'.attempts = 0 /\ (trace'.open <=> cs # {})
       /\ trace'.run = trace.run /\ trace'.accepted = trace.accepted
       /\ trace'.handed = trace.handed /\ trace'.said = trace.said
  BY <1>1, <1>8 DEF StillOpen, TraceSet
<1>12. AtAwait'
  BY <1>1, <1>9 DEF AtAwait
<1>13. DriverSound'
  BY <1>1, <1>9, <1>10, <1>11, <1>12 DEF DriverSound, LoopTypeOK, Sound, Awaits
<1>14. Carries
  <2>1. Said(<<x>>) \subseteq Speech
    BY <1>6
  <2> HIDE DEF x
  <2>2. QED
    BY <1>1, <1>3, <1>6, <1>9, <1>10, <1>11, <2>1, GrownCarries
<1>15. QED
  BY <1>1, <1>9, <1>10, <1>11, <1>13, <1>14 DEF Serves

\* A rejected or cut answer is made good once: the retry is marked, and the machine
\* is to compact, or to ask again.
Salvages ==
  /\ DriverSound' /\ Carries /\ pc = "model" /\ pc' = "step"
  /\ machine'.turns_taken = machine.turns_taken
  /\ \/ machine'.state = "AwaitingCompaction"
     \/ machine'.state = "AwaitingModel" /\ machine'.turn = machine.turn
  /\ trace'.open = FALSE /\ trace'.attempts = trace.attempts
  /\ driver'.prepared = driver.prepared
  /\ \/ /\ driver.overflow_retry # machine.turn /\ driver'.overflow_retry = machine.turn
        /\ driver'.truncation_retry = driver.truncation_retry
     \/ /\ driver.truncation_retry # machine.turn /\ driver'.truncation_retry = machine.turn
        /\ driver'.overflow_retry = driver.overflow_retry

LEMMA SalvageStep ==
  ASSUME DriverSound, pc = "model", pc' = "step", TurnEnds, UNCHANGED <<signal, steering>>,
         Sound(machine'), Still(machine, machine'), ~machine'.cancelled,
         driver' \in DriverSet, driver'.anchor = None, driver'.target \in {driver.target, trace.run}
  PROVE  /\ DriverSound' /\ Carries
         /\ trace'.open = FALSE /\ trace'.attempts = trace.attempts
<1>1. /\ trace' \in TraceSet /\ trace'.open = FALSE /\ trace'.attempts = trace.attempts
      /\ trace'.run = trace.run /\ trace'.accepted = trace.accepted
      /\ trace'.handed = trace.handed /\ trace'.said = trace.said
  BY TurnEndsType
<1>2. AtAwait'
  BY DEF AtAwait
<1>3. DriverSound'
  BY <1>1, <1>2 DEF DriverSound, LoopTypeOK, Sound, Awaits
<1>4. Carries
  BY <1>1, QuietCarries
<1>5. QED
  BY <1>1, <1>3, <1>4

LEMMA MarkedType ==
  ASSUME DriverSound, NEW e \in DriverSet
  PROVE  LET o == OverflowRetry(e, machine.turn)
             t == TruncationRetry(e, machine.turn) IN
         /\ o \in DriverSet /\ o.target = e.target /\ o.anchor = e.anchor
         /\ o.prepared = e.prepared /\ o.truncation_retry = e.truncation_retry
         /\ o.overflow_retry = machine.turn
         /\ t \in DriverSet /\ t.target = e.target /\ t.anchor = e.anchor
         /\ t.prepared = e.prepared /\ t.overflow_retry = e.overflow_retry
         /\ t.truncation_retry = machine.turn
         /\ trace.run \in Nat
<1>1. machine.turn \in Nat /\ trace.run \in Nat
  BY DEF DriverSound, LoopTypeOK, Machine, TraceSet
<1>2. QED
  BY <1>1 DEF OverflowRetry, TruncationRetry, DriverSet

LEMMA ModelTruncatesDoes == ASSUME DriverSound, ModelTruncates PROVE Breaks \/ Salvages
<1>1. /\ Sound(machine) /\ machine.state = "AwaitingModel" /\ ~machine.cancelled /\ pc = "model"
      /\ UNCHANGED <<signal, steering>> /\ TurnEnds /\ driver \in DriverSet
      /\ "CannotFit" \in Errors \ {"None"} /\ Still(machine, machine)
  BY DEF DriverSound, LoopTypeOK, AtAwait, ModelTruncates, Errors, Still, SameTalk
<1> DEFINE m == Overfull(machine)
<1>2. PICK input \in Reports(Payload(machine, driver.request.tokens)) :
         LET d == TruncationRetry(Anchored(driver, machine, input), machine.turn) IN
         \/ FailRun(machine, Anchored(driver, machine, input), "CannotFit")
         \/ FailRun(machine, d, "CannotFit")
         \/ FailRun(m, [d EXCEPT !.target = trace.run], "CannotFit")
         \/ /\ driver.truncation_retry # machine.turn
            /\ m.state = "AwaitingCompaction"
            /\ machine' = m /\ pc' = "step"
            /\ driver' = [d EXCEPT !.target = trace.run, !.anchor = None, !.request = None]
  BY DEF ModelTruncates
<1> DEFINE a == Anchored(driver, machine, input)
           d == TruncationRetry(a, machine.turn)
           e == [d EXCEPT !.target = trace.run]
<1>3. /\ a \in DriverSet /\ a.target = driver.target /\ a.prepared = driver.prepared
      /\ a.overflow_retry = driver.overflow_retry
      /\ \/ a.anchor = driver.anchor
         \/ a.anchor.feed = FullHistory(machine) /\ a.anchor.run = trace.run
  BY <1>1, AnchoredType
<1> HIDE DEF a
<1>4. /\ d \in DriverSet /\ d.target = a.target /\ d.anchor = a.anchor
      /\ d.prepared = a.prepared /\ d.overflow_retry = a.overflow_retry
      /\ d.truncation_retry = machine.turn /\ trace.run \in Nat
  BY <1>3, MarkedType
<1> HIDE DEF d
<1>5. e \in DriverSet /\ e.target = trace.run /\ e.anchor = a.anchor
  BY <1>4 DEF DriverSet
<1>6. Sound(m) /\ Still(machine, m) /\ ~m.cancelled
  BY <1>1, OverfullFrame
<1> HIDE DEF m, e
<1>7. CASE FailRun(machine, a, "CannotFit")
  BY <1>1, <1>3, <1>7, BreaksOpenTurn
<1>8. CASE FailRun(machine, d, "CannotFit")
  BY <1>1, <1>3, <1>4, <1>8, BreaksOpenTurn
<1>9. CASE FailRun(m, e, "CannotFit")
  BY <1>1, <1>3, <1>5, <1>6, <1>9, BreaksOpenTurn
<1>10. CASE /\ driver.truncation_retry # machine.turn
            /\ m.state = "AwaitingCompaction"
            /\ machine' = m /\ pc' = "step"
            /\ driver' = [d EXCEPT !.target = trace.run, !.anchor = None, !.request = None]
  <2>1. /\ driver' \in DriverSet /\ driver'.anchor = None /\ driver'.target = trace.run
        /\ driver'.prepared = driver.prepared /\ driver'.overflow_retry = driver.overflow_retry
        /\ driver'.truncation_retry = machine.turn
    BY <1>3, <1>4, <1>10 DEF DriverSet
  <2>2. /\ DriverSound' /\ Carries
        /\ trace'.open = FALSE /\ trace'.attempts = trace.attempts
    BY <1>1, <1>6, <1>10, <2>1, SalvageStep
  <2>3. QED
    BY <1>1, <1>6, <1>10, <2>1, <2>2 DEF Salvages, Still
<1>11. QED
  BY <1>2, <1>7, <1>8, <1>9, <1>10 DEF a, d, e

LEMMA ModelRejectsDoes == ASSUME DriverSound, ModelRejects PROVE Breaks \/ Salvages
<1>1. /\ Sound(machine) /\ machine.state = "AwaitingModel" /\ ~machine.cancelled /\ pc = "model"
      /\ UNCHANGED <<signal, steering>> /\ TurnEnds /\ driver \in DriverSet
      /\ "CannotFit" \in Errors \ {"None"} /\ Still(machine, machine)
  BY DEF DriverSound, LoopTypeOK, AtAwait, ModelRejects, Errors, Still, SameTalk
<1> DEFINE m == Overfull(machine)
           d == OverflowRetry(driver, machine.turn)
           e == [d EXCEPT !.target = trace.run]
           figure == Figure(driver.anchor, Payload(machine, 0))
<1>2. \/ FailRun(machine, driver, "CannotFit")
      \/ FailRun(m, e, "CannotFit")
      \/ /\ driver.overflow_retry # machine.turn /\ m.state = "AwaitingCompaction"
         /\ machine' = m /\ pc' = "step"
         /\ driver' = [d EXCEPT !.target = trace.run, !.anchor = None, !.request = None]
      \/ /\ driver.overflow_retry # machine.turn
         /\ machine' = SetContextTokens(machine, figure) /\ pc' = "step"
         /\ driver' = [d EXCEPT !.anchor = None, !.request = None]
  BY DEF ModelRejects
<1>3. /\ d \in DriverSet /\ d.target = driver.target /\ d.anchor = driver.anchor
      /\ d.prepared = driver.prepared /\ d.truncation_retry = driver.truncation_retry
      /\ d.overflow_retry = machine.turn /\ trace.run \in Nat
  BY <1>1, MarkedType
<1> HIDE DEF d
<1>4. e \in DriverSet /\ e.target = trace.run /\ e.anchor = driver.anchor
  BY <1>3 DEF DriverSet
<1>5. Sound(m) /\ Still(machine, m) /\ ~m.cancelled
  BY <1>1, OverfullFrame
<1>6. figure \in Nat
  <2>1. Payload(machine, 0) \in Nat /\ driver.anchor \in Anchor \cup {None}
    BY <1>1, PayloadType DEF DriverSet
  <2>2. QED
    BY <2>1, FigureType
<1> HIDE DEF m, e, figure
<1>7. CASE FailRun(machine, driver, "CannotFit")
  BY <1>1, <1>7, BreaksOpenTurn
<1>8. CASE FailRun(m, e, "CannotFit")
  BY <1>1, <1>4, <1>5, <1>8, BreaksOpenTurn
<1>9. CASE /\ driver.overflow_retry # machine.turn /\ m.state = "AwaitingCompaction"
           /\ machine' = m /\ pc' = "step"
           /\ driver' = [d EXCEPT !.target = trace.run, !.anchor = None, !.request = None]
  <2>1. /\ driver' \in DriverSet /\ driver'.anchor = None /\ driver'.target = trace.run
        /\ driver'.prepared = driver.prepared /\ driver'.overflow_retry = machine.turn
        /\ driver'.truncation_retry = driver.truncation_retry
    BY <1>3, <1>9 DEF DriverSet
  <2>2. /\ DriverSound' /\ Carries
        /\ trace'.open = FALSE /\ trace'.attempts = trace.attempts
    BY <1>1, <1>5, <1>9, <2>1, SalvageStep
  <2>3. QED
    BY <1>1, <1>5, <1>9, <2>1, <2>2 DEF Salvages, Still
<1>10. CASE /\ driver.overflow_retry # machine.turn
            /\ machine' = SetContextTokens(machine, figure) /\ pc' = "step"
            /\ driver' = [d EXCEPT !.anchor = None, !.request = None]
  <2>1. /\ driver' \in DriverSet /\ driver'.anchor = None /\ driver'.target = driver.target
        /\ driver'.prepared = driver.prepared /\ driver'.overflow_retry = machine.turn
        /\ driver'.truncation_retry = driver.truncation_retry
    BY <1>3, <1>10 DEF DriverSet
  <2>2. /\ Sound(machine') /\ Still(machine, machine') /\ ~machine'.cancelled
        /\ machine'.state = "AwaitingModel" /\ machine'.turn = machine.turn
    BY <1>1, <1>6, <1>10, SetFrame DEF Still
  <2>3. /\ DriverSound' /\ Carries
        /\ trace'.open = FALSE /\ trace'.attempts = trace.attempts
    BY <1>1, <1>10, <2>1, <2>2, SalvageStep
  <2>4. QED
    BY <1>1, <1>10, <2>1, <2>2, <2>3 DEF Salvages, Still
<1>11. QED
  BY <1>2, <1>7, <1>8, <1>9, <1>10

(* A compaction pass, and the end of a run. *)

\* A pass gives back to the run, condensed or as it was.
Passes == /\ DriverSound' /\ Carries /\ pc = "compact" /\ pc' = "step"
          /\ machine'.state # "AwaitingModel" /\ machine'.state # "AwaitingTools"
          /\ machine'.turns_taken = machine.turns_taken
          /\ driver'.overflow_retry = driver.overflow_retry
          /\ driver'.truncation_retry = driver.truncation_retry
          /\ driver'.prepared = driver.prepared /\ trace' = trace

LEMMA PassStep ==
  ASSUME DriverSound, pc = "compact", pc' = "step", UNCHANGED <<signal, steering, trace>>,
         NEW n, machine' = n, Sound(n), n.turns_taken = machine.turns_taken, ~n.cancelled,
         n.state \in {"Start", "Terminal"},
         n.pending = machine.pending \/ n.pending = <<>>,
         driver' \in {driver, Consumed(driver)}
  PROVE  Passes
<1>1. driver \in DriverSet
  BY DEF DriverSound, LoopTypeOK
<1>2. /\ driver' \in DriverSet /\ driver'.anchor = driver.anchor
      /\ driver'.target \in {driver.target, None} /\ driver'.prepared = driver.prepared
      /\ driver'.overflow_retry = driver.overflow_retry
      /\ driver'.truncation_retry = driver.truncation_retry
  BY <1>1, ConsumedType
<1>3. AtAwait'
  BY DEF AtAwait
<1>4. DriverSound'
  BY <1>2, <1>3 DEF DriverSound, LoopTypeOK, Sound, Awaits
<1>5. AnchorMoves
  BY <1>2 DEF AnchorMoves
<1>6. Hears
  <2>1. Said(n.pending) \subseteq Said(machine.pending)
    BY SaidOne
  <2>2. QED
    BY <2>1 DEF Hears
<1>7. Carries
  BY <1>2, <1>5, <1>6 DEF Carries
<1>8. QED
  BY <1>2, <1>4, <1>7 DEF Passes

LEMMA PassContext ==
  ASSUME DriverSound, pc = "compact"
  PROVE  /\ Sound(machine) /\ machine.state = "AwaitingCompaction" /\ ~machine.cancelled
         /\ driver \in DriverSet /\ driver.anchor \in Anchor \cup {None}
         /\ \A k \in Nat : /\ Payload(machine, k) \in Nat
                           /\ Figure(driver.anchor, Payload(machine, k)) \in Nat
         /\ \A c \in Conversation : Figure(driver.anchor, Raw(c) + Overhead) \in Nat
<1>1. /\ Sound(machine) /\ machine.state = "AwaitingCompaction" /\ ~machine.cancelled
      /\ driver \in DriverSet /\ driver.anchor \in Anchor \cup {None}
  BY DEF DriverSound, LoopTypeOK, AtAwait, DriverSet
<1>2. \A k \in Nat : /\ Payload(machine, k) \in Nat
                     /\ Figure(driver.anchor, Payload(machine, k)) \in Nat
  BY <1>1, PayloadType, FigureType
<1>3. \A c \in Conversation : Figure(driver.anchor, Raw(c) + Overhead) \in Nat
  <2>1. \A c \in Conversation : Raw(c) + Overhead \in Nat
    <3>1. Overhead \in Nat
      BY SizesAssumption
    <3>2. QED
      BY <3>1, RawType
  <2>2. QED
    BY <1>1, <2>1, FigureType
<1>4. QED
  BY <1>1, <1>2, <1>3

LEMMA PassDeclinesDoes == ASSUME DriverSound, PassDeclines PROVE Passes
<1> DEFINE k == Figure(driver.anchor, Payload(machine, 0))
           n == StepAside(machine, k)
<1>1. /\ pc = "compact" /\ pc' = "step" /\ machine' = n /\ driver' = driver
      /\ UNCHANGED <<signal, steering, trace>>
  BY DEF PassDeclines
<1>2. Sound(machine) /\ machine.state = "AwaitingCompaction" /\ ~machine.cancelled /\ k \in Nat
  BY <1>1, PassContext
<1> HIDE DEF k
<1>3. /\ Sound(n) /\ Still(machine, n) /\ n.cancelled = machine.cancelled
      /\ n.state \in {"Start", "Terminal"}
  BY <1>2, StepAsideFrame
<1> HIDE DEF n
<1>4. QED
  BY <1>1, <1>2, <1>3, PassStep DEF Still, SameTalk

LEMMA PassReturnsDoes == ASSUME DriverSound, PassReturns PROVE Breaks \/ Passes
<1> DEFINE before == Figure(driver.anchor, Payload(machine, 0))
<1>1. PICK c \in Compactions(FullHistory(machine)) :
         \/ FailRun(machine, Consumed(driver), "CannotFit")
         \/ /\ machine' = StepAside(machine, before)
            /\ driver' = Consumed(driver) /\ pc' = "step"
         \/ /\ machine' = CompactionResult(machine, c, before,
                                           Figure(driver.anchor, Raw(c) + Overhead))
            /\ driver' = Consumed(driver) /\ pc' = "step"
  BY DEF PassReturns
<1> DEFINE after == Figure(driver.anchor, Raw(c) + Overhead)
           n == CompactionResult(machine, c, before, after)
<1>2. /\ pc = "compact" /\ UNCHANGED <<signal, steering, trace>>
      /\ Sound(machine) /\ machine.state = "AwaitingCompaction" /\ ~machine.cancelled
      /\ driver \in DriverSet /\ FullHistory(machine) \in Conversation
  BY PassContext, FullType DEF PassReturns
<1>3. c \in Conversation /\ Coherent(c)
  BY <1>2, CompactionsCoherent
<1>4. before \in Nat /\ after \in Nat
  BY <1>2, <1>3, PassContext
<1> HIDE DEF before, after
<1>5. CASE FailRun(machine, Consumed(driver), "CannotFit")
  <2>1. "CannotFit" \in Errors \ {"None"}
    BY DEF Errors
  <2>2. /\ Consumed(driver) \in DriverSet /\ Consumed(driver).anchor = driver.anchor
        /\ Consumed(driver).target = None
    BY <1>2, ConsumedType
  <2>3. QED
    BY <1>2, <1>5, <2>1, <2>2, BreaksElsewhere
<1>6. CASE machine' = StepAside(machine, before) /\ driver' = Consumed(driver) /\ pc' = "step"
  <2>1. LET x == StepAside(machine, before) IN
        /\ Sound(x) /\ Still(machine, x) /\ x.cancelled = machine.cancelled
        /\ x.state \in {"Start", "Terminal"}
    BY <1>2, <1>4, StepAsideFrame
  <2>2. QED
    BY <1>2, <1>6, <2>1, PassStep DEF Still, SameTalk
<1>7. CASE machine' = n /\ driver' = Consumed(driver) /\ pc' = "step"
  <2>1. /\ Sound(n) /\ n.turns_taken = machine.turns_taken /\ n.cancelled = machine.cancelled
        /\ \/ SameTalk(machine, n) /\ n.state = "Terminal"
           \/ n.pending = <<>> /\ n.state = "Start"
    BY <1>2, <1>3, <1>4, CompactionFrame
  <2> HIDE DEF n
  <2>2. QED
    BY <1>2, <1>7, <2>1, PassStep DEF SameTalk
<1>8. QED
  BY <1>1, <1>5, <1>6, <1>7 DEF after

LEMMA PassFailsDoes == ASSUME DriverSound, PassFails PROVE Breaks \/ Passes
<1> DEFINE used == Payload(machine, driver.transients)
           k == Figure(driver.anchor, used)
           n == CompactionDeferred(machine, k)
<1>1. /\ pc = "compact" /\ UNCHANGED <<signal, steering, trace>>
      /\ Sound(machine) /\ machine.state = "AwaitingCompaction" /\ ~machine.cancelled
      /\ driver \in DriverSet /\ machine \in Machine /\ Unanswered(machine.pending) = {}
  BY PassContext DEF PassFails, Sound, CallsMatch
<1>2. \/ machine' = n /\ driver' = Consumed(driver) /\ pc' = "step"
      \/ FailRun(machine, Consumed(driver), "Failed")
  BY DEF PassFails
<1>3. k \in Nat
  <2>1. driver.transients \in Nat
    BY <1>1 DEF DriverSet
  <2>2. QED
    BY <1>1, <2>1, PassContext
<1> HIDE DEF k
<1>4. CASE FailRun(machine, Consumed(driver), "Failed")
  <2>1. "Failed" \in Errors \ {"None"}
    BY DEF Errors
  <2>2. /\ Consumed(driver) \in DriverSet /\ Consumed(driver).anchor = driver.anchor
        /\ Consumed(driver).target = None
    BY <1>1, ConsumedType
  <2>3. QED
    BY <1>1, <1>4, <2>1, <2>2, BreaksElsewhere
<1>5. CASE machine' = n /\ driver' = Consumed(driver) /\ pc' = "step"
  <2>1. Sound(n)
    BY <1>1, <1>3, CompactionNoopSound
  <2>2. n = [Enter(machine, "Start") EXCEPT !.context_tokens = k, !.deferred_compaction = TRUE]
    BY <1>1 DEF CompactionDeferred, IsTerminal
  <2>3. /\ n.turns_taken = machine.turns_taken /\ n.cancelled = machine.cancelled
        /\ n.pending = machine.pending /\ n.state = "Start"
    BY <1>1, <2>2 DEF Enter, Machine
  <2> HIDE DEF n
  <2>4. QED
    BY <1>1, <1>5, <2>1, <2>3, PassStep
<1>6. QED
  BY <1>2, <1>4, <1>5

\* Merging makes a conversation no longer.
LEMMA CoalesceShorter ==
  ASSUME NEW s \in Conversation
  PROVE  Len(Coalesce(s)) \in Nat /\ Len(Coalesce(s)) <= Len(s)
<1> DEFINE k == Group(s, Len(s))
<1>1. s \in Seq(Message) /\ Len(s) \in Nat /\ k \in Nat
  BY GroupProperties DEF Conversation
<1>2. k <= Len(s)
  <2>1. Heads(s, Len(s)) \in SUBSET (1..Len(s))
    BY DEF Heads
  <2>2. IsFiniteSet(1..Len(s)) /\ Cardinality(1..Len(s)) = Len(s)
    <3>1. \A l \in Nat : IsFiniteSet(1..l) /\ Cardinality(1..l) = l
      <4>1. ASSUME NEW l \in Nat PROVE IsFiniteSet(1..l) /\ Cardinality(1..l) = l
        <5>1. /\ IsFiniteSet(1..l)
              /\ Cardinality(1..l) = IF 1 > l THEN 0 ELSE l - 1 + 1
          BY FS_Interval
        <5>2. QED
          BY <5>1
      <4>2. QED
        BY <4>1
    <3>2. QED
      BY <1>1, <3>1
  <2>3. Cardinality(Heads(s, Len(s))) <= Cardinality(1..Len(s))
    BY <2>1, <2>2, FS_Subset
  <2>4. QED
    BY <2>2, <2>3 DEF Group
<1>3. Coalesce(s) \in Seq(Message)
  BY CoalesceProperties DEF Conversation
<1>4. DOMAIN Coalesce(s) = 1..k
  BY DEF Coalesce
<1> HIDE DEF k
<1>5. Len(Coalesce(s)) = k
  BY <1>1, <1>3, <1>4
<1>6. QED
  BY <1>1, <1>2, <1>5

\* However a run closes, what it adds to the history stands behind it.
LEMMA ClosedFrame ==
  ASSUME NEW m, Sound(m), m.state = "Terminal", NEW n,
         \/ n = CommitPending(m) /\ m.outcome = "Completed"
         \/ n = SalvagePending(m)
         \/ n = DiscardPending(m)
  PROVE  /\ Sound(n) /\ n.pending = <<>> /\ StandsFirst(m.history, n.history)
<1>1. /\ m \in Machine /\ m.history \in Conversation /\ m.pending \in Conversation
      /\ NoOrphans(m.pending) /\ Len(m.pending) \in Nat
  BY FullType DEF Sound, CallsMatch, Conversation
<1>2. StandsFirst(m.history, m.history)
  BY <1>1, StandsFirstSame
<1>3. CASE n = CommitPending(m) /\ m.outcome = "Completed"
  <2>1. Sound(n)
    BY <1>3, CommitPendingSound DEF Sound, CallsMatch
  <2>2. n.pending = <<>> /\ n.history = m.history \o m.pending
    BY <1>1, <1>3 DEF CommitPending, Machine
  <2>3. QED
    BY <1>1, <1>2, <2>1, <2>2, StandsFirstGrows
<1>4. CASE n = SalvagePending(m)
  <2> DEFINE t == Take(m.pending, CoherentCut(m.pending, Len(m.pending)))
  <2>1. Sound(n)
    BY <1>4, SalvagePendingSound
  <2>2. t \in Conversation
    BY <1>1, CutConversation
  <2>3. n.pending = <<>> /\ n.history = m.history \o t
    BY <1>1, <1>4 DEF SalvagePending, Machine
  <2> HIDE DEF t
  <2>4. QED
    BY <1>1, <1>2, <2>1, <2>2, <2>3, StandsFirstGrows
<1>5. CASE n = DiscardPending(m)
  <2>1. Sound(n)
    BY <1>5, DiscardPendingSound
  <2>2. n.pending = <<>> /\ n.history = m.history
    BY <1>1, <1>5 DEF DiscardPending, Machine
  <2>3. QED
    BY <1>2, <2>1, <2>2
<1>6. QED
  BY <1>3, <1>4, <1>5

\* A run settles: what it said is put on record, and the slot is closed.
Closes == /\ DriverSound' /\ pc # "idle" /\ pc' \in {"consolidate", "idle"}
          /\ UNCHANGED <<driver, trace>>
          /\ machine'.pending \in {machine.pending, <<>>}
          /\ StandsFirst(machine.history, machine'.history)
          /\ pc' = "consolidate" =>
               /\ pc = "finalize" /\ machine'.state = "Terminal" /\ UNCHANGED steering
               /\ FullHistory(machine') = FullHistory(machine)
          /\ pc' = "idle" => steering' = CloseRun(steering)

LEMMA CloseRunType ==
  ASSUME DriverSound
  PROVE  /\ CloseRun(steering) \in Slots /\ CloseRun(steering).waiting = steering.waiting
         /\ CloseRun(steering).leftovers = steering.leftovers
         /\ CloseRun(steering).running = FALSE /\ Guidance(CloseRun(steering).waiting)
<1>1. steering \in Slots /\ Guidance(steering.waiting)
  BY DEF DriverSound, LoopTypeOK
<1> DEFINE c == CloseRun(steering)
<1>2. /\ c \in Slots /\ c.waiting = steering.waiting
      /\ c.leftovers = steering.leftovers /\ c.running = FALSE
  BY <1>1 DEF CloseRun, Slots
<1> HIDE DEF c
<1>3. Guidance(c.waiting)
  BY <1>1, <1>2
<1>4. QED
  BY <1>2, <1>3 DEF c

LEMMA FinalizeDoes == ASSUME DriverSound, Finalize PROVE Closes
<1>1. /\ Sound(machine) /\ pc = "finalize" /\ machine.state = "Terminal"
      /\ driver.error = "None" => machine.outcome = "Completed"
      /\ UNCHANGED <<driver, trace>>
  BY DEF DriverSound, AtAwait, Finalize
<1>2. \/ /\ driver.error = "None" /\ machine' = CommitPending(machine)
         /\ pc' = "consolidate" /\ UNCHANGED <<signal, steering>>
      \/ (machine' = DiscardPending(machine) \/ machine' = SalvagePending(machine)) /\ Close
  BY DEF Finalize
<1>3. /\ Sound(machine') /\ machine'.pending = <<>>
      /\ StandsFirst(machine.history, machine'.history)
  <2>1. \/ machine' = CommitPending(machine) /\ machine.outcome = "Completed"
        \/ machine' = SalvagePending(machine)
        \/ machine' = DiscardPending(machine)
    BY <1>1, <1>2
  <2>2. \A n : \/ n = CommitPending(machine) /\ machine.outcome = "Completed"
               \/ n = SalvagePending(machine)
               \/ n = DiscardPending(machine)
          => /\ Sound(n) /\ n.pending = <<>> /\ StandsFirst(machine.history, n.history)
    BY <1>1, ClosedFrame
  <2>3. QED
    BY <2>1, <2>2
<1>4. CASE /\ driver.error = "None" /\ machine' = CommitPending(machine)
           /\ pc' = "consolidate" /\ UNCHANGED <<signal, steering>>
  <2>1. machine'.state = "Terminal" /\ machine'.history = FullHistory(machine)
    BY <1>1, <1>4 DEF CommitPending, FullHistory, Sound, Machine
  <2>2. FullHistory(machine') = FullHistory(machine)
    <3>1. FullHistory(machine) \in Seq(Message)
      BY <1>1, FullType DEF Conversation
    <3>2. FullHistory(machine) \o <<>> = FullHistory(machine)
      BY <3>1, ConcatEmptySeq
    <3>3. QED
      BY <1>3, <2>1, <3>2 DEF FullHistory
  <2>3. AtAwait'
    BY <1>4 DEF AtAwait
  <2>4. DriverSound'
    BY <1>1, <1>3, <1>4, <2>3 DEF DriverSound, LoopTypeOK, Sound, Awaits
  <2>5. QED
    BY <1>1, <1>3, <1>4, <2>1, <2>2, <2>4 DEF Closes
<1>5. CASE Close
  <2>1. pc' = "idle" /\ signal' = FALSE /\ steering' = CloseRun(steering)
    BY <1>5 DEF Close
  <2>2. AtAwait'
    BY <2>1 DEF AtAwait
  <2>3. DriverSound'
    BY <1>1, <1>3, <2>1, <2>2, CloseRunType DEF DriverSound, LoopTypeOK, Sound, Awaits
  <2>4. QED
    BY <1>1, <1>3, <2>1, <2>3 DEF Closes
<1>6. QED
  BY <1>2, <1>4, <1>5

LEMMA LeavesDoes == ASSUME DriverSound, Consolidated \/ DropFuture PROVE Closes
<1>1. /\ pc # "idle" /\ pc' = "idle" /\ steering' = CloseRun(steering) /\ signal' \in BOOLEAN
      /\ UNCHANGED <<machine, driver, trace>>
  BY DEF Consolidated, DropFuture, Close, DriverSound, LoopTypeOK
<1>2. StandsFirst(machine.history, machine'.history)
  BY <1>1, FullType, StandsFirstSame DEF DriverSound
<1>3. AtAwait'
  BY <1>1 DEF AtAwait
<1>4. DriverSound'
  BY <1>1, <1>3, CloseRunType DEF DriverSound, LoopTypeOK, Sound, Awaits
<1>5. QED
  BY <1>1, <1>2, <1>4 DEF Closes

LEMMA NoFollowupDoes == ASSUME DriverSound, NoFollowup PROVE Breaks
<1>1. /\ pc = "followup" /\ pc' = "finalize" /\ UNCHANGED <<machine, driver, signal, steering, trace>>
  BY DEF NoFollowup
<1>2. AtAwait'
  <2>1. machine.state = "Terminal" /\ machine.outcome = "Completed"
    BY <1>1 DEF DriverSound, AtAwait, Sound
  <2>2. QED
    BY <1>1, <2>1 DEF AtAwait
<1>3. DriverSound'
  BY <1>1, <1>2 DEF DriverSound, LoopTypeOK, Sound, Awaits
<1>4. Carries
  BY <1>1, QuietCarries DEF Still, SameTalk
<1>5. QED
  BY <1>1, <1>3, <1>4 DEF Breaks

\* A run begins on a prompt of its own, with nothing left of the one before it.
Begins == /\ DriverSound' /\ pc = "idle" /\ pc' = "resolve"
          /\ machine'.history = machine.history /\ Said(machine'.pending) \subseteq Speech
          /\ machine'.state = "Start" /\ machine'.turns_taken = 0
          /\ driver'.target = None /\ driver'.anchor = driver.anchor
          /\ steering' = OpenRun(steering)
          /\ trace'.run = trace.run + 1 /\ trace'.attempts = 0 /\ trace'.open = FALSE
          /\ trace'.accepted = trace.accepted
          /\ trace'.handed = trace.handed /\ trace'.said = trace.said

LEMMA StartRunDoes == ASSUME DriverSound, StartRun PROVE Begins
<1>1. /\ Sound(machine) /\ machine \in Machine /\ driver \in DriverSet /\ steering \in Slots
      /\ trace \in TraceSet /\ pc = "idle" /\ pc' = "resolve" /\ driver' = ForNewRun(driver)
      /\ steering' = OpenRun(steering) /\ signal' \in BOOLEAN
      /\ trace' = [trace EXCEPT !.run = @ + 1, !.attempts = 0, !.open = FALSE]
  BY FullType DEF DriverSound, LoopTypeOK, StartRun
<1>2. PICK t \in Speech : machine' = AcceptInput(machine, UserText({t}))
  BY DEF StartRun
<1>3. {t} \in SUBSET Text /\ {t} \subseteq Speech
  BY DEF Speech
<1>4. Sound(machine')
  BY <1>1, <1>2, <1>3, AcceptInputSound
<1>5. Said(<<UserText({t})>>) = {t}
  BY <1>3, OnePrompt
<1>6. /\ machine'.history = machine.history /\ machine'.pending = <<UserText({t})>>
      /\ machine'.state = "Start" /\ machine'.turns_taken = 0 /\ machine'.cancelled = FALSE
  BY <1>2 DEF AcceptInput, FromHistory
<1>7. driver' \in DriverSet /\ driver'.target = None /\ driver'.anchor = driver.anchor
  BY <1>1 DEF ForNewRun, DriverSet, Errors
<1>8. steering' \in Slots /\ Guidance(steering'.waiting)
  <2>1. steering.leftovers \o steering.waiting \in Conversation /\ <<>> \in Conversation
    BY <1>1, ConcatConversation, EmptyCoherent DEF Slots
  <2>2. Guidance(<<>>)
    BY EmptyCoherent DEF Guidance
  <2>3. QED
    BY <1>1, <2>1, <2>2 DEF OpenRun, Slots
<1>9. /\ trace' \in TraceSet
      /\ trace'.run = trace.run + 1 /\ trace'.attempts = 0 /\ trace'.open = FALSE
      /\ trace'.accepted = trace.accepted
      /\ trace'.handed = trace.handed /\ trace'.said = trace.said
  <2> DEFINE k == trace.run + 1
  <2>1. /\ k \in Nat /\ trace' = [trace EXCEPT !.run = k, !.attempts = 0, !.open = FALSE]
        /\ trace \in TraceSet
    BY <1>1 DEF TraceSet
  <2> HIDE DEF k
  <2>2. /\ trace' \in TraceSet
        /\ trace'.run = k /\ trace'.attempts = 0 /\ trace'.open = FALSE
        /\ trace'.accepted = trace.accepted
        /\ trace'.handed = trace.handed /\ trace'.said = trace.said
    BY <2>1 DEF TraceSet
  <2>3. QED
    BY <2>2 DEF k
<1>10. AtAwait'
  BY <1>1, <1>6 DEF AtAwait
<1>11. DriverSound'
  BY <1>1, <1>4, <1>7, <1>8, <1>9, <1>10 DEF DriverSound, LoopTypeOK, Sound, Awaits
<1>12. QED
  BY <1>1, <1>3, <1>5, <1>6, <1>7, <1>9, <1>11 DEF Begins

(* What the host does. *)

\* Most of what the host does leaves the run alone.
Watches == /\ DriverSound' /\ UNCHANGED <<machine, pc, driver>>
           /\ trace'.run = trace.run /\ trace'.open = trace.open
           /\ trace'.attempts = trace.attempts

LEMMA WatchStep ==
  ASSUME DriverSound, UNCHANGED <<machine, pc, driver>>, signal' \in BOOLEAN,
         steering' \in Slots, Guidance(steering'.waiting), trace' \in TraceSet,
         trace'.run = trace.run, trace'.open = trace.open, trace'.attempts = trace.attempts
  PROVE  Watches
<1>1. AtAwait'
  BY DEF DriverSound, AtAwait
<1>2. QED
  BY <1>1 DEF DriverSound, LoopTypeOK, Sound, Watches

LEMMA HostCancelsDoes ==
  ASSUME DriverSound, HostCancels
  PROVE  Watches /\ UNCHANGED <<steering, trace>>
<1>1. /\ signal' \in BOOLEAN /\ UNCHANGED <<machine, pc, driver, steering, trace>>
      /\ steering' \in Slots /\ Guidance(steering'.waiting) /\ trace' \in TraceSet
  BY DEF HostCancels, DriverSound, LoopTypeOK
<1>2. QED
  BY <1>1, WatchStep

\* A push lands behind what waits, and is accepted for the run under way.
LEMMA HostSteersDoes ==
  ASSUME DriverSound, HostSteers
  PROVE  /\ Watches /\ steering.running
         /\ steering'.running = steering.running /\ steering'.leftovers = steering.leftovers
         /\ trace'.handed = trace.handed /\ trace'.said = trace.said
         /\ \E s \in Steers :
              /\ trace.accepted[s] = 0
              /\ trace'.accepted = [trace.accepted EXCEPT ![s] = trace.run]
              /\ steering'.waiting = steering.waiting \o <<UserText({s})>>
<1>1. PICK s \in Steers :
         /\ trace.accepted[s] = 0 /\ steering.running
         /\ steering' = [steering EXCEPT !.waiting = Append(@, UserText({s}))]
         /\ trace' = [trace EXCEPT !.accepted[s] = trace.run]
         /\ UNCHANGED <<machine, pc, driver, signal>>
  BY DEF HostSteers
<1>2. /\ steering \in Slots /\ trace \in TraceSet /\ signal \in BOOLEAN
      /\ steering.waiting \in Conversation /\ Guidance(steering.waiting)
  BY DEF DriverSound, LoopTypeOK, Slots
<1> DEFINE x == UserText({s})
           w == steering.waiting \o <<x>>
<1>3. {s} \in SUBSET Text
  BY SteersAssumption
<1>4. x \in Message /\ <<x>> \in Conversation /\ Append(steering.waiting, x) = w
      /\ Guidance(<<x>>)
  BY <1>2, <1>3, OnePrompt
<1>5. w \in Conversation /\ Guidance(w)
  <2> HIDE DEF x
  <2>1. /\ w \in Conversation /\ Len(w) = Len(steering.waiting) + Len(<<x>>)
        /\ \A i \in 1..Len(w) :
             w[i] = IF i <= Len(steering.waiting) THEN steering.waiting[i]
                    ELSE <<x>>[i - Len(steering.waiting)]
    <3>1. steering.waiting \in Seq(Message) /\ <<x>> \in Seq(Message)
      BY <1>2, <1>4 DEF Conversation
    <3>2. w \in Conversation
      BY <1>2, <1>4, ConcatConversation
    <3>3. QED
      BY <3>1, <3>2, ConcatProperties
  <2>2. Len(steering.waiting) \in Nat /\ Len(<<x>>) = 1
    BY <1>2 DEF Conversation
  <2> HIDE DEF w
  <2>3. ASSUME NEW i \in 1..Len(w) PROVE w[i].calls = {} /\ w[i].results = {}
    <3>1. CASE i <= Len(steering.waiting)
      <4>1. i \in 1..Len(steering.waiting) /\ w[i] = steering.waiting[i]
        BY <2>1, <2>2, <3>1
      <4>2. QED
        BY <1>2, <4>1 DEF Guidance
    <3>2. CASE ~(i <= Len(steering.waiting))
      <4>1. i - Len(steering.waiting) \in 1..Len(<<x>>)
            /\ w[i] = <<x>>[i - Len(steering.waiting)]
        BY <2>1, <2>2, <3>2
      <4>2. QED
        BY <1>4, <4>1 DEF Guidance
    <3>3. QED
      BY <3>1, <3>2
  <2>4. QED
    BY <2>1, <2>3 DEF Guidance
<1>6. steering' = [steering EXCEPT !.waiting = w]
  BY <1>1, <1>2, <1>4 DEF Slots
<1> DEFINE a == [trace.accepted EXCEPT ![s] = trace.run]
<1>7. trace' = [trace EXCEPT !.accepted = a]
  BY <1>1, <1>2 DEF TraceSet
<1>8. a \in [Steers -> Nat]
  BY <1>2 DEF TraceSet
<1> HIDE DEF w, a
<1>9. /\ steering' \in Slots /\ steering'.waiting = w
      /\ steering'.running = steering.running /\ steering'.leftovers = steering.leftovers
  BY <1>2, <1>5, <1>6 DEF Slots
<1>10. /\ trace' \in TraceSet /\ trace'.accepted = a /\ trace'.run = trace.run
       /\ trace'.open = trace.open /\ trace'.attempts = trace.attempts
       /\ trace'.handed = trace.handed /\ trace'.said = trace.said
  BY <1>2, <1>7, <1>8 DEF TraceSet
<1>11. Watches
  <2>1. Guidance(steering'.waiting)
    BY <1>5, <1>9
  <2>2. QED
    BY <1>1, <1>2, <1>9, <1>10, <2>1, WatchStep
<1>12. QED
  BY <1>1, <1>9, <1>10, <1>11 DEF w, a, x

\* What the host takes back it takes from the slot.
LEMMA HostTakesDoes ==
  ASSUME DriverSound, HostTakes
  PROVE  /\ Watches /\ steering'.running = steering.running /\ steering'.leftovers = <<>>
         /\ trace'.accepted = trace.accepted /\ trace'.said = trace.said
         /\ \/ /\ steering'.waiting = steering.waiting
               /\ trace'.handed = trace.handed \cup Said(steering.leftovers)
            \/ /\ steering'.waiting = <<>>
               /\ trace'.handed = trace.handed \cup Said(steering.leftovers)
                                                \cup Said(steering.waiting)
<1>1. /\ steering \in Slots /\ trace \in TraceSet /\ signal \in BOOLEAN
      /\ steering.waiting \in Conversation /\ steering.leftovers \in Conversation
      /\ Guidance(steering.waiting) /\ <<>> \in Conversation /\ Guidance(<<>>)
  BY EmptyCoherent DEF DriverSound, LoopTypeOK, Slots, Guidance
<1> DEFINE l == Said(steering.leftovers)
           w == Said(steering.waiting)
<1>2. l \in SUBSET Text /\ w \in SUBSET Text
  BY <1>1, SaidType
<1>3. \/ /\ steering' = [steering EXCEPT !.leftovers = <<>>]
         /\ trace' = [trace EXCEPT !.handed = @ \cup l]
      \/ /\ steering' = [steering EXCEPT !.leftovers = <<>>, !.waiting = <<>>]
         /\ trace' = [trace EXCEPT !.handed = @ \cup l \cup w]
  BY DEF HostTakes
<1>4. UNCHANGED <<machine, pc, driver, signal>>
  BY DEF HostTakes
<1> HIDE DEF l, w
<1>5. /\ steering' \in Slots /\ steering'.running = steering.running
      /\ steering'.leftovers = <<>> /\ Guidance(steering'.waiting)
      /\ trace' \in TraceSet /\ trace'.run = trace.run /\ trace'.open = trace.open
      /\ trace'.attempts = trace.attempts /\ trace'.accepted = trace.accepted
      /\ trace'.said = trace.said
      /\ \/ steering'.waiting = steering.waiting /\ trace'.handed = trace.handed \cup l
         \/ steering'.waiting = <<>> /\ trace'.handed = trace.handed \cup l \cup w
  <2>1. CASE /\ steering' = [steering EXCEPT !.leftovers = <<>>]
             /\ trace' = [trace EXCEPT !.handed = @ \cup l]
    <3>1. trace.handed \cup l \in SUBSET Text
      BY <1>1, <1>2 DEF TraceSet
    <3>2. /\ steering' \in Slots /\ steering'.running = steering.running
          /\ steering'.leftovers = <<>> /\ steering'.waiting = steering.waiting
      BY <1>1, <2>1 DEF Slots
    <3>3. /\ trace' \in TraceSet /\ trace'.run = trace.run /\ trace'.open = trace.open
          /\ trace'.attempts = trace.attempts /\ trace'.accepted = trace.accepted
          /\ trace'.said = trace.said /\ trace'.handed = trace.handed \cup l
      BY <1>1, <2>1, <3>1 DEF TraceSet
    <3>4. QED
      BY <1>1, <3>2, <3>3
  <2>2. CASE /\ steering' = [steering EXCEPT !.leftovers = <<>>, !.waiting = <<>>]
             /\ trace' = [trace EXCEPT !.handed = @ \cup l \cup w]
    <3>1. trace.handed \cup l \cup w \in SUBSET Text
      BY <1>1, <1>2 DEF TraceSet
    <3>2. /\ steering' \in Slots /\ steering'.running = steering.running
          /\ steering'.leftovers = <<>> /\ steering'.waiting = <<>>
      BY <1>1, <2>2 DEF Slots
    <3>3. /\ trace' \in TraceSet /\ trace'.run = trace.run /\ trace'.open = trace.open
          /\ trace'.attempts = trace.attempts /\ trace'.accepted = trace.accepted
          /\ trace'.said = trace.said /\ trace'.handed = trace.handed \cup l \cup w
      BY <1>1, <2>2, <3>1 DEF TraceSet
    <3>4. QED
      BY <1>1, <3>2, <3>3
  <2>3. QED
    BY <1>3, <2>1, <2>2
<1>6. Watches
  BY <1>1, <1>4, <1>5, WatchStep
<1>7. QED
  BY <1>5, <1>6 DEF l, w

\* Between runs the history is cut back, or condensed.
Edits == /\ DriverSound' /\ pc = "idle" /\ pc' = "idle" /\ UNCHANGED <<steering, trace>>
         /\ driver'.anchor \in {driver.anchor, None}
         /\ machine'.pending \in {machine.pending, <<>>}
         /\ \/ StandsFirst(machine'.history, machine.history)
            \/ Len(machine'.history) <= Len(machine.history)

LEMMA EditStep ==
  ASSUME DriverSound, pc = "idle", UNCHANGED <<pc, signal, steering, trace>>,
         Sound(machine'), driver' \in DriverSet
  PROVE  DriverSound'
<1>1. AtAwait'
  BY DEF AtAwait
<1>2. QED
  BY <1>1 DEF DriverSound, LoopTypeOK, Sound

\* A shorter prefix of a conversation stands first in it.
LEMMA TakeStandsFirst ==
  ASSUME NEW s \in Conversation, NEW n \in Nat
  PROVE  StandsFirst(Take(s, n), s)
<1>1. s \in Seq(Message) /\ Len(s) \in Nat
  BY DEF Conversation
<1>2. /\ Within(s, n) \in 0..Len(s) /\ Len(Take(s, n)) = Within(s, n)
  BY <1>1, SplitProperties
<1>3. SubSeq(s, 1, Len(Take(s, n))) = Take(s, n)
  BY <1>2 DEF Take
<1>4. QED
  BY <1>1, <1>2, <1>3 DEF StandsFirst

LEMMA HostRewindsDoes == ASSUME DriverSound, HostRewinds PROVE Edits
<1>1. /\ Sound(machine) /\ machine \in Machine /\ machine.history \in Conversation
      /\ NoOrphans(machine.history) /\ Len(machine.history) \in Nat
      /\ driver \in DriverSet /\ pc = "idle" /\ UNCHANGED <<pc, signal, steering, trace>>
  BY FullType DEF DriverSound, LoopTypeOK, HostRewinds, Sound, Coherent, Conversation
<1>2. PICK len \in 0..Len(machine.history) :
         /\ machine' = RewindTo(machine, len)
         /\ driver' \in {driver, Forgetful(driver)}
  BY DEF HostRewinds
<1>3. Sound(machine')
  BY <1>2, <1>1, RewindToSound
<1>4. driver' \in DriverSet /\ driver'.anchor \in {driver.anchor, None}
  BY <1>1, <1>2 DEF Forgetful, DriverSet
<1> DEFINE w   == Within(machine.history, len)
           cut == CoherentCut(machine.history, w)
           h   == Take(machine.history, cut)
<1>5. machine'.pending = machine.pending /\ machine'.history \in {machine.history, h}
  BY <1>1, <1>2 DEF RewindTo, Machine
<1>6. StandsFirst(h, machine.history)
  <2>1. w \in 0..Len(machine.history)
    BY <1>1 DEF Within
  <2>2. cut \in Nat
    BY <1>1, <2>1, CutConversation
  <2> HIDE DEF cut
  <2>3. QED
    BY <1>1, <2>2, TakeStandsFirst
<1>7. StandsFirst(machine'.history, machine.history)
  BY <1>1, <1>5, <1>6, StandsFirstSame
<1>8. DriverSound'
  BY <1>1, <1>3, <1>4, EditStep
<1>9. QED
  BY <1>1, <1>4, <1>5, <1>7, <1>8 DEF Edits

LEMMA HostCompactsDoes == ASSUME DriverSound, HostCompacts PROVE Edits
<1>1. /\ Sound(machine) /\ machine \in Machine /\ machine.history \in Conversation
      /\ Len(machine.history) \in Nat /\ driver \in DriverSet /\ pc = "idle"
      /\ UNCHANGED <<pc, signal, steering, trace>> /\ ManualCompactionAllowed(machine)
  BY FullType DEF DriverSound, LoopTypeOK, HostCompacts, Conversation
<1> DEFINE feed == machine.history
<1>2. PICK c \in Compactions(feed) :
         \/ /\ Len(c) <= Len(feed)
            /\ machine' = InstallManualCompaction(machine, c, Len(feed),
                                                  Figure(driver.anchor, Raw(c) + Overhead))
            /\ driver' = Forgetful(Consumed(driver))
         \/ driver' = Consumed(driver) /\ UNCHANGED machine
  BY DEF HostCompacts
<1> DEFINE k == Figure(driver.anchor, Raw(c) + Overhead)
           n == InstallManualCompaction(machine, c, Len(feed), k)
<1>3. c \in Conversation /\ Coherent(c) /\ Len(c) \in Nat
  BY <1>1, CompactionsCoherent DEF Conversation
<1>4. k \in Nat
  <2>1. Raw(c) + Overhead \in Nat /\ driver.anchor \in Anchor \cup {None}
    BY <1>1, <1>3, RawType, SizesAssumption DEF DriverSet
  <2>2. QED
    BY <2>1, FigureType
<1> HIDE DEF k
<1>5. CASE /\ Len(c) <= Len(feed) /\ machine' = n /\ driver' = Forgetful(Consumed(driver))
  <2>1. Sound(n)
    BY <1>1, <1>3, <1>4, <1>5, ManualCompactionSound
  <2>2. driver' \in DriverSet /\ driver'.anchor = None
    BY <1>1, <1>5 DEF Consumed, Forgetful, DriverSet
  <2> DEFINE h == Coalesce(Take(c, Len(feed)))
             p == Drop(c, Len(feed))
  <2>3. n.history = h /\ n.pending = p
    <3>1. n = [machine EXCEPT !.history = h, !.pending = p, !.context_tokens = k,
                              !.deferred_compaction = FALSE]
      BY <1>1 DEF InstallManualCompaction
    <3> HIDE DEF n, h, p
    <3>2. QED
      BY <1>1, <3>1 DEF Machine
  <2>4. /\ Take(c, Len(feed)) \in Conversation /\ Len(Take(c, Len(feed))) = Len(c)
        /\ p = <<>>
    <3>1. c \in Seq(Message) /\ Within(c, Len(feed)) = Len(c)
      BY <1>1, <1>3, <1>5 DEF Conversation, Within
    <3>2. /\ Take(c, Len(feed)) \in Conversation
          /\ Len(Take(c, Len(feed))) = Len(c) /\ p \in Seq(Message) /\ Len(p) = Len(c) - Len(c)
      BY <1>1, <1>3, <3>1, SplitProperties, SplitConversation
    <3> HIDE DEF p
    <3>3. p = <<>>
      BY <1>3, <3>2
    <3>4. QED
      BY <3>2, <3>3
  <2>5. Len(h) <= Len(feed)
    <3>1. Len(h) \in Nat /\ Len(h) <= Len(Take(c, Len(feed)))
      BY <2>4, CoalesceShorter
    <3> HIDE DEF h
    <3>2. QED
      BY <1>1, <1>3, <1>5, <2>4, <3>1
  <2> HIDE DEF n, h, p
  <2>6. DriverSound'
    BY <1>1, <1>5, <2>1, <2>2, EditStep
  <2>7. QED
    BY <1>1, <1>5, <2>2, <2>3, <2>4, <2>5, <2>6 DEF Edits
<1>6. CASE driver' = Consumed(driver) /\ UNCHANGED machine
  <2>1. driver' \in DriverSet /\ driver'.anchor = driver.anchor
    BY <1>1, <1>6, ConsumedType
  <2>2. DriverSound'
    BY <1>1, <1>6, <2>1, EditStep
  <2>3. QED
    BY <1>1, <1>6, <2>1, <2>2 DEF Edits
<1>7. QED
  BY <1>2, <1>5, <1>6 DEF n, k

-----------------------------------------------------------------------------
(* Every step is one of these. *)

LEMMA StutterDoes ==
  ASSUME DriverSound, UNCHANGED vars
  PROVE  DriverSound'
BY DEF DriverSound, LoopTypeOK, Sound, AtAwait, vars

LEMMA EveryStep ==
  ASSUME DriverSound, [LoopNext]_vars
  PROVE  \/ Begins \/ Breaks \/ Arms \/ Steps \/ Assembles \/ Serves \/ Salvages \/ Passes
         \/ Closes \/ Edits
         \/ Watches /\ (UNCHANGED <<steering, trace>> \/ HostSteers \/ HostTakes)
<1>1. CASE StartRun
  BY <1>1, StartRunDoes
<1>2. CASE \/ ResolveCancelled \/ FallbackExhausted \/ ModelFails \/ ModelCancelled
           \/ ToolsFail \/ ToolsCancelled \/ PassCancelled \/ NoFollowup
  BY <1>2, ResolveCancelledDoes, FallbackExhaustedDoes, ModelFailsDoes, ModelCancelledDoes,
     ToolsBreakDoes, PassCancelledDoes, NoFollowupDoes
<1>3. CASE ResolveWindow \/ Arm \/ ToolsAnswer \/ Followup
  BY <1>3, ResolveWindowDoes, ArmDoes, ToolsAnswerDoes, FollowupDoes
<1>4. CASE Step \/ Assemble \/ ModelServes
  BY <1>4, StepDoes, AssemblyDoes, ModelServesDoes
<1>5. CASE ModelTruncates \/ ModelRejects
  BY <1>5, ModelTruncatesDoes, ModelRejectsDoes
<1>6. CASE PassDeclines \/ PassReturns \/ PassFails
  BY <1>6, PassDeclinesDoes, PassReturnsDoes, PassFailsDoes
<1>7. CASE Finalize \/ Consolidated \/ DropFuture
  BY <1>7, FinalizeDoes, LeavesDoes
<1>8. CASE HostRewinds \/ HostCompacts
  BY <1>8, HostRewindsDoes, HostCompactsDoes
<1>9. CASE HostCancels \/ HostSteers \/ HostTakes
  BY <1>9, HostCancelsDoes, HostSteersDoes, HostTakesDoes
<1>10. CASE UNCHANGED vars
  <2>1. DriverSound'
    BY <1>10, StutterDoes
  <2>2. QED
    BY <1>10, <2>1 DEF Watches, vars
<1>11. QED
  BY <1>1, <1>2, <1>3, <1>4, <1>5, <1>6, <1>7, <1>8, <1>9, <1>10
  DEF LoopNext, Driver, World, Host

LEMMA DriverInit == LoopInit => DriverSound
<1> SUFFICES ASSUME LoopInit PROVE DriverSound
  OBVIOUS
<1>1. machine = FromHistory(<<>>) /\ <<>> \in Conversation /\ Coherent(<<>>)
  BY EmptyCoherent DEF LoopInit
<1>2. Sound(machine)
  BY <1>1, FromHistorySound
<1>3. driver \in DriverSet
  BY DEF LoopInit, DriverSet, Errors
<1>4. steering \in Slots /\ Guidance(steering.waiting)
  BY <1>1, EmptyCoherent DEF LoopInit, Slots, Guidance
<1>5. trace \in TraceSet
  BY DEF LoopInit, TraceSet
<1>6. pc = "idle" /\ signal = FALSE /\ AtAwait
  BY DEF LoopInit, AtAwait
<1>7. QED
  BY <1>2, <1>3, <1>4, <1>5, <1>6 DEF DriverSound, LoopTypeOK, Sound, Awaits

LEMMA DriverNext == DriverSound /\ [LoopNext]_vars => DriverSound'
BY EveryStep DEF Begins, Breaks, Arms, Steps, Assembles, Serves, Salvages, Passes, Closes, Edits,
                 Watches

\* The driver calls the machine's methods only where they are sound, at every await
\* of every run, so that the machine stays sound in its hands.
THEOREM DriverAlwaysSound == LoopSpec => []DriverSound
<1>1. QED
  BY DriverInit, DriverNext, PTL DEF LoopSpec

\* Every field of the driver, the slot and the machine keeps its type.
THEOREM LoopTypeCorrect == LoopSpec => []LoopTypeOK
<1>1. DriverSound => LoopTypeOK
  BY DEF DriverSound
<1>2. QED
  BY <1>1, DriverAlwaysSound, PTL

(* Turns are bracketed, and a staged target is this run's own. *)

LEMMA BracketsNext ==
  DriverSound /\ TurnsBracketed /\ [LoopNext]_vars => TurnsBracketed'
<1> SUFFICES ASSUME DriverSound, TurnsBracketed, [LoopNext]_vars PROVE TurnsBracketed'
  OBVIOUS
<1>1. DriverSound' /\ trace.open \in BOOLEAN /\ trace'.open \in BOOLEAN
  BY DriverNext DEF DriverSound, TraceSet
<1>2. CASE Begins
  BY <1>2 DEF TurnsBracketed, Begins
<1>3. CASE Breaks
  BY <1>1, <1>3 DEF TurnsBracketed, Breaks
<1>4. CASE Arms
  BY <1>1, <1>4 DEF TurnsBracketed, Arms
<1>5. CASE Steps
  <2>1. pc' = "tools" => machine'.state = "AwaitingTools"
    BY <1>1 DEF DriverSound, AtAwait
  <2>2. QED
    BY <1>1, <1>5, <2>1 DEF TurnsBracketed, Steps
<1>6. CASE Assembles
  BY <1>1, <1>6 DEF TurnsBracketed, Assembles
<1>7. CASE Serves
  BY <1>1, <1>7 DEF TurnsBracketed, Serves
<1>8. CASE Salvages
  BY <1>1, <1>8 DEF TurnsBracketed, Salvages
<1>9. CASE Passes
  BY <1>1, <1>9 DEF TurnsBracketed, Passes
<1>10. CASE Closes
  BY <1>1, <1>10 DEF TurnsBracketed, Closes
<1>11. CASE Edits
  BY <1>11 DEF TurnsBracketed, Edits
<1>12. CASE Watches
  BY <1>1, <1>12 DEF TurnsBracketed, Watches
<1>13. QED
  BY EveryStep, <1>2, <1>3, <1>4, <1>5, <1>6, <1>7, <1>8, <1>9, <1>10, <1>11, <1>12

\* Observers see every turn end, once, before the run settles, compacts or assembles
\* the next, and not before its tools have answered.
THEOREM TurnsAlwaysBracketed == LoopSpec => []TurnsBracketed
<1>1. LoopInit => TurnsBracketed
  BY DEF LoopInit, TurnsBracketed
<1>2. QED
  BY <1>1, BracketsNext, DriverAlwaysSound, PTL DEF LoopSpec

LEMMA TargetNext ==
  DriverSound /\ TargetIsThisRuns /\ [LoopNext]_vars => TargetIsThisRuns'
<1> SUFFICES ASSUME DriverSound, TargetIsThisRuns, [LoopNext]_vars PROVE TargetIsThisRuns'
  OBVIOUS
<1>1. CASE Begins
  BY <1>1 DEF TargetIsThisRuns, Begins
<1>2. CASE Carries
  BY <1>2 DEF TargetIsThisRuns, Carries, Hears
<1>3. CASE Closes
  BY <1>3 DEF TargetIsThisRuns, Closes
<1>4. CASE Edits
  BY <1>4 DEF TargetIsThisRuns, Edits
<1>5. CASE Watches
  BY <1>5 DEF TargetIsThisRuns, Watches
<1>6. QED
  BY EveryStep, <1>1, <1>2, <1>3, <1>4, <1>5
  DEF Breaks, Arms, Steps, Assembles, Serves, Salvages, Passes

\* What a salvage staged for the pass it asks for is gone before another run's pass:
\* no pass lands on a target another run left.
THEOREM TargetAlwaysThisRuns == LoopSpec => []TargetIsThisRuns
<1>1. LoopInit => TargetIsThisRuns
  BY DEF LoopInit, TargetIsThisRuns
<1>2. QED
  BY <1>1, TargetNext, DriverAlwaysSound, PTL DEF LoopSpec

-----------------------------------------------------------------------------
(* A turn asks the provider at most three times, and below the line. *)

\* A spent retry is marked with the turn it was spent on; what was asked without
\* an answer is one more than the marks while the provider is at it.
Spent(retry)  == IF retry = machine.turns_taken THEN 1 ELSE 0
Marks         == Spent(driver.overflow_retry) + Spent(driver.truncation_retry)
RetriesMarked ==
  /\ pc # "idle" /\ machine.state = "AwaitingModel" => machine.turn = machine.turns_taken
  /\ pc \in {"resolve", "arm", "step", "assemble", "tools", "compact", "followup"}
       => trace.attempts <= Marks
  /\ pc = "model" => trace.attempts <= Marks + 1
  /\ RequestsBounded

LEMMA RetriesNext ==
  DriverSound /\ RetriesMarked /\ [LoopNext]_vars => RetriesMarked'
<1> SUFFICES ASSUME DriverSound, RetriesMarked, [LoopNext]_vars PROVE RetriesMarked'
  OBVIOUS
<1>1. /\ DriverSound' /\ trace.attempts \in Nat /\ trace'.attempts \in Nat
      /\ trace.attempts <= 3 /\ Marks \in 0..2 /\ Marks' \in 0..2
  <2>1. Spent(driver.overflow_retry) \in 0..1 /\ Spent(driver.truncation_retry) \in 0..1
    BY DEF Spent
  <2>2. Spent(driver.overflow_retry)' \in 0..1 /\ Spent(driver.truncation_retry)' \in 0..1
    BY DEF Spent
  <2>3. Marks \in 0..2 /\ Marks' \in 0..2
    BY <2>1, <2>2 DEF Marks
  <2>4. DriverSound' /\ trace.attempts \in Nat /\ trace'.attempts \in Nat
    BY DriverNext DEF DriverSound, TraceSet
  <2>5. QED
    BY <2>3, <2>4 DEF RetriesMarked, RequestsBounded, AttemptsBounded
<1>2. ASSUME pc' \notin {"idle", "model"},
             machine'.state = "AwaitingModel" => machine'.turn = machine'.turns_taken,
             trace'.attempts <= 3, pc' \notin {"finalize", "consolidate"} => trace'.attempts <= Marks'
      PROVE  RetriesMarked'
  BY <1>2 DEF RetriesMarked, RequestsBounded, RequestBelowEmergency, AttemptsBounded
<1>3. ASSUME machine'.turns_taken = machine.turns_taken,
             driver'.overflow_retry = driver.overflow_retry,
             driver'.truncation_retry = driver.truncation_retry
      PROVE  Marks' = Marks
  BY <1>3 DEF Marks, Spent
<1>4. CASE Begins
  BY <1>1, <1>2, <1>4 DEF Begins
<1>5. CASE Breaks
  <2>1. machine'.state = "Terminal"
    BY <1>5 DEF Breaks, DriverSound, AtAwait
  <2>2. QED
    BY <1>1, <1>2, <1>5, <2>1 DEF Breaks
<1>6. CASE Arms
  <2>1. trace.attempts <= Marks
    BY <1>6 DEF Arms, RetriesMarked
  <2>2. QED
    BY <1>1, <1>2, <1>3, <1>6, <2>1 DEF Arms
<1>7. CASE Steps
  <2>1. /\ machine'.turns_taken = machine.turns_taken /\ pc = "step" /\ pc # "idle"
        /\ trace' = trace /\ trace.attempts <= Marks
    BY <1>7 DEF Steps, Still, RetriesMarked
  <2>2. machine'.state = "AwaitingModel" => machine'.turn = machine'.turns_taken
    BY <1>7, <2>1 DEF Steps, RetriesMarked
  <2>3. Marks' = Marks
    BY <1>3, <1>7, <2>1 DEF Steps
  <2>4. QED
    BY <1>1, <1>2, <1>7, <2>1, <2>2, <2>3 DEF Steps
<1>8. CASE Assembles
  <2>1. Marks' = Marks /\ trace.attempts <= Marks /\ machine.state = "AwaitingModel"
        /\ machine.turn = machine.turns_taken
    BY <1>3, <1>8 DEF Assembles, RetriesMarked, DriverSound, AtAwait
  <2>2. CASE pc' = "model"
    <3>1. /\ machine'.turn = machine'.turns_taken /\ RequestBelowEmergency'
          /\ trace'.attempts = Counted(trace.attempts)
      BY <1>8, <2>1, <2>2 DEF Assembles
    <3>2. trace'.attempts <= Marks' + 1 /\ trace'.attempts <= 3
      BY <1>1, <2>1, <3>1 DEF Counted
    <3>3. QED
      BY <2>2, <3>1, <3>2 DEF RetriesMarked, RequestsBounded, AttemptsBounded
  <2>3. CASE pc' # "model"
    <3>1. pc' \in {"finalize", "step"} /\ trace'.attempts = trace.attempts
          /\ machine'.state # "AwaitingModel"
      BY <1>8, <2>3 DEF Assembles, DriverSound, AtAwait
    <3>2. QED
      BY <1>1, <1>2, <2>1, <3>1
  <2>4. QED
    BY <2>2, <2>3
<1>9. CASE Serves
  BY <1>1, <1>2, <1>9 DEF Serves
<1>10. CASE Salvages
  <2>1. machine.turn = machine.turns_taken /\ trace.attempts <= Marks + 1
    BY <1>10 DEF Salvages, RetriesMarked, DriverSound, AtAwait
  <2>2. Marks' = Marks + 1
    BY <1>10, <2>1 DEF Salvages, Marks, Spent
  <2>3. QED
    BY <1>1, <1>2, <1>10, <2>1, <2>2 DEF Salvages
<1>11. CASE Passes
  <2>1. trace.attempts <= Marks
    BY <1>11 DEF Passes, RetriesMarked
  <2>2. QED
    BY <1>1, <1>2, <1>3, <1>11, <2>1 DEF Passes
<1>12. CASE Closes
  <2>1. trace'.attempts <= 3
    BY <1>1, <1>12 DEF Closes
  <2>2. CASE pc' = "idle"
    BY <2>1, <2>2 DEF RetriesMarked, RequestsBounded, RequestBelowEmergency, AttemptsBounded
  <2>3. CASE pc' # "idle"
    BY <1>2, <1>12, <2>1, <2>3 DEF Closes
  <2>4. QED
    BY <2>2, <2>3
<1>13. CASE Edits
  BY <1>1, <1>13 DEF Edits, RetriesMarked, RequestsBounded, RequestBelowEmergency, AttemptsBounded
<1>14. CASE Watches
  BY <1>14 DEF Watches, RetriesMarked, Marks, Spent, RequestsBounded, RequestBelowEmergency,
               AttemptsBounded
<1>15. QED
  BY EveryStep, <1>4, <1>5, <1>6, <1>7, <1>8, <1>9, <1>10, <1>11, <1>12, <1>13, <1>14

\* A turn never costs more than it may: no request goes out at or over the emergency
\* line by the count of what it carries, and the provider is asked at most three times
\* for one turn, whatever compaction does in between.
THEOREM RequestsAlwaysBounded == LoopSpec => []RequestsBounded
<1>1. LoopInit => RetriesMarked
  BY DEF LoopInit, RetriesMarked, RequestsBounded, RequestBelowEmergency, AttemptsBounded
<1>2. RetriesMarked => RequestsBounded
  BY DEF RetriesMarked
<1>3. QED
  BY <1>1, <1>2, RetriesNext, DriverAlwaysSound, PTL DEF LoopSpec


-----------------------------------------------------------------------------
(* The anchor follows the feed. *)

\* A compaction pass, which may put anything in the feed's place, has no anchor; and
\* no anchor is of a run to come.
AnchorInRun ==
  /\ driver.anchor # None => driver.anchor.run <= trace.run
  /\ pc = "compact" => driver.anchor = None
  /\ AnchorFollowsFeed

LEMMA AnchorNext ==
  DriverSound /\ AnchorInRun /\ [LoopNext]_vars => AnchorInRun'
<1> SUFFICES ASSUME DriverSound, AnchorInRun, [LoopNext]_vars PROVE AnchorInRun'
  OBVIOUS
<1> DEFINE a == driver.anchor
           b == driver'.anchor
           f == FullHistory(machine)
           g == FullHistory(machine')
<1>1. /\ trace.run \in Nat /\ trace'.run \in Nat /\ f \in Conversation
      /\ a # None => a.feed \in Conversation /\ a.run \in Nat
  <2>1. driver \in DriverSet /\ machine \in Machine /\ trace \in TraceSet
    BY DEF DriverSound, LoopTypeOK
  <2>2. a \in Anchor \cup {None}
    BY <2>1 DEF DriverSet
  <2>3. trace.run \in Nat /\ trace'.run \in Nat
    BY <2>1, DriverNext DEF DriverSound, TraceSet
  <2>4. f \in Conversation
    BY FullType DEF DriverSound
  <2>5. a # None => a.feed \in Conversation /\ a.run \in Nat
    <3> HIDE DEF a
    <3>1. QED
      BY <2>2 DEF Anchor
  <2>6. QED
    BY <2>3, <2>4, <2>5
<1> HIDE DEF a, b, f, g
<1>2. /\ a # None => a.run <= trace.run
      /\ pc = "compact" => a = None
      /\ pc # "idle" /\ a # None /\ a.run = trace.run => StandsFirst(a.feed, f)
  BY DEF AnchorInRun, AnchorFollowsFeed, a, f
<1>3. ASSUME b # None => b.run <= trace'.run, pc' = "compact" => b = None,
             pc' # "idle" /\ b # None /\ b.run = trace'.run => StandsFirst(b.feed, g)
      PROVE  AnchorInRun'
  BY <1>3 DEF AnchorInRun, AnchorFollowsFeed, b, g
<1>4. CASE Begins
  <2>1. b = a /\ trace'.run = trace.run + 1 /\ pc' = "resolve"
    BY <1>4 DEF Begins, a, b
  <2>2. QED
    BY <1>1, <1>2, <1>3, <2>1
<1>5. CASE Carries
  <2>1. /\ pc # "idle" /\ trace'.run = trace.run /\ (pc' = "compact" => b = None)
        /\ \/ b = None
           \/ b = a /\ (Keeps \/ pc = "compact")
           \/ b.feed = f /\ b.run = trace.run /\ Keeps
    BY <1>5 DEF Carries, Hears, AnchorMoves, a, b, f
  <2>2. Keeps => \A s \in Conversation : StandsFirst(s, f) => StandsFirst(s, g)
    BY DEF Keeps, f, g
  <2>3. CASE b = None
    BY <1>3, <2>1, <2>3
  <2>4. CASE b = a /\ b # None
    BY <1>1, <1>2, <1>3, <2>1, <2>2, <2>4
  <2>5. CASE b.feed = f /\ b.run = trace.run /\ Keeps
    <3>1. StandsFirst(b.feed, g)
      BY <1>1, <2>2, <2>5, StandsFirstSame
    <3>2. QED
      BY <1>1, <1>3, <2>1, <2>5, <3>1
  <2>6. QED
    BY <1>2, <2>1, <2>3, <2>4, <2>5
<1>6. CASE Closes
  <2>1. /\ b = a /\ trace'.run = trace.run /\ pc' # "compact" /\ pc # "idle"
        /\ pc' # "idle" => g = f
    BY <1>6 DEF Closes, a, b, f, g
  <2>2. QED
    BY <1>2, <1>3, <2>1
<1>7. CASE Edits
  <2>1. b \in {a, None} /\ trace'.run = trace.run /\ pc' = "idle"
    BY <1>7 DEF Edits, a, b
  <2>2. QED
    BY <1>2, <1>3, <2>1
<1>8. CASE Watches
  <2>1. b = a /\ g = f /\ trace'.run = trace.run /\ pc' = pc
    BY <1>8 DEF Watches, a, b, f, g
  <2>2. QED
    BY <1>2, <1>3, <2>1
<1>9. QED
  BY EveryStep, <1>4, <1>5, <1>6, <1>7, <1>8
  DEF Breaks, Arms, Steps, Assembles, Serves, Salvages, Passes

\* While a run lasts, the report its figures build on is about a request whose
\* messages still stand first in the feed: pruning, guidance, compaction and salvages
\* all end it, and nothing else changes what was sent.
THEOREM AnchorAlwaysFollowsFeed == LoopSpec => []AnchorFollowsFeed
<1>1. LoopInit => AnchorInRun
  BY DEF LoopInit, AnchorInRun, AnchorFollowsFeed
<1>2. AnchorInRun => AnchorFollowsFeed
  BY DEF AnchorInRun
<1>3. QED
  BY <1>1, <1>2, AnchorNext, DriverAlwaysSound, PTL DEF LoopSpec

-----------------------------------------------------------------------------
(* A turn is prepared from what it sends. *)

\* A stash outlives the turn it was made for only where the next is armed anew.
StashIsFresh ==
  /\ pc \in {"step", "assemble"} /\ driver.prepared # None
       => driver.prepared.basis = FullHistory(machine)
  /\ pc \in {"model", "compact"} => driver.prepared = None
  /\ AssembledForWhatIsSent

LEMMA StashNext ==
  DriverSound /\ StashIsFresh /\ [LoopNext]_vars => StashIsFresh'
<1> SUFFICES ASSUME DriverSound, StashIsFresh, [LoopNext]_vars PROVE StashIsFresh'
  OBVIOUS
<1>1. ASSUME pc' \notin {"step", "assemble", "model", "compact"} PROVE StashIsFresh'
  BY <1>1 DEF StashIsFresh, AssembledForWhatIsSent
<1>2. ASSUME driver'.prepared = None, pc' # "model" PROVE StashIsFresh'
  BY <1>2 DEF StashIsFresh, AssembledForWhatIsSent
<1>3. CASE Begins \/ Breaks \/ Closes \/ Edits
  BY <1>1, <1>3 DEF Begins, Breaks, Closes, Edits
<1>4. CASE Arms
  <2>1. /\ pc' \in {"arm", "step"}
        /\ pc' = "step" => driver'.prepared.basis = FullHistory(machine')
    BY <1>4 DEF Arms
  <2>2. QED
    BY <2>1 DEF StashIsFresh, AssembledForWhatIsSent
<1>5. CASE Steps
  <2>1. CASE pc' = "assemble"
    <3>1. /\ pc = "step" /\ driver'.prepared = driver.prepared
          /\ FullHistory(machine') = FullHistory(machine)
      BY <1>5, <2>1, StillKeeps DEF Steps
    <3>2. QED
      BY <2>1, <3>1 DEF StashIsFresh, AssembledForWhatIsSent
  <2>2. CASE pc' # "assemble"
    BY <1>1, <1>2, <1>5, <2>2 DEF Steps
  <2>3. QED
    BY <2>1, <2>2
<1>6. CASE Assembles
  <2>1. driver.prepared # None => driver.prepared.basis = FullHistory(machine)
    BY <1>6 DEF Assembles, StashIsFresh
  <2>2. CASE pc' = "model"
    <3>1. driver'.prepared = None /\ AssembledForWhatIsSent'
      BY <1>6, <2>1, <2>2 DEF Assembles
    <3>2. QED
      BY <2>2, <3>1 DEF StashIsFresh
  <2>3. CASE pc' # "model"
    BY <1>1, <1>2, <1>6, <2>3 DEF Assembles
  <2>4. QED
    BY <2>2, <2>3
<1>7. CASE Serves \/ Salvages \/ Passes
  <2>1. driver'.prepared = None /\ pc' = "step"
    BY <1>7 DEF Serves, Salvages, Passes, StashIsFresh
  <2>2. QED
    BY <1>2, <2>1
<1>8. CASE Watches
  BY <1>8 DEF Watches, StashIsFresh, AssembledForWhatIsSent
<1>9. QED
  BY EveryStep, <1>3, <1>4, <1>5, <1>6, <1>7, <1>8

\* What contributors and memory were asked to add to a request, they were asked about
\* the very conversation it carries, whatever guidance, follow-ups, compaction or
\* salvages changed after the turn was first prepared.
THEOREM AlwaysAssembledForWhatIsSent == LoopSpec => []AssembledForWhatIsSent
<1>1. LoopInit => StashIsFresh
  BY DEF LoopInit, StashIsFresh, AssembledForWhatIsSent
<1>2. StashIsFresh => AssembledForWhatIsSent
  BY DEF StashIsFresh
<1>3. QED
  BY <1>1, <1>2, StashNext, DriverAlwaysSound, PTL DEF LoopSpec


-----------------------------------------------------------------------------
(* Guidance arrives once, in its run. *)

\* Where a text is said in a conversation.
Places(s, ms) == {i \in 1..Len(ms) : s \in ms[i].text}

LEMMA PlacesFinite ==
  ASSUME NEW s, NEW ms \in Conversation
  PROVE  IsFiniteSet(Places(s, ms)) /\ Copies(s, ms) = Cardinality(Places(s, ms))
         /\ Copies(s, ms) \in Nat /\ Places(s, ms) \subseteq 1..Len(ms)
<1>1. \A l \in Nat : IsFiniteSet(1..l)
  BY FS_Interval
<1>2. Places(s, ms) \subseteq 1..Len(ms) /\ Len(ms) \in Nat
  BY DEF Places, Conversation
<1>3. IsFiniteSet(Places(s, ms))
  BY <1>1, <1>2, FS_Subset
<1>4. QED
  BY <1>2, <1>3, FS_CardinalityType DEF Copies, Places

LEMMA NoCopies ==
  ASSUME NEW s, NEW ms \in Conversation
  PROVE  Copies(s, ms) = 0 <=> s \notin Said(ms)
<1>1. Copies(s, ms) = 0 <=> Places(s, ms) = {}
  BY PlacesFinite, FS_EmptySet
<1>2. Places(s, ms) = {} <=> s \notin Said(ms)
  BY DEF Places, Said
<1>3. QED
  BY <1>1, <1>2

LEMMA CopiesJoined ==
  ASSUME NEW s, NEW a \in Conversation, NEW b \in Conversation
  PROVE  Copies(s, a \o b) = Copies(s, a) + Copies(s, b)
<1> DEFINE A == Places(s, a)
           B == Places(s, b)
           T == {Len(a) + j : j \in B}
           f == [j \in B |-> Len(a) + j]
<1>1. /\ Len(a) \in Nat /\ Len(b) \in Nat /\ Len(a \o b) = Len(a) + Len(b)
      /\ \A i \in 1..(Len(a) + Len(b)) : (a \o b)[i] = IF i <= Len(a) THEN a[i] ELSE b[i - Len(a)]
  <2>1. a \in Seq(Message) /\ b \in Seq(Message)
    BY DEF Conversation
  <2>2. QED
    BY <2>1, ConcatProperties
<1>2. a \o b \in Conversation
  BY ConcatConversation
<1>3. /\ IsFiniteSet(A) /\ Copies(s, a) = Cardinality(A) /\ A \subseteq 1..Len(a)
      /\ IsFiniteSet(B) /\ Copies(s, b) = Cardinality(B) /\ B \subseteq 1..Len(b)
      /\ Copies(s, a \o b) = Cardinality(Places(s, a \o b))
      /\ Copies(s, a) \in Nat /\ Copies(s, b) \in Nat
  BY <1>2, PlacesFinite
<1>4. Places(s, a \o b) = A \cup T
  <2>1. ASSUME NEW i \in Places(s, a \o b) PROVE i \in A \cup T
    <3>1. i \in 1..(Len(a) + Len(b)) /\ s \in (a \o b)[i].text
      BY <1>1 DEF Places
    <3>2. CASE i <= Len(a)
      BY <1>1, <3>1, <3>2 DEF Places
    <3>3. CASE ~(i <= Len(a))
      <4>1. i - Len(a) \in 1..Len(b) /\ s \in b[i - Len(a)].text /\ i = Len(a) + (i - Len(a))
        BY <1>1, <3>1, <3>3
      <4>2. QED
        BY <4>1 DEF Places
    <3>4. QED
      BY <3>2, <3>3
  <2>2. ASSUME NEW i \in A PROVE i \in Places(s, a \o b)
    <3>1. i \in 1..Len(a) /\ s \in a[i].text
      BY DEF Places
    <3>2. i \in 1..Len(a \o b) /\ (a \o b)[i] = a[i]
      BY <1>1, <3>1
    <3>3. QED
      BY <3>1, <3>2 DEF Places
  <2>3. ASSUME NEW j \in B PROVE Len(a) + j \in Places(s, a \o b)
    <3>1. j \in 1..Len(b) /\ s \in b[j].text
      BY DEF Places
    <3>2. Len(a) + j \in 1..Len(a \o b) /\ (a \o b)[Len(a) + j] = b[j]
      BY <1>1, <3>1
    <3>3. QED
      BY <3>1, <3>2 DEF Places
  <2>4. QED
    BY <2>1, <2>2, <2>3
<1>5. A \cap T = {}
  BY <1>1, <1>3
<1>6. IsFiniteSet(T) /\ Cardinality(T) = Cardinality(B)
  <2>1. \A j, k \in B : f[j] = f[k] => j = k
    BY <1>1, <1>3
  <2>2. f \in [B -> T] /\ \A t \in T : \E j \in B : f[j] = t
    OBVIOUS
  <2> HIDE DEF f, T, B
  <2>3. f \in Bijection(B, T)
    BY <2>1, <2>2, Fun_IsBij
  <2>4. QED
    BY <1>3, <2>3, FS_Bijection DEF ExistsBijection
<1> HIDE DEF A, B, T, f
<1>7. Cardinality(A \cup T) = Cardinality(A) + Cardinality(T) - Cardinality({})
  BY <1>3, <1>5, <1>6, FS_Union
<1>8. QED
  BY <1>3, <1>4, <1>6, <1>7, FS_EmptySet

LEMMA CopiesOne ==
  ASSUME NEW s, NEW x \in Steers
  PROVE  /\ s = x => Copies(s, <<UserText({x})>>) = 1
         /\ s # x => Copies(s, <<UserText({x})>>) = 0
         /\ Copies(s, <<>>) = 0
<1> DEFINE m == UserText({x})
<1>1. {x} \in SUBSET Text
  BY SteersAssumption
<1>2. m.text = {x}
  BY DEF UserText
<1> HIDE DEF m
<1>3. Len(<<m>>) = 1 /\ <<m>>[1] = m /\ Len(<<>>) = 0
  OBVIOUS
<1>4. s = x => Places(s, <<m>>) = {1}
  BY <1>2, <1>3 DEF Places
<1>5. s # x => Places(s, <<m>>) = {}
  BY <1>2, <1>3 DEF Places
<1>6. Places(s, <<>>) = {}
  BY <1>3 DEF Places
<1>7. Cardinality({}) = 0 /\ Cardinality({1}) = 1
  BY FS_EmptySet, FS_Singleton
<1>8. QED
  BY <1>4, <1>5, <1>6, <1>7 DEF Copies, Places, m

LEMMA InSet ==
  ASSUME NEW s, NEW X
  PROVE  /\ s \in X => Cardinality({s} \cap X) = 1
         /\ s \notin X => Cardinality({s} \cap X) = 0
<1>1. (s \in X => {s} \cap X = {s}) /\ (s \notin X => {s} \cap X = {})
  OBVIOUS
<1>2. QED
  BY <1>1, FS_EmptySet, FS_Singleton


LEMMA CardType == ASSUME NEW s, NEW X PROVE Cardinality({s} \cap X) \in {0, 1}
BY InSet

\* What is drained where it was not yet is there as often as it was waiting.
LEMMA DrainCounts ==
  ASSUME NEW s, NEW ms \in Conversation, NEW X, Copies(s, ms) + Cardinality({s} \cap X) <= 1
  PROVE  Cardinality({s} \cap (X \cup Said(ms))) = Copies(s, ms) + Cardinality({s} \cap X)
<1>1. Copies(s, ms) \in Nat /\ Cardinality({s} \cap X) \in {0, 1}
  BY PlacesFinite, CardType
<1>2. CASE s \notin Said(ms)
  <2>1. Copies(s, ms) = 0 /\ {s} \cap (X \cup Said(ms)) = {s} \cap X
    BY <1>2, NoCopies
  <2>2. QED
    BY <1>1, <2>1
<1>3. CASE s \in Said(ms)
  <2>1. Copies(s, ms) # 0
    BY <1>3, NoCopies
  <2>2. Cardinality({s} \cap (X \cup Said(ms))) = 1
    BY <1>3, InSet
  <2>3. QED
    BY <1>1, <2>1, <2>2
<1>4. QED
  BY <1>2, <1>3

Carried(s) == Copies(s, steering.waiting) + Copies(s, steering.leftovers)
                + Cardinality({s} \cap trace.handed) + Cardinality({s} \cap trace.said)

\* What is accepted is in one place; what waits or is in the run's own part of the
\* conversation was accepted by this run; and the slot is open only in a run.
CarriedOnce(s) == /\ trace.accepted[s] = 0 => Carried(s) = 0
                  /\ trace.accepted[s] # 0 => Carried(s) = 1
HeardInRun(s)  == s \in Said(steering.waiting) \cup Said(machine.pending)
                  => trace.accepted[s] = trace.run
SlotInRun      == steering.running => pc # "idle" /\ trace.run > 0
SteeringSound  == (\A s \in Steers : CarriedOnce(s) /\ HeardInRun(s)) /\ SlotInRun

LEMMA SlotType ==
  ASSUME DriverSound, NEW s \in Steers
  PROVE  /\ steering.waiting \in Conversation /\ steering.leftovers \in Conversation
         /\ Copies(s, steering.waiting) \in Nat /\ Copies(s, steering.leftovers) \in Nat
         /\ Cardinality({s} \cap trace.handed) \in {0, 1}
         /\ Cardinality({s} \cap trace.said) \in {0, 1}
         /\ trace.accepted \in [Steers -> Nat] /\ trace.run \in Nat
<1>1. steering.waiting \in Conversation /\ steering.leftovers \in Conversation
  BY DEF DriverSound, LoopTypeOK, Slots
<1>2. trace.accepted \in [Steers -> Nat] /\ trace.run \in Nat
  BY DEF DriverSound, TraceSet
<1>3. QED
  BY <1>1, <1>2, PlacesFinite, CardType

\* In a run, guidance that was waiting is said, or goes on waiting.
LEMMA CarriesCarried ==
  ASSUME DriverSound, Carries, NEW s \in Steers, CarriedOnce(s) PROVE CarriedOnce(s)'
<1> DEFINE w == Copies(s, steering.waiting)
           l == Copies(s, steering.leftovers)
           h == Cardinality({s} \cap trace.handed)
           d == Cardinality({s} \cap trace.said)
<1>1. w \in Nat /\ l \in Nat /\ h \in {0, 1} /\ d \in {0, 1} /\ steering.waiting \in Conversation
  BY SlotType
<1>2. /\ trace.accepted[s] = 0 => w + l + h + d = 0
      /\ trace.accepted[s] # 0 => w + l + h + d = 1
  BY DEF CarriedOnce, Carried
<1>3. /\ trace'.accepted = trace.accepted /\ trace'.handed = trace.handed
      /\ steering'.leftovers = steering.leftovers
      /\ \/ steering'.waiting = steering.waiting /\ trace'.said = trace.said
         \/ /\ steering'.waiting = <<>>
            /\ trace'.said = trace.said \cup Said(steering.waiting)
  BY DEF Carries, Hears
<1>4. w' + l' + h' + d' = w + l + h + d
  <2>1. CASE steering'.waiting = steering.waiting /\ trace'.said = trace.said
    BY <1>3, <2>1
  <2>2. CASE steering'.waiting = <<>> /\ trace'.said = trace.said \cup Said(steering.waiting)
    <3>1. w' = 0 /\ l' = l /\ h' = h
      BY <1>3, <2>2, CopiesOne
    <3>2. w + d <= 1
      BY <1>1, <1>2
    <3>3. Cardinality({s} \cap (trace.said \cup Said(steering.waiting))) = w + d
      BY <1>1, <3>2, DrainCounts
    <3>4. d' = w + d
      BY <2>2, <3>3
    <3> HIDE DEF w, l, h, d
    <3>5. QED
      BY <1>1, <3>1, <3>4
  <2>3. QED
    BY <1>3, <2>1, <2>2
<1>5. CarriedOnce(s)' <=> /\ trace'.accepted[s] = 0 => w' + l' + h' + d' = 0
                          /\ trace'.accepted[s] # 0 => w' + l' + h' + d' = 1
  BY DEF CarriedOnce, Carried
<1> HIDE DEF w, l, h, d
<1>6. QED
  BY <1>2, <1>3, <1>4, <1>5

LEMMA CarriesHeard ==
  ASSUME DriverSound, Carries, NEW s \in Steers, HeardInRun(s) PROVE HeardInRun(s)'
<1>1. /\ trace'.run = trace.run /\ trace'.accepted = trace.accepted
      /\ steering'.waiting = steering.waiting \/ steering'.waiting = <<>>
      /\ Said(machine'.pending)
           \subseteq Said(machine.pending) \cup Said(steering.waiting) \cup Speech
  BY DEF Carries, Hears
<1>2. Said(<<>>) = {} /\ s \notin Speech
  BY SaidOne DEF Speech
<1>3. QED
  BY <1>1, <1>2 DEF HeardInRun

\* What was waiting when a run starts is set aside for the host.
LEMMA BeginsSteered ==
  ASSUME DriverSound, Begins, NEW s \in Steers, CarriedOnce(s)
  PROVE  CarriedOnce(s)' /\ HeardInRun(s)'
<1>1. /\ steering'.waiting = <<>> /\ steering'.leftovers = steering.leftovers \o steering.waiting
      /\ trace'.accepted = trace.accepted /\ trace'.handed = trace.handed
      /\ trace'.said = trace.said /\ Said(machine'.pending) \subseteq Speech
  BY DEF Begins, OpenRun
<1>2. Copies(s, steering'.leftovers) = Copies(s, steering.leftovers) + Copies(s, steering.waiting)
  BY <1>1, SlotType, CopiesJoined
<1>3. Copies(s, steering'.waiting) = 0
  BY <1>1, CopiesOne
<1>4. Carried(s)' = Carried(s)
  BY <1>1, <1>2, <1>3, SlotType DEF Carried
<1>5. CarriedOnce(s)'
  BY <1>1, <1>4 DEF CarriedOnce
<1>6. Said(<<>>) = {} /\ s \notin Speech
  BY SaidOne DEF Speech
<1>7. QED
  BY <1>1, <1>5, <1>6 DEF HeardInRun

\* A push is accepted for the run under way, and waits.
LEMMA SteersSteered ==
  ASSUME DriverSound, HostSteers, SteeringSound, NEW s \in Steers
  PROVE  CarriedOnce(s)' /\ HeardInRun(s)'
<1>1. /\ Watches /\ steering.running
      /\ steering'.leftovers = steering.leftovers
      /\ trace'.handed = trace.handed /\ trace'.said = trace.said
  BY HostSteersDoes
<1>2. PICK x \in Steers :
         /\ trace.accepted[x] = 0
         /\ trace'.accepted = [trace.accepted EXCEPT ![x] = trace.run]
         /\ steering'.waiting = steering.waiting \o <<UserText({x})>>
  BY HostSteersDoes
<1> DEFINE m == UserText({x})
<1>3. <<m>> \in Conversation /\ m.text = {x}
  <2>1. {x} \in SUBSET Text
    BY SteersAssumption
  <2>2. QED
    BY <2>1, OnePrompt DEF UserText
<1>4. (s = x => Copies(s, <<m>>) = 1) /\ (s # x => Copies(s, <<m>>) = 0)
  BY CopiesOne
<1>5. steering'.waiting = steering.waiting \o <<m>> /\ steering.waiting \in Conversation
  BY <1>2, SlotType
<1> HIDE DEF m
<1>6. Copies(s, steering.waiting \o <<m>>) = Copies(s, steering.waiting) + Copies(s, <<m>>)
  BY <1>3, <1>5, CopiesJoined
<1>7. Said(steering.waiting \o <<m>>) = Said(steering.waiting) \cup {x}
  <2>1. Said(<<m>>) = {x}
    BY <1>3, SaidOne
  <2>2. QED
    BY <1>3, <1>5, <2>1, SaidJoined
<1>8. /\ s = x => Carried(s)' = Carried(s) + 1
      /\ s # x => Carried(s)' = Carried(s)
  BY <1>1, <1>6, <1>4, <1>5, SlotType DEF Carried
<1>9. /\ trace.run \in Nat /\ trace.run > 0 /\ trace'.run = trace.run
      /\ CarriedOnce(s) /\ HeardInRun(s)
      /\ s = x => trace'.accepted[s] = trace.run
      /\ s # x => trace'.accepted[s] = trace.accepted[s]
  BY <1>1, <1>2, SlotType DEF SteeringSound, SlotInRun, Watches
<1>10. CarriedOnce(s)'
  BY <1>2, <1>8, <1>9 DEF CarriedOnce
<1>11. HeardInRun(s)'
  <2>1. machine' = machine
    BY <1>1 DEF Watches
  <2>2. QED
    BY <1>7, <1>9, <1>5, <2>1 DEF HeardInRun
<1>12. QED
  BY <1>10, <1>11

\* What the host takes is back with it.
LEMMA TakesSteered ==
  ASSUME DriverSound, HostTakes, NEW s \in Steers, CarriedOnce(s), HeardInRun(s)
  PROVE  CarriedOnce(s)' /\ HeardInRun(s)'
<1> DEFINE w == Copies(s, steering.waiting)
           l == Copies(s, steering.leftovers)
           h == Cardinality({s} \cap trace.handed)
           d == Cardinality({s} \cap trace.said)
           taken == trace.handed \cup Said(steering.leftovers)
<1>1. /\ Watches /\ steering'.leftovers = <<>>
      /\ trace'.accepted = trace.accepted /\ trace'.said = trace.said
      /\ \/ steering'.waiting = steering.waiting /\ trace'.handed = taken
         \/ steering'.waiting = <<>> /\ trace'.handed = taken \cup Said(steering.waiting)
  BY HostTakesDoes
<1>2. /\ w \in Nat /\ l \in Nat /\ h \in {0, 1} /\ d \in {0, 1}
      /\ steering.waiting \in Conversation /\ steering.leftovers \in Conversation
  BY SlotType
<1>3. /\ trace.accepted[s] = 0 => w + l + h + d = 0
      /\ trace.accepted[s] # 0 => w + l + h + d = 1
  BY DEF CarriedOnce, Carried
<1>4. l + h <= 1 /\ w + (l + h) <= 1
  BY <1>2, <1>3
<1>5. Cardinality({s} \cap taken) = l + h
  BY <1>2, <1>4, DrainCounts
<1>6. Cardinality({s} \cap (taken \cup Said(steering.waiting))) = w + (l + h)
  <2>1. w + Cardinality({s} \cap taken) <= 1
    BY <1>4, <1>5
  <2>2. Cardinality({s} \cap (taken \cup Said(steering.waiting)))
          = w + Cardinality({s} \cap taken)
    <3> HIDE DEF taken
    <3>1. QED
      BY <1>2, <2>1, DrainCounts
  <2> HIDE DEF taken, w, l, h
  <2>3. QED
    BY <1>5, <2>2
<1>7. l' = 0 /\ d' = d /\ Copies(s, <<>>) = 0
  BY <1>1, CopiesOne
<1>8. \/ w' = w /\ h' = l + h
      \/ w' = 0 /\ h' = w + (l + h)
  <2>1. CASE steering'.waiting = steering.waiting /\ trace'.handed = taken
    BY <1>5, <2>1
  <2>2. CASE steering'.waiting = <<>> /\ trace'.handed = taken \cup Said(steering.waiting)
    BY <1>6, <1>7, <2>2
  <2>3. QED
    BY <1>1, <2>1, <2>2
<1>9. CarriedOnce(s)' <=> /\ trace'.accepted[s] = 0 => w' + l' + h' + d' = 0
                          /\ trace'.accepted[s] # 0 => w' + l' + h' + d' = 1
  BY DEF CarriedOnce, Carried
<1>10. HeardInRun(s)'
  <2>1. machine' = machine /\ trace'.run = trace.run
    BY <1>1 DEF Watches
  <2>2. Said(steering'.waiting) \subseteq Said(steering.waiting)
    BY <1>1, SaidOne
  <2>3. QED
    BY <1>1, <2>1, <2>2 DEF HeardInRun
<1> HIDE DEF w, l, h, d
<1>11. w' + l' + h' + d' = w + l + h + d
  BY <1>2, <1>7, <1>8
<1>12. QED
  BY <1>1, <1>3, <1>9, <1>10, <1>11

LEMMA SteeringNext ==
  DriverSound /\ SteeringSound /\ [LoopNext]_vars => SteeringSound'
<1> SUFFICES ASSUME DriverSound, SteeringSound, [LoopNext]_vars PROVE SteeringSound'
  OBVIOUS
<1>1. \A s \in Steers : CarriedOnce(s) /\ HeardInRun(s)
  BY DEF SteeringSound
<1>2. trace.run \in Nat
  BY DEF DriverSound, TraceSet
<1>3. ASSUME steering' = steering, machine'.pending \in {machine.pending, <<>>},
             trace' = trace
      PROVE  \A s \in Steers : CarriedOnce(s)' /\ HeardInRun(s)'
  <2>1. Said(machine'.pending) \subseteq Said(machine.pending)
    BY <1>3, SaidOne
  <2>2. QED
    BY <1>1, <1>3, <2>1 DEF CarriedOnce, Carried, HeardInRun
<1>4. CASE Begins
  <2>1. \A s \in Steers : CarriedOnce(s)' /\ HeardInRun(s)'
    BY <1>1, <1>4, BeginsSteered
  <2>2. SlotInRun'
    BY <1>2, <1>4 DEF SlotInRun, Begins
  <2>3. QED
    BY <2>1, <2>2 DEF SteeringSound
<1>5. CASE Carries
  <2>1. \A s \in Steers : CarriedOnce(s)' /\ HeardInRun(s)'
    BY <1>1, <1>5, CarriesCarried, CarriesHeard
  <2>2. SlotInRun'
    BY <1>5 DEF SlotInRun, SteeringSound, Carries, Hears
  <2>3. QED
    BY <2>1, <2>2 DEF SteeringSound
<1>6. CASE Closes
  <2>1. /\ machine'.pending \in {machine.pending, <<>>} /\ trace' = trace
        /\ pc # "idle" /\ (steering' = steering \/ steering' = CloseRun(steering))
    BY <1>6 DEF Closes
  <2>2. /\ steering'.waiting = steering.waiting /\ steering'.leftovers = steering.leftovers
        /\ steering'.running => steering' = steering
    <3>1. steering \in Slots
      BY DEF DriverSound, LoopTypeOK
    <3>2. /\ CloseRun(steering).waiting = steering.waiting
          /\ CloseRun(steering).leftovers = steering.leftovers
          /\ ~CloseRun(steering).running
      BY <3>1 DEF CloseRun, Slots
    <3>3. QED
      BY <2>1, <3>2
  <2>3. Said(machine'.pending) \subseteq Said(machine.pending)
    BY <2>1, SaidOne
  <2>4. \A s \in Steers : CarriedOnce(s)' /\ HeardInRun(s)'
    BY <1>1, <2>1, <2>2, <2>3 DEF CarriedOnce, Carried, HeardInRun
  <2>5. SlotInRun'
    <3>1. pc' = "idle" => ~steering'.running
      <4>1. steering \in Slots
        BY DEF DriverSound, LoopTypeOK
      <4>2. QED
        BY <1>6, <4>1 DEF Closes, CloseRun, Slots
    <3>2. QED
      BY <2>1, <2>2, <3>1 DEF SlotInRun, SteeringSound
  <2>6. QED
    BY <2>4, <2>5 DEF SteeringSound
<1>7. CASE Edits
  BY <1>3, <1>7 DEF Edits, SteeringSound, SlotInRun
<1>8. CASE Watches /\ UNCHANGED <<steering, trace>>
  BY <1>3, <1>8 DEF Watches, SteeringSound, SlotInRun
<1>9. CASE Watches /\ HostSteers
  <2>1. \A s \in Steers : CarriedOnce(s)' /\ HeardInRun(s)'
    BY <1>9, SteersSteered
  <2>2. SlotInRun'
    BY <1>9, HostSteersDoes DEF SlotInRun, SteeringSound, Watches
  <2>3. QED
    BY <2>1, <2>2 DEF SteeringSound
<1>10. CASE Watches /\ HostTakes
  <2>1. \A s \in Steers : CarriedOnce(s)' /\ HeardInRun(s)'
    BY <1>1, <1>10, TakesSteered
  <2>2. SlotInRun'
    BY <1>10, HostTakesDoes DEF SlotInRun, SteeringSound, Watches
  <2>3. QED
    BY <2>1, <2>2 DEF SteeringSound
<1>11. QED
  BY EveryStep, <1>4, <1>5, <1>6, <1>7, <1>8, <1>9, <1>10
  DEF Breaks, Arms, Steps, Assembles, Serves, Salvages, Passes

\* A host's guidance reaches one run, its own, once: of what any run accepted nothing is
\* lost, doubled or heard by another run, whatever is dropped, rewound, compacted or
\* collected on the way.
THEOREM SteeringAlwaysArrives == LoopSpec => []SteeringArrives
<1>1. LoopInit => SteeringSound
  <2> SUFFICES ASSUME LoopInit PROVE SteeringSound
    OBVIOUS
  <2>1. /\ steering.waiting = <<>> /\ steering.leftovers = <<>> /\ ~steering.running
        /\ trace.handed = {} /\ trace.said = {} /\ machine.pending = <<>>
        /\ \A s \in Steers : trace.accepted[s] = 0
    BY DEF LoopInit, FromHistory
  <2>2. \A s \in Steers : Copies(s, <<>>) = 0 /\ Cardinality({s} \cap {}) = 0
    BY CopiesOne, InSet
  <2>3. Said(<<>>) = {}
    BY SaidOne
  <2>4. QED
    BY <2>1, <2>2, <2>3 DEF SteeringSound, CarriedOnce, Carried, HeardInRun, SlotInRun
<1>2. DriverSound /\ SteeringSound => SteeringArrives
  <2> SUFFICES ASSUME DriverSound, SteeringSound PROVE SteeringArrives
    OBVIOUS
  <2>1. SteeredExactlyOnce
    BY DEF SteeringSound, CarriedOnce, Carried, SteeredExactlyOnce
  <2>2. machine.pending \in Conversation
    BY FullType DEF DriverSound
  <2>3. SteeredInItsRun
    BY <2>2, NoCopies DEF SteeringSound, HeardInRun, SteeredInItsRun
  <2>4. QED
    BY <2>1, <2>3 DEF SteeringArrives
<1>3. QED
  BY <1>1, <1>2, SteeringNext, DriverAlwaysSound, PTL DEF LoopSpec


-----------------------------------------------------------------------------
(* Runs keep the session's promise. *)

LEMMA SessionTalks ==
  ASSUME NEW s, NEW t
  PROVE  /\ Session!Sendable(s) <=> s \in Conversation /\ Coherent(s)
         /\ Session!Extends(s, t) <=> StandsFirst(t, s)
<1>1. Session!Conversation = Conversation
  BY DEF Session!Conversation, Session!Message, Session!WellFormed,
         Conversation, Message, WellFormed
<1>2. Session!Coherent(s) <=> Coherent(s)
  BY DEF Session!Coherent, Session!NoOrphans, Session!Unanswered, Session!Open,
         Coherent, NoOrphans, Unanswered, Open
<1>3. QED
  BY <1>1, <1>2 DEF Session!Sendable, Session!Extends, StandsFirst

LEMMA SessionNext ==
  DriverSound /\ [LoopNext]_vars => [Session!Next]_(Session!session)
<1> SUFFICES ASSUME DriverSound, [LoopNext]_vars PROVE [Session!Next]_(Session!session)
  OBVIOUS
<1> DEFINE h == machine.history
           on == pc # "idle"
<1>1. Session!Sendable(h')
  <2>1. Sound(machine')
    BY DriverNext DEF DriverSound, Sound
  <2>2. h' \in Conversation /\ Coherent(h')
    BY <2>1, FullType DEF Sound
  <2>3. QED
    BY <2>2, SessionTalks
<1>2. \A s, t : Session!Extends(s, t) <=> StandsFirst(t, s)
  BY SessionTalks
<1>3. CASE Begins
  <2>1. Session!Begin
    BY <1>3 DEF Begins, Session!Begin
  <2>2. QED
    BY <2>1 DEF Session!Next
<1>4. CASE Carries
  <2>1. Session!Condense
    BY <1>1, <1>4 DEF Carries, Session!Condense
  <2>2. QED
    BY <2>1 DEF Session!Next
<1>5. CASE Closes
  <2>1. Session!Extends(h', h) /\ on
    BY <1>2, <1>5 DEF Closes
  <2>2. Session!Commit
    BY <1>1, <2>1 DEF Session!Commit
  <2>3. QED
    BY <2>2 DEF Session!Next
<1>6. CASE Edits
  <2>1. ~on /\ ~on' /\ (Session!Extends(h, h') \/ Len(h') <= Len(h))
    BY <1>2, <1>6 DEF Edits
  <2>2. Session!Rewind \/ Session!Condense
    BY <1>1, <2>1 DEF Session!Rewind, Session!Condense
  <2>3. QED
    BY <2>2 DEF Session!Next
<1>7. CASE Watches
  <2>1. UNCHANGED Session!session
    BY <1>7 DEF Watches, Session!session
  <2>2. QED
    BY <2>1
<1>8. QED
  BY EveryStep, <1>3, <1>4, <1>5, <1>6, <1>7
  DEF Breaks, Arms, Steps, Assembles, Serves, Salvages, Passes

\* Seen from outside, the loop is a session: the transcript can be sent to a provider
\* at every moment, starting a run leaves it alone, ending one however it ends only adds
\* to it, and nothing but a rewind or a condensation of the whole takes from it.
THEOREM LoopKeepsSession == LoopSpec => KeepsSession
<1>1. LoopInit => Session!Init
  BY DEF LoopInit, FromHistory, Session!Init
<1>2. QED
  BY <1>1, SessionNext, DriverAlwaysSound, PTL DEF LoopSpec, KeepsSession, Session!Spec
=============================================================================
