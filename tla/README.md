# A TLA+ verification of loopctl

loopctl is a Rust library for running LLM agent loops: a program hands it a
client, tools and a context manager, and the loop alternates model turns and
tool batches until the model has nothing more to ask for. This directory models
the parts of it that hold state across those turns, checks the models with TLC
on small instances, and proves the most important properties for all instances
with TLAPS.

Contents: [the system](#1-the-system) · [plan](#2-plan) ·
[modules](#3-modules-and-the-code) · [runs](#4-what-the-runs-check) ·
[fairness](#5-fairness) · [proofs](#6-what-is-proved) ·
[disagreements](#7-where-the-code-and-its-documentation-disagree) ·
[limits](#8-what-is-not-modelled)

Paths below are relative to the crate's `src/` directory unless they say
otherwise.

## 1. The system

A run is one call of `BareLoop::run` (`engine/bare.rs`). It is one future in one
task. Everything it awaits (a provider, tools, a compactor, a memory store) is
a point where other tasks act: they cancel the run, steer it, or drop its
future.

### Components

| Component | State | Operations | What makes it correct |
|---|---|---|---|
| **Loop machine** `engine/core/machine.rs` | committed `history`, the run's `pending` buffer, the state, tools out for dispatch, the deferral latch | `accept_input`, `next_step`, `model_response`, `receive_results`, compaction results, `cancel`, `fail`, commit / salvage / discard, `rewind_to` | the history is always something a provider accepts: every tool call has its result, every result its call |
| **Driver** `engine/bare.rs`, `bare/*.rs` | the prepared turn, the usage anchor, salvage marks and target | one handler per machine step; `finalize`; `compact_manual`, `rewind_to` between runs | runs end; a request is what was prepared; figures are about the feed they are used for; retries are bounded |
| **Steering slot** `bare/steering.rs` | running flag, waiting and left-over messages | push, drain, open, close, take | guidance is neither lost nor doubled nor given to another run |
| **Cancel signal** `cancel.rs` | one level | cancel, reset, notified | a cancelled run ends though nothing it waits for ever answers |
| **Stream handler** `stream/handler.rs` | the open stream, two retry counts, an accumulator | open, next event, retry, escalate, fall back | bounded requests; one attempt's pieces only; ends by its timers |
| **Emitters and accumulator** `provider/*.rs`, `stream.rs` | open lanes, parts under construction | one handler per wire event and per part event | nothing is lost, doubled or misplaced between wire and message |
| **Rate limiter** `stream/rate_limit.rs` | tokens, time of the last refill | reserve, wait | never above the burst; a waiter is not starved |
| **Fallback breaker** `fallback.rs` | breaker state, streaks, a chain of models with their attempts, the cached choice | record success / failure, resume, edit the chain | the cached choice is the first usable model; the primary is probed again |
| **Tool dispatch** `bare/dispatch.rs` | a plan of waves, one pipeline per call | plan, run a wave, one call's pipeline with recovery | conflicting calls run apart and in order; every call has one answer; every approval is accounted for |
| **Tool health** `tool/health.rs` | one breaker per tool, behind a mutex | allow, would-allow, record | a broken tool is tried again, though its probe is lost; question and request agree |
| **Budgets** `budget.rs` | usage of the run | begin, observe, gate | a soft line warns once, a hard line stops the run |
| **Detection** `detection*` | streaks, recent calls | observe, reset | a loop is seen at its threshold and not before |
| **Hooks, ask, grants, registry, shields** | handler chains, granted permissions | decide before a call | a refused call does not run |
| **Middleware, memoize** | cached results | wrap a call | no stale result after a write |
| **Observers, hub** | bounded broadcast | emit, subscribe | a slow subscriber does not hold the loop |
| **Context managers, compactors** | thresholds, templates | compact a feed | a call is never parted from its result |
| **Memory stores** `memory/` | files, an index | append, consolidate, rewrite | a crash loses no entry and welds none together |
| **File and shell tools** | files, a table of jobs | read, write, edit, run | a replaced file is whole; a finished job is reported once |
| **Other parts of providers, MCP, presets, metrics, exporters** | none another component depends on | conversion, transport, reporting | – |

### Interactions

* The driver owns the machine and calls its methods in order; nothing else
  touches it. Between two awaits driver and machine are atomic.
* The driver shares the steering slot, the signal and the breaker with the host
  by `Arc` and a lock; each method is one critical section.
* The handler and the code that consumes its events run alternately in one
  task. Provider, clock and signal meet in an unbiased `select!`.
* The calls of a batch are futures of one task, joined wave by wave; breakers,
  detector and budgets are shared between them, and with later batches.
* Observers are told of everything and answer nothing; hooks are asked, and can
  refuse.

### What is hard

Dropped futures (a run may stop at any await and run nothing more), unbiased
selects (an answer may win over a raised signal), state prepared before an await
and used after it (the prepared turn, the usage anchor, the salvage target),
retries that nest (two ladders in a stream, two salvages around it, a fallback
around those), choices that are cached (the active fallback), and ends of a run
in the middle of a turn. `PROJECT.json` lists each hazard with the line where it
bites and the property that would catch it, or why there is none yet.

## 2. Plan

| # | Module | Composes | State |
|---|---|---|---|
| 1 | `Transcript`, `LoopMachine` | | modelled, checked, proved |
| 2 | `BareLoop`, `AgentSession` | machine, steering, signal | modelled, checked, proved, the refinement too |
| 3 | `Breaker` | | modelled, checked, proved |
| 4 | `StreamTurn` | handler, driver's consumer, signal | modelled, checked, proved |
| 5 | `ToolPlan`, `ToolHealth`, `ToolDispatch` | planner, calls, tool health, signal | modelled, checked, proved |
| 6 | `FileMemory`, `FileTools` | | modelled, checked, proved |
| 7 | `Memoize` | | modelled, checked, proved |
| 8 | `Budget`, `TokenBucket`, `Approval`, `LedgerSink` | | modelled, checked, proved |
| 9 | `Cuts` | truncator, summarizers, their chain, the manager | modelled, checked, its cuts proved |
| 10 | `Lanes` | emitters, accumulator | modelled, checked, proved |
| 11 | `MCServices` | the modules of 6 to 10 and the planner, one at a time | checked |
| 12 | `Calibration`, `Detection` | | numeric modules |
| 13 | `Grants`, `ObserverHub`, `Jobs` | | shared tables and queues at their limit |
| 14 | `RollingCuts` | `Cuts` | the rolling compactor and the demotion of what a pass evicts |

Abstract specifications: `AgentSession` (what a session's transcript may do),
refined by `BareLoop`. To come: an executor of one call at a time that
`ToolDispatch` refines where calls do not conflict.

Theorems still to prove: `CutsAreClean` of `Cuts` as a whole.

## 3. Modules and the code

### Transcript

A message is its role, the ids of the calls it makes and of those it answers,
and opaque labels for the rest. `Open(s, n)` is the set the code's scans carry
along (`coherent_cut`, `machine.rs`), defined by what it means rather than by
the scan. `Coherent` is what a provider accepts. `CoherentCut`, `Take`, `Drop`
and `Coalesce` are the operations on sequences the machine uses.

### LoopMachine

One record, `machine`, with the fields of `LoopMachine`, and one operator per
method: `AcceptInput(m, msg)` is `accept_input`, and so on with the code's names.
Rust's step enum and the state enum determine each other (`CallLLM` is handed out
exactly on entering `AwaitingModel`), so the step is not kept. The actions
`Do...` call one method each, in the orders a driver may: a new input may come in
*any* state, because the future of the previous run may have been dropped.
Compaction may return any summary followed by any coherent tail.

### BareLoop

`pc` names the await the run is at; an action is what happens from one await to
the next.

| Variable | Code |
|---|---|
| `driver.prepared`, `.anchor`, `.target`, `.transients`, `.overflow_retry`, `.truncation_retry`, `.followed` | the `BareLoop` fields `prepared_turn`, `usage_anchor`, `salvage_target`, `turn_transients`, the two retry marks, the follow-up mark |
| `driver.request`, `driver.error` | locals of `handle_call_llm` and of `run`, which live across its awaits |
| `steering` | `Steering`'s slot |
| `signal` | `CancelSignal` |
| `trace` | history variables: what observers saw, which run accepted which guidance |

| Action | Code |
|---|---|
| `StartRun`, `ResolveWindow` | `run`, up to the window lookup |
| `Arm` | `arm_first_turn`, `arm_followup_turn` |
| `Step` | `drive_steps`, to the head of the handler |
| `Assemble` | `handle_call_llm` up to the provider: drain steering, take the prepared turn, measure, reclaim outputs, ask the machine once more, submit |
| `ModelServes`, `ModelTruncates`, `ModelRejects`, `ModelFails`, `ModelCancelled` | the ways `handle_call_llm` goes on, both salvages included |
| `ToolsAnswer`, `ToolsFail`, `ToolsCancelled` | `handle_call_tools` |
| `PassDeclines`, `PassReturns`, `PassFails`, `PassCancelled` | `handle_compact`, `compaction_pass` |
| `Followup`, `Finalize`, `Consolidated` | the stop hook's follow-up, `finalize` |
| `HostCancels`, `DropFuture`, `HostSteers`, `HostTakes`, `HostRewinds`, `HostCompacts` | what other tasks do |

Figures are real arithmetic on small numbers: a raw count that grows with the
messages (`Light` each, `Heavy` more for a tool output), the calibration in
thousandths, the anchor's report plus what was added since. This is what lets the
models see a stale anchor.

### AgentSession

Two variables and four actions: what someone who keeps a session with a loop
relies on. The transcript can be sent at any moment; runs only add to it; only a
compaction shortens it, and between runs only a rewind or an asked-for compaction
changes it.

### Breaker

`breaker` is `BreakerState`; each method of `FallbackManager` is an operator (its
mutex is held throughout) and the driver makes several calls around a request:
`Ask` at the head of `handle_call_llm`, `Served` and `NotServed` in the recording
of the turn (`bare/emission.rs`). The host edits the chain only between requests,
as `&mut` access demands. Time is reduced to the two sides of
`recovery_timeout`.

### StreamTurn

`phase` names the await of the handler's generator: the rate-limit gate, the head
of the poll, the select, the backoff sleep, the non-streaming fallback. Pieces of
an answer are the number of the attempt they came in, so that a piece which
outlives its attempt shows. The handler's accumulator is `shadow`, the driver's
`got`. `WaitEvent` is the handler's processing, the yield, and the driver's
processing: nothing runs between them.

### ToolPlan

The planner (`ToolDependencyGraph`) as the loop it is: `PlaceNext` is one round,
so that what the loop maintains can be stated and proved. A wave is its members,
the keys they hold and whether it is open, as in the three parallel vectors of
`plan`. A call is its tool, whether the tool calls this input safe to run with
others, and the resource it names.

### ToolHealth

One record per tool with an operator per method of `ToolCircuitBreaker`. Its
mutex is held throughout each. An instant is reduced to what is asked of it:
whether the probe's lease has ended, and whether the recovery period has passed
since the failure, or since the end of a lease that was given up.

### ToolDispatch

`call[i]` is the future of the `i`-th call: the await it is at, the call as the
recoveries have left it, its attempt, and what it still owes its observers (an
approval's record, a post event, a decision). An action takes one future from an
await to the next: the semaphore, the approver, the tool, the memory store, the
reflector, the backoff. What lies between is one step, as the futures share a
task: `Admit` is the detector, the breaker and the head of the select around the
tool. `Begin`, `Plan`, `FirstWave`, `WaveJoined`, `Taken` and `Dropped` are the
batch. `Setup` says what the host installed; a pattern the detector may see is
nondeterministic, and a stop clears it, as in the code.

### FileMemory

A memory file is the set of entries on complete lines and its tail: nothing, a
torn line, or a line without its newline, in the file and in what a power loss
would leave of it. `stores` is the process: the registry of cells by name, the
cell of each handle, and each cell's mirror, latch and pending names. Handles
open the file under its real name or through links, which resolve to it once
`Heal` has made the directory they lead to; until then the code keys them by
their spelling and calls the key provisional. `Open` and `New` are `open` and
`new` under the registry's lock, `Converge` is `converge_with_registry`, and what
follows it (`AppendLine`, `AppendFails`, `Flush`, `Consolidate`) happens under
the lock of the entries. Deaths of the process strike inside an append or a
rewrite (`DiesAppending`, `DiesRewriting`) or between operations. Links resolve
and handles are dropped and constructed at any moment, while other handles are
between their convergence and their write too. (`Open` and `New` are one step
each: nothing waits between their look at the registry and what they register,
which the registry's lock covers.)

The history variable `lapses` records what went against the store's own rules:
`"apart"`, that an operation changed the file while another handle whose path
leads there worked in a second store, and `"unread"`, that a store which never
read the file was to append to one that ends in a fragment. Both happen in the
code (section 7). No guard reads `lapses`; the properties say that it takes one
of them to lose a memory.

### FileTools

`Read`, `Write`, `Edit` and `MultiEdit` in calls that share a `FileSession`,
beside an editor. Files are names on inodes, content is the number of the write it
comes from, and `byPath` and `byIdentity` are the two baseline indexes, stamped
with the order of observation. `Compare` is the check of the content, `Look` the
identity gate just before the rename, `Rename` the rename, `Record` what follows
it. Two variables remember what the model has seen (`familiar`) and what an armed
write replaced that it had not (`clobbered`). The gaps which the code documents are
left out by guards that name them (`Unwatched`, `SpareInodes`, the second
conjunct of `EditInPlace`): an edit in place after the comparison, a swap between
the last look and the rename, an inode number that comes back.

### Memoize

`reader` and `writer` are futures of the middleware: a memoized call that was
sent, missed and ran, and a write-class call. The content of a path is the number
of its last write, and an entry holds the content its result was computed from.
Turns are counted within a run while the middleware outlives it, as the machine's
index restarts at 0 (`NextRun`), so that an entry may live longer than
`ttl_turns` turns; this touches no property. A write that fails after it took
effect, or whose future is dropped, invalidates nothing: `settled` counts the
writes that returned.

### Budget

`spent` and `warned` are `GateState`; `request` is where the driver is with a
request (due, out, answered). `Check` is `pre_request`, all four dimensions in
one step under its lock. A limit of 1 has a soft line of 0, which the instances
contain. Time is ticks, and `SoftPart` the soft fraction in ten-thousandths.

### TokenBucket

The bucket in parts of a token, one of which is refilled per tick. `ReadClock`
is apart from `Take`, since `take` reads the clock before it locks the bucket.
`gate` is `gate_on_rate_limit` for each turn: it sleeps for what the bucket asks,
but no longer than its own limit and the deadline of the turn allow, and lets the
attempt go when neither allows anything more.

### Approval

`park[i]` is the future of `ApprovalChannel::resolve` for one ask within the
`select!` of `park_hook_ask`; `awaiting` is the map of slots, `answer` what went
through a slot's sender, `outgoing` the bounded queue. Dropping a future closes
its receiver before its guard removes the slot (`DropReceiver`, `DropSlot`), and
dropping the approver empties the map before the queue closes (`Drain`,
`Close`).

### LedgerSink

A writer's queue, its worker and the threads that use it, for several writers of
one file, which only the process-wide append lock keeps apart. `asleep` is who
waits on a condition variable; a notification is a step of its own, after the
lock was let go. The ledger is a sequence of records, fragments and seals, so that
a record that was welded to a fragment shows as one that cannot be read. A crash
in the middle of an append leaves a fragment nobody repairs, here as in the code,
which promises nothing of it; a worker that cannot be spawned, and other
processes, are left out.

### Cuts

What `BareLoop` leaves to any coherent summary and tail, this module computes:
where a pass cuts and what it carries across. The cut algorithms are operators
on sequences with the names of the code in mind, and a split is the number of
messages before it, as in the code.

| Operator | Code (`compact/`) |
|---|---|
| `Waiting`, `CallOf`, `ResultOf` | `ToolPairing::scan`: a result answers the latest waiting call with its id |
| `Adjusted`, `Slide` | `adjusted_split`, and its loop to a fixed point |
| `FirstMates`, `WithinBudget` | the results of the opening message's calls, and the durable exchanges, which are pulled across the cut |
| `ChooseSplit`, `Assembled`, `Sanitized`, `Truncate` | the truncator's estimate, its exact re-measure and its assembly |
| `SplitWithinBudget`, `BudgetedSplit`, `Summarize` | the summarizers' splitter and what they make of it |
| `Chain` | `FallbackCompactor`: a summary that lands, or the terminal |
| `Install`, `Backstop` | `compact_with_reason`, `backstop_pins` |

A message is its number in the session, its role, its size, the ids of its calls
and results, and whether the results are durable. The counter is the code's
heuristic one with smaller numbers: characters with an overhead of one per
message, and two characters to a token, so that counting together and counting
apart differ, which is what the truncator's re-measure is for. A summary is a
text of any size that fits its budget, or a failure of the stage. The
conversation grows by the machine's turns between passes (`UserSays`,
`ModelAnswers`, `ToolsReturn`), so that passes cut what earlier passes left.

### Lanes

From what a provider sends to the parts of a message, which takes two machines:
an emitter, one per wire format, that turns chunks into part events, and
`StreamAccumulator`, which keeps parts open and completes them. They agree by
part indices, which are not unique: the chunked wires have text at 0 and
reasoning at 1, and number their calls from 0 as well.

| Operator | Code |
|---|---|
| `Process` | `StreamAccumulator::process`: a fragment goes to the oldest slot of its index and kind, a stop closes the oldest slot of its index, whatever its kind |
| `Speaks`, `CallBegins`, `CallGoesOn`, `Announces`, `Done` | OpenAI's `process_delta`, `process_tool_call`, `process_finish`, `finish` |
| `Speaks`, `WholeCall`, `Announces`, `BodyEnds` | Gemini's `extract_parts_with_tools`, `handle_function_call`, `extract_finish_reason`, `finish` |
| `BlockBegins`, `BlockGoesOn`, `BlockEnds`, `MessageStops` | Anthropic's `on_block_start`, `on_block_delta`, `on_block_stop`, `on_message_stop`; with `ConverseStart` and `ConverseDelta`, Bedrock's `process_chunk` |

A fragment is a number and a part a sequence of them, so that losing, doubling or
moving one shows. The arguments of a call are JSON only if all of it arrived
(`whole`) or nothing did, in which case the code reads an empty object. `wire` is
a history variable, what the provider has said; it also keeps the provider to
its protocol: blocks come one after another, each is announced, and nothing but
usage comes behind the announced end. What was told (`told`) is the message as the
provider means it; `AllOf` and `Filled` read it and the parts in the same way. Between the fragments of a call content
comes only if `Resumes` says so (section 7).

### MCServices

The modules from `FileMemory` to `Lanes` and the planner share no state, so
one run looks at each of them in its own behaviours (`service` says which).
`MCModelCalls` does the same for `Breaker` and `StreamTurn` (`side`), under the fairness
of both.

## 4. What the runs check

| Run | Question | Instance | States |
|---|---|---|---|
| `machine` | coherence under any order of calls | 2 call ids (symmetric), windows 20 and none, figures 5 / 17 / 19, up to 5 messages | 277,402 |
| `loop_run` | one run in depth, and that it ends | 1 call id, up to 7 messages, guidance, two report skews, two transient sizes, model switches, pruning, a follow-up | 148,578 |
| `loop_host` | two runs and a busy host; the session refinement | dropped futures, rewind, manual compaction, left-over guidance, pruning | 403,476 |
| `model_calls` | the breaker under use and edits, and that the primary is probed again; one turn: what is requested, shown, served, and that it ends | 2 models, chains up to 2 (repeats included), thresholds 2; 2 transport retries, ladder of 3 with every escalation threshold, 3 timeouts, with and without fallback | 59,850 |
| `dispatch` | batches one after another over one breaker | 2 calls, all parts installed, 1 retry, threshold 1, leased probes | 110,574 |
| `services` | ten components one at a time | batches of up to 5 calls; 2 handles, with 2 links and 1 entry or 1 link and 2 entries, until the first lapse; 1 reader, 2 writers, 2 paths; 36 sets of limits, 3 answers; a bucket of 2 tokens, 2 gates; 2 asks, queue of 1; 2 writers, 2 threads; 2 names, 3 inodes, 2 calls; conversations of 6 messages over 1 id, 3 targets; streams of 4 fragments, with 2 calls or blocks | 918,872 |
| `loop_anchor`, `dispatch_alone`, `memory_owner`, `memory_apart`, `bucket_burst`, `ask_gone` | see section 7 | minimal | – |

Why the bounds are enough.

* *Machine.* Two ids are the least with which a turn can be half answered or two
  turns can be confused; the three figures are below the threshold (16), above
  it, and at the emergency line (19). Five messages hold a committed turn and an
  unfinished one. The theorems of section 6 remove the bounds for safety.
* *Driver.* With messages of weight 3 or 4 and a window of 20 the thresholds are
  crossed within one turn, by the count, by a report and by guidance drained at
  the last moment. Two runs are the least with which anything can leak from one to
  the next. `Skews` and `Transients` have a zero and a positive member each.
  `Counted` stops counting attempts at 4, one beyond the limit.
* *Breaker.* Thresholds of 2 tell a streak from a single event; the chain holds
  one model twice, or two models. `CountedAttempts` stops one past the limit.
* *Stream.* The escalation threshold and the non-streaming fallback vary from
  behaviour to behaviour (`config`): the escalation comes before the ladder's
  ceiling or with it, in combination with transport retries. `MaxTimeouts` 3 makes the shorter patience of a silent stream
  differ from the longer one.

* *Plans.* Five calls are enough for three waves of one key with a closed wave
  between two open ones, where the leftmost open wave is not the last.
* *Dispatch.* Two calls are the least that share a wave, conflict, or wait for
  each other; batches follow one another without end over one breaker and one
  detector, which is where state leaks from call to call.

* *Services.* Each instance holds the least number of actors that can get in each
  other's way, and one more where a third can be served in between: two handles
  to one file of which one comes through a link (`MemoryBound` looks at two links
  with one entry, at two entries with no link, and at two entries with one link
  while no rename is in doubt, and leaves a memory file at its first lapse, after
  which nothing is promised of it); a read and two writes, since a
  second write is what a stale epoch needs; a queue of one ask with two
  callers, so that one is parked before its ask is delivered; two ledger writers,
  one of them with two threads, so that a wakeup has a wrong receiver; two calls
  and two hard-linked names, with an inode to spare. The planner's five calls are
  enough for three waves of one key with a closed wave between two open ones,
  where the leftmost open wave is not the last.
* *Cuts.* Six messages are two exchanges with one id under an opening message and
  a question: an exchange on each side of a cut, one across it, and a second pass
  over what the first left. Texts are shorter and longer than a token, two
  targets are reached and missed by one message, and a target of zero is none.
  The instance with eight messages and `PreserveRecent` 2 (132,004 states) shows
  nothing else.
* *Lanes.* Two calls with four fragments interleave in both orders, each with content
  before, between and behind, and share both narrative indices. The instance with
  five fragments and three calls or blocks (192,922 states) shows nothing else.

Properties, by hazard:

* **What is kept of a run that ends badly**: `HistoryCoherent`,
  `SalvageCostsOneTurn`, `OpenCallsAreInFlight`, `KeepsSession`.
* **What is sent**: `RequestCoherent`, `AssembledForWhatIsSent`,
  `RequestsBounded` (a request below the emergency line, and a bounded number of
  attempts at each).
* **What figures rest on**: `AnchorFollowsFeed`, `TargetIsThisRuns`.
* **Steering**: `SteeringArrives` (each piece of guidance in one place, and in the
  run that accepted it).
* **What observers are told**: `TurnsBracketed`.
* **Retries**: `RequestsBounded`, `RequestsWithinBudget`, `BatchEnds`.
* **Endings**: `RunsEnd`, `CancelEndsRuns`, `TurnEnds`, `CancelEndsTurn`,
  `StopsListening` (at most one event after the signal, none from a stream that
  was opened past the deadline).
* **Answers**: `AnswerIsWhole` (the pieces of one attempt, and served only when it
  was complete), `PartsAreWhole` (an ended stream is the message its provider told:
  every fragment in its part, every call with its own arguments; rejected only if
  the provider cut a call short, whole only if it was ended).
* **Fallback**: `ActiveIsFirstUsable`, `OnlyTheServerIsBlamed`, `ClosesAfterAStreak`,
  `PrimaryIsProbed`.
* **Batches**: `ConflictsKeepOrder`, `FirstErrorEndsBatch`,
  `CancelEndsBatch`.
* **What is told of calls**: `ExitsAreAccounted` (one decision per ask, one end per
  attempt).
* **Tool breakers**: `BreakersRecover`.
* **Memory files**: `StoredSurvives` (until a lapse, what `store` accepted is in
  the file, nothing is welded, and no handle offers what is not there),
  `FlushedSurvives` (until a lapse, what `flush` wrote survives a power loss).
  `StoredIsThere` without that exception, and `OneLockDomain`, which is that one of
  the lapses never happens, do not hold: `memory_owner` and `memory_apart`.
* **Cached results**: `NoStaleEntry`. **Budgets**: `BudgetHolds`.
  **Pacing**: `PacedInTotal`.
* **Approvals**: `AsksAreAnsweredOnce`.
* **Ledgers**: `NobodySleepsThrough`, `RecordsAreAccounted`.
* **Files**: `NothingUnseenIsClobbered`.
* **Compaction**: `CutsAreClean` (a pass keeps or drops an exchange whole and keeps
  a call that still waits, loses and doubles no message, spares what was said last
  and what is pinned, and the truncator lands within its target).

The types of all modules with proofs are theorems, and no run repeats them; nor does
one repeat `CountsStayBelow`, `AttemptsAreCounted`, `OracleAgrees`,
`DeferralIsForOneRequest`, `PlanIsPartition`, `WavesAreSafe`, `PlannedTogether` and `OneAtTheFile`, which are
proved as well.

Each property has at least one mutant in `PROJECT.json`: a definition changed the
way a slip in the code would change it, with which TLC finds the property
violated. The mutated forms stand next to the definitions they replace and are
marked `mutant`.

## 5. Fairness

* **BareLoop.** `WF(Driver)`: the executor polls a future that can go on. This
  includes what the driver does on a raised signal, as every await of the driver
  that can last races the signal, the memory store's excepted (`Consolidated` is
  in `Driver`: stores are taken to answer). `CancelEndsRuns` holds under this
  alone, with a provider, tools and compactors that may stay silent for ever.
  `RunsEnd` adds, as a premise in the property, that they answer in *some* way,
  errors included, which is what timeouts turn silence into.
* **StreamTurn.** `WF(Reacts \/ Open)`: the generator is polled and the
  limiter's waits end. `CancelEndsTurn` needs no more. `TurnEnds` has the
  premise that the timers go off. Nothing is ever assumed of the provider.
* **ToolDispatch.** `WF(Engine)`: the executor polls the batch, stores and
  reflectors answer (nothing races them in the code), and a raised signal is seen
  by the selects. `WF(Tick(t))`: time passes for each breaker. `CancelEndsBatch`
  holds though no tool or approver ever answers; `BatchEnds` has as a premise that
  they do. `BreakersRecover` needs the clock alone: no call has to report.
* **Breaker.** The clock runs, a loop in use goes on asking, and a request ends.
  `PrimaryIsProbed` has the premise that the host stops forcing transitions.

## 6. What is proved

All theorems hold for every value of the constants that satisfies the named
`ASSUME`s of the modules (numbers are natural numbers, thresholds are where the
builders keep them); TLC evaluates those assumptions on each run's instance.

**LoopMachineProofs** begins with the facts about sequences the machine rests on,
none of which needs induction, because `Open` is defined by quantifiers:
`OpenAppend` (what one more message does to the open calls), `CoherentConcat`
(two coherent conversations make one), `CutProperties` / `TakeCoherent` /
`DropNoOrphans` (a cut where nothing is open leaves two coherent halves) and
`CoalesceProperties` (merging adjacent assistant messages preserves coherence).

The inductive invariant is `Sound(machine)`. Coherence of
the history is not inductive: salvage moves part of the buffer into it, a finished
run all of it. `Sound` therefore adds `CallsMatch` (the calls the buffer leaves
open are those out for dispatch, so that a result batch closes them and a
completed run leaves none), `OneTurnOpen` (open calls come from the last message,
so that a cut exists right before it), `LatchScoped`, and that a terminal state
has an outcome. It is a predicate on a machine value, with one lemma per method
(`AcceptInputSound`, `ModelResponseSound`, …), so that a proof about the driver,
which composes methods, can cite the same lemmas. From `SoundAlways` follow
`TypeCorrect`, `HistoryAlwaysCoherent`, `RequestsAlwaysCoherent`,
`CallsAlwaysInFlight` and `DeferralAlwaysScoped`. The action property
`SalvageAlwaysCostsOneTurn` follows from `OneTurnOpen`: the cut below the buffer's end
is no lower than its last message, and no other action empties the buffer of a run
that stays ended as it was.

**BareLoopProofs** proves every invariant `BareLoop` is checked for, and that it
refines `AgentSession`, in three layers.

1. `DriverSound` joins the types, `Sound(machine)` and `AtAwait`: which state of the
   machine each await of the driver takes for granted (a handler that awaits a
   compactor has a machine in `AwaitingCompaction`, and so on). The methods of the
   machine have preconditions; that the driver meets them, whatever the host does
   between two awaits, is what this layer shows. It cites the lemmas of
   `LoopMachineProofs` method by method.
2. Each action is shown to be of one *kind* (`Begins`, `Arms`, `Steps`, `Assembles`,
   `Serves`, `Salvages`, `Passes`, `Breaks`, `Closes`, `Edits`, `Watches`), by one lemma
   per action, and `EveryStep` says that there is no other. A kind says what
   a step means to whoever looks at one concern: what becomes of the anchor
   (`AnchorMoves`), of guidance (`Hears`), of the stash, the marks of spent retries
   and the counts. The actions that compose a dozen operators are expanded once,
   here, and never again.
3. Each property has an invariant over kinds. `TurnsBracketed` and
   `TargetIsThisRuns` are inductive as they stand. `RetriesMarked` ties the attempts
   at a turn to the marks its salvages left: three is two marks and the request under
   way. `AnchorInRun` adds that a compaction pass, which may put anything in the
   feed's place, has no anchor. `StashIsFresh` adds that a stash, while it may still be
   taken, was prepared from the feed as it is. `SteeringSound` counts where each
   accepted text is, and that what is in a run's own part of the conversation was
   accepted by that run; `CopiesJoined` and `DrainCounts` do the counting.

`LoopKeepsSession` maps kinds to the session's actions: `Begins` is `Begin`, `Closes` is
`Commit`, a move within a run is `Condense` or leaves the transcript alone, and
`Edits` is `Rewind` or `Condense`.

**BreakerProofs.** The invariant joins the type, the cached choice, the counts
and the relation of `streak` to `primary_success_count`; the last makes
`ClosesOnlyAfterAStreak`, an action property, follow from a state fact.
`OnlyTheServerIsEverBlamed` further needs that while a request is out the model
serving it is the one the breaker would name, which is why the host's edits stay
between requests.

**StreamProofs** is about a stream, in two parts: the turn that opens and reads it, and the
message that is put together from it. In the first the invariant ties the two retry counts to the number of
streams opened, phase by phase (a sleeping handler has one more count than it has
streams to show for), and the two accumulators to each other. From it:
`RequestsAlwaysWithinBudget` (the first request, `MaxRetries` more, and one for
each rate limit up to the escalation threshold),
`AttemptsAlwaysCounted`, `AnswerAlwaysOneStreams` (the two parts of
`AnswerIsWhole`) and `StopsInTime` (both lateness bounds).

The second part proves `MessagesAreWhole`, that `PartsAreWhole` holds of `Lanes` for every
set of wire formats, any number of fragments, calls and blocks. The hazard is that
emitter and accumulator agree by indices which two lanes may share, so that a stop
may close the wrong slot. The invariant (`LaneInv`) says why it does not.

* `Owes`: as many slots have an index as there are stops to come for it, the stop of an
  open lane and that of a call, two at most. Whichever of the two slots the first stop
  closes, the second closes the other.
* `Narrated`: what a narrative lane was told is what its completed parts got and then
  what its first open slot holds, any other open slot of its kind being empty still.
* `Called`: every call that was told is in one place, a part or a slot; a slot of a call
  has that call's index.
* `InOrder`: where no content followed a call, the open slots are the last parts that
  were told, in their order.

`Good` joins the first three. There is a lemma for what each event does to each of them
(`BeginsOwes`, `NarrativeGetsNarrated`, `EndsCalled`, `OrderEnds`, ...), by way of what an
event does slot by slot (`Begins`, `Gets`, `Ends`). `ChunkInv` adds, for the chunked wires,
which lane is open, and `BlockInv` says of the others that at most the block's own slot
is. Events are taken one after another (`TakenJoined`), and one lemma per action composes
what its events do; `CallsClose` follows the stops of all calls at the end, any of which
may find a call cut short and reject the stream. `GoodIsWhole` is the end: where no stop
is owed nothing is open, and what is complete is what was told. The theorem assumes
`~Resumes` of OpenAI's format alone; section 7 says what happens without (a call of Gemini
comes in one piece, and blocks come one after another). The functions that read a sequence
(`Taken`, `AllOf`, `Filled`) are recursive, and what they make of an appended element is
proved as for `CutProofs`: by the least prefix for which it would fail.

**ToolDispatchProofs** begins with the planner. That conflicting calls keep their
order is not inductive: a call joins the *earliest* wave without its key, so the
waves before it must all hold that key. The invariant says so for every key at once
(`LeftFilled`: what an open wave before another one lacks, that other one lacks too),
with what `open` and `keys` mean of a wave's members. It has one lemma per way to
place a call (`OpeningKeeps`, `JoiningKeeps`).

The invariant of dispatch joins the planner's, or the one-by-one shape
of sequential mode, to where futures are (`Located`: one that is under way is in
the wave that runs) and to the account of each future (`Balanced`). The account
is kept by `AdmitKeeps` and `AttemptKeeps`, which every await that leads to the
tool cites. `AlwaysPlannedTogether` then follows from location and the plan,
`ExitsAlwaysAccounted` from the account. `FirstErrorAlwaysEndsBatch` needs how far
the batch is as well (`Underway`): the calls of the waves behind the running one
ended well, none ahead of it began, and a batch that runs has each of its calls in
one wave, in sequential mode too. `OneAnswer` compares
the two questions a breaker is asked (`would_allow_request`, `allow_request`),
which the code answers in two places.

**FileProofs.** Which write is justified is decided a few steps before it happens,
while others write and the editor edits. The invariant (`FileInv`) says of each
baseline that it is of a content the model knows, and of each call, phase by phase
(`Fits`), what it may rely on: the contents it compares with are known; once it has
compared, the inode it expects holds that content still; once it has looked, the
name is on that inode still. Each step of another call or of the editor has to leave
that alone (`OneMoves`, `OutsideKeeps`), which is where the guards that stand for
the documented gaps are used. `NothingUnseenIsEverClobbered` follows, as does that
a batch reports what it wrote.

`MemoryInv` is about the memory store. One part holds whatever happens: the
registry finds only cells that handles hold (`RegistrySound`), and the Inner of a handle
has the file's own path, or is that of a cell registered under its link, with nothing in
it before the link resolves (`Settled`). The other part holds
as long as there was no lapse. `StoreSound` says of the file, and of each Inner whose
path leads there, that the Inner holds nothing the file does not; that an Inner with
a write ahead of it holds what the hosts were told is stored, or will look at the file
before it rewrites it (`fallback`); and that it is latched if the file ends in a
fragment, which is why no line is ever welded to one. `DiskSound` says that whatever
the name may still stand for after a power loss has synced what was reported
durable. A step that leaves `lapses` empty tells what the operation may rely on: it was
the only store at work on the file (`Alone`), and not `Blind`. That one
convergence restores all of this, however many spellings came to lead to the file and
whatever other handles are doing meanwhile, is `MigrationSound`; `HoldsSound` and
`ReplacedSound` are what every operation cites. `StoredAlwaysSurvives` and
`FlushedAlwaysSurvives` follow, for every host.

`OneLockWhereAllResolve` is about the lapse itself: where no spelling
resolves late (`Link = {}`), all handles on the file share one store
(`OneStore`), however they come, fail and go. With a link that does, `memory_owner`
and `memory_apart` show two ways to the lapse.

**ServiceProofs** has one inductive invariant per component.

* `BucketInv`: the tokens issued and those in the bucket are what there was at
  first and what the time up to `lastRefill` brought, and no clock reading lies in
  the future. `AlwaysPaced` follows although readings may be older than the
  last refill, as a refill never moves back.
* `BudgetInv`: the warnings are the latches, and what is spent before a request
  goes out lies below each limit. `BudgetAlwaysHolds` follows, for any answers.
* `ApprovalInv`: a slot belongs to a wait, and a wait without a slot has its
  answer; what an approver was told had arrived is the answer, or the answer of
  one that lapsed. `AsksAlwaysAnsweredOnce` follows.
* `SinkInv`: who sleeps had, when it went to sleep, nothing to wait for, and
  whoever changed that is about to notify; whoever writes holds the append
  lock. `NobodyEverSleepsThrough` and `OneAlwaysAtTheFile` follow.
* `Accounted`, beside it: queue, batch, file and warnings share out the records that
  were made (`Places`), a worker finds the file as it left it but for its own torn line
  (`FileKept`), and, the part that makes the count inductive, a torn line at the end of
  the file is a failed repair whose cost is still to come: it spoils the next record
  (`Counted`). `RecordsAlwaysAccounted` follows.
* `MemoInv`: that no entry is stale is not inductive, as an entry is made of what a
  read saw earlier. The invariant says of each read in flight that *if* its epoch is
  still the cache's, what it saw is at least as new as every write that has returned,
  and of each write that what it made is in the files. `NeverStale` follows.

**CutProofs** is about positions: which calls belong to which results, where a cut
may lie, and what is pulled across it.

* The calls that wait for a result are a set of positions, of which a result takes
  the largest. `PairingMatches` says that this matches results and calls one to one,
  as a position that was taken never waits again (`AnsweredWaitsNoMore`).
* A clean cut (`CleanSplit`) separates no result from its call.
  `SlidesToTheLastCleanCut` says that the code's loop, which moves a split until
  nothing has to move, ends at the last clean cut there is: no clean cut lies between
  a split and where one round takes it (`AdjustedProperties`).
* `ExchangesCrossWhole` looks at what is shown of each message that stays (`Shown`, the
  parts that `Sanitized` leaves). A pulled message loses the parts whose mate did not
  come along, one behind the cut none, and the cut being clean the results whose calls
  were dropped are those of the opening message, which are pulled (`FirstMates`).
* `TerminalCutsClean` and `SummaryCutsClean` say that whatever the truncator and
  the splitter of the summarizers choose is such a cut, with whole exchanges pulled
  across it. The splitter tries smaller budgets until cut and pull settle, which they do
  as the budget only falls (`PassingEnds`).

The code's loops are recursive functions here. That such a function exists, and is
the one the definition chooses, is itself proved (`StepsExist` for those that count,
`PassingExists` for those that follow a falling number), from the existence of a least
number among those that would fail. The theorems assume of a conversation that no message
both calls and answers (`OneWay`), as a model calls and a host answers, and that a message
has finitely many parts (`Finite`).

Only model-checked: every liveness property (out of this prover's reach, as is
`ENABLED`), `CutsAreClean`, whose remainder is about the messages that come of a
cut, once they are put together, filtered and counted.

## 7. Where the code and its documentation disagree

Six runs show a documented promise that the code does not keep. Each checks one
property and TLC finds the counterexample.

* `loop_anchor`: `finalize` throws a conversation that cannot fit away and leaves
  the usage anchor of its last report, so that the next run's first figure is
  built on a request which is no longer there (`engine/bare.rs:3428`, against the
  comment at 436-445).
* `dispatch_alone`: a recovery's correction may make a safe call unsafe after the
  plan was made, and its retry runs beside the calls of its wave
  (`bare/dispatch.rs:809`, against 252-254).
* `memory_owner`: a handle that came through a link joins the store of its file,
  but its own cell is registered nowhere. Once the handle that owned the store is
  dropped, the next `open` makes a second store over the same file, and a rewrite
  by either loses what the other appended (`memory/file.rs:708`, against 55-65).
  No link resolves during an operation in this run (`Flights = FALSE`).
* `memory_apart`: an operation looks at the registry, lets go of its lock, and only
  then takes the locks of its own store. If the link it came through resolves in between,
  it appends to a file that another store is at work on (`memory/file.rs:1314`,
  against 70-73).
* `bucket_burst`: the refill stops at the instant the bucket was full and the time
  after it is counted again at the next take, so that after a long idle time more
  than the capacity goes out at once (`stream/rate_limit.rs:236`, against 53 and
  179-180). In total the bucket keeps its pace (`AlwaysPaced`).
* `ask_gone`: dropping the approver denies the slots and then closes the queue; an
  ask that parks in between waits for an answer nobody can give
  (`ask.rs:358`, against 311-313).

More were found in other instances of these modules and are described in
`PROJECT.json` without a run:

* A run cancelled between staging a salvage and the pass leaves
  `salvage_target`, and a manual compaction lands on it
  (`bare/compact.rs:355`, against `engine/bare.rs:479-488`). Runs are not
  affected (`TargetIsThisRuns`).
* A manual pass measures before and after with the anchor of the old feed, both
  figures saturate, and a pass that shrank the feed is refused as
  stalled (`bare/compact.rs:373`, against 563-566).
* With one model twice in the chain, failures are charged to the first entry only
  and the spent model goes on serving (`fallback.rs:1166`, against 304-307).
* The latch of a failed append goes with the last handle of its store. A handle made
  by `new`, which reads nothing, is not latched, and welds its line onto the fragment
  (`memory/file.rs:263`, against 249-254): `StoredIsThere` fails in `memory_owner` with
  `Followed = {"unread"}`.
* A session that a host opens with an exchange whose result is durable gets its
  first message twice when a pass pulls that exchange: the pull has no exception
  for the message that is kept anyway (`compact/truncating.rs:857`, against
  816-819). `Openings` therefore has no durable result.
* The summarizers take the cost of what they pull from the budget of the tail and
  bound the pull by what is left, so that a durable exchange of more than half the
  budget is given up although it fits
  (`compact/structured_summarizer.rs:949`, against `compact/truncating.rs:282-286`).
* A pin put at the head by one pass of the truncator is "the first message" of the
  next, which keeps it, inserts it again, and evicts the message the session
  began with (`compact.rs:577`, against `compact/truncating.rs:375-376`).
  `RecentSurvive` asks for the pin, and does not promise the opening.
* The pins are counted apart from what is kept, and both counts round down: a
  landing may miss the target by a token
  (`compact/truncating.rs:498`, against 3426-3427). `LandsWithin` is stated for
  pins of whole tokens.

* OpenAI's emitter reopens the text lane at part index 0 (reasoning at 1) when content
  comes after a call was opened, beside the call with that index. What closes the lane
  is a stop with that index, which the accumulator applies to the older slot, the call:
  with its arguments half told the stream is rejected, with none told the call is served
  with an empty input and loses its arguments (`provider/openai.rs:2569`, against
  `stream.rs:184-188` and `provider/openai.rs:3729`). `PartsAreWhole` fails in `services`
  with `Resumes = TRUE`. When the call was complete nothing is lost, but parts, calls
  among them, may stand in another order than they were made; `PartsAreWhole` promises
  the order only where no content followed a call (`resumed`).

## 8. What is not modelled

`PROJECT.json` names every component with its status. In short:

* *Planned* (section 2): calibration, detection, the shared tables
  (grants, jobs, the observers' hub), the rolling compactor, the QA summarizer's prior summary and
  demotion.
* *Without a theorem*: what `Cuts` makes of a cut. It puts messages together with filters
  and folds of the library, about which nothing is proved there.
* *Abstracted where they touch a model*: what a compactor returns to `BareLoop` (any
  summary and coherent tail), what a summary says, what hooks decide, what a provider sends (within its protocol), how long a backoff
  lasts, what a prune plan picks (any set of outputs), which pieces an answer
  consists of, what the middleware around a tool does (a tool answers or fails),
  how results are worded.
* *Left out*: framing, parsing and other text processing (a chunk that cannot be parsed
  is skipped), usage, stop reasons, signatures, content behind the announced end (the lane it
  reopens is never closed, so that the message does not have it), transports, metrics,
  pricing, exporters, macros, the compile-time lifecycle (the Rust type checker
  decides what a model would), and logging.

Assumptions that carry weight: a host does not call `&mut` methods during a run
(the borrow checker forbids it); sums of token counts do not overflow (they
saturate in the code, far above any window); tool-call ids are unique within a
conversation's open calls, or are repeated only as the models allow (ids are
reused from a small set, so that reuse across turns *is* covered).
