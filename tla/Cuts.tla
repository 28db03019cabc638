-------------------------------- MODULE Cuts ---------------------------------
(***************************************************************************)
(* Where a compaction pass cuts a conversation (src/compact): the pairing  *)
(* of calls and results, the terminal truncator and the splitter of the    *)
(* summarizers, which both carry durable exchanges and pins across the     *)
(* cut, the chain of stages, and the manager that installs the outcome.    *)
(* A message is its number in the session, its role, and what the cuts     *)
(* tell apart of its parts: text by its size, the ids of calls and of      *)
(* results, all of them durable or none.  A summary is a text that fits    *)
(* its budget, or no answer.  Left out: the rolling compactor, demotion,   *)
(* and what the summarizers ask.                                           *)
(***************************************************************************)
EXTENDS Naturals, Sequences, FiniteSets, FiniteSetsExt

CONSTANTS CallId,
          Seeds,           \* the conversations a host may begin with
          Lengths,         \* of texts and of results, in characters
          PerToken,        \* CHARS_PER_TOKEN
          PreserveRecent, MinMessages,
          SummaryPart,     \* summary_budget: a share of the target, in percent
          PinLength,       \* of what the host pins
          Landings,        \* the targets of passes, in tokens
          Window,
          MaxSaid          \* bound: messages in a session, summaries among them

ASSUME CutsAssumption == /\ PerToken \in Nat \ {0} /\ SummaryPart \in 0..100
                         /\ PreserveRecent \in Nat \ {0} /\ MinMessages \in Nat \ {0, 1}
                         /\ Lengths \subseteq Nat \ {0} /\ PinLength \in Nat \ {0}
                         /\ Landings \subseteq Nat

VARIABLES
  feed,    \* the conversation
  said,    \* messages so far
  pinned,  \* whether the host has a pin set
  sunk     \* the numbers of the messages that passes have evicted

cutVars == <<feed, said, pinned, sunk>>

Message == [n : Nat, role : {"system", "user", "assistant"}, text : Nat,
            calls : SUBSET CallId, results : SUBSET CallId, bulk : Nat, durable : BOOLEAN]

Text(k, role, size) == [n |-> k, role |-> role, text |-> size, calls |-> {}, results |-> {},
                        bulk |-> 0, durable |-> FALSE]
PinText == Text(0, "user", PinLength)

Bare(m)      == m.text = 0 /\ m.calls = {} /\ m.results = {}
Less(a, b)   == IF a > b THEN a - b ELSE 0    \* saturating_sub
LargestOf(S) == IF S = {} THEN 0 ELSE Max(S)
LeastOf(S)   == IF S = {} THEN 0 ELSE Min(S)

\* Messages by their positions, and what is behind a cut.
Sorted(P, n)   == SelectSeq([i \in 1..n |-> i], LAMBDA i : i \in P)
Messages(f, P) == LET order == Sorted(P, Len(f)) IN [k \in DOMAIN order |-> f[order[k]]]
Behind(f, s)   == SubSeq(f, s + 1, Len(f))

Numbers(f) == {f[i].n : i \in DOMAIN f}

\* The counter rounds down once for what it counts together.
Chars(m)    == 1 + m.text + Cardinality(m.calls) + m.bulk * Cardinality(m.results)
CharsIn(f)  == MapThenSumSet(LAMBDA i : Chars(f[i]), DOMAIN f)
Count(f)    == CharsIn(f) \div PerToken
Apart(f, P) == MapThenSumSet(LAMBDA i : Count(<<f[i]>>), P)

-----------------------------------------------------------------------------
(* ToolPairing: an id may be used again, and a result answers the latest    *)
(* call with its id that has no answer.                                     *)

\* Where the call of a result is, and the result of a call; 0 if nowhere.  The
\* calls that wait are a stack in the order of their positions.
Waiting(f, c) ==
  LET waiting[i \in 0..Len(f)] ==   \* behind the first i messages
        IF i = 0 THEN {}
        ELSE LET w == waiting[i-1] IN
             IF c \in f[i].calls THEN w \cup {i}
             ELSE IF c \in f[i].results THEN w \ {LargestOf(w)} ELSE w
  IN waiting
CallOf(f, j, c) == LargestOf(Waiting(f, c)[j-1])
ResultOf(f, i, c) == LeastOf({j \in i+1..Len(f) : c \in f[j].results /\ CallOf(f, j, c) = i})

CallsFor(f, j)  == {CallOf(f, j, c) : c \in f[j].results} \ {0}
AnswersTo(f, i) == {ResultOf(f, i, c) : c \in f[i].calls} \ {0}

\* A split is the number of messages before it.  adjusted_split moves it before
\* each call whose result is behind it, until none is left.
Adjusted(f, s) == Min({s} \cup {i - 1 : i \in 1..s \cap UNION {CallsFor(f, j) : j \in s+1..Len(f)}})
Slide(f, s) == LET slide[k \in 0..s] == IF Adjusted(f, k) = k THEN k ELSE slide[Adjusted(f, k)]
               IN slide[s]

Dropped(s) == 1..s
Kept(f, s) == s+1..Len(f)

\* What the opening message called for, before the cut.
FirstMates_none(f, s) == {}   \* mutant: only results behind the cut hold their calls
FirstMates(f, s) == AnswersTo(f, 1) \cap Dropped(s)

-----------------------------------------------------------------------------
(* Durable exchanges before the cut. *)

Exchange_alone(f, j) == {j}   \* mutant: the call is left behind
Exchange(f, j)  == {j} \cup CallsFor(f, j)
DurableIn(f, s) == {j \in Dropped(s) : f[j].durable /\ f[j].results # {}}
DurablePulls(f, s) == UNION {Exchange(f, j) : j \in DurableIn(f, s)}

\* Newest first, while the budget lasts; one that does not fit is skipped.
WithinBudget(f, s, budget) ==
  LET walk[n \in 0..s] ==     \* of the last n before the cut
        IF n = 0 THEN [left |-> budget, pulled |-> {}]
        ELSE LET w == walk[n-1]
                 j == s + 1 - n
                 cost == Apart(f, Exchange(f, j)) IN
             IF j \in DurableIn(f, s) /\ cost <= w.left
             THEN [left |-> w.left - cost, pulled |-> w.pulled \cup Exchange(f, j)]
             ELSE w
  IN walk[s].pulled

-----------------------------------------------------------------------------
(* TruncatingCompactor *)

Outcome(out, evicted) == [success |-> TRUE, messages |-> out, evicted |-> evicted]
AsItWas(f)  == Outcome(f, {})
NoAnswer(f) == [success |-> FALSE, messages |-> f, evicted |-> {}]

\* sanitize_tool_parts: a message that was pulled out of its place keeps only
\* the parts whose mate is there; a result without a call goes from everywhere.
Sanitized(f, i, live, isPulled) ==
  [f[i] EXCEPT !.calls = {c \in @ : isPulled => ResultOf(f, i, c) \in live},
               !.results = {c \in @ : /\ CallOf(f, i, c) # 0
                                      /\ isPulled => CallOf(f, i, c) \in live}]

Assembled(f, s, pulls) ==
  LET live == {1} \cup pulls \cup Kept(f, s)
      at(i, isPulled) == Sanitized(f, i, live, isPulled)
      pulled == Sorted(pulls, s)
      out == <<at(1, FALSE)>> \o [k \in DOMAIN pulled |-> at(pulled[k], TRUE)]
             \o [k \in 1..Len(f)-s |-> at(s+k, FALSE)]
      kept == SelectSeq(out, LAMBDA m : ~Bare(m))
  IN Outcome(kept, Numbers(f) \ Numbers(kept))

\* unchanged: only results without a call are filtered, unless nothing else is there.
Unchanged(f) ==
  IF \A i \in DOMAIN f : f[i].text = 0 /\ f[i].calls = {} /\ CallsFor(f, i) = {} THEN AsItWas(f)
  ELSE Assembled(f, 1, {})

LandingAt(f, s, target) ==
  LET floor == Less(Len(f), PreserveRecent)
      first == Count(<<f[1]>>)
      tail(k) == Count(Behind(f, k))
      pulls == FirstMates(f, s) \cup WithinBudget(f, s, Less(Less(target, tail(floor)), first))
  IN first + tail(s) + Apart(f, pulls)

Landed(f, s, pulls) == Count(<<f[1]>> \o Messages(f, pulls) \o Behind(f, s))

\* choose_split: the largest tail whose landing fits, by estimate and exactly.
Fits(f, s, target) ==
  LET budget == Less(Less(target, Count(Behind(f, s))), Count(<<f[1]>>))
  IN /\ s >= 2 /\ LandingAt(f, s, target) <= target
     /\ \/ Landed(f, s, FirstMates(f, s) \cup DurablePulls(f, s)) <= target
        \/ Landed(f, s, FirstMates(f, s) \cup WithinBudget(f, s, budget)) <= target

ChooseSplit(f, target) ==
  LeastOf({s \in {Slide(f, k) : k \in 2..Less(Len(f), PreserveRecent)} : Fits(f, s, target)})

WithPins(out) ==
  IF ~pinned THEN out
  ELSE LET at == IF out # <<>> /\ out[1].role = "system" THEN 1 ELSE 0
       IN SubSeq(out, 1, at) \o <<PinText>> \o SubSeq(out, at + 1, Len(out))
PinTokens == IF pinned THEN Count(<<PinText>>) ELSE 0

\* A target of zero is none, and then everything durable rides.
TruncatedAt(f, s, target) ==
  LET budget == IF target = 0 THEN CharsIn(f) ELSE Less(target, Count(<<f[1]>> \o Behind(f, s)))
      cut == Assembled(f, s, FirstMates(f, s) \cup WithinBudget(f, s, budget))
  IN IF s = 0 \/ cut.messages = <<>> THEN Unchanged(f) ELSE [cut EXCEPT !.messages = WithPins(@)]

\* What may come of a pass: here and below a set, of one outcome.
Truncate(f, target) ==
  LET effective == Less(target, PinTokens)
      split == IF Len(f) <= MinMessages THEN 0
               ELSE IF effective = 0 THEN Slide(f, Less(Len(f), PreserveRecent))
               ELSE ChooseSplit(f, effective)
  IN {TruncatedAt(f, s, effective) : s \in {split}}

-----------------------------------------------------------------------------
(* The summarizers: TokenSplitter, and what they make of its cut. *)

StartsTurn(f, k) == f[k].role = "assistant" /\ f[k+1].role = "user"

\* split_within_budget: the first turn from which the tail fits, or the deepest.
SplitWithinBudget(f, budget) ==
  LET turns == {Slide(f, k) : k \in {k \in 1..Less(Len(f), PreserveRecent) : StartsTurn(f, k)}}
      fit == {s \in turns \ {0} : Count(Behind(f, s)) <= budget}
  IN IF Len(f) <= MinMessages THEN 0 ELSE IF fit # {} THEN Min(fit) ELSE LargestOf(turns)

\* budgeted_split: what is pulled is taken from the budget of the tail, and the
\* cut and the pull are made again with what is left, until they settle.
BudgetedSplit(f, budget) ==
  LET cut[b \in Nat] == LET s == SplitWithinBudget(f, b)
                        IN [split |-> s, pulled |-> WithinBudget(f, s, b)]
      settled[b \in Nat] ==
        LET left == Less(b, Apart(f, cut[b].pulled))
        IN IF left = b \/ cut[left] = cut[b] THEN cut[b] ELSE settled[left]
  IN settled[budget]

LeadingSystem(f) == f # <<>> /\ f[1].role = "system"

Summarize(f, target, size) ==
  LET budget == (target * SummaryPart) \div 100
      system == IF LeadingSystem(f) THEN {1} ELSE {}
      tail == Less(target, budget + PinTokens + Count(Messages(f, system)))
      summary(s, pulled) ==
        LET dropped == Dropped(s) \ (system \cup pulled) IN
        IF Len(f) <= MinMessages \/ dropped = {} THEN AsItWas(f)
        ELSE IF size \div PerToken > budget THEN NoAnswer(f)
        ELSE Outcome(WithPins(Messages(f, system) \o <<Text(said + 1, "user", size)>>
                              \o Messages(f, pulled) \o Behind(f, s)),
                     Numbers(Messages(f, dropped)))
  IN {summary(cut.split, cut.pulled) : cut \in {BudgetedSplit(f, tail)}}

\* FallbackCompactor: a stage wins that reduces and lands within the target; the
\* terminal is the last and does not fail.  Where no model answers, only it is left.
Chain(f, target, size) ==
  LET lands(o) == Count(o.messages) < Count(f) /\ Count(o.messages) <= target
  IN {IF o.success /\ lands(o) THEN o ELSE last :
        o \in Summarize(f, target, size), last \in Truncate(f, target)}

-----------------------------------------------------------------------------
(* ContextManager::compact_with_reason, with what the driver installs. *)

Backstop(out) == IF PinText \in {out[k] : k \in DOMAIN out} THEN out ELSE WithPins(out)

Install(outcomes) == \E outcome \in outcomes :
  LET out == Backstop(outcome.messages)
      acts == /\ outcome.success /\ Count(out) <= Window
              /\ Len(out) # Len(feed) \/ Count(out) < Count(feed)
      summed == \E k \in DOMAIN out : out[k].n = said + 1
  IN /\ feed' = IF acts THEN out ELSE feed
     /\ sunk' = IF acts THEN sunk \cup outcome.evicted ELSE sunk
     /\ said' = IF acts /\ summed THEN said + 1 ELSE said
     /\ UNCHANGED pinned

Truncates(target) == feed # <<>> /\ Install(Truncate(feed, target))
Summarizes(target, size) == feed # <<>> /\ said < MaxSaid /\ Install(Summarize(feed, target, size))
Degrades(target, size) == feed # <<>> /\ said < MaxSaid /\ Install(Chain(feed, target, size))

\* set_pin refuses what does not fit the manager's own target, the largest here.
SetPin ==
  /\ LET target == LargestOf(Landings) IN target = 0 \/ Count(<<PinText>>) <= target
  /\ pinned' = TRUE /\ UNCHANGED <<feed, said, sunk>>

RemovePin == pinned' = FALSE /\ UNCHANGED <<feed, said, sunk>>

-----------------------------------------------------------------------------
(* The conversation: a call may still wait for its result when a pass cuts. *)

Newest == feed[Len(feed)]
Says(m) == /\ said < MaxSaid /\ said' = said + 1 /\ feed' = Append(feed, m)
           /\ UNCHANGED <<pinned, sunk>>

UserSays(size) ==
  /\ feed # <<>> => Newest.role # "user" /\ Newest.calls = {}
  /\ Says(Text(said + 1, "user", size))

ModelAnswers(ids) ==
  /\ feed # <<>> /\ Newest.role = "user"
  /\ Says([Text(said + 1, "assistant", IF ids = {} THEN 1 ELSE 0) EXCEPT !.calls = ids])

ToolsReturn(size, lasts) ==
  /\ feed # <<>> /\ Newest.calls # {}
  /\ Says([Text(said + 1, "user", 0) EXCEPT !.results = Newest.calls, !.bulk = size,
                                            !.durable = lasts])

CutInit == feed \in Seeds /\ said = Len(feed) /\ pinned = FALSE /\ sunk = {}

CutNext ==
  \/ \E size \in Lengths : \/ UserSays(size)
                           \/ \E lasts \in BOOLEAN : ToolsReturn(size, lasts)
                           \/ \E t \in Landings : Summarizes(t, size) \/ Degrades(t, size)
  \/ \E ids \in SUBSET CallId : ModelAnswers(ids)
  \/ \E t \in Landings : Truncates(t)
  \/ SetPin \/ RemovePin

CutSpec == CutInit /\ [][CutNext]_cutVars

-----------------------------------------------------------------------------

CutTypeOK == /\ feed \in Seq(Message) /\ said \in 0..MaxSaid
             /\ pinned \in BOOLEAN /\ sunk \subseteq Nat

CallsIn(f) == UNION {{<<f[i].n, c>> : c \in f[i].calls} : i \in DOMAIN f}
ResultsIn(f) == UNION {{<<f[i].n, c>> : c \in f[i].results} : i \in DOMAIN f}
PairsIn(f) == UNION {{<<<<f[CallOf(f, j, c)].n, c>>, <<f[j].n, c>>>> :
                       c \in {c \in f[j].results : CallOf(f, j, c) # 0}} : j \in DOMAIN f}
InOrderOf(f, S) == SelectSeq([i \in DOMAIN f |-> f[i].n], LAMBDA n : n \in S)

\* An exchange is kept whole or goes whole; a call that waits is kept; and no
\* result is left without its call.
ExchangesAreWhole ==
  LET was == PairsIn(feed)
      is == PairsIn(feed')
      answered == {p[1] : p \in was} IN
  /\ \A p \in was : p \in is \/ (p[1] \notin CallsIn(feed') /\ p[2] \notin ResultsIn(feed'))
  /\ CallsIn(feed) \ answered \subseteq CallsIn(feed')
  /\ ResultsIn(feed') \subseteq {p[2] : p \in is}

\* A message stays, once and in its place, or goes to the sink.
NothingVanishes ==
  LET old == Numbers(feed) \ {0}
      stay == old \ sunk' IN
  InOrderOf(feed', old) = InOrderOf(feed, stay)

\* What was said last survives every cut, and so does what is pinned.
LastOf(f) == Behind(f, Less(Len(f), PreserveRecent))
RecentSurvive == /\ LastOf(feed') = LastOf(feed)
                 /\ pinned => PinText \in {feed'[i] : i \in DOMAIN feed'}

\* What the terminal keeps lands within the target, counted together, although
\* the cut is chosen by an estimate: if the pins are whole tokens.
LandsWithin ==
  Chars(PinText) % PerToken = 0 /\ feed # <<>> =>
    \A t \in Landings : \A o \in Truncate(feed, t) :
      o.evicted # {} /\ t > PinTokens => Count(o.messages) <= t

\* Whatever the conversation, whoever cuts it, and however often the ids of
\* calls come again: a pass tears no exchange apart, loses and doubles no
\* message, spares what was said last and what is pinned, and, where the pins
\* are whole tokens, the truncator lands within its target.  Of conversations,
\* that is, whose opening message makes no call with a durable result: section 7
\* of the README says what becomes of one that does, and of uneven pins.
CutsAreClean ==
  [][feed' # feed => /\ CutTypeOK' /\ ExchangesAreWhole /\ NothingVanishes
                     /\ sunk' # sunk => RecentSurvive /\ LandsWithin]_cutVars
=============================================================================
