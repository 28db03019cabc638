----------------------------- MODULE MCServices -----------------------------
(***************************************************************************)
(* Small instances of the components that serve a run and share no state   *)
(* with it: the planner, the file memory, the cache of tool results, the   *)
(* budget gate, the token bucket, the approval channel, the ledger, the    *)
(* tools that write files, the cuts of compaction and the emitters of      *)
(* streams.  A behaviour is one of one of them: the others stay as they    *)
(* begin.                                                                  *)
(***************************************************************************)
EXTENDS ToolPlan, FileMemory, Memoize, Budget, TokenBucket, Approval,
        LedgerSink, FileTools, Cuts, Lanes, TLC

CONSTANTS shell, ghost, ka, kb,
          h1, h2, e1, e2, c1, c2, c3, l1, l2,
          p1, p2, single, pair, reader1, writer1, writer2, turn1, turn2,
          a1, a2, a3, s1, s2, t1, t2, n1, n2, i1, i2, i3, j1, j2, cx,
          Served,    \* the components that are looked at
          Followed,  \* the lapses after which a memory file is still looked at
          Flights    \* whether links are looked at that resolve during operations

VARIABLE service

planVars == <<calls, waves, placed>>

-----------------------------------------------------------------------------

Call(tool, safe, key) == [tool |-> tool, safe |-> safe, key |-> key]

\* On either resource or none, to run alone, and to a tool that is not there.
Mixed == {Call(shell, TRUE, ka), Call(shell, TRUE, kb), Call(shell, TRUE, NoKey),
          Call(shell, FALSE, ka), Call(ghost, TRUE, ka)}

UpToFive == UNION {[1..n -> Mixed] : n \in 1..5}

Alike == UNION {Permutations(S) : S \in {{h1, h2}, {l1, l2}}}

\* One result may rest on two paths.
WhatIsRead == [k \in {single, pair} |-> IF k = pair THEN {p1, p2} ELSE {p1}]

\* None, zero, one that rounds to a soft line of zero, and one in reach.
AFewLimits == {[tokens |-> t, turns |-> n, clock |-> c, usd |-> u] :
               t \in {NoLimit, 1, 4}, n \in {NoLimit, 0, 2}, c \in {NoLimit, 2}, u \in {NoLimit, 3}}

AFewAnswers == {[tokens |-> 0, usd |-> 2], [tokens |-> 3, usd |-> 0], [tokens |-> 5, usd |-> 5]}

\* The first thread has handles to both writers of the ledger.
Uses == [t \in {t1, t2} |-> IF t = t1 THEN {s1, s2} ELSE {s1}]

OnePair == {<<n1, n2>>}

\* A conversation from its start, one under standing instructions, and one that
\* a host begins with an exchange.
Openings == {<<>>, <<Text(1, "system", 1)>>,
             <<[Text(1, "assistant", 0) EXCEPT !.calls = {cx}],
               [Text(2, "user", 0) EXCEPT !.results = {cx}, !.bulk = 1]>>}

-----------------------------------------------------------------------------

Init == /\ service \in Served
        /\ IF service = "plan" THEN PlanInit ELSE calls = <<>> /\ waves = <<>> /\ placed = 0
        /\ MemoryInit /\ MemoInit /\ BucketInit /\ ApprovalInit /\ SinkInit
        /\ FileInit /\ CutInit /\ (service # "cuts" => feed = <<>>)
        /\ LaneInit /\ (service # "lanes" => dialect = "gemini")
        /\ BudgetInit /\ (service # "budget" => limit = [d \in Dimension |-> NoLimit])

Services == {"plan", "memory", "memo", "budget", "bucket", "approval", "ledger",
             "files", "cuts", "lanes"}

Idle(s) == CASE s = "plan" -> UNCHANGED planVars [] s = "memory" -> UNCHANGED memoryVars
             [] s = "memo" -> UNCHANGED memoVars [] s = "budget" -> UNCHANGED budgetVars
             [] s = "bucket" -> UNCHANGED bucketVars
             [] s = "approval" -> UNCHANGED approvalVars [] s = "ledger" -> UNCHANGED sinkVars
             [] s = "files" -> UNCHANGED fileVars [] s = "cuts" -> UNCHANGED cutVars
             [] s = "lanes" -> UNCHANGED laneVars

InUse(l) == l \in healed' \/ stores'.key[l] # NoCell

\* Bounds: two entries with no link, or with one while no rename is in doubt,
\* and two links with one entry.  A behaviour is looked at while its lapses are
\* Followed: from the first one on, nothing is promised.
MemoryBound ==
  /\ \/ unstored' # {}
     \/ \A l \in Link : ~InUse(l)
     \/ older' = {} /\ \E l \in Link : ~InUse(l)
  /\ lapses' \subseteq Followed
  /\ Flights \/ healed' = healed \/ \A h \in Handle : busy[h] = "no"

Next == /\ UNCHANGED service
        /\ \/ service = "plan" /\ PlaceNext
           \/ service = "memory" /\ MemoryNext /\ MemoryBound
           \/ service = "memo" /\ MemoNext
           \/ service = "budget" /\ BudgetNext
           \/ service = "bucket" /\ BucketNext
           \/ service = "approval" /\ ApprovalNext
           \/ service = "ledger" /\ SinkNext
           \/ service = "files" /\ FileNext
           \/ service = "cuts" /\ CutNext
           \/ service = "lanes" /\ LaneNext
        /\ \A s \in Services \ {service} : Idle(s)
=============================================================================
