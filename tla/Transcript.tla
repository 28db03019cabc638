----------------------------- MODULE Transcript -----------------------------
(***************************************************************************)
(* The conversation a loop keeps: a sequence of messages, seen only as far *)
(* as tool calls and their results are concerned.  A message carries the   *)
(* ids of the tool calls it makes and of the calls it answers; everything  *)
(* else it holds (text, images, thinking) is a set of opaque labels.       *)
(***************************************************************************)
EXTENDS Integers, Sequences, FiniteSets

CONSTANTS CallId,   \* the ids a provider gives to tool calls
          Text      \* labels that stand for everything else in a message

ASSUME TextAssumption == Text # {}

Message == [role    : {"user", "assistant"},
            calls   : SUBSET CallId,
            results : SUBSET CallId,
            text    : SUBSET Text]

\* Calls are made by the assistant and answered by the user side.
WellFormed(m) == /\ m.role = "user" => m.calls = {}
                 /\ m.role = "assistant" => m.results = {}

\* Conversations whose messages keep to their roles.
Conversation == {s \in Seq(Message) : \A i \in 1..Len(s) : WellFormed(s[i])}

UserText(t)      == [role |-> "user", calls |-> {}, results |-> {}, text |-> t]
Assistant(t, cs) == [role |-> "assistant", calls |-> cs, results |-> {}, text |-> t]
Answers(t, cs)   == [role |-> "user", calls |-> {}, results |-> cs, text |-> t]

\* The calls among the first n messages of s that none of them answers: the
\* `open' set of the scan once it has consumed n messages.
Open(s, n) == {c \in CallId : \E i \in 1..n : /\ c \in s[i].calls
                                              /\ \A j \in (i+1)..n : c \notin s[j].results}

Unanswered(s) == Open(s, Len(s))

\* Every result answers a call that is open where the result stands.
NoOrphans(s) == \A j \in 1..Len(s) : s[j].results \subseteq Open(s, j-1)

\* What a provider accepts: no call is left hanging, no result lacks its call.
Coherent(s) == NoOrphans(s) /\ Unanswered(s) = {}

\* The lengths at which nothing is open, and the last of them within limit.
Boundaries(s, limit) == {n \in 0..limit : Open(s, n) = {}}
CoherentCut(s, limit) == CHOOSE n \in Boundaries(s, limit) :
                            \A k \in Boundaries(s, limit) : k <= n

\* Vec::split_off at n, or at the end of s when s is shorter.
Within(s, n) == IF n < Len(s) THEN n ELSE Len(s)
Take(s, n)   == SubSeq(s, 1, Within(s, n))
Drop(s, n)   == SubSeq(s, Within(s, n) + 1, Len(s))

(***************************************************************************)
(* Adjacent assistant messages are merged when a compacted conversation is *)
(* installed.  Heads are the positions at which a merged message starts;   *)
(* Group is the position of the merged message that message i ends up in.  *)
(***************************************************************************)
SameRun(s, i)  == s[i-1].role = "assistant" /\ s[i].role = "assistant"
Heads(s, n)    == {i \in 1..n : i = 1 \/ ~SameRun(s, i)}
Group(s, n)    == Cardinality(Heads(s, n))
Members(s, k)  == {i \in 1..Len(s) : Group(s, i) = k}

Merged(s, is)  == [role    |-> s[CHOOSE i \in is : TRUE].role,
                   calls   |-> UNION {s[i].calls : i \in is},
                   results |-> UNION {s[i].results : i \in is},
                   text    |-> UNION {s[i].text : i \in is}]

Coalesce(s) == [k \in 1..Group(s, Len(s)) |-> Merged(s, Members(s, k))]
=============================================================================
