-------------------------- MODULE LoopMachineProofs --------------------------
(***************************************************************************)
(* The machine keeps the conversation coherent whatever its driver does.   *)
(* Sound is the inductive invariant; it is a predicate on one machine      *)
(* value, so each method has a lemma of its own that a driver's proof can  *)
(* cite too.                                                               *)
(***************************************************************************)
EXTENDS LoopMachine, SequenceTheorems, FiniteSetTheorems, WellFoundedInduction, TLAPS

-----------------------------------------------------------------------------
(* What the operators of Transcript return, preserve and bound, for every      *)
(* set of call ids and of text labels.                                         *)

\* Two conversations agree up to n on who calls and who answers.
SameCalls(s, t, n) == \A i \in 1..n : s[i].calls = t[i].calls /\ s[i].results = t[i].results

-----------------------------------------------------------------------------
(* Open. *)

\* The open set is a subset of the ids, and empty before the first message.
LEMMA OpenBasic ==
  ASSUME NEW s
  PROVE  /\ \A n \in Nat : Open(s, n) \subseteq CallId
         /\ Open(s, 0) = {}
BY DEF Open

\* The open set after n messages depends on the calls and results of those n.
LEMMA OpenSame ==
  ASSUME NEW s, NEW t, NEW n \in Nat, SameCalls(s, t, n)
  PROVE  Open(s, n) = Open(t, n)
BY DEF Open, SameCalls

\* Orphan-freedom, too, depends on nothing else.
LEMMA NoOrphansSame ==
  ASSUME NEW s \in Seq(Message), NEW t \in Seq(Message),
         Len(s) = Len(t), SameCalls(s, t, Len(s))
  PROVE  /\ NoOrphans(s) <=> NoOrphans(t)
         /\ Unanswered(s) = Unanswered(t)
<1>1. ASSUME NEW n \in 0..Len(s) PROVE Open(s, n) = Open(t, n)
  BY OpenSame DEF SameCalls
<1>2. Unanswered(s) = Unanswered(t)
  BY <1>1 DEF Unanswered
<1>3. ASSUME NEW j \in 1..Len(s) PROVE s[j].results = t[j].results /\ Open(s, j-1) = Open(t, j-1)
  BY <1>1 DEF SameCalls
<1>4. QED
  BY <1>2, <1>3 DEF NoOrphans

\* Appending a message closes the calls it answers and opens those it makes.
LEMMA OpenAppend ==
  ASSUME NEW s \in Seq(Message), NEW m \in Message
  PROVE  /\ Unanswered(Append(s, m)) = (Unanswered(s) \ m.results) \cup m.calls
         /\ NoOrphans(Append(s, m)) <=> NoOrphans(s) /\ m.results \subseteq Unanswered(s)
<1> DEFINE t == Append(s, m)
           L == Len(s)
<1>1. /\ L \in Nat /\ Len(t) = L + 1 /\ t[L+1] = m
      /\ \A i \in 1..L : t[i] = s[i]
  BY AppendProperties
<1>2. ASSUME NEW n \in 0..L PROVE Open(t, n) = Open(s, n)
  <2>1. n \in Nat /\ SameCalls(t, s, n)
    BY <1>1 DEF SameCalls
  <2>2. QED
    BY <2>1, OpenSame
<1>3. Unanswered(t) = (Unanswered(s) \ m.results) \cup m.calls
  <2>1. ASSUME NEW c \in Open(t, L+1) PROVE c \in (Open(s, L) \ m.results) \cup m.calls
    <3>1. PICK i \in 1..(L+1) : c \in t[i].calls /\ \A j \in (i+1)..(L+1) : c \notin t[j].results
      BY DEF Open
    <3>2. CASE i = L+1
      BY <3>1, <3>2, <1>1
    <3>3. CASE i # L+1
      <4>1. i \in 1..L /\ c \in s[i].calls /\ c \notin m.results
        BY <3>1, <3>3, <1>1
      <4>2. \A j \in (i+1)..L : c \notin s[j].results
        BY <3>1, <4>1, <1>1
      <4>3. QED
        BY <4>1, <4>2 DEF Open
    <3>4. QED
      BY <3>2, <3>3
  <2>2. ASSUME NEW c \in m.calls PROVE c \in Open(t, L+1)
    <3>1. c \in CallId
      BY DEF Message
    <3>2. QED
      BY <3>1, <1>1 DEF Open
  <2>3. ASSUME NEW c \in Open(s, L), c \notin m.results PROVE c \in Open(t, L+1)
    <3>1. PICK i \in 1..L : c \in s[i].calls /\ \A j \in (i+1)..L : c \notin s[j].results
      BY DEF Open
    <3>2. i \in 1..(L+1) /\ c \in t[i].calls /\ \A j \in (i+1)..(L+1) : c \notin t[j].results
      BY <3>1, <2>3, <1>1
    <3>3. QED
      BY <3>2 DEF Open
  <2>4. QED
    BY <2>1, <2>2, <2>3, <1>1 DEF Unanswered
<1>4. NoOrphans(t) <=> NoOrphans(s) /\ m.results \subseteq Unanswered(s)
  <2>1. ASSUME NEW j \in 1..L
        PROVE  t[j].results \subseteq Open(t, j-1) <=> s[j].results \subseteq Open(s, j-1)
    BY <1>1, <1>2
  <2>2. t[L+1].results \subseteq Open(t, (L+1)-1) <=> m.results \subseteq Unanswered(s)
    BY <1>1, <1>2 DEF Unanswered
  <2>3. /\ \A j \in 1..(L+1) : j \in 1..L \/ j = L+1
        /\ \A j \in 1..L : j \in 1..(L+1)
        /\ L+1 \in 1..(L+1)
    BY <1>1
  <2>4. NoOrphans(t) <=> \A j \in 1..(L+1) : t[j].results \subseteq Open(t, j-1)
    BY <1>1 DEF NoOrphans
  <2>5. NoOrphans(s) <=> \A j \in 1..L : s[j].results \subseteq Open(s, j-1)
    BY DEF NoOrphans
  <2>6. ASSUME NoOrphans(t) PROVE NoOrphans(s) /\ m.results \subseteq Unanswered(s)
    BY <2>1, <2>2, <2>3, <2>4, <2>5, <2>6, Zenon
  <2>7. ASSUME NoOrphans(s), m.results \subseteq Unanswered(s) PROVE NoOrphans(t)
    BY <2>1, <2>2, <2>3, <2>4, <2>5, <2>7, Zenon
  <2>8. QED
    BY <2>6, <2>7
<1>5. QED
  BY <1>3, <1>4

\* Behind a conversation that leaves nothing open, another one opens and
\* answers as it would on its own.
LEMMA CoherentConcat ==
  ASSUME NEW s \in Seq(Message), NEW t \in Seq(Message), Coherent(s)
  PROVE  /\ Unanswered(s \o t) = Unanswered(t)
         /\ NoOrphans(s \o t) <=> NoOrphans(t)
<1> DEFINE u == s \o t
           L == Len(s)
           K == Len(t)
<1>1. /\ u \in Seq(Message) /\ L \in Nat /\ K \in Nat /\ Len(u) = L + K
      /\ \A i \in 1..L : u[i] = s[i]
      /\ \A i \in 1..K : u[L + i] = t[i]
  <2>1. L \in Nat /\ K \in Nat
    OBVIOUS
  <2>2. /\ u \in Seq(Message) /\ Len(u) = L + K
        /\ \A i \in 1..(L + K) : u[i] = IF i <= L THEN s[i] ELSE t[i - L]
    BY ConcatProperties, Zenon
  <2>3. \A i \in 1..L : u[i] = s[i]
    BY <2>1, <2>2
  <2>4. ASSUME NEW i \in 1..K PROVE u[L + i] = t[i]
    <3>1. L + i \in 1..(L + K) /\ ~(L + i <= L) /\ (L + i) - L = i
      BY <2>1
    <3>2. QED
      BY <2>2, <3>1
  <2>5. QED
    BY <2>1, <2>2, <2>3, <2>4
<1>2. ASSUME NEW n \in 0..L PROVE Open(u, n) = Open(s, n)
  <2>1. n \in Nat /\ SameCalls(u, s, n)
    BY <1>1 DEF SameCalls
  <2>2. QED
    BY <2>1, OpenSame
<1>3. ASSUME NEW n \in 0..K PROVE Open(u, L + n) = Open(t, n)
  <2>1. ASSUME NEW c \in Open(u, L + n) PROVE c \in Open(t, n)
    <3>1. PICK i \in 1..(L+n) : /\ c \in u[i].calls
                                /\ \A j \in (i+1)..(L+n) : c \notin u[j].results
      BY DEF Open
    <3>2. c \in CallId
      BY DEF Open
    <3>3. i > L
      <4>1. SUFFICES ASSUME i \in 1..L PROVE FALSE
        BY <1>1, <3>1
      <4>2. c \in s[i].calls /\ \A j \in (i+1)..L : c \notin s[j].results
        BY <3>1, <4>1, <1>1
      <4>3. QED
        BY <4>1, <4>2, <3>2 DEF Open, Coherent, Unanswered
    <3>4. PICK k \in 1..n : i = L + k
      <4>1. i - L \in 1..n /\ i = L + (i - L)
        BY <3>3, <1>1
      <4>2. QED
        BY <4>1
    <3>5. c \in t[k].calls
      BY <3>1, <3>4, <1>1
    <3>6. ASSUME NEW j \in (k+1)..n PROVE c \notin t[j].results
      <4>1. L + j \in (i+1)..(L+n) /\ j \in 1..K
        BY <3>4, <1>1
      <4>2. QED
        BY <4>1, <3>1, <1>1
    <3>7. QED
      BY <3>2, <3>5, <3>6 DEF Open
  <2>2. ASSUME NEW c \in Open(t, n) PROVE c \in Open(u, L + n)
    <3>1. PICK k \in 1..n : c \in t[k].calls /\ \A j \in (k+1)..n : c \notin t[j].results
      BY DEF Open
    <3>2. L + k \in 1..(L+n) /\ c \in u[L + k].calls /\ c \in CallId
      BY <3>1, <1>1 DEF Open
    <3>3. ASSUME NEW j \in (L+k+1)..(L+n) PROVE c \notin u[j].results
      <4>1. j - L \in (k+1)..n /\ j - L \in 1..K /\ j = L + (j - L)
        BY <1>1
      <4>2. u[j] = t[j - L]
        BY <4>1, <1>1
      <4>3. QED
        BY <4>1, <4>2, <3>1
    <3>4. QED
      BY <3>2, <3>3 DEF Open
  <2>3. QED
    BY <2>1, <2>2
<1>4. Unanswered(u) = Unanswered(t)
  BY <1>1, <1>3 DEF Unanswered
<1>5. ASSUME NoOrphans(t) PROVE NoOrphans(u)
  <2>1. SUFFICES ASSUME NEW j \in 1..(L+K) PROVE u[j].results \subseteq Open(u, j-1)
    BY <1>1 DEF NoOrphans
  <2>2. CASE j \in 1..L
    BY <2>2, <1>1, <1>2 DEF Coherent, NoOrphans
  <2>3. CASE j > L
    <3>1. j - L \in 1..K /\ j = L + (j - L) /\ (j - L) - 1 \in 0..K /\ j - 1 = L + ((j - L) - 1)
      BY <2>3, <1>1
    <3>2. u[j] = t[j - L]
      BY <3>1, <1>1
    <3>3. Open(u, j-1) = Open(t, (j-L)-1)
      BY <3>1, <1>3
    <3>4. QED
      BY <3>1, <3>2, <3>3, <1>5 DEF NoOrphans
  <2>4. QED
    BY <2>2, <2>3, <1>1
<1>6. ASSUME NoOrphans(u) PROVE NoOrphans(t)
  <2>1. SUFFICES ASSUME NEW j \in 1..K PROVE t[j].results \subseteq Open(t, j-1)
    BY DEF NoOrphans
  <2>2. L + j \in 1..(L+K) /\ (L + j) - 1 = L + (j - 1) /\ j - 1 \in 0..K
    BY <1>1
  <2>3. u[L+j].results \subseteq Open(u, (L+j)-1)
    BY <2>2, <1>1, <1>6 DEF NoOrphans
  <2>4. QED
    BY <2>2, <2>3, <1>1, <1>3
<1>7. QED
  BY <1>4, <1>5, <1>6

-----------------------------------------------------------------------------
(* Cuts. *)

\* Splitting a conversation gives two conversations, the messages in place.
LEMMA SplitProperties ==
  ASSUME NEW s \in Seq(Message), NEW n \in Nat
  PROVE  /\ Within(s, n) \in 0..Len(s)
         /\ Take(s, n) \in Seq(Message) /\ Drop(s, n) \in Seq(Message)
         /\ Len(Take(s, n)) = Within(s, n)
         /\ Len(Drop(s, n)) = Len(s) - Within(s, n)
         /\ \A i \in 1..Within(s, n) : Take(s, n)[i] = s[i]
         /\ \A i \in 1..(Len(s) - Within(s, n)) : Drop(s, n)[i] = s[Within(s, n) + i]
<1> DEFINE w == Within(s, n)
<1>1. w \in 0..Len(s) /\ w \in Int /\ Len(s) \in Nat
  BY DEF Within
<1>2. \A i \in 1..w : s[i] \in Message
  BY <1>1
<1>3. /\ SubSeq(s, 1, w) \in Seq(Message)
      /\ Len(SubSeq(s, 1, w)) = IF 1 <= w THEN w - 1 + 1 ELSE 0
      /\ \A i \in 1..(w - 1 + 1) : SubSeq(s, 1, w)[i] = s[1 + i - 1]
  BY <1>1, <1>2, SubSeqProperties
<1>4. \A i \in (w+1)..Len(s) : s[i] \in Message
  BY <1>1
<1>5. /\ SubSeq(s, w+1, Len(s)) \in Seq(Message)
      /\ Len(SubSeq(s, w+1, Len(s))) = IF w+1 <= Len(s) THEN Len(s) - (w+1) + 1 ELSE 0
      /\ \A i \in 1..(Len(s) - (w+1) + 1) : SubSeq(s, w+1, Len(s))[i] = s[(w+1) + i - 1]
  <2> DEFINE v == w + 1
             l == Len(s)
  <2>1. v \in Int /\ l \in Int /\ \A i \in v..l : s[i] \in Message
    BY <1>1, <1>4
  <2> HIDE DEF v, l
  <2>2. /\ SubSeq(s, v, l) \in Seq(Message)
        /\ Len(SubSeq(s, v, l)) = IF v <= l THEN l - v + 1 ELSE 0
        /\ \A i \in 1..(l - v + 1) : SubSeq(s, v, l)[i] = s[v + i - 1]
    BY <2>1, SubSeqProperties
  <2>3. QED
    BY <2>2 DEF v, l
<1>6. Len(Take(s, n)) = w /\ \A i \in 1..w : Take(s, n)[i] = s[i]
  BY <1>1, <1>3 DEF Take
<1>7. /\ Len(Drop(s, n)) = Len(s) - w
      /\ \A i \in 1..(Len(s) - w) : Drop(s, n)[i] = s[w + i]
  BY <1>1, <1>5 DEF Drop
<1>8. QED
  BY <1>1, <1>3, <1>5, <1>6, <1>7 DEF Take, Drop

\* A cut exists, lies within the limit, leaves nothing open, and is the last.
LEMMA CutProperties ==
  ASSUME NEW s \in Seq(Message), NEW limit \in 0..Len(s)
  PROVE  /\ CoherentCut(s, limit) \in 0..limit
         /\ Open(s, CoherentCut(s, limit)) = {}
         /\ \A k \in 0..limit : Open(s, k) = {} => k <= CoherentCut(s, limit)
<1> DEFINE B == Boundaries(s, limit)
           T == {n \in Nat : limit - n \in B}
<1>1. limit \in Nat /\ 0 \in B
  BY OpenBasic DEF Boundaries
<1>2. T \subseteq Nat /\ limit \in T
  BY <1>1
<1>3. PICK x \in T : \A y \in T : ~(<<y, x>> \in OpToRel(<, Nat))
  BY <1>2, NatLessThanWellFounded, WFMin, Zenon
<1>4. limit - x \in B /\ \A k \in B : k <= limit - x
  <2>1. limit - x \in B
    OBVIOUS
  <2>2. ASSUME NEW k \in B PROVE k <= limit - x
    <3>1. k \in 0..limit /\ limit - k \in Nat /\ limit - (limit - k) = k
      BY <1>1 DEF Boundaries
    <3>2. limit - k \in T
      BY <3>1
    <3>3. ~(limit - k < x)
      BY <1>3, <3>2 DEF OpToRel
    <3>4. QED
      BY <3>1, <3>3, <1>1
  <2>3. QED
    BY <2>1, <2>2
<1>5. CoherentCut(s, limit) \in B /\ \A k \in B : k <= CoherentCut(s, limit)
  BY <1>4 DEF CoherentCut
<1>6. QED
  BY <1>5 DEF Boundaries

\* Cutting where nothing is open leaves a coherent conversation.
LEMMA TakeCoherent ==
  ASSUME NEW s \in Seq(Message), NoOrphans(s), NEW n \in 0..Len(s), Open(s, n) = {}
  PROVE  Coherent(Take(s, n))
<1> DEFINE t == Take(s, n)
<1>1. Len(t) = n /\ t \in Seq(Message) /\ \A i \in 1..n : t[i] = s[i]
  <2>1. n \in Nat /\ Within(s, n) = n
    BY DEF Within
  <2>2. QED
    BY <2>1, SplitProperties
<1>2. ASSUME NEW k \in 0..n PROVE Open(t, k) = Open(s, k)
  <2>1. k \in Nat /\ SameCalls(t, s, k)
    BY <1>1 DEF SameCalls
  <2>2. QED
    BY <2>1, OpenSame
<1>3. Unanswered(t) = {}
  BY <1>1, <1>2 DEF Unanswered
<1>4. ASSUME NEW j \in 1..n PROVE t[j].results \subseteq Open(t, j-1)
  <2>1. j - 1 \in 0..n /\ j \in 1..Len(s) /\ t[j] = s[j]
    BY <1>1
  <2>2. QED
    BY <2>1, <1>2 DEF NoOrphans
<1>5. QED
  BY <1>1, <1>3, <1>4 DEF Coherent, NoOrphans

\* What follows such a cut is free of orphans too.
LEMMA DropNoOrphans ==
  ASSUME NEW s \in Seq(Message), NEW t \in Seq(Message), NEW u \in Seq(Message),
         Len(u) = Len(s) + Len(t), SameCalls(u, s \o t, Len(u)),
         Coherent(s), Coherent(t)
  PROVE  Coherent(Take(u, Len(s))) /\ Coherent(Drop(u, Len(s)))
<1> DEFINE L == Len(s)
           K == Len(t)
<1>1. /\ L \in Nat /\ K \in Nat /\ Within(u, L) = L
      /\ \A i \in 1..(L + K) : (s \o t)[i] = IF i <= L THEN s[i] ELSE t[i - L]
  BY ConcatProperties DEF Within
<1>2. /\ Take(u, L) \in Seq(Message) /\ Drop(u, L) \in Seq(Message)
      /\ Len(Take(u, L)) = L /\ Len(Drop(u, L)) = K
      /\ \A i \in 1..L : Take(u, L)[i] = u[i]
      /\ \A i \in 1..K : Drop(u, L)[i] = u[L + i]
  <2>1. Len(u) - L = K
    BY <1>1
  <2>2. /\ Take(u, L) \in Seq(Message) /\ Drop(u, L) \in Seq(Message)
        /\ Len(Take(u, L)) = Within(u, L)
        /\ Len(Drop(u, L)) = Len(u) - Within(u, L)
        /\ \A i \in 1..Within(u, L) : Take(u, L)[i] = u[i]
        /\ \A i \in 1..(Len(u) - Within(u, L)) : Drop(u, L)[i] = u[Within(u, L) + i]
    BY <1>1, SplitProperties, Zenon
  <2>3. QED
    BY <2>1, <2>2, <1>1
<1>3. SameCalls(s, Take(u, L), L)
  <2>1. ASSUME NEW i \in 1..L
        PROVE  s[i].calls = Take(u, L)[i].calls /\ s[i].results = Take(u, L)[i].results
    <3>1. i \in 1..Len(u) /\ (s \o t)[i] = s[i]
      BY <1>1
    <3>2. QED
      BY <3>1, <1>2 DEF SameCalls
  <2>2. QED
    BY <2>1 DEF SameCalls
<1>4. SameCalls(t, Drop(u, L), K)
  <2>1. ASSUME NEW i \in 1..K
        PROVE  t[i].calls = Drop(u, L)[i].calls /\ t[i].results = Drop(u, L)[i].results
    <3>1. L + i \in 1..Len(u) /\ ~(L + i <= L) /\ (L + i) - L = i
      BY <1>1
    <3>2. (s \o t)[L + i] = t[i]
      BY <3>1, <1>1
    <3>3. QED
      BY <3>1, <3>2, <1>2 DEF SameCalls
  <2>2. QED
    BY <2>1 DEF SameCalls
<1>5. QED
  BY <1>2, <1>3, <1>4, NoOrphansSame DEF Coherent

-----------------------------------------------------------------------------
(* Merging adjacent assistant messages. *)

\* Groups are numbered from one, in order, each position heading a new group or
\* staying in its predecessor's; only assistant messages share a group.
LEMMA GroupProperties ==
  ASSUME NEW s \in Seq(Message)
  PROVE  /\ \A n \in Nat : Group(s, n) \in Nat
         /\ Group(s, 0) = 0
         /\ \A n \in Nat : Group(s, n+1) <= Group(s, n) + 1
         /\ \A i, j \in Nat : i <= j => Group(s, i) <= Group(s, j)
         /\ \A i \in Nat \ {0} : Group(s, i) >= 1
         /\ \A i, j \in Nat \ {0} : i < j /\ Group(s, i) = Group(s, j)
               => s[i].role = "assistant" /\ s[j].role = "assistant"
<1>1. ASSUME NEW n \in Nat PROVE IsFiniteSet(Heads(s, n)) /\ Group(s, n) \in Nat
  <2>1. Heads(s, n) \in SUBSET (1..n) /\ IsFiniteSet(1..n)
    BY FS_Interval DEF Heads
  <2>2. IsFiniteSet(Heads(s, n))
    BY <2>1, FS_Subset
  <2>3. QED
    BY <2>2, FS_CardinalityType DEF Group
<1>2. Group(s, 0) = 0
  <2>1. Heads(s, 0) = {}
    BY DEF Heads
  <2>2. QED
    BY <2>1, FS_EmptySet DEF Group
<1>3. ASSUME NEW i \in Nat, NEW j \in Nat, i <= j
      PROVE  /\ Group(s, i) <= Group(s, j)
             /\ Group(s, i) = Group(s, j) => Heads(s, i) = Heads(s, j)
  <2>1. Heads(s, i) \in SUBSET Heads(s, j)
    BY <1>3 DEF Heads
  <2>2. QED
    BY <2>1, <1>1, FS_Subset DEF Group
<1>4. ASSUME NEW n \in Nat PROVE Group(s, n+1) <= Group(s, n) + 1
  <2>1. Heads(s, n+1) \in SUBSET (Heads(s, n) \cup {n+1})
    BY DEF Heads
  <2>2. /\ IsFiniteSet(Heads(s, n) \cup {n+1})
        /\ Cardinality(Heads(s, n) \cup {n+1}) <= Group(s, n) + 1
    <3>1. IsFiniteSet(Heads(s, n)) /\ Cardinality(Heads(s, n)) = Group(s, n) /\ Group(s, n) \in Nat
      BY <1>1 DEF Group
    <3>2. /\ IsFiniteSet(Heads(s, n) \cup {n+1})
          /\ Cardinality(Heads(s, n) \cup {n+1}) =
               IF n+1 \in Heads(s, n) THEN Group(s, n) ELSE Group(s, n) + 1
      BY <3>1, FS_AddElement, Zenon
    <3>3. QED
      BY <3>1, <3>2
  <2>3. Group(s, n+1) <= Cardinality(Heads(s, n) \cup {n+1})
    BY <2>1, <2>2, FS_Subset DEF Group
  <2>4. n + 1 \in Nat /\ Cardinality(Heads(s, n) \cup {n+1}) \in Nat
    BY <2>2, FS_CardinalityType
  <2>5. QED
    BY <2>2, <2>3, <2>4, <1>1
<1>5. ASSUME NEW i \in Nat \ {0} PROVE Group(s, i) >= 1
  <2>1. 1 \in Heads(s, i)
    BY DEF Heads
  <2>2. Group(s, i) # 0 /\ Group(s, i) \in Nat
    BY <2>1, <1>1, FS_EmptySet DEF Group
  <2>3. QED
    BY <2>2
<1>6. ASSUME NEW i \in Nat \ {0}, NEW j \in Nat \ {0}, i < j, Group(s, i) = Group(s, j)
      PROVE  s[i].role = "assistant" /\ s[j].role = "assistant"
  <2>1. Heads(s, i) = Heads(s, j)
    BY <1>3, <1>6
  <2>2. ASSUME NEW k \in (i+1)..j PROVE SameRun(s, k)
    <3>1. k \in 1..j /\ k \notin 1..i /\ k # 1
      BY <1>6
    <3>2. QED
      BY <2>1, <3>1 DEF Heads
  <2>3. SameRun(s, i+1) /\ SameRun(s, j) /\ (i+1)-1 = i
    BY <2>2, <1>6
  <2>4. QED
    BY <2>3 DEF SameRun
<1>7. QED
  BY <1>1, <1>2, <1>3, <1>4, <1>5, <1>6

\* Merging keeps a conversation a conversation, and a coherent one coherent.
LEMMA CoalesceProperties ==
  ASSUME NEW s \in Conversation
  PROVE  /\ Coalesce(s) \in Conversation
         /\ Coherent(s) => Coherent(Coalesce(s))
<1> DEFINE L == Len(s)
           K == Group(s, L)
           t == Coalesce(s)
           G(i) == Group(s, i)
<1>1. /\ s \in Seq(Message) /\ L \in Nat /\ K \in Nat
      /\ \A i \in 1..L : s[i] \in Message /\ WellFormed(s[i])
      /\ \A n \in Nat : G(n) \in Nat /\ G(n+1) <= G(n) + 1
      /\ G(0) = 0
      /\ \A i, j \in Nat : i <= j => G(i) <= G(j)
  <2>1. s \in Seq(Message) /\ \A i \in 1..L : WellFormed(s[i])
    BY DEF Conversation
  <2>2. L \in Nat /\ \A i \in 1..L : s[i] \in Message
    BY <2>1
  <2>3. QED
    BY <2>1, <2>2, GroupProperties
<1>2. ASSUME NEW i \in 1..L PROVE G(i) \in 1..K
  <2>1. i \in Nat \ {0} /\ i <= L /\ G(i) \in Nat
    BY <1>1
  <2>2. G(i) >= 1 /\ G(i) <= K
    BY <1>1, <2>1, GroupProperties
  <2>3. QED
    BY <1>1, <2>1, <2>2
<1>3. ASSUME NEW i \in 1..L, NEW j \in 1..L, G(i) < G(j) PROVE i < j
  <2>1. i \in Nat /\ j \in Nat
    BY <1>1
  <2>2. G(i) \in Nat /\ G(j) \in Nat /\ (j <= i => G(j) <= G(i))
    BY <1>1, <2>1
  <2> HIDE DEF G
  <2>3. QED
    BY <1>3, <2>1, <2>2
<1>4. ASSUME NEW i \in 1..L, NEW j \in 1..L, G(i) = G(j)
      PROVE  i = j \/ (s[i].role = "assistant" /\ s[j].role = "assistant")
  <2>1. i \in Nat \ {0} /\ j \in Nat \ {0}
    <3>1. L \in Nat
      BY <1>1
    <3>2. QED
      BY <3>1
  <2>2. i < j => s[i].role = "assistant" /\ s[j].role = "assistant"
    BY <2>1, <1>1, <1>4, GroupProperties
  <2>3. j < i => s[i].role = "assistant" /\ s[j].role = "assistant"
    BY <2>1, <1>1, <1>4, GroupProperties
  <2>4. QED
    BY <2>1, <2>2, <2>3
<1>5. ASSUME NEW k \in 1..K PROVE \E i \in 1..L : G(i) = k
  <2> DEFINE T == {n \in Nat : G(n) >= k}
  <2>1. L \in T
    BY <1>1
  <2>2. PICK n \in T : \A y \in T : ~(<<y, n>> \in OpToRel(<, Nat))
    BY <2>1, NatLessThanWellFounded, WFMin, Zenon
  <2>3. n \in Nat /\ G(n) >= k /\ n # 0
    <3>1. n \in Nat /\ G(n) >= k
      OBVIOUS
    <3>2. QED
      BY <3>1, <1>1
  <2>4. n - 1 \in Nat /\ ~(G(n-1) >= k) /\ n <= L
    <3>1. \A y \in T : ~(y < n)
      BY <2>2, <2>3 DEF OpToRel
    <3>2. n - 1 \in Nat /\ n - 1 < n
      BY <2>3
    <3>3. n - 1 \notin T /\ ~(L < n)
      BY <3>1, <3>2, <2>1
    <3>4. QED
      BY <3>2, <3>3, <2>3, <1>1
  <2>5. G(n-1) < k /\ G(n) <= G(n-1) + 1 /\ G(n-1) \in Nat /\ G(n) \in Nat
    <3>1. (n-1) + 1 = n
      BY <2>3
    <3>2. G(n-1) \in Nat /\ G((n-1)+1) <= G(n-1) + 1 /\ G(n) \in Nat
      BY <2>3, <2>4, <1>1
    <3>3. QED
      BY <3>1, <3>2, <2>4
  <2>6. G(n) = k /\ n \in 1..L
    <3>1. L \in Nat /\ k \in Nat /\ n \in Nat
      BY <1>1, <2>3
    <3>2. G(n) = k
      BY <2>3, <2>5, <3>1
    <3>3. n \in 1..L
      BY <2>3, <2>4, <3>1
    <3>4. QED
      BY <3>2, <3>3
  <2>7. QED
    BY <2>6
<1>6. /\ Len(t) = K /\ DOMAIN t = 1..K
      /\ \A k \in 1..K : t[k] = Merged(s, Members(s, k))
  BY <1>1 DEF Coalesce
<1>7. ASSUME NEW k \in 1..K
      PROVE  /\ t[k] \in Message /\ WellFormed(t[k])
             /\ t[k].calls = UNION {s[i].calls : i \in Members(s, k)}
             /\ t[k].results = UNION {s[i].results : i \in Members(s, k)}
  <2> DEFINE e == CHOOSE i \in Members(s, k) : TRUE
  <2>1. e \in Members(s, k) /\ e \in 1..L
    BY <1>5 DEF Members
  <2>2. ASSUME NEW i \in Members(s, k)
        PROVE  i \in 1..L /\ s[i].role = s[e].role
    BY <2>1, <1>4 DEF Members
  <2>3. t[k] = [role |-> s[e].role,
                calls |-> UNION {s[i].calls : i \in Members(s, k)},
                results |-> UNION {s[i].results : i \in Members(s, k)},
                text |-> UNION {s[i].text : i \in Members(s, k)}]
    BY <1>6 DEF Merged
  <2>4. ASSUME NEW i \in Members(s, k)
        PROVE  /\ s[i].calls \in SUBSET CallId /\ s[i].results \in SUBSET CallId
               /\ s[i].text \in SUBSET Text
               /\ s[e].role = "user" => s[i].calls = {}
               /\ s[e].role = "assistant" => s[i].results = {}
    BY <2>2, <1>1 DEF Message, WellFormed
  <2>5. s[e].role \in {"user", "assistant"}
    BY <2>1, <1>1 DEF Message
  <2> DEFINE cs == UNION {s[i].calls : i \in Members(s, k)}
             rs == UNION {s[i].results : i \in Members(s, k)}
             xs == UNION {s[i].text : i \in Members(s, k)}
             r  == s[e].role
  <2>6. /\ cs \in SUBSET CallId /\ rs \in SUBSET CallId /\ xs \in SUBSET Text
        /\ r = "user" => cs = {}
        /\ r = "assistant" => rs = {}
    BY <2>4
  <2>7. t[k] \in Message /\ WellFormed(t[k])
    <3> HIDE DEF cs, rs, xs, r
    <3>1. t[k] = [role |-> r, calls |-> cs, results |-> rs, text |-> xs]
      BY <2>3 DEF cs, rs, xs, r
    <3>2. r \in {"user", "assistant"}
      BY <2>5 DEF r
    <3> HIDE DEF t
    <3>3. QED
      BY <3>1, <3>2, <2>6 DEF Message, WellFormed
  <2>8. QED
    BY <2>3, <2>7
<1>8. t \in Conversation
  <2>1. t \in Seq(Message)
    <3>1. t \in [1..K -> Message]
      BY <1>6, <1>7 DEF Coalesce
    <3>2. QED
      <4>1. K \in Nat
        BY <1>1
      <4> HIDE DEF K, t
      <4>2. QED
        BY <3>1, <4>1
  <2>2. QED
    BY <2>1, <1>6, <1>7 DEF Conversation
<1>9. ASSUME Coherent(s) PROVE Unanswered(t) = {}
  <2>1. SUFFICES ASSUME NEW c \in CallId, NEW k \in 1..K, c \in t[k].calls,
                        \A l \in (k+1)..K : c \notin t[l].results
                 PROVE  FALSE
    BY <1>6 DEF Unanswered, Open
  <2>2. PICK i \in Members(s, k) : c \in s[i].calls
    BY <2>1, <1>7
  <2>3. i \in 1..L /\ G(i) = k
    BY DEF Members
  <2>4. PICK j \in (i+1)..L : c \in s[j].results
    BY <1>9, <2>1, <2>2, <2>3 DEF Coherent, Unanswered, Open
  <2>5. j \in 1..L /\ i < j
    BY <2>3
  <2>6. G(i) <= G(j) /\ G(j) \in 1..K
    BY <2>3, <2>5, <1>1, <1>2
  <2>7. G(i) # G(j)
    <3>1. s[j].role # "assistant"
      BY <2>4, <2>5, <1>1 DEF WellFormed
    <3>2. QED
      BY <3>1, <2>3, <2>5, <1>4
  <2>8. G(j) \in (k+1)..K /\ c \in t[G(j)].results
    <3>1. j \in Members(s, G(j))
      BY <2>5 DEF Members
    <3>2. c \in t[G(j)].results
      BY <3>1, <2>4, <2>6, <1>7
    <3>3. QED
      BY <3>2, <2>3, <2>6, <2>7, <1>1
  <2>9. QED
    BY <2>1, <2>8
<1>10. ASSUME Coherent(s) PROVE NoOrphans(t)
  <2>1. SUFFICES ASSUME NEW k \in 1..K, NEW c \in t[k].results
                 PROVE  c \in Open(t, k-1)
    BY <1>6 DEF NoOrphans
  <2>2. PICK i \in Members(s, k) : c \in s[i].results
    BY <1>7
  <2>3. i \in 1..L /\ G(i) = k /\ s[i].role # "assistant"
    BY <2>2, <1>1 DEF Members, WellFormed
  <2>4. c \in Open(s, i-1)
    BY <1>10, <2>2, <2>3 DEF Coherent, NoOrphans
  <2>5. PICK h \in 1..(i-1) : c \in s[h].calls /\ \A j \in (h+1)..(i-1) : c \notin s[j].results
    BY <2>4 DEF Open
  <2>6. h \in 1..L /\ h < i /\ c \in CallId
    <3>1. c \in CallId
      BY <2>4 DEF Open
    <3>2. L \in Nat /\ i \in 1..L
      BY <2>3, <1>1
    <3>3. QED
      BY <3>1, <3>2
  <2>7. G(h) \in 1..(k-1)
    <3>1. G(h) \in 1..K /\ G(h) <= G(i)
      BY <2>3, <2>6, <1>1, <1>2
    <3>2. G(h) # G(i)
      BY <2>3, <2>6, <1>4
    <3>3. QED
      BY <3>1, <3>2, <2>3
  <2>8. c \in t[G(h)].calls
    <3>1. h \in Members(s, G(h)) /\ G(h) \in 1..K
      BY <2>6, <1>2 DEF Members
    <3>2. QED
      BY <3>1, <2>5, <1>7
  <2>9. ASSUME NEW l \in (G(h)+1)..(k-1) PROVE c \notin t[l].results
    <3>1. SUFFICES ASSUME c \in t[l].results PROVE FALSE
      OBVIOUS
    <3>2. l \in 1..K
      <4>1. K \in Nat /\ k \in 1..K /\ G(h) \in Nat
        BY <2>7, <1>1
      <4>2. QED
        BY <4>1
    <3>3. PICK j \in Members(s, l) : c \in s[j].results
      BY <3>1, <3>2, <1>7
    <3>4. j \in 1..L /\ G(j) = l /\ G(h) < G(j) /\ G(j) < G(i)
      BY <2>3, <2>7, <1>1 DEF Members
    <3>5. h < j /\ j < i
      BY <3>4, <2>3, <2>6, <1>3
    <3>6. QED
      BY <3>3, <3>4, <3>5, <2>5, <2>3
  <2>10. QED
    BY <2>6, <2>7, <2>8, <2>9 DEF Open
<1>11. QED
  BY <1>8, <1>9, <1>10 DEF Coherent

-----------------------------------------------------------------------------
(* Conversations. *)

\* The empty conversation is coherent.
LEMMA EmptyCoherent == <<>> \in Conversation /\ Coherent(<<>>) /\ Len(<<>>) = 0
<1>1. <<>> \in Seq(Message) /\ Len(<<>>) = 0
  OBVIOUS
<1>2. Unanswered(<<>>) = {} /\ NoOrphans(<<>>)
  BY <1>1, OpenBasic DEF Unanswered, NoOrphans
<1>3. QED
  BY <1>1, <1>2 DEF Coherent, Conversation

\* One more message that keeps to its role.
LEMMA AppendConversation ==
  ASSUME NEW s \in Conversation, NEW x \in Message, WellFormed(x)
  PROVE  /\ Append(s, x) \in Conversation
         /\ Append(s, x) # <<>>
         /\ Len(Append(s, x)) - 1 = Len(s)
         /\ Open(Append(s, x), Len(s)) = Unanswered(s)
<1>1. s \in Seq(Message) /\ Len(s) \in Nat /\ \A i \in 1..Len(s) : WellFormed(s[i])
  BY DEF Conversation
<1>2. /\ Append(s, x) \in Seq(Message) /\ Len(Append(s, x)) = Len(s) + 1
      /\ Append(s, x)[Len(s) + 1] = x
      /\ \A i \in 1..Len(s) : Append(s, x)[i] = s[i]
  BY <1>1, AppendProperties
<1>3. ASSUME NEW i \in 1..(Len(s) + 1) PROVE WellFormed(Append(s, x)[i])
  <2>1. CASE i = Len(s) + 1
    BY <2>1, <1>2
  <2>2. CASE i \in 1..Len(s)
    BY <2>2, <1>1, <1>2
  <2>3. QED
    BY <2>1, <2>2, <1>1
<1>4. SameCalls(Append(s, x), s, Len(s))
  BY <1>2 DEF SameCalls
<1>5. Open(Append(s, x), Len(s)) = Unanswered(s)
  BY <1>1, <1>4, OpenSame DEF Unanswered
<1>6. Append(s, x) \in Conversation
  BY <1>2, <1>3 DEF Conversation
<1>7. Append(s, x) # <<>> /\ Len(Append(s, x)) - 1 = Len(s)
  <2>1. Len(s) \in Nat /\ Len(Append(s, x)) = Len(s) + 1 /\ Len(<<>>) = 0
    BY <1>1, <1>2
  <2>2. QED
    BY <2>1
<1>8. QED
  BY <1>5, <1>6, <1>7

\* Two conversations in a row.
LEMMA ConcatConversation ==
  ASSUME NEW s \in Conversation, NEW t \in Conversation
  PROVE  s \o t \in Conversation /\ Len(s \o t) = Len(s) + Len(t)
<1>1. /\ s \in Seq(Message) /\ t \in Seq(Message) /\ Len(s) \in Nat /\ Len(t) \in Nat
      /\ \A i \in 1..Len(s) : WellFormed(s[i])
      /\ \A i \in 1..Len(t) : WellFormed(t[i])
  BY DEF Conversation
<1>2. /\ s \o t \in Seq(Message) /\ Len(s \o t) = Len(s) + Len(t)
      /\ \A i \in 1..(Len(s) + Len(t)) :
            (s \o t)[i] = IF i <= Len(s) THEN s[i] ELSE t[i - Len(s)]
  BY <1>1, ConcatProperties, Zenon
<1>3. ASSUME NEW i \in 1..(Len(s) + Len(t)) PROVE WellFormed((s \o t)[i])
  <2>1. CASE i <= Len(s)
    BY <2>1, <1>1, <1>2
  <2>2. CASE i > Len(s)
    <3>1. i - Len(s) \in 1..Len(t) /\ ~(i <= Len(s))
      BY <2>2, <1>1
    <3>2. QED
      BY <3>1, <1>1, <1>2
  <2>3. QED
    BY <2>1, <2>2, <1>1
<1>4. QED
  BY <1>2, <1>3 DEF Conversation

\* The two halves of a conversation.
LEMMA SplitConversation ==
  ASSUME NEW s \in Conversation, NEW n \in Nat
  PROVE  Take(s, n) \in Conversation /\ Drop(s, n) \in Conversation
<1>1. s \in Seq(Message) /\ Len(s) \in Nat /\ \A i \in 1..Len(s) : WellFormed(s[i])
  BY DEF Conversation
<1> DEFINE w == Within(s, n)
<1>2. /\ w \in 0..Len(s)
      /\ Take(s, n) \in Seq(Message) /\ Drop(s, n) \in Seq(Message)
      /\ Len(Take(s, n)) = w
      /\ Len(Drop(s, n)) = Len(s) - w
      /\ \A i \in 1..w : Take(s, n)[i] = s[i]
      /\ \A i \in 1..(Len(s) - w) : Drop(s, n)[i] = s[w + i]
  BY <1>1, SplitProperties
<1>3. ASSUME NEW i \in 1..w PROVE WellFormed(Take(s, n)[i])
  <2>1. i \in 1..Len(s)
    BY <1>1, <1>2
  <2>2. QED
    BY <2>1, <1>1, <1>2
<1>4. ASSUME NEW i \in 1..(Len(s) - w) PROVE WellFormed(Drop(s, n)[i])
  <2>1. w + i \in 1..Len(s)
    BY <1>1, <1>2
  <2>2. QED
    BY <2>1, <1>1, <1>2
<1>5. QED
  BY <1>2, <1>3, <1>4 DEF Conversation

\* What the scan for the last coherent length keeps of a buffer is coherent,
\* and no longer cut of it is.
LEMMA CutConversation ==
  ASSUME NEW s \in Conversation, NoOrphans(s), NEW limit \in 0..Len(s)
  PROVE  /\ CoherentCut(s, limit) \in 0..limit
         /\ Take(s, CoherentCut(s, limit)) \in Conversation
         /\ Len(Take(s, CoherentCut(s, limit))) = CoherentCut(s, limit)
         /\ Coherent(Take(s, CoherentCut(s, limit)))
         /\ \A k \in 0..limit : Open(s, k) = {} => k <= CoherentCut(s, limit)
<1> DEFINE cut == CoherentCut(s, limit)
<1>1. s \in Seq(Message) /\ Len(s) \in Nat
  BY DEF Conversation
<1>2. /\ cut \in 0..limit /\ Open(s, cut) = {}
      /\ \A k \in 0..limit : Open(s, k) = {} => k <= cut
  BY <1>1, CutProperties
<1>3. cut \in Nat /\ cut \in 0..Len(s) /\ Within(s, cut) = cut
  BY <1>1, <1>2 DEF Within
<1>4. Take(s, cut) \in Conversation /\ Len(Take(s, cut)) = cut
  BY <1>1, <1>3, SplitConversation, SplitProperties
<1>5. Coherent(Take(s, cut))
  BY <1>1, <1>2, <1>3, TakeCoherent
<1>6. QED
  BY <1>2, <1>4, <1>5

-----------------------------------------------------------------------------
(* The machine. *)

\* What the buffer leaves open was opened by its last message.
OneTurnOpen(m) ==
  m.pending # <<>> => Unanswered(m.pending) = {} \/ Open(m.pending, Len(m.pending) - 1) = {}

Sound(m) == /\ m \in Machine
            /\ Coherent(m.history)
            /\ CallsMatch(m)
            /\ LatchScoped(m)
            /\ OneTurnOpen(m)
            /\ m.state = "Terminal" <=> m.outcome # "None"

-----------------------------------------------------------------------------
(* Methods. *)

\* A fresh machine over a coherent history.
LEMMA FromHistorySound ==
  ASSUME NEW h \in Conversation, Coherent(h)
  PROVE  Sound(FromHistory(h))
BY EmptyCoherent DEF Sound, FromHistory, Machine, States, Reasons, Outcomes,
                     CallsMatch, LatchScoped, OneTurnOpen, Coherent

\* Ending a run leaves the conversation alone.
LEMMA TerminateSound ==
  ASSUME NEW m, Sound(m),
         NEW o \in {"MaxTurnsExceeded", "Cancelled", "Failed", "CompactionStalled"},
         o = "MaxTurnsExceeded" => Unanswered(m.pending) = {}
  PROVE  Sound(Terminate(m, o))
BY DEF Sound, Terminate, Enter, Machine, States, Reasons, Outcomes,
       CallsMatch, LatchScoped, OneTurnOpen, CallsInFlight

\* So does asking for a compaction pass, where the latch allows one.
LEMMA AwaitCompactionSound ==
  ASSUME NEW m, Sound(m), Unanswered(m.pending) = {},
         NEW r \in {"Emergency", "ThresholdExceeded"},
         m.deferred_compaction => r = "Emergency"
  PROVE  Sound(AwaitCompaction(m, r))
BY DEF Sound, AwaitCompaction, Enter, Machine, States, Reasons, Outcomes,
       CallsMatch, LatchScoped, OneTurnOpen

\* And asking the model, or going back to the start.
LEMMA EnterSound ==
  ASSUME NEW m, Sound(m), Unanswered(m.pending) = {},
         NEW s \in {"Start", "AwaitingModel"}, NEW n \in Nat
  PROVE  Sound(Enter(m, s)) /\ Sound([Enter(m, s) EXCEPT !.turn = n])
BY DEF Sound, Enter, Machine, States, Reasons, Outcomes, CallsMatch, LatchScoped, OneTurnOpen

\* The follow-up and the steering message land on a settled buffer.
LEMMA PromptSound ==
  ASSUME NEW m, Sound(m), NEW t \in SUBSET Text,
         Unanswered(m.pending) = {}
  PROVE  /\ UserText(t) \in Message /\ WellFormed(UserText(t))
         /\ Append(m.pending, UserText(t)) \in Conversation
         /\ Append(m.pending, UserText(t)) # <<>>
         /\ Coherent(Append(m.pending, UserText(t)))
<1>1. /\ UserText(t) \in Message /\ WellFormed(UserText(t))
      /\ UserText(t).calls = {} /\ UserText(t).results = {}
  BY DEF UserText, Message, WellFormed
<1>2. m.pending \in Conversation /\ m.pending \in Seq(Message) /\ NoOrphans(m.pending)
  BY DEF Sound, Machine, CallsMatch, Conversation
<1> DEFINE x == UserText(t)
           s == m.pending
<1>3. Append(s, x) \in Conversation /\ Append(s, x) # <<>>
  BY <1>1, <1>2, AppendConversation
<1>4. /\ Unanswered(Append(s, x)) = (Unanswered(s) \ x.results) \cup x.calls
      /\ NoOrphans(Append(s, x)) <=> NoOrphans(s) /\ x.results \subseteq Unanswered(s)
  BY <1>1, <1>2, OpenAppend
<1> HIDE DEF x, s
<1>5. Coherent(Append(s, x))
  BY <1>1, <1>2, <1>4 DEF x, s, Coherent
<1>6. QED
  BY <1>1, <1>3, <1>5 DEF x, s

LEMMA AcceptInputSound ==
  ASSUME NEW m, Sound(m), NEW t \in SUBSET Text
  PROVE  Sound(AcceptInput(m, UserText(t)))
<1> DEFINE f == FromHistory(m.history)
<1>1. Sound(f) /\ f.pending = <<>> /\ Unanswered(f.pending) = {}
  BY FromHistorySound, EmptyCoherent DEF Sound, Machine, FromHistory, Coherent
<1>2. /\ Append(<<>>, UserText(t)) \in Conversation
      /\ Coherent(Append(<<>>, UserText(t)))
  BY <1>1, PromptSound
<1>3. Append(<<>>, UserText(t)) = <<UserText(t)>>
  OBVIOUS
<1> DEFINE s == <<UserText(t)>>
           r == [f EXCEPT !.pending = s]
<1>4. AcceptInput(m, UserText(t)) = r
  BY DEF AcceptInput
<1>5. f \in Machine /\ Coherent(f.history) /\ f.state = "Start" /\ f.outcome = "None"
      /\ f.deferred_compaction = FALSE
  BY <1>1 DEF Sound, FromHistory
<1> HIDE DEF f
<1>6. s \in Conversation /\ Coherent(s)
  BY <1>2, <1>3
<1> HIDE DEF s
<1>7. /\ r \in Machine /\ r.history = f.history /\ r.pending = s /\ r.state = "Start"
      /\ r.outcome = "None" /\ r.deferred_compaction = FALSE
  BY <1>5, <1>6 DEF Machine
<1> HIDE DEF r
<1>8. QED
  BY <1>4, <1>5, <1>6, <1>7 DEF Sound, CallsMatch, LatchScoped, OneTurnOpen, Coherent

LEMMA AcceptFollowupSound ==
  ASSUME NEW m, Sound(m), m.outcome = "Completed", NEW t \in SUBSET Text
  PROVE  Sound(AcceptFollowup(m, UserText(t)))
<1>1. Unanswered(m.pending) = {}
  BY DEF Sound, CallsMatch
<1>2. QED
  BY <1>1, PromptSound
  DEF Sound, AcceptFollowup, Enter, Machine, States, Reasons, Outcomes,
      CallsMatch, LatchScoped, OneTurnOpen, Coherent

LEMMA InjectSound ==
  ASSUME NEW m, Sound(m), m.state \in {"Start", "AwaitingModel"}, NEW t \in SUBSET Text
  PROVE  Sound(Inject(m, UserText(t)))
<1>1. Unanswered(m.pending) = {}
  BY DEF Sound, CallsMatch
<1>2. QED
  BY <1>1, PromptSound
  DEF Sound, Inject, IsTerminal, Machine, CallsMatch, LatchScoped, OneTurnOpen, Coherent

LEMMA NextStepSound ==
  ASSUME NEW m, Sound(m), NEW p \in Policies
  PROVE  Sound(NextStep(m, p))
<1>1. CASE IsTerminal(m)
  BY <1>1 DEF NextStep
<1>2. CASE ~IsTerminal(m) /\ m.cancelled
  BY <1>2, TerminateSound DEF NextStep
<1>3. CASE ~IsTerminal(m) /\ ~m.cancelled /\ ~AsksModel(m)
  BY <1>3 DEF NextStep
<1>4. CASE ~IsTerminal(m) /\ ~m.cancelled /\ AsksModel(m)
  <2>1. NextStep(m, p) = RequestModel(m, p)
    BY <1>4 DEF NextStep
  <2>2. /\ Unanswered(m.pending) = {}
        /\ m.state \in {"Start", "AwaitingModel"}
    BY <1>4 DEF Sound, CallsMatch, AsksModel
  <2>3. CASE m.turns_taken >= p.max_turns
    <3>1. RequestModel(m, p) = Terminate(m, "MaxTurnsExceeded")
      <4>1. ~(m.turns_taken < p.max_turns)
        BY <2>3, PoliciesAssumption DEF Sound, Machine
      <4>2. QED
        BY <2>3, <4>1 DEF RequestModel
    <3>2. QED
      BY <2>1, <2>2, <3>1, TerminateSound
  <2>4. CASE ~(m.turns_taken >= p.max_turns)
    <3>1. m.turns_taken < p.max_turns
      BY <2>4, PoliciesAssumption DEF Sound, Machine
    <3>2. CASE IsEmergency(m, p)
      <4>1. RequestModel(m, p) = AwaitCompaction(m, "Emergency")
        BY <2>4, <3>1, <3>2 DEF RequestModel
      <4>2. QED
        BY <4>1, <2>1, <2>2, AwaitCompactionSound
    <3>3. CASE ~IsEmergency(m, p) /\ p.auto_compact /\ ~m.deferred_compaction /\ ShouldCompact(m, p)
      <4>1. RequestModel(m, p) = AwaitCompaction(m, "ThresholdExceeded")
        BY <2>4, <3>1, <3>3 DEF RequestModel
      <4>2. QED
        BY <4>1, <2>1, <2>2, <3>3, AwaitCompactionSound
    <3>4. CASE ~IsEmergency(m, p)
               /\ ~(p.auto_compact /\ ~m.deferred_compaction /\ ShouldCompact(m, p))
      <4> DEFINE n == IF m.state = "AwaitingModel" THEN m.turn ELSE m.turns_taken
      <4>1. RequestModel(m, p) = [Enter(m, "AwaitingModel") EXCEPT !.turn = n]
        BY <2>4, <3>1, <3>4 DEF RequestModel
      <4>2. n \in Nat
        BY DEF Sound, Machine
      <4> HIDE DEF n
      <4>3. QED
        BY <4>1, <4>2, <2>1, <2>2, EnterSound
    <3>5. QED
      BY <3>2, <3>3, <3>4
  <2>5. QED
    BY <2>1, <2>3, <2>4
<1>5. QED
  BY <1>1, <1>2, <1>3, <1>4

\* A reply opens the calls that go out for dispatch.
LEMMA ModelResponseSound ==
  ASSUME NEW m, Sound(m), m.state = "AwaitingModel",
         NEW msg \in Message, msg.role = "assistant", msg.results = {},
         NEW known \in SUBSET CallId, NEW n \in Nat
  PROVE  Sound(ModelResponse(m, msg, known, n))
<1> DEFINE a == Answered(m, msg, n)
           s == Append(m.pending, msg)
<1>1. /\ WellFormed(msg) /\ msg.calls \in SUBSET CallId
      /\ m.pending \in Conversation /\ m.pending \in Seq(Message)
      /\ NoOrphans(m.pending) /\ Unanswered(m.pending) = {}
  BY DEF WellFormed, Message, Sound, Machine, CallsMatch, Conversation
<1>2. /\ s \in Conversation /\ s # <<>> /\ Len(s) - 1 = Len(m.pending)
      /\ Open(s, Len(m.pending)) = {}
      /\ NoOrphans(s) /\ Unanswered(s) = msg.calls
  <2>1. /\ s \in Conversation /\ s # <<>> /\ Len(s) - 1 = Len(m.pending)
        /\ Open(s, Len(m.pending)) = Unanswered(m.pending)
    BY <1>1, AppendConversation
  <2>2. /\ Unanswered(s) = (Unanswered(m.pending) \ msg.results) \cup msg.calls
        /\ NoOrphans(s) <=> NoOrphans(m.pending) /\ msg.results \subseteq Unanswered(m.pending)
    BY <1>1, OpenAppend
  <2> HIDE DEF s
  <2>3. QED
    BY <1>1, <2>1, <2>2
<1>3. /\ a \in Machine /\ a.history = m.history /\ a.pending = s
      /\ a.deferred_compaction = FALSE /\ Coherent(m.history) /\ m.turns_taken \in Nat
  <2> HIDE DEF s
  <2>1. a = [m EXCEPT !.deferred_compaction = FALSE, !.pending = s,
                      !.context_tokens = n, !.turns_taken = m.turns_taken + 1]
    BY DEF Answered, Sound, Machine, s
  <2>2. /\ m \in Machine /\ Coherent(m.history)
        /\ m.turns_taken \in Nat /\ m.turns_taken + 1 \in Nat
    BY DEF Sound, Machine
  <2> HIDE DEF a
  <2>3. a \in Machine
    BY <1>2, <2>1, <2>2 DEF Machine
  <2>4. a.history = m.history /\ a.pending = s /\ a.deferred_compaction = FALSE
    BY <2>1, <2>2 DEF Machine
  <2>5. QED
    BY <2>2, <2>3, <2>4
<1>4. CASE msg.calls = {}
  <2> HIDE DEF s
  <2> DEFINE r == Terminate(a, "Completed")
  <2>1. ModelResponse(m, msg, known, n) = r
    BY <1>4 DEF ModelResponse, IsTerminal
  <2> HIDE DEF a
  <2>2. /\ r \in Machine /\ r.history = m.history /\ r.pending = s /\ r.state = "Terminal"
        /\ r.outcome = "Completed" /\ r.deferred_compaction = FALSE
    BY <1>3 DEF Terminate, Enter, Machine, States, Reasons, Outcomes
  <2> HIDE DEF r
  <2>3. Sound(r)
    BY <1>2, <1>3, <1>4, <2>2 DEF Sound, CallsMatch, LatchScoped, OneTurnOpen
  <2>4. QED
    BY <2>1, <2>3
<1>5. CASE msg.calls # {}
  <2> DEFINE ps == Classify(msg.calls, known)
             r  == [Enter(a, "AwaitingTools") EXCEPT !.turn = m.turns_taken, !.pending_tools = ps]
  <2>1. ModelResponse(m, msg, known, n) = r
    BY <1>5 DEF ModelResponse, IsTerminal
  <2>2. ps \in SUBSET PendingCall /\ {p.call : p \in ps} = msg.calls
    <3>1. ps \in SUBSET PendingCall
      <4>1. ASSUME NEW c \in msg.calls
            PROVE  [call |-> c, preresolved |-> c \notin known] \in PendingCall
        <5>1. c \in CallId /\ (c \notin known) \in BOOLEAN
          BY <1>1
        <5>2. QED
          BY <5>1 DEF PendingCall
      <4>2. QED
        BY <4>1 DEF Classify
    <3>2. ASSUME NEW c \in msg.calls PROVE c \in {p.call : p \in ps}
      <4>1. [call |-> c, preresolved |-> c \notin known] \in ps
        BY DEF Classify
      <4>2. QED
        BY <4>1
    <3>3. ASSUME NEW p \in ps PROVE p.call \in msg.calls
      BY DEF Classify
    <3>4. QED
      BY <3>1, <3>2, <3>3
  <2> HIDE DEF s, ps, a
  <2>3. /\ r \in Machine /\ r.history = m.history /\ r.pending = s
        /\ r.state = "AwaitingTools" /\ r.outcome = "None" /\ r.pending_tools = ps
        /\ r.deferred_compaction = FALSE
    BY <1>3, <2>2 DEF Enter, Machine, States, Reasons, Outcomes
  <2> HIDE DEF r
  <2>4. Sound(r)
    BY <1>2, <1>3, <2>2, <2>3 DEF Sound, CallsMatch, LatchScoped, OneTurnOpen, CallsInFlight
  <2>5. QED
    BY <2>1, <2>4
<1>6. QED
  BY <1>4, <1>5

\* The results close them, all at once.
LEMMA ReceiveResultsSound ==
  ASSUME NEW m, Sound(m), m.state = "AwaitingTools", NEW t \in SUBSET Text
  PROVE  Sound(ReceiveResults(m, Answers(t, CallsInFlight(m))))
<1> DEFINE x == Answers(t, CallsInFlight(m))
           s == Append(m.pending, x)
<1>1. /\ m.pending \in Conversation /\ m.pending \in Seq(Message)
      /\ NoOrphans(m.pending) /\ Unanswered(m.pending) = CallsInFlight(m)
      /\ Unanswered(m.pending) \in SUBSET CallId
  BY DEF Sound, Machine, CallsMatch, Conversation, Unanswered, Open
<1>2. x \in Message /\ WellFormed(x) /\ x.calls = {} /\ x.results = Unanswered(m.pending)
  BY <1>1 DEF Answers, Message, WellFormed
<1>3. s \in Conversation /\ NoOrphans(s) /\ Unanswered(s) = {}
  BY <1>1, <1>2, AppendConversation, OpenAppend
<1> DEFINE r == [Enter(m, "Start") EXCEPT !.pending = s, !.pending_tools = {}]
<1> HIDE DEF x
<1>4. ReceiveResults(m, x) = r
  BY DEF ReceiveResults, IsTerminal, Enter, Sound, Machine
<1> HIDE DEF s
<1>5. Sound(ReceiveResults(m, x))
  <2>1. /\ r \in Machine /\ r.history = m.history /\ r.pending = s
        /\ r.state = "Start" /\ r.outcome = "None"
    BY <1>3 DEF Sound, Enter, Machine, States, Reasons, Outcomes
  <2> HIDE DEF r
  <2>2. QED
    BY <1>3, <1>4, <2>1 DEF Sound, CallsMatch, LatchScoped, OneTurnOpen
<1>6. QED
  BY <1>5 DEF x

\* Pruning rewrites the text of a settled feed and splits it where it was.
LEMMA AdoptPrunedSound ==
  ASSUME NEW m, Sound(m), Unanswered(m.pending) = {},
         NEW u \in Conversation, Len(u) = Len(FullHistory(m)),
         SameCalls(u, FullHistory(m), Len(u))
  PROVE  Sound(AdoptPruned(m, u, Len(m.history)))
<1> DEFINE h == Take(u, Len(m.history))
           p == Drop(u, Len(m.history))
<1>1. /\ m.history \in Seq(Message) /\ m.pending \in Seq(Message)
      /\ m.history \in Conversation /\ m.pending \in Conversation
      /\ u \in Seq(Message) /\ Len(m.history) \in Nat
      /\ Coherent(m.history) /\ Coherent(m.pending)
  BY DEF Sound, Machine, Conversation, CallsMatch, Coherent
<1>2. Len(u) = Len(m.history) + Len(m.pending)
  BY <1>1, ConcatConversation DEF FullHistory
<1>3. Coherent(h) /\ Coherent(p)
  BY <1>1, <1>2, DropNoOrphans DEF FullHistory
<1>4. h \in Conversation /\ p \in Conversation
  BY <1>1, SplitConversation
<1>5. CASE IsTerminal(m)
  BY <1>5 DEF AdoptPruned
<1>6. CASE ~IsTerminal(m)
  <2>1. AdoptPruned(m, u, Len(m.history)) = [m EXCEPT !.history = h, !.pending = p]
    BY <1>6 DEF AdoptPruned
  <2> HIDE DEF h, p
  <2>2. QED
    BY <2>1, <1>3, <1>4, <1>6
    DEF Sound, Machine, CallsMatch, LatchScoped, OneTurnOpen, Coherent, CallsInFlight, IsTerminal
<1>7. QED
  BY <1>5, <1>6

\* A compaction is installed whole, as a coherent conversation of its own.
LEMMA CompactionResultSound ==
  ASSUME NEW m, Sound(m), Unanswered(m.pending) = {},
         NEW c \in Conversation, Coherent(c), NEW before \in Nat, NEW after \in Nat
  PROVE  Sound(CompactionResult(m, c, before, after))
<1>1. Coalesce(c) \in Conversation /\ Coherent(Coalesce(c))
  BY CoalesceProperties
<1>2. CASE IsTerminal(m)
  BY <1>2 DEF CompactionResult
<1>3. CASE ~IsTerminal(m) /\ after >= before
  <2>1. CompactionResult(m, c, before, after) = Terminate(m, "CompactionStalled")
    BY <1>3 DEF CompactionResult
  <2>2. QED
    BY <2>1, TerminateSound
<1>4. CASE ~IsTerminal(m) /\ ~(after >= before)
  <2> DEFINE h == Coalesce(c)
             r == [Enter(m, "Start") EXCEPT !.history = h, !.pending = <<>>,
                                            !.context_tokens = after]
  <2>1. CompactionResult(m, c, before, after) = r
    BY <1>4 DEF CompactionResult
  <2> HIDE DEF h
  <2>2. /\ r \in Machine /\ r.history = h /\ r.pending = <<>> /\ r.state = "Start"
        /\ r.outcome = "None"
    BY <1>1, EmptyCoherent DEF Sound, Enter, Machine, States, Reasons, Outcomes, h
  <2> HIDE DEF r
  <2>3. Sound(r)
    BY <1>1, <2>2, EmptyCoherent DEF Sound, CallsMatch, LatchScoped, OneTurnOpen, Coherent, h
  <2>4. QED
    BY <2>1, <2>3
<1>5. QED
  BY <1>2, <1>3, <1>4

\* A pass that changed nothing, or was deferred, returns to the start.
LEMMA CompactionNoopSound ==
  ASSUME NEW m, Sound(m), Unanswered(m.pending) = {}, NEW before \in Nat, NEW after \in Nat
  PROVE  Sound(CompactionNoop(m, before, after)) /\ Sound(CompactionDeferred(m, after))
<1> DEFINE r == [Enter(m, "Start") EXCEPT !.context_tokens = after]
           d == [Enter(m, "Start") EXCEPT !.context_tokens = after, !.deferred_compaction = TRUE]
<1>1. Sound(r) /\ Sound(d)
  <2>1. /\ r \in Machine /\ r.history = m.history /\ r.pending = m.pending /\ r.state = "Start"
        /\ r.outcome = "None"
        /\ d \in Machine /\ d.history = m.history /\ d.pending = m.pending /\ d.state = "Start"
        /\ d.outcome = "None"
    BY DEF Sound, Enter, Machine, States, Reasons, Outcomes
  <2> HIDE DEF r, d
  <2>2. QED
    BY <2>1 DEF Sound, CallsMatch, LatchScoped, OneTurnOpen
<1>2. Sound(CompactionDeferred(m, after))
  BY <1>1 DEF CompactionDeferred
<1>3. CASE IsTerminal(m)
  BY <1>2, <1>3 DEF CompactionNoop
<1>4. CASE ~IsTerminal(m) /\ after >= before
  <2>1. CompactionNoop(m, before, after) = Terminate(m, "CompactionStalled")
    BY <1>4 DEF CompactionNoop
  <2>2. QED
    BY <1>2, <2>1, TerminateSound
<1>5. CASE ~IsTerminal(m) /\ ~(after >= before)
  <2>1. CompactionNoop(m, before, after) = r
    BY <1>5 DEF CompactionNoop
  <2>2. QED
    BY <1>1, <1>2, <2>1
<1>6. QED
  BY <1>3, <1>4, <1>5

\* The figure and the cancel flag are no concern of the invariant.
LEMMA SettersSound ==
  ASSUME NEW m, Sound(m), NEW n \in Nat
  PROVE  Sound(SetContextTokens(m, n)) /\ Sound(Cancel(m)) /\ Sound(Fail(m, "Failed"))
<1>1. Sound(SetContextTokens(m, n)) /\ Sound(Cancel(m))
  BY DEF Sound, SetContextTokens, Cancel, IsTerminal, Machine, CallsMatch, LatchScoped,
         OneTurnOpen, CallsInFlight
<1>2. Sound(Fail(m, "Failed"))
  BY TerminateSound DEF Fail
<1>3. QED
  BY <1>1, <1>2

\* A machine whose buffer was emptied stays sound over any coherent history.
LEMMA EmptiedSound ==
  ASSUME NEW m, Sound(m), m.state # "AwaitingTools",
         NEW h \in Conversation, Coherent(h)
  PROVE  Sound([m EXCEPT !.history = h, !.pending = <<>>])
BY EmptyCoherent DEF Sound, Machine, CallsMatch, LatchScoped, OneTurnOpen, Coherent

LEMMA CommitPendingSound ==
  ASSUME NEW m, Sound(m), m.state # "AwaitingTools", Unanswered(m.pending) = {}
  PROVE  Sound(CommitPending(m))
<1>1. /\ m.history \in Conversation /\ m.pending \in Conversation
      /\ m.history \in Seq(Message) /\ m.pending \in Seq(Message)
      /\ Coherent(m.history) /\ NoOrphans(m.pending)
  BY DEF Sound, Machine, CallsMatch, Conversation
<1>2. m.history \o m.pending \in Conversation /\ Coherent(m.history \o m.pending)
  BY <1>1, ConcatConversation, CoherentConcat DEF Coherent
<1>3. QED
  BY <1>2, EmptiedSound DEF CommitPending

LEMMA SalvagePendingSound ==
  ASSUME NEW m, Sound(m), m.state # "AwaitingTools"
  PROVE  Sound(SalvagePending(m))
<1> DEFINE cut == CoherentCut(m.pending, Len(m.pending))
           t   == Take(m.pending, cut)
<1>1. /\ m.history \in Conversation /\ m.pending \in Conversation
      /\ m.history \in Seq(Message) /\ Len(m.pending) \in Nat
      /\ Coherent(m.history) /\ NoOrphans(m.pending)
  BY DEF Sound, Machine, CallsMatch, Conversation
<1>2. t \in Conversation /\ t \in Seq(Message) /\ Coherent(t)
  BY <1>1, CutConversation DEF Conversation
<1>3. m.history \o t \in Conversation /\ Coherent(m.history \o t)
  BY <1>1, <1>2, ConcatConversation, CoherentConcat DEF Coherent
<1>4. QED
  BY <1>3, EmptiedSound DEF SalvagePending

LEMMA DiscardPendingSound ==
  ASSUME NEW m, Sound(m), m.state # "AwaitingTools"
  PROVE  Sound(DiscardPending(m))
BY EmptyCoherent DEF Sound, DiscardPending, Machine, CallsMatch, LatchScoped, OneTurnOpen, Coherent

LEMMA RewindToSound ==
  ASSUME NEW m, Sound(m), NEW len \in Nat
  PROVE  Sound(RewindTo(m, len))
<1> DEFINE w   == Within(m.history, len)
           cut == CoherentCut(m.history, w)
           h   == Take(m.history, cut)
<1>1. m.history \in Conversation /\ NoOrphans(m.history) /\ Len(m.history) \in Nat
  BY DEF Sound, Machine, Coherent, Conversation
<1>2. w \in 0..Len(m.history)
  BY <1>1 DEF Within
<1>3. h \in Conversation /\ Coherent(h)
  BY <1>1, <1>2, CutConversation
<1>4. CASE ~BetweenSteps(m) \/ cut = Len(m.history)
  BY <1>4 DEF RewindTo
<1>5. CASE ~(~BetweenSteps(m) \/ cut = Len(m.history))
  <2>1. RewindTo(m, len) = [m EXCEPT !.history = h, !.deferred_compaction = FALSE]
    BY <1>5 DEF RewindTo
  <2> HIDE DEF h
  <2>2. QED
    BY <1>3, <1>5, <2>1
    DEF Sound, Machine, BetweenSteps, CallsMatch, LatchScoped, OneTurnOpen, CallsInFlight
<1>6. QED
  BY <1>4, <1>5

\* Between runs a compaction of the history replaces the history.
LEMMA ManualCompactionSound ==
  ASSUME NEW m, Sound(m), ManualCompactionAllowed(m),
         NEW c \in Conversation, Coherent(c), Len(c) <= Len(m.history), NEW n \in Nat
  PROVE  Sound(InstallManualCompaction(m, c, Len(m.history), n))
<1>1. /\ c \in Seq(Message) /\ Len(c) \in Nat /\ Len(m.history) \in Nat /\ m \in Machine
      /\ m.state \in {"Start", "Terminal"}
  BY DEF Sound, Machine, Conversation, ManualCompactionAllowed, BetweenSteps
<1>2. Within(c, Len(m.history)) = Len(c)
  BY <1>1 DEF Within
<1> DEFINE h == Coalesce(Take(c, Len(m.history)))
           p == Drop(c, Len(m.history))
<1>3. Take(c, Len(m.history)) \in Conversation /\ p \in Conversation /\ p = <<>>
  <2>1. p \in Seq(Message) /\ Len(p) = 0
    <3>1. p \in Seq(Message) /\ Len(p) = Len(c) - Within(c, Len(m.history))
      BY <1>1, SplitProperties
    <3> HIDE DEF p
    <3>2. QED
      BY <1>1, <1>2, <3>1
  <2>2. p = <<>>
    BY <2>1
  <2>3. QED
    BY <2>2, <1>1, SplitConversation
<1>4. Coherent(Take(c, Len(m.history)))
  <2>1. Open(c, Len(c)) = {} /\ NoOrphans(c) /\ Len(c) \in 0..Len(c)
    BY <1>1 DEF Coherent, Unanswered
  <2>2. Take(c, Len(c)) = Take(c, Len(m.history))
    BY <1>1, <1>2 DEF Take, Within
  <2>3. QED
    BY <2>1, <2>2, <1>1, TakeCoherent
<1>5. h \in Conversation /\ Coherent(h)
  BY <1>3, <1>4, CoalesceProperties
<1> DEFINE r == [m EXCEPT !.history = h, !.pending = p, !.context_tokens = n,
                          !.deferred_compaction = FALSE]
<1>6. InstallManualCompaction(m, c, Len(m.history), n) = r
  BY DEF InstallManualCompaction
<1> HIDE DEF h, p
<1>7. /\ r \in Machine /\ r.history = h /\ r.pending = <<>> /\ r.state = m.state
      /\ r.outcome = m.outcome /\ r.deferred_compaction = FALSE
  BY <1>1, <1>3, <1>5 DEF Machine
<1> HIDE DEF r
<1>8. QED
  BY <1>1, <1>5, <1>6, <1>7, EmptyCoherent
  DEF Sound, CallsMatch, LatchScoped, OneTurnOpen, Coherent

-----------------------------------------------------------------------------
(* The driver's inputs. *)

\* What a compaction pass hands back is a coherent conversation.
LEMMA CompactionsCoherent ==
  ASSUME NEW feed \in Conversation, NEW c \in Compactions(feed)
  PROVE  c \in Conversation /\ Coherent(c) /\ Len(c) <= Len(feed)
<1>0. c \in {s \o Drop(feed, n) : s \in Summaries, n \in 0..Len(feed)}
      /\ Coherent(c) /\ Len(c) <= Len(feed)
  BY DEF Compactions
<1>1. PICK s \in Summaries, n \in 0..Len(feed) : c = s \o Drop(feed, n)
  BY <1>0
<1>2. s \in Conversation
  <2>1. \A x \in {UserText({}), Assistant({}, {})} : x \in Message /\ WellFormed(x)
    BY DEF UserText, Assistant, Message, WellFormed
  <2>2. \A x \in {UserText({}), Assistant({}, {})} : Append(<<>>, x) \in Conversation
    BY <2>1, EmptyCoherent, AppendConversation
  <2>3. \A x : Append(<<>>, x) = <<x>>
    OBVIOUS
  <2>4. QED
    BY <2>2, <2>3, EmptyCoherent DEF Summaries
<1>3. n \in Nat /\ Drop(feed, n) \in Conversation
  BY SplitConversation DEF Conversation
<1>4. QED
  BY <1>1, <1>2, <1>3, ConcatConversation DEF Compactions

\* Pruning changes no message but for its text.
LEMMA PrunedSame ==
  ASSUME NEW feed \in Conversation, NEW is \in SUBSET Results(feed)
  PROVE  /\ Pruned(feed, is) \in Conversation
         /\ Len(Pruned(feed, is)) = Len(feed)
         /\ SameCalls(Pruned(feed, is), feed, Len(feed))
<1> DEFINE u == Pruned(feed, is)
<1>1. Len(feed) \in Nat /\ \A i \in 1..Len(feed) : feed[i] \in Message /\ WellFormed(feed[i])
  BY DEF Conversation
<1>2. ASSUME NEW i \in 1..Len(feed)
      PROVE  /\ u[i] \in Message /\ WellFormed(u[i])
             /\ u[i].calls = feed[i].calls /\ u[i].results = feed[i].results
  <2>1. u[i] = IF i \in is THEN [feed[i] EXCEPT !.text = {}] ELSE feed[i]
    BY DEF Pruned
  <2> HIDE DEF u
  <2>2. QED
    BY <1>1, <2>1 DEF Message, WellFormed
<1>3. u \in [1..Len(feed) -> Message]
  BY <1>2 DEF Pruned
<1>4. u \in Seq(Message) /\ Len(u) = Len(feed)
  <2> HIDE DEF u
  <2>1. QED
    BY <1>1, <1>3
<1>5. QED
  BY <1>2, <1>4 DEF Conversation, SameCalls

-----------------------------------------------------------------------------
(* The theorems. *)

IInv == Sound(machine)

\* Every initial machine is sound.
LEMMA SoundInit == Init => IInv
<1>1. SUFFICES ASSUME NEW p \in Prompts, machine \in {FromHistory(<<>>), FromHistory(<<p>>)}
               PROVE  Sound(machine)
  BY DEF Init, IInv
<1>2. PICK t \in Text : p = UserText({t})
  BY DEF Prompts
<1>3. Sound(FromHistory(<<>>)) /\ FromHistory(<<>>).pending = <<>>
  BY EmptyCoherent, FromHistorySound DEF FromHistory
<1>4. Append(<<>>, p) \in Conversation /\ Coherent(Append(<<>>, p))
  BY <1>2, <1>3, EmptyCoherent, PromptSound DEF Coherent
<1>5. Append(<<>>, p) = <<p>>
  OBVIOUS
<1>6. QED
  BY <1>1, <1>3, <1>4, <1>5, FromHistorySound

\* Every action keeps it so: one step per action.
LEMMA SoundNext == IInv /\ [Next]_machine => IInv'
<1> SUFFICES ASSUME Sound(machine), [Next]_machine PROVE Sound(machine')
  BY DEF IInv
<1>a. /\ machine \in Machine /\ machine.history \in Conversation /\ machine.pending \in Conversation
      /\ FullHistory(machine) \in Conversation
  BY ConcatConversation DEF Sound, Machine, FullHistory
<1>b. \A p \in Prompts : \E t \in SUBSET Text : p = UserText(t)
  BY DEF Prompts
<1>c. machine.state \in {"Start", "AwaitingModel", "AwaitingCompaction"}
      => Unanswered(machine.pending) = {}
  BY DEF Sound, CallsMatch
<1>1. CASE DoAcceptInput
  BY <1>1, <1>b, AcceptInputSound DEF DoAcceptInput
<1>2. CASE DoAcceptFollowup
  BY <1>2, <1>b, AcceptFollowupSound DEF DoAcceptFollowup
<1>3. CASE DoSetContextTokens
  BY <1>3, TokensAssumption, SettersSound DEF DoSetContextTokens
<1>4. CASE DoNextStep
  BY <1>4, NextStepSound DEF DoNextStep
<1>5. CASE DoModelResponse
  <2>1. PICK msg \in Replies, known \in Registries, n \in Tokens :
           machine.state = "AwaitingModel" /\ machine' = ModelResponse(machine, msg, known, n)
    BY <1>5 DEF DoModelResponse
  <2>2. msg \in Message /\ msg.role = "assistant" /\ msg.results = {}
    BY DEF Replies, Assistant, Message
  <2>3. known \in SUBSET CallId /\ n \in Nat
    BY TokensAssumption, RegistriesAssumption
  <2>4. QED
    BY <2>1, <2>2, <2>3, ModelResponseSound
<1>6. CASE DoReceiveResults
  <2>1. PICK t \in Text : machine.state = "AwaitingTools"
           /\ machine' = ReceiveResults(machine, Answers({t}, CallsInFlight(machine)))
    BY <1>6 DEF DoReceiveResults
  <2>2. {t} \in SUBSET Text
    OBVIOUS
  <2>3. QED
    BY <2>1, <2>2, ReceiveResultsSound
<1>7. CASE DoInject
  BY <1>7, <1>b, InjectSound DEF DoInject
<1>8. CASE DoAdoptPruned
  <2>1. PICK is \in SUBSET Results(FullHistory(machine)) :
           machine' = AdoptPruned(machine, Pruned(FullHistory(machine), is), Len(machine.history))
    BY <1>8 DEF DoAdoptPruned
  <2>2. Unanswered(machine.pending) = {}
    BY <1>8, <1>c DEF DoAdoptPruned
  <2>3. QED
    BY <1>a, <2>1, <2>2, PrunedSame, AdoptPrunedSound
<1>9. CASE DoCompactionResult
  BY <1>9, <1>a, <1>c, TokensAssumption, CompactionsCoherent, CompactionResultSound
  DEF DoCompactionResult
<1>10. CASE DoCompactionNoop
  BY <1>10, <1>c, TokensAssumption, CompactionNoopSound DEF DoCompactionNoop
<1>11. CASE DoCompactionDeferred
  BY <1>11, <1>c, TokensAssumption, CompactionNoopSound DEF DoCompactionDeferred
<1>12. CASE DoCancel
  <2>1. Sound(Cancel(machine))
    BY SettersSound, 0 \in Nat
  <2>2. QED
    BY <1>12, <2>1 DEF DoCancel
<1>13. CASE DoFail
  <2>1. Sound(Fail(machine, "Failed"))
    BY SettersSound, 0 \in Nat
  <2>2. QED
    BY <1>13, <2>1 DEF DoFail
<1>d. machine.outcome # "None" => machine.state # "AwaitingTools"
  BY DEF Sound
<1>14. CASE DoCommit
  <2>1. Unanswered(machine.pending) = {} /\ machine.state # "AwaitingTools"
    BY <1>14, <1>d DEF DoCommit, Sound, CallsMatch
  <2>2. QED
    BY <1>14, <2>1, CommitPendingSound DEF DoCommit
<1>15. CASE DoSalvage
  BY <1>15, <1>d, SalvagePendingSound DEF DoSalvage
<1>16. CASE DoDiscard
  BY <1>16, <1>d, DiscardPendingSound DEF DoDiscard
<1>17. CASE DoRewind
  BY <1>17, RewindToSound DEF DoRewind
<1>18. CASE DoManualCompaction
  BY <1>18, <1>a, TokensAssumption, CompactionsCoherent, ManualCompactionSound
  DEF DoManualCompaction
<1>19. CASE UNCHANGED machine
  BY <1>19
<1>20. QED
  BY <1>1, <1>2, <1>3, <1>4, <1>5, <1>6, <1>7, <1>8, <1>9, <1>10, <1>11, <1>12, <1>13,
     <1>14, <1>15, <1>16, <1>17, <1>18, <1>19 DEF Next

\* Sound holds of every reachable machine.
THEOREM SoundAlways == Spec => []IInv
<1>1. QED
  BY SoundInit, SoundNext, PTL DEF Spec

\* The fields keep their types.
THEOREM TypeCorrect == Spec => []TypeOK
<1>1. IInv => TypeOK
  BY DEF IInv, Sound, TypeOK
<1>2. QED
  BY SoundAlways, <1>1, PTL

\* The committed conversation is coherent at all times: whatever run was
\* cancelled, dropped, failed, compacted or rewound, the next one can send it.
THEOREM HistoryAlwaysCoherent == Spec => []HistoryCoherent
<1>1. IInv => HistoryCoherent
  BY DEF IInv, Sound, HistoryCoherent
<1>2. QED
  BY SoundAlways, <1>1, PTL

\* Dispatch answers exactly the calls the buffer leaves open.
THEOREM CallsAlwaysInFlight == Spec => []OpenCallsAreInFlight
<1>1. IInv => OpenCallsAreInFlight
  BY DEF IInv, Sound, OpenCallsAreInFlight
<1>2. QED
  BY SoundAlways, <1>1, PTL

\* Every request is coherent: history, buffer, steering and all.
THEOREM RequestsAlwaysCoherent == Spec => []RequestCoherent
<1>1. IInv => RequestCoherent
  <2>1. SUFFICES ASSUME Sound(machine), machine.state = "AwaitingModel"
                 PROVE  Coherent(FullHistory(machine))
    BY DEF IInv, RequestCoherent
  <2>2. /\ machine.history \in Seq(Message) /\ machine.pending \in Seq(Message)
        /\ Coherent(machine.history) /\ NoOrphans(machine.pending)
        /\ Unanswered(machine.pending) = {}
    BY <2>1 DEF Sound, Machine, Conversation, CallsMatch
  <2>3. QED
    BY <2>2, CoherentConcat DEF FullHistory, Coherent
<1>2. QED
  BY SoundAlways, <1>1, PTL

\* A deferral does not outlive the request it was made for.
THEOREM DeferralAlwaysScoped == Spec => []DeferralIsForOneRequest
<1>1. IInv => DeferralIsForOneRequest
  BY DEF IInv, Sound, DeferralIsForOneRequest
<1>2. QED
  BY SoundAlways, <1>1, PTL

\* A salvage drops the last message at most: the cut below the buffer's end is
\* no lower, as nothing but that message may have left calls open.
LEMMA SalvageKeeps ==
  ASSUME NEW m, Sound(m), m.pending # <<>>
  PROVE  Len(SalvagePending(m).history) + 1 >= Len(FullHistory(m))
<1> DEFINE L   == Len(m.pending)
           cut == CoherentCut(m.pending, L)
           t   == Take(m.pending, cut)
<1>1. /\ m.history \in Conversation /\ m.pending \in Conversation
      /\ m.pending \in Seq(Message) /\ L \in Nat \ {0} /\ Len(m.history) \in Nat
      /\ NoOrphans(m.pending)
  BY DEF Sound, Machine, CallsMatch, Conversation
<1>2. /\ t \in Conversation /\ Len(t) = cut /\ cut \in 0..L
      /\ \A k \in 0..L : Open(m.pending, k) = {} => k <= cut
  BY <1>1, CutConversation
<1>3. Open(m.pending, L) = {} \/ Open(m.pending, L - 1) = {}
  BY DEF Sound, OneTurnOpen, Unanswered
<1>4. cut + 1 >= L
  <2> HIDE DEF cut, t
  <2>1. QED
    BY <1>1, <1>2, <1>3
<1>5. /\ Len(m.history \o t) = Len(m.history) + cut
      /\ Len(FullHistory(m)) = Len(m.history) + L
  BY <1>1, <1>2, ConcatConversation DEF FullHistory
<1>6. SalvagePending(m).history = m.history \o t
  BY DEF SalvagePending, Sound, Machine
<1> HIDE DEF cut, t, L
<1>7. QED
  BY <1>1, <1>2, <1>4, <1>5, <1>6

\* A run that was cancelled or hit its limit loses its unfinished turn and no
\* more: of the actions that leave such a run ended as it was, salvage alone
\* empties the buffer.
THEOREM SalvageAlwaysCostsOneTurn == Spec => SalvageCostsOneTurn
<1> DEFINE Closing == /\ machine.outcome \in {"MaxTurnsExceeded", "Cancelled"}
                      /\ machine'.outcome = machine.outcome
                      /\ machine.pending # <<>> /\ machine'.pending = <<>>
           Costs == Closing => Len(machine'.history) + 1 >= Len(FullHistory(machine))
<1>1. IInv /\ [Next]_machine => [Costs]_machine
  <2> SUFFICES ASSUME Sound(machine), Next, Closing
               PROVE  Len(machine'.history) + 1 >= Len(FullHistory(machine))
    BY DEF IInv
  <2>1. /\ machine \in Machine /\ machine.state = "Terminal"
        /\ machine.outcome \notin {"None", "Completed", "Failed", "CompactionStalled"}
    BY DEF Sound
  <2>2. ~DoAcceptInput
    BY DEF DoAcceptInput, AcceptInput, FromHistory
  <2>3. ~(DoAcceptFollowup \/ DoCommit \/ DoDiscard)
    BY <2>1 DEF DoAcceptFollowup, DoCommit, DoDiscard
  <2>4. ~(DoSetContextTokens \/ DoNextStep \/ DoFail)
    BY <2>1 DEF DoSetContextTokens, SetContextTokens, DoNextStep, NextStep, DoFail, Fail, IsTerminal
  <2>5. ~(\/ DoModelResponse \/ DoReceiveResults \/ DoInject \/ DoAdoptPruned
          \/ DoCompactionResult \/ DoCompactionNoop \/ DoCompactionDeferred)
    BY <2>1 DEF DoModelResponse, DoReceiveResults, DoInject, DoAdoptPruned,
                DoCompactionResult, DoCompactionNoop, DoCompactionDeferred
  <2>6. ~(DoCancel \/ DoRewind)
    BY <2>1 DEF DoCancel, Cancel, DoRewind, RewindTo, Machine
  <2>7. ~DoManualCompaction
    BY DEF DoManualCompaction, ManualCompactionAllowed
  <2>8. DoSalvage
    BY <2>2, <2>3, <2>4, <2>5, <2>6, <2>7 DEF Next
  <2>9. QED
    BY <2>8, SalvageKeeps DEF DoSalvage
<1>2. QED
  BY SoundAlways, <1>1, PTL DEF Spec, SalvageCostsOneTurn
=============================================================================
