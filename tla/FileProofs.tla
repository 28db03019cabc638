----------------------------- MODULE FileProofs -----------------------------
(***************************************************************************)
(* What the file tools write over was seen, and what a batch reports it    *)
(* has written: for any number of names, inodes and calls under way.  What *)
(* the memory store says is stored is in its file: for any number of       *)
(* handles and links, and whenever the process or the machine stops.       *)
(***************************************************************************)
EXTENDS FileTools, FileMemory, SequenceTheorems, TLAPS

\* A baseline that would arm a write is one the model knows.
Truthful(b, seen) == b = Never \/ b.resumed \/ b.hash \in seen

Baselines == /\ \A n \in FName : Truthful(byPath[n], familiar)
             /\ \A i \in Inode : Truthful(byIdentity[i], familiar)

Under(s) == s.at \in {"checks", "looks", "renames", "records"}

\* A call that is armed compares with contents the model knows; once it has compared,
\* the inode it expects holds that content still; and once it has looked, the name is
\* on that inode still.
Fits(s, seen, holds, names) ==
  /\ s.at = "idle" => ~s.armed /\ s.wrote = <<>>
  /\ s.at # "over" => s.applied = s.wrote
  /\ s.at = "over" => s.told = s.wrote
  /\ Under(s) => s.todo # <<>>
  /\ Under(s) /\ s.armed => \A k \in 1..Len(s.todo) : s.original[s.todo[k]] \in seen
  /\ s.at \in {"looks", "renames"} /\ s.armed
       => s.expected \in Inode /\ holds[s.expected] = s.original[Head(s.todo)]
  /\ s.at = "renames" /\ s.armed => names[Head(s.todo)] = s.expected
  /\ s.at = "records" => s.sees.resumed \/ s.sees.hash \in seen

JobsFit == \A j \in Job : Fits(job[j], familiar, bytes, entry)

FileInv == FileTypeOK /\ Baselines /\ JobsFit /\ clobbered = {}

LEMMA FitsOn ==
  ASSUME NEW s, NEW seen, NEW more, NEW holds, NEW keeps, NEW names, NEW calls,
         Fits(s, seen, holds, names), seen \subseteq more,
         s.expected \in Inode => keeps[s.expected] = holds[s.expected],
         s.at = "renames" => calls[Head(s.todo)] = names[Head(s.todo)]
  PROVE  Fits(s, more, keeps, calls)
BY DEF Fits, Under

LEMMA JobTypes ==
  ASSUME FileInv, NEW j \in Job
  PROVE  /\ job[j] \in JobState /\ Fits(job[j], familiar, bytes, entry)
         /\ job[j].todo \in Seq(FName) /\ job[j].original \in [FName -> Nat]
         /\ job[j].applied \in Seq(FName) /\ job[j].wrote \in Seq(FName)
         /\ job[j].told \in Seq(FName) /\ job[j].sees \in Baseline
         /\ job[j].armed \in BOOLEAN /\ job[j].expected \in Inode \cup {NoInode}
<1>1. job[j] \in JobState /\ Fits(job[j], familiar, bytes, entry)
  BY DEF FileInv, FileTypeOK, JobsFit
<1>2. QED
  BY <1>1 DEF JobState

\* One call moves on; the others find what they rely on where it was.
LEMMA OneMoves ==
  ASSUME FileInv, NEW j \in Job, NEW s \in JobState, job' = [job EXCEPT ![j] = s],
         familiar \subseteq familiar', Fits(s, familiar', bytes', entry'),
         \A k \in Job \ {j} :
            /\ job[k].expected \in Inode => bytes'[job[k].expected] = bytes[job[k].expected]
            /\ job[k].at = "renames" => entry'[Target(k)] = entry[Target(k)]
  PROVE  JobsFit' /\ job' \in [Job -> JobState]
<1>1. job \in [Job -> JobState]
  BY DEF FileInv, FileTypeOK
<1>2. job' \in [Job -> JobState] /\ job'[j] = s /\ \A k \in Job \ {j} : job'[k] = job[k]
  BY <1>1
<1>3. ASSUME NEW k \in Job \ {j} PROVE Fits(job[k], familiar', bytes', entry')
  <2>1. Fits(job[k], familiar, bytes, entry)
    BY DEF FileInv, JobsFit
  <2>2. QED
    BY <2>1, FitsOn DEF Target
<1>4. QED
  BY <1>2, <1>3 DEF JobsFit

\* Most steps of a call touch nothing but the call.
LEMMA CallMoves ==
  ASSUME FileInv, NEW j \in Job, NEW s \in JobState, job' = [job EXCEPT ![j] = s],
         familiar' \subseteq Nat, familiar \subseteq familiar', Fits(s, familiar', bytes, entry),
         observed' \in Nat, UNCHANGED <<policy, entry, bytes, version, byPath, byIdentity, clobbered>>
  PROVE  FileInv'
<1>1. JobsFit' /\ job' \in [Job -> JobState]
  BY OneMoves
<1>2. FileTypeOK'
  BY <1>1 DEF FileInv, FileTypeOK
<1>3. Baselines'
  BY DEF FileInv, Baselines, Truthful
<1>4. QED
  BY <1>1, <1>2, <1>3 DEF FileInv

LEMMA NewJobType == NewJob \in JobState
<1>1. <<>> \in Seq(FName) /\ Never \in Baseline
  BY DEF Never, Baseline
<1>2. QED
  BY <1>1 DEF NewJob, JobState

\* A call that is over reports what it has written.
LEMMA OverFits ==
  ASSUME NEW s, NEW told, s.wrote \in Seq(FName), told \in Seq(FName), told = s.wrote,
         NEW seen, NEW holds, NEW names
  PROVE  Over(s, told) \in JobState /\ Fits(Over(s, told), seen, holds, names)
<1> DEFINE t == Over(s, told)
<1>1. t \in JobState /\ t.at = "over" /\ t.wrote = s.wrote /\ t.told = told
  BY NewJobType DEF Over, JobState
<1> HIDE DEF t
<1>2. Fits(t, seen, holds, names)
  BY <1>1 DEF Fits, Under
<1>3. QED
  BY <1>1, <1>2 DEF t


LEMMA BaselineTypes ==
  ASSUME FileInv
  PROVE  /\ \A n \in FName : byPath[n] \in Baseline /\ Truthful(byPath[n], familiar)
         /\ \A i \in Inode : byIdentity[i] \in Baseline /\ Truthful(byIdentity[i], familiar)
         /\ observed \in Nat /\ familiar \subseteq Nat
         /\ \A n \in FName : Exists(n) => entry[n] \in Inode /\ Content(n) \in Nat
<1>1. FileTypeOK /\ Baselines
  BY DEF FileInv
<1>2. QED
  BY <1>1, FileAssumption DEF FileTypeOK, Baselines, Exists, Content

LEMMA BaselineForTruthful ==
  ASSUME FileInv, NEW n \in FName
  PROVE  BaselineFor(n) \in Baseline /\ Truthful(BaselineFor(n), familiar)
BY BaselineTypes DEF BaselineFor, Newer

LEMMA ObserveKeeps ==
  ASSUME FileInv, NEW j \in Job, NEW n \in FName, NEW isResumed \in BOOLEAN,
         Observe(j, n, isResumed)
  PROVE  FileInv'
<1> DEFINE b == [observed |-> observed + 1, hash |-> Content(n), resumed |-> isResumed]
           s == [job[j] EXCEPT !.at = "records", !.todo = <<n>>, !.sees = b]
<1>1. /\ Content(n) \in Nat /\ observed \in Nat /\ familiar \subseteq Nat
      /\ job[j].at = "idle" /\ job' = [job EXCEPT ![j] = s] /\ observed' = observed + 1
      /\ familiar' = IF isResumed THEN familiar ELSE familiar \cup {Content(n)}
      /\ UNCHANGED <<policy, entry, bytes, version, byPath, byIdentity, clobbered>>
  BY BaselineTypes DEF Observe, Begins, Goes, World
<1>2. /\ b \in Baseline /\ b.resumed = isResumed /\ b.hash = Content(n) /\ <<n>> \in Seq(FName)
      /\ <<n>> # <<>>
  BY <1>1 DEF Baseline
<1> HIDE DEF b
<1>3. /\ s \in JobState /\ s.at = "records" /\ s.todo = <<n>> /\ s.sees = b
      /\ s.armed = job[j].armed /\ s.applied = job[j].applied /\ s.wrote = job[j].wrote
  BY <1>2, JobTypes DEF JobState
<1>4. ~job[j].armed /\ job[j].applied = job[j].wrote
  BY <1>1, JobTypes DEF Fits
<1> HIDE DEF s
<1>5. Fits(s, familiar', bytes, entry)
  BY <1>1, <1>2, <1>3, <1>4 DEF Fits, Under
<1>6. familiar' \in {familiar, familiar \cup {Content(n)}} /\ observed' \in Nat
  BY <1>1
<1>7. familiar' \subseteq Nat /\ familiar \subseteq familiar'
  BY <1>1, <1>6
<1>8. QED
  BY <1>1, <1>3, <1>5, <1>6, <1>7, CallMoves

LEMMA StartWriteKeeps ==
  ASSUME FileInv, NEW j \in Job, NEW n \in FName, StartWrite(j, n)
  PROVE  FileInv'
<1> DEFINE b == BaselineFor(n)
           o == [job[j].original EXCEPT ![n] = b.hash]
           at == IF b = Never THEN "looks" ELSE "checks"
           s == [job[j] EXCEPT !.todo = <<n>>, !.armed = (b # Never),
                               !.original[n] = b.hash, !.at = at]
           r == [job[j] EXCEPT !.todo = <<n>>, !.armed = (b # Never), !.original = o, !.at = at]
           t == Over(job[j], <<>>)
<1>1. b \in Baseline /\ Truthful(b, familiar)
  BY BaselineForTruthful
<1>2. /\ job[j].at = "idle" /\ job[j] \in JobState /\ job[j].original \in [FName -> Nat]
      /\ job' = [job EXCEPT ![j] = IF Refused(b) THEN t ELSE s]
      /\ UNCHANGED <<policy, entry, bytes, version, byPath, byIdentity, observed, familiar, clobbered>>
  BY JobTypes DEF StartWrite, Begins, Goes, World, Guards
<1>3. ~job[j].armed /\ job[j].wrote = <<>> /\ job[j].applied = job[j].wrote
  BY <1>2, JobTypes DEF Fits
<1>4. b.hash \in Nat
  BY <1>1 DEF Baseline
<1>5. s = r
  BY <1>2 DEF JobState
<1>6. observed \in Nat /\ familiar \subseteq Nat
  BY BaselineTypes
<1> HIDE DEF b, s
<1>7. o \in [FName -> Nat] /\ o[n] = b.hash
  BY <1>2, <1>4
<1>8. CASE Refused(b)
  <2>1. t \in JobState /\ Fits(t, familiar, bytes, entry)
    BY <1>3, JobTypes, OverFits
  <2> HIDE DEF t
  <2>2. QED
    BY <1>2, <1>6, <1>8, <2>1, CallMoves
<1>9. CASE ~Refused(b)
  <2> HIDE DEF o
  <2>1. at \in {"looks", "checks"} /\ (at = "looks" <=> b = Never)
    OBVIOUS
  <2> DEFINE arm == b # Never
  <2>2. arm \in BOOLEAN /\ (arm <=> b # Never)
    OBVIOUS
  <2>3. r = [job[j] EXCEPT !.todo = <<n>>, !.armed = arm, !.original = o, !.at = at]
    OBVIOUS
  <2>4. <<n>> \in Seq(FName) /\ <<n>> # <<>> /\ Len(<<n>>) = 1 /\ <<n>>[1] = n
    OBVIOUS
  <2> HIDE DEF at, arm, r
  <2>5. /\ r \in JobState /\ r.at = at /\ r.todo = <<n>> /\ r.armed = arm /\ r.original = o
        /\ r.applied = job[j].applied /\ r.wrote = job[j].wrote
    BY <1>2, <1>7, <2>1, <2>2, <2>3, <2>4 DEF JobState
  <2>6. arm => b.hash \in familiar
    BY <1>1, <1>9, <2>2 DEF Truthful, Refused
  <2>7. Fits(r, familiar, bytes, entry)
    BY <1>3, <1>7, <2>1, <2>2, <2>4, <2>5, <2>6 DEF Fits, Under
  <2>8. QED
    BY <1>2, <1>5, <1>6, <1>9, <2>5, <2>7, CallMoves
<1>10. QED
  BY <1>8, <1>9

LEMMA StartEditKeeps ==
  ASSUME FileInv, NEW j \in Job, NEW ns \in Seq(FName), ns # <<>>, StartEdit(j, ns)
  PROVE  FileInv'
<1> DEFINE o == [n \in FName |-> IF Exists(n) THEN Content(n) ELSE 0]
           s == [job[j] EXCEPT !.at = "checks", !.todo = ns, !.armed = TRUE, !.original = o]
           seen == {Content(ns[k]) : k \in DOMAIN ns}
<1>1. /\ job[j].at = "idle" /\ job' = [job EXCEPT ![j] = s] /\ familiar' = familiar \cup seen
      /\ \A k \in DOMAIN ns : Exists(ns[k])
      /\ UNCHANGED <<policy, entry, bytes, version, byPath, byIdentity, observed, clobbered>>
  BY DEF StartEdit, Begins, Goes, World, Guards
<1>2. \A k \in 1..Len(ns) : ns[k] \in FName /\ k \in DOMAIN ns
  OBVIOUS
<1>3. o \in [FName -> Nat]
  BY BaselineTypes
<1>4. seen \subseteq Nat /\ observed \in Nat /\ familiar \subseteq Nat
  BY <1>1, <1>2, BaselineTypes
<1>5. \A k \in 1..Len(ns) : o[ns[k]] \in familiar'
  BY <1>1, <1>2
<1> HIDE DEF o
<1>6. /\ s \in JobState /\ s.at = "checks" /\ s.todo = ns /\ s.armed = TRUE /\ s.original = o
      /\ s.applied = job[j].applied /\ s.wrote = job[j].wrote
  BY <1>3, JobTypes DEF JobState
<1>7. job[j].applied = job[j].wrote
  BY <1>1, JobTypes DEF Fits
<1> HIDE DEF s, seen
<1>8. Fits(s, familiar', bytes, entry)
  BY <1>5, <1>6, <1>7 DEF Fits, Under
<1>9. QED
  BY <1>1, <1>4, <1>6, <1>8, CallMoves


LEMMA CompareKeeps ==
  ASSUME FileInv, NEW j \in Job, Compare(j)
  PROVE  FileInv'
<1> DEFINE n == Target(j)
           s == [job[j] EXCEPT !.at = "looks", !.expected = entry[n]]
           t == Over(job[j], job[j].applied)
           same == Exists(n) /\ Content(n) = job[j].original[n]
<1>1. /\ job[j].at = "checks" /\ job' = [job EXCEPT ![j] = IF same THEN s ELSE t]
      /\ UNCHANGED <<policy, entry, bytes, version, byPath, byIdentity, observed, familiar, clobbered>>
  BY DEF Compare, Goes, World, Guards
<1>2. Fits(job[j], familiar, bytes, entry)
  BY JobTypes
<1>3. /\ job[j].applied = job[j].wrote /\ job[j].todo # <<>>
      /\ job[j].armed => \A k \in 1..Len(job[j].todo) : job[j].original[job[j].todo[k]] \in familiar
  BY <1>1, <1>2 DEF Fits, Under
<1>4. observed \in Nat /\ familiar \subseteq Nat
  BY BaselineTypes
<1>5. CASE ~same
  <2>1. t \in JobState /\ Fits(t, familiar, bytes, entry)
    BY <1>3, JobTypes, OverFits
  <2> HIDE DEF t, s, same
  <2>2. QED
    BY <1>1, <1>4, <1>5, <2>1, CallMoves
<1>6. CASE same
  <2>1. n \in FName /\ n = Head(job[j].todo)
    BY <1>3, JobTypes DEF Target
  <2>2. entry[n] \in Inode /\ bytes[entry[n]] = job[j].original[n]
    BY <1>6, <2>1, BaselineTypes DEF Content
  <2>3. /\ s \in JobState /\ s.at = "looks" /\ s.expected = entry[n] /\ s.todo = job[j].todo
        /\ s.armed = job[j].armed /\ s.original = job[j].original
        /\ s.applied = job[j].applied /\ s.wrote = job[j].wrote
    BY <2>2, JobTypes DEF JobState
  <2> HIDE DEF s, n
  <2>4. Fits(s, familiar, bytes, entry)
    BY <1>3, <2>1, <2>2, <2>3 DEF Fits, Under
  <2> HIDE DEF same
  <2>5. QED
    BY <1>1, <1>4, <1>6, <2>3, <2>4, CallMoves
<1>7. QED
  BY <1>5, <1>6

LEMMA LookKeeps ==
  ASSUME FileInv, NEW j \in Job, Look(j)
  PROVE  FileInv'
<1> DEFINE s == [job[j] EXCEPT !.at = "renames"]
           t == Over(job[j], job[j].applied)
<1>1. /\ job[j].at = "looks" /\ job' = [job EXCEPT ![j] = IF Same(j) THEN s ELSE t]
      /\ UNCHANGED <<policy, entry, bytes, version, byPath, byIdentity, observed, familiar, clobbered>>
  BY DEF Look, Goes, World, Guards
<1>2. Fits(job[j], familiar, bytes, entry)
  BY JobTypes
<1>3. job[j].applied = job[j].wrote
  BY <1>1, <1>2 DEF Fits
<1>4. observed \in Nat /\ familiar \subseteq Nat
  BY BaselineTypes
<1>5. CASE ~Same(j)
  <2>1. t \in JobState /\ Fits(t, familiar, bytes, entry)
    BY <1>3, JobTypes, OverFits
  <2> HIDE DEF t, s
  <2>2. QED
    BY <1>1, <1>4, <1>5, <2>1, CallMoves
<1>6. CASE Same(j)
  <2>1. /\ s \in JobState /\ s.at = "renames" /\ s.expected = job[j].expected
        /\ s.todo = job[j].todo /\ s.armed = job[j].armed /\ s.original = job[j].original
        /\ s.applied = job[j].applied /\ s.wrote = job[j].wrote
    BY JobTypes DEF JobState
  <2>2. job[j].armed => entry[Head(job[j].todo)] = job[j].expected
    BY <1>6 DEF Same, Target
  <2> HIDE DEF s
  <2>3. Fits(s, familiar, bytes, entry)
    BY <1>1, <1>2, <2>1, <2>2 DEF Fits, Under
  <2> HIDE DEF t
  <2>4. QED
    BY <1>1, <1>4, <1>6, <2>1, <2>3, CallMoves
<1>7. QED
  BY <1>5, <1>6

LEMMA WriteFailsKeeps ==
  ASSUME FileInv, NEW j \in Job, WriteFails(j)
  PROVE  FileInv'
<1> DEFINE t == Over(job[j], job[j].applied)
<1>1. /\ job[j].at \in {"checks", "looks", "renames"} /\ job' = [job EXCEPT ![j] = t]
      /\ UNCHANGED <<policy, entry, bytes, version, byPath, byIdentity, observed, familiar, clobbered>>
  BY DEF WriteFails, Report, Goes, World, Guards
<1>2. job[j].applied = job[j].wrote
  BY <1>1, JobTypes DEF Fits
<1>3. observed \in Nat /\ familiar \subseteq Nat
  BY BaselineTypes
<1>4. t \in JobState /\ Fits(t, familiar, bytes, entry)
  BY <1>2, JobTypes, OverFits
<1> HIDE DEF t
<1>5. QED
  BY <1>1, <1>3, <1>4, CallMoves

\* A name that gets another inode gets one that nobody expects.
LEMMA ReplacesKeeps ==
  ASSUME FileInv, NEW n \in FName, NEW i \in SpareInodes, Replaces(n, i)
  PROVE  /\ i \in Inode /\ version \in Nat /\ version' = version + 1 /\ policy' = policy
         /\ entry' = [entry EXCEPT ![n] = i] /\ bytes' = [bytes EXCEPT ![i] = version + 1]
         /\ entry' \in [FName -> Inode \cup {NoInode}] /\ bytes' \in [Inode -> Nat]
         /\ version' \in 1..MaxVersion
         /\ \A k \in Job : job[k].expected \in Inode
                           => bytes'[job[k].expected] = bytes[job[k].expected]
         /\ \A m \in FName \ {n} : entry'[m] = entry[m]
<1>1. /\ i \in Inode /\ \A k \in Job : job[k].expected # i
  BY DEF SpareInodes
<1>2. /\ entry \in [FName -> Inode \cup {NoInode}] /\ bytes \in [Inode -> Nat]
      /\ version \in 1..MaxVersion /\ MaxVersion \in Nat
  BY FileAssumption DEF FileInv, FileTypeOK
<1>3. /\ entry' = [entry EXCEPT ![n] = i] /\ bytes' = [bytes EXCEPT ![i] = version + 1]
      /\ version' = version + 1 /\ version < MaxVersion /\ policy' = policy
  BY DEF Replaces
<1>4. QED
  BY <1>1, <1>2, <1>3

LEMMA RenameKeeps ==
  ASSUME FileInv, NEW j \in Job, Rename(j)
  PROVE  FileInv'
<1> DEFINE n == Target(j)
           b == [Never EXCEPT !.hash = version + 1]
           a == Append(job[j].applied, n)
           w == Append(job[j].wrote, n)
           s == [job[j] EXCEPT !.at = "records", !.applied = a, !.expected = NoInode,
                               !.wrote = w, !.sees = b]
<1>1. Fits(job[j], familiar, bytes, entry) /\ job[j].at = "renames"
  BY JobTypes DEF Rename
<1>2. /\ job[j].todo # <<>> /\ job[j].applied = job[j].wrote
      /\ job[j].armed =>
           /\ \A k \in 1..Len(job[j].todo) : job[j].original[job[j].todo[k]] \in familiar
           /\ bytes[job[j].expected] = job[j].original[Head(job[j].todo)]
           /\ entry[Head(job[j].todo)] = job[j].expected
  BY <1>1 DEF Fits, Under
<1>3. n \in FName /\ n = Head(job[j].todo) /\ 1 \in 1..Len(job[j].todo) /\ n = job[j].todo[1]
  BY <1>2, JobTypes DEF Target
<1>4. /\ familiar' = familiar \cup {version + 1}
      /\ clobbered' = IF job[j].armed THEN clobbered \cup (Lost(n) \ familiar) ELSE clobbered
      /\ \A k \in Job \ {j} : job[k].at = "renames" => Target(k) # n
      /\ UNCHANGED <<byPath, byIdentity, observed>>
  BY DEF Rename, Guards, Unwatched
<1>5. job' = [job EXCEPT ![j] = s]
  <2>1. job[j] \in JobState
    BY JobTypes
  <2>2. job' = [job EXCEPT ![j] = [job[j] EXCEPT !.at = "records", !.applied = Append(@, n),
                  !.expected = NoInode, !.wrote = Append(@, n), !.sees = b]]
    BY DEF Rename, Goes
  <2>3. [job[j] EXCEPT !.at = "records", !.applied = Append(@, n), !.expected = NoInode,
                       !.wrote = Append(@, n), !.sees = b] = s
    OBVIOUS
  <2>4. QED
    BY <2>2, <2>3
<1>6. PICK i \in SpareInodes : Replaces(n, i)
  BY DEF Rename
<1> HIDE DEF n
<1>7. /\ version \in Nat /\ version' \in 1..MaxVersion /\ policy' = policy
      /\ entry' \in [FName -> Inode \cup {NoInode}] /\ bytes' \in [Inode -> Nat]
      /\ \A k \in Job : job[k].expected \in Inode
                        => bytes'[job[k].expected] = bytes[job[k].expected]
      /\ \A m \in FName \ {n} : entry'[m] = entry[m]
  BY <1>3, <1>6, ReplacesKeeps
<1>8. clobbered' = {}
  <2>1. clobbered = {}
    BY DEF FileInv
  <2>2. job[j].armed => Lost(n) \subseteq familiar
    BY <1>2, <1>3 DEF Lost, Content
  <2>3. QED
    BY <1>4, <2>1, <2>2
<1>9. b \in Baseline /\ b.hash = version + 1
  <2> DEFINE v == version + 1
  <2>1. v \in Nat /\ v = version + 1
    BY <1>7
  <2> HIDE DEF v
  <2>2. [Never EXCEPT !.hash = v] \in Baseline /\ [Never EXCEPT !.hash = v].hash = v
    BY <2>1 DEF Never, Baseline
  <2>3. QED
    BY <2>1, <2>2
<1>10. a \in Seq(FName) /\ w \in Seq(FName) /\ a = w
  BY <1>2, <1>3, JobTypes
<1> HIDE DEF b, a, w
<1>11. /\ s \in JobState /\ s.at = "records" /\ s.todo = job[j].todo /\ s.armed = job[j].armed
       /\ s.original = job[j].original /\ s.applied = a /\ s.wrote = w /\ s.sees = b
  BY <1>9, <1>10, JobTypes DEF JobState
<1> HIDE DEF s
<1>12. familiar \subseteq familiar' /\ version + 1 \in familiar'
  BY <1>4
<1>13. Fits(s, familiar', bytes', entry')
  BY <1>2, <1>9, <1>10, <1>11, <1>12 DEF Fits, Under
<1>14. ASSUME NEW k \in Job \ {j}, job[k].at = "renames" PROVE entry'[Target(k)] = entry[Target(k)]
  <2>1. job[k].todo # <<>> /\ job[k].todo \in Seq(FName)
    BY <1>14, JobTypes DEF Fits, Under
  <2>2. Target(k) \in FName
    BY <2>1 DEF Target
  <2>3. QED
    BY <1>4, <1>7, <1>14, <2>2
<1>15. JobsFit' /\ job' \in [Job -> JobState]
  BY <1>5, <1>7, <1>11, <1>12, <1>13, <1>14, OneMoves
<1>16. FileTypeOK'
  <2>1. familiar' \subseteq Nat
    BY <1>4, <1>7, BaselineTypes
  <2>2. QED
    BY <1>4, <1>7, <1>8, <1>15, <2>1 DEF FileInv, FileTypeOK
<1>17. Baselines'
  BY <1>4, <1>12 DEF FileInv, Baselines, Truthful
<1>18. QED
  BY <1>8, <1>15, <1>16, <1>17 DEF FileInv


LEMMA NewerTruthful ==
  ASSUME NEW b \in Baseline, NEW c \in Baseline, NEW seen, Truthful(b, seen), Truthful(c, seen)
  PROVE  Newer(b, c) \in Baseline /\ Truthful(Newer(b, c), seen)
BY DEF Newer

LEMMA RecordKeeps ==
  ASSUME FileInv, NEW j \in Job, Record(j)
  PROVE  FileInv'
<1> DEFINE n == Target(j)
           sees == job[j].sees
           b == IF sees.observed = 0 THEN [sees EXCEPT !.observed = observed + 1] ELSE sees
           rest == Tail(job[j].todo)
           s == [job[j] EXCEPT !.at = "checks", !.todo = rest]
           t == Over(job[j], job[j].wrote)
<1>1. /\ job[j].at = "records" /\ RecordBaseline(n, b)
      /\ observed' = IF sees.observed = 0 THEN observed + 1 ELSE observed
      /\ job' = [job EXCEPT ![j] = IF Len(job[j].todo) = 1 THEN t ELSE s]
      /\ UNCHANGED <<policy, entry, bytes, version, familiar, clobbered>>
  BY DEF Record, Goes, World
<1>2. Fits(job[j], familiar, bytes, entry)
  BY JobTypes
<1>3. /\ job[j].applied = job[j].wrote /\ job[j].todo # <<>>
      /\ job[j].armed => \A k \in 1..Len(job[j].todo) : job[j].original[job[j].todo[k]] \in familiar
      /\ sees.resumed \/ sees.hash \in familiar
  BY <1>1, <1>2 DEF Fits, Under
<1>4. n \in FName /\ sees \in Baseline /\ observed \in Nat
  BY <1>3, JobTypes, BaselineTypes DEF Target
<1>5. b \in Baseline /\ Truthful(b, familiar)
  <2>1. b.resumed = sees.resumed /\ b.hash = sees.hash /\ b \in Baseline
    BY <1>4 DEF Baseline
  <2>2. QED
    BY <1>3, <2>1 DEF Truthful
<1>6. observed' \in Nat
  BY <1>1, <1>4
<1> HIDE DEF n, b, sees
<1>7. /\ byPath' \in [FName -> Baseline] /\ \A m \in FName : Truthful(byPath'[m], familiar)
  <2>1. Newer(byPath[n], b) \in Baseline /\ Truthful(Newer(byPath[n], b), familiar)
    BY <1>4, <1>5, BaselineTypes, NewerTruthful
  <2>2. byPath' = [byPath EXCEPT ![n] = Newer(byPath[n], b)]
    BY <1>1 DEF RecordBaseline
  <2>3. byPath \in [FName -> Baseline]
    BY DEF FileInv, FileTypeOK
  <2>4. QED
    BY <1>4, <2>1, <2>2, <2>3, BaselineTypes
<1>8. /\ byIdentity' \in [Inode -> Baseline]
      /\ \A i \in Inode : Truthful(byIdentity'[i], familiar)
  <2>1. byIdentity \in [Inode -> Baseline]
    BY DEF FileInv, FileTypeOK
  <2>2. CASE policy = "Unrestricted" /\ Exists(n)
    <3>1. entry[n] \in Inode
      BY <1>4, <2>2, BaselineTypes
    <3>2. Newer(byIdentity[entry[n]], b) \in Baseline
          /\ Truthful(Newer(byIdentity[entry[n]], b), familiar)
      BY <1>5, <3>1, BaselineTypes, NewerTruthful
    <3>3. byIdentity' = [byIdentity EXCEPT ![entry[n]] = Newer(byIdentity[entry[n]], b)]
      BY <1>1, <2>2 DEF RecordBaseline
    <3>4. QED
      BY <2>1, <3>1, <3>2, <3>3, BaselineTypes
  <2>3. CASE ~(policy = "Unrestricted" /\ Exists(n))
    <3>1. byIdentity' = byIdentity
      BY <1>1, <2>3 DEF RecordBaseline
    <3>2. QED
      BY <2>1, <3>1, BaselineTypes
  <2>4. QED
    BY <2>2, <2>3
<1>9. JobsFit' /\ job' \in [Job -> JobState]
  <2>1. CASE Len(job[j].todo) = 1
    <3>1. t \in JobState /\ Fits(t, familiar, bytes, entry)
      BY JobTypes, OverFits
    <3> HIDE DEF t, s
    <3>2. QED
      BY <1>1, <2>1, <3>1, OneMoves
  <2>2. CASE Len(job[j].todo) # 1
    <3>1. /\ rest \in Seq(FName) /\ rest # <<>> /\ Len(job[j].todo) \in Nat
          /\ \A k \in 1..Len(rest) : k + 1 \in 1..Len(job[j].todo) /\ rest[k] = job[j].todo[k + 1]
      <4>1. job[j].todo \in Seq(FName)
        BY JobTypes
      <4>2. Len(rest) = Len(job[j].todo) - 1 /\ rest \in Seq(FName)
            /\ \A k \in 1..Len(rest) : rest[k] = job[j].todo[k + 1]
        BY <1>3, <4>1, HeadTailProperties
      <4>3. Len(job[j].todo) \in Nat /\ Len(job[j].todo) # 0
        BY <1>3, <4>1, EmptySeq
      <4> HIDE DEF rest
      <4>4. rest # <<>>
        <5>1. Len(rest) # 0
          BY <2>2, <4>2, <4>3
        <5>2. Len(<<>>) = 0
          OBVIOUS
        <5>3. QED
          BY <5>1, <5>2
      <4>5. QED
        BY <4>2, <4>3, <4>4
    <3> HIDE DEF rest
    <3>2. /\ s \in JobState /\ s.at = "checks" /\ s.todo = rest /\ s.armed = job[j].armed
          /\ s.original = job[j].original /\ s.applied = job[j].applied /\ s.wrote = job[j].wrote
      BY <3>1, JobTypes DEF JobState
    <3>3. job[j].armed => \A k \in 1..Len(rest) : job[j].original[rest[k]] \in familiar
      BY <1>3, <3>1
    <3> HIDE DEF s, t
    <3>4. Fits(s, familiar, bytes, entry)
      BY <1>3, <3>1, <3>2, <3>3 DEF Fits, Under
    <3>5. QED
      BY <1>1, <2>2, <3>2, <3>4, OneMoves
  <2>3. QED
    BY <2>1, <2>2
<1>10. FileTypeOK' /\ Baselines'
  BY <1>1, <1>6, <1>7, <1>8, <1>9 DEF FileInv, FileTypeOK, Baselines
<1>11. QED
  BY <1>1, <1>9, <1>10 DEF FileInv

\* What an editor does is nothing a call relies on.
LEMMA OutsideKeeps ==
  ASSUME FileInv, UNCHANGED Outside, policy' = policy,
         entry' \in [FName -> Inode \cup {NoInode}], bytes' \in [Inode -> Nat],
         version' \in 1..MaxVersion,
         \A k \in Job :
            /\ job[k].expected \in Inode => bytes'[job[k].expected] = bytes[job[k].expected]
            /\ job[k].at = "renames" => entry'[Target(k)] = entry[Target(k)]
  PROVE  FileInv'
<1>1. JobsFit'
  <2> SUFFICES ASSUME NEW k \in Job PROVE Fits(job[k], familiar, bytes', entry')
    BY DEF JobsFit, Outside
  <2>1. Fits(job[k], familiar, bytes, entry)
    BY JobTypes
  <2>2. QED
    BY <2>1, FitsOn DEF Target
<1>2. FileTypeOK' /\ Baselines' /\ clobbered' = {}
  BY DEF FileInv, FileTypeOK, Baselines, Outside, Guards
<1>3. QED
  BY <1>1, <1>2 DEF FileInv

\* The name a call renames to is a name.
LEMMA TargetType ==
  ASSUME FileInv, NEW k \in Job, job[k].at = "renames" PROVE Target(k) \in FName
<1>1. job[k].todo # <<>> /\ job[k].todo \in Seq(FName)
  BY JobTypes DEF Fits, Under
<1>2. QED
  BY <1>1 DEF Target

LEMMA EditInPlaceKeeps ==
  ASSUME FileInv, NEW i \in Inode, EditInPlace(i) PROVE FileInv'
<1>1. /\ bytes \in [Inode -> Nat] /\ version \in 1..MaxVersion /\ MaxVersion \in Nat
      /\ entry \in [FName -> Inode \cup {NoInode}]
  BY FileAssumption DEF FileInv, FileTypeOK
<1>2. /\ bytes' = [bytes EXCEPT ![i] = version + 1] /\ version' = version + 1
      /\ version < MaxVersion /\ \A k \in Job : job[k].expected # i
      /\ UNCHANGED <<policy, entry, Outside>>
  BY DEF EditInPlace
<1>3. bytes' \in [Inode -> Nat] /\ version' \in 1..MaxVersion
  BY <1>1, <1>2
<1>4. QED
  BY <1>1, <1>2, <1>3, OutsideKeeps

LEMMA EditBySwapKeeps ==
  ASSUME FileInv, NEW n \in FName, EditBySwap(n) PROVE FileInv'
<1>1. PICK i \in SpareInodes : Replaces(n, i)
  BY DEF EditBySwap
<1>2. UNCHANGED Outside /\ \A k \in Job : job[k].at = "renames" => Target(k) # n
  BY DEF EditBySwap, Unwatched
<1>3. \A k \in Job : job[k].at = "renames" => entry'[Target(k)] = entry[Target(k)]
  BY <1>1, <1>2, ReplacesKeeps, TargetType
<1>4. QED
  BY <1>1, <1>2, <1>3, ReplacesKeeps, OutsideKeeps

LEMMA RemoveKeeps ==
  ASSUME FileInv, NEW n \in FName, Remove(n) PROVE FileInv'
<1>1. /\ entry \in [FName -> Inode \cup {NoInode}] /\ bytes \in [Inode -> Nat]
      /\ version \in 1..MaxVersion
  BY DEF FileInv, FileTypeOK
<1>2. /\ entry' = [entry EXCEPT ![n] = NoInode] /\ UNCHANGED <<policy, bytes, version, Outside>>
      /\ \A k \in Job : job[k].at = "renames" => Target(k) # n
  BY DEF Remove, Unwatched
<1>3. \A k \in Job : job[k].at = "renames" => entry'[Target(k)] = entry[Target(k)]
  BY <1>1, <1>2, TargetType
<1>4. entry' \in [FName -> Inode \cup {NoInode}]
  BY <1>1, <1>2
<1>5. QED
  BY <1>1, <1>2, <1>3, <1>4, OutsideKeeps

LEMMA FilesBegin == FileInit => FileInv
<1> SUFFICES ASSUME FileInit PROVE FileInv
  OBVIOUS
<1> DEFINE i == CHOOSE i \in Inode : TRUE
<1>1. i \in Inode
  BY FileAssumption
<1> HIDE DEF i
<1>2. /\ entry = [n \in FName |-> i] /\ bytes = [k \in Inode |-> IF k = i THEN 1 ELSE 0]
      /\ byPath = [n \in FName |-> Never] /\ byIdentity = [k \in Inode |-> Never]
      /\ job = [j \in Job |-> NewJob] /\ familiar = {} /\ clobbered = {}
      /\ policy \in Policies /\ version = 1 /\ observed = 0
  BY DEF FileInit, i
<1>3. Never \in Baseline
  BY DEF Never, Baseline
<1>4. FileTypeOK
  BY <1>1, <1>2, <1>3, NewJobType, FileAssumption DEF FileTypeOK
<1>5. Baselines
  BY <1>2 DEF Baselines, Truthful
<1>6. Fits(NewJob, familiar, bytes, entry)
  BY DEF Fits, Under, NewJob
<1>7. QED
  BY <1>2, <1>4, <1>5, <1>6 DEF FileInv, JobsFit

LEMMA FilesNext == FileInv /\ [FileNext]_fileVars => FileInv'
<1> SUFFICES ASSUME FileInv, [FileNext]_fileVars PROVE FileInv'
  OBVIOUS
<1>1. CASE UNCHANGED fileVars
  BY <1>1 DEF fileVars, FileInv, FileTypeOK, Baselines, Truthful, JobsFit
<1>2. ASSUME NEW j \in Job, NEW n \in FName,
             Observe(j, n, FALSE) \/ Observe(j, n, TRUE) \/ StartWrite(j, n) \/ StartEdit(j, <<n>>)
      PROVE  FileInv'
  <2>1. <<n>> \in Seq(FName) /\ <<n>> # <<>>
    OBVIOUS
  <2>2. QED
    BY <1>2, <2>1, ObserveKeeps, StartWriteKeeps, StartEditKeeps
<1>3. ASSUME NEW j \in Job, NEW ns \in Edits, StartEdit(j, ns) PROVE FileInv'
  <2>1. ns \in Seq(FName) /\ ns # <<>>
    BY FileAssumption
  <2>2. QED
    BY <1>3, <2>1, StartEditKeeps
<1>4. ASSUME NEW j \in Job, Compare(j) \/ Look(j) \/ WriteFails(j) \/ Rename(j) \/ Record(j)
      PROVE  FileInv'
  BY <1>4, CompareKeeps, LookKeeps, WriteFailsKeeps, RenameKeeps, RecordKeeps
<1>5. ASSUME NEW i \in Inode, EditInPlace(i) PROVE FileInv'
  BY <1>5, EditInPlaceKeeps
<1>6. ASSUME NEW n \in FName, EditBySwap(n) \/ Remove(n) PROVE FileInv'
  BY <1>6, EditBySwapKeeps, RemoveKeeps
<1>7. QED
  BY <1>1, <1>2, <1>3, <1>4, <1>5, <1>6 DEF FileNext

LEMMA FilesAlways == FileSpec => []FileInv
BY FilesBegin, FilesNext, PTL DEF FileSpec

\* Names, inodes, baselines and calls keep their types, for any batches of edits.
THEOREM FileTypeCorrect == FileSpec => []FileTypeOK
<1>1. FileInv => FileTypeOK
  BY DEF FileInv
<1>2. QED
  BY <1>1, FilesAlways, PTL

\* Outside the documented gaps an armed write destroys nothing the model has not seen,
\* whatever an editor puts in place of a file and through whatever hard link another
\* call writes it; and a batch that ends early reports just the files it has written.
THEOREM NothingUnseenIsEverClobbered == FileSpec => []NothingUnseenIsClobbered
<1>1. FileInv => NothingUnseenIsClobbered
  BY JobTypes DEF FileInv, NothingUnseenIsClobbered, Fits
<1>2. QED
  BY <1>1, FilesAlways, PTL

-----------------------------------------------------------------------------
(* The memory store.  Every handle's store is the file's, or that of a link    *)
(* which still has its key and is no one else's; and as long as no lapse has   *)
(* happened, every store that leads to the file holds nothing the file has     *)
(* not, and all that was stored if it has read the file.                       *)

Registry == [key : [Spelling -> Cell \cup {NoCell}], current : [Cell -> Cell],
             inner : [Cell -> Inner]]
InnerIn(m, c) == m.inner[m.current[c]]

\* W: the links that resolve.  A store that leads nowhere yet is empty.
ToFile(s, W) == s = real \/ s \in W
Settled(m, c, W) ==
  LET i == InnerIn(m, c) IN
  \/ i.path = real
  \/ /\ i.path \in Link /\ m.key[i.path] = c /\ m.current[c] = c /\ i.fallback
     /\ i.path \in W \/ i.held = {}

RegistrySound(m, cl, W) ==
  /\ \A s \in Spelling : m.key[s] # NoCell => \E h \in Handle : cl[h] = m.key[s]
  /\ m.key[real] # NoCell => InnerIn(m, m.key[real]).path = real
  /\ \A l \in Link : m.key[l] \notin {NoCell, m.key[real]} => InnerIn(m, m.key[l]).path = l
  /\ \A h \in Handle : cl[h] # NoCell => Settled(m, cl[h], W)

\* K: what the hosts were told is stored.
InnerSound(i, f, K) == /\ i.held \subseteq Decoded(f)
                       /\ ~i.fallback => K \subseteq i.held /\ (f.tail # NoTail => i.latched)
StoreSound(m, cl, W, f, K) ==
  \A h \in Handle : cl[h] # NoCell /\ ToFile(InnerIn(m, cl[h]).path, W)
                    => InnerSound(InnerIn(m, cl[h]), f, K)

DiskSound(f, o, K, H) == /\ \A g \in {f} \cup o : ~g.welded /\ H \subseteq g.synced
                         /\ H \subseteq K /\ K \subseteq Decoded(f)

MemoryInv ==
  /\ MemoryTypeOK /\ RegistrySound(stores, cell, healed)
  /\ lapses = {} => /\ StoreSound(stores, cell, healed, file, kept)
                    /\ DiskSound(file, older, kept, hard)
  /\ \A h \in Handle : busy[h] # "no" => cell[h] # NoCell

-----------------------------------------------------------------------------
(* The registry. *)

LEMMA Names == real \in Spelling /\ Link \subseteq Spelling /\ real \notin Link /\ NoCell \notin Cell
BY SpellingAssumption, CellAssumption DEF Spelling

\* What a key or a handle names is a cell, and its Inner is typed.
LEMMA CellsTyped ==
  ASSUME NEW m \in Registry
  PROVE  /\ \A s \in Spelling : m.key[s] # NoCell => m.key[s] \in Cell
         /\ \A c \in Cell : m.current[c] \in Cell /\ InnerIn(m, c) \in Inner
BY DEF Registry, InnerIn

\* The parts of the invariant that the lemmas below start from.
LEMMA Parts ==
  ASSUME MemoryInv
  PROVE  /\ stores \in Registry /\ RegistrySound(stores, cell, healed)
         /\ cell \in [Handle -> Cell \cup {NoCell}] /\ healed \subseteq Link
         /\ file \in File /\ older \subseteq File /\ Decoded(file) \in SUBSET Entry
         /\ unstored \in SUBSET Entry /\ kept \in SUBSET Entry /\ hard \in SUBSET Entry
         /\ busy \in [Handle -> {"no", "store", "flush", "consolidate"}]
         /\ lapses \in SUBSET Lapse
         /\ lapses = {} => /\ StoreSound(stores, cell, healed, file, kept)
                           /\ DiskSound(file, older, kept, hard)
         /\ \A h \in Handle : busy[h] # "no" => cell[h] # NoCell
         /\ \A h \in Handle : cell[h] # NoCell => cell[h] \in Cell /\ Settled(stores, cell[h], healed)
<1>1. Decoded(file) \in SUBSET Entry
  BY DEF MemoryInv, MemoryTypeOK, File, Decoded
<1>2. QED
  BY <1>1 DEF MemoryInv, MemoryTypeOK, Registry, RegistrySound

\* And what they end with.
LEMMA Whole ==
  ASSUME stores' \in Registry, RegistrySound(stores', cell', healed'),
         cell' \in [Handle -> Cell \cup {NoCell}], healed' \subseteq Link,
         file' \in File, older' \subseteq File,
         unstored' \in SUBSET Entry, kept' \in SUBSET Entry, hard' \in SUBSET Entry,
         busy' \in [Handle -> {"no", "store", "flush", "consolidate"}], lapses' \in SUBSET Lapse,
         lapses' = {} => /\ StoreSound(stores', cell', healed', file', kept')
                         /\ DiskSound(file', older', kept', hard'),
         \A h \in Handle : busy'[h] # "no" => cell'[h] # NoCell
  PROVE  MemoryInv'
BY DEF MemoryInv, MemoryTypeOK, Registry

\* A sound store stays so while the file loses nothing and what is kept does not grow.
LEMMA SoundLonger ==
  ASSUME NEW m, NEW cl, NEW W, NEW f, NEW K, NEW g, NEW J, StoreSound(m, cl, W, f, K),
         Decoded(f) \subseteq Decoded(g), J \subseteq K, g.tail # NoTail => f.tail # NoTail
  PROVE  StoreSound(m, cl, W, g, J)
BY DEF StoreSound, InnerSound

\* What an operation makes of the registry is sound.
LEMMA MigrationSound ==
  ASSUME MemoryInv, NEW m \in Migrations
  PROVE  /\ m \in Registry /\ RegistrySound(m, cell, healed)
         /\ lapses = {} => StoreSound(m, cell, healed, file, kept)
<1>0. /\ stores \in Registry /\ RegistrySound(stores, cell, healed) /\ healed \subseteq Link
      /\ lapses = {} => StoreSound(stores, cell, healed, file, kept)
      /\ \A h \in Handle : cell[h] # NoCell => cell[h] \in Cell /\ Settled(stores, cell[h], healed)
      /\ Decoded(file) \in SUBSET Entry
  BY Parts
<1>1. CASE Strays = {}
  BY <1>0, <1>1 DEF Migrations
<1>2. CASE Strays # {}
  <2>1. PICK t \in Owners : m = Migrated(t)
    BY <1>2 DEF Migrations
  <2> DEFINE i == stores.current[t]
             stale == {stores.key[l] : l \in Strays} \ {t}
             both == {stores.current[c] : c \in stale \cup {t}}
             union == UNION {stores.inner[j].held : j \in both}
             Held == IF stale = {} \/ file.welded THEN union ELSE union \cup Decoded(file)
  <2>2. /\ Strays \subseteq healed /\ Strays \subseteq Link
        /\ \A l \in Strays : /\ stores.key[l] # NoCell /\ stores.key[l] \in Cell
                            /\ InnerIn(stores, stores.key[l]).fallback
    BY <1>0, CellsTyped, Names DEF Strays, InnerIn
  <2>3. /\ stores.key[real] # NoCell => t = stores.key[real]
        /\ stores.key[real] = NoCell => \E l \in Strays : t = stores.key[l]
        /\ t \in Cell /\ t # NoCell /\ i \in Cell
    BY <1>0, <2>2, CellsTyped, Names DEF Owners
  <2>4. /\ m.key = [s \in Spelling |->
                  IF s = real THEN t
                  ELSE IF s \in Strays
                    THEN IF stores.key[s] = t /\ stores.key[real] = NoCell THEN NoCell ELSE t
                    ELSE stores.key[s]]
        /\ m.current = [c \in Cell |-> IF c \in stale THEN stores.current[t] ELSE stores.current[c]]
        /\ m.inner = [stores.inner EXCEPT ![i] =
                    [path |-> real, fallback |-> @.fallback, held |-> Held,
                     latched |-> \E j \in both : stores.inner[j].latched]]
        /\ DOMAIN m = {"key", "current", "inner"}
        /\ m = [key |-> m.key, current |-> m.current, inner |-> m.inner]
    BY <2>1 DEF Migrated
  <2>5. stale \subseteq Cell /\ t \notin stale /\ both \subseteq Cell /\ i \in both
    BY <1>0, <2>2, <2>3, CellsTyped
  <2>6. /\ stores.inner \in [Cell -> Inner] /\ stores.current \in [Cell -> Cell]
        /\ stores.key \in [Spelling -> Cell \cup {NoCell}]
    BY <1>0 DEF Registry
  <2>7. Held \subseteq Entry
    <3>1. \A j \in both : stores.inner[j].held \subseteq Entry
      BY <2>5, <2>6 DEF Inner
    <3>2. union \subseteq Entry
      BY <3>1
    <3>3. QED
      BY <1>0, <3>2
  <2> HIDE DEF i, stale, both, Held
  <2>8. /\ m.key[real] = t /\ m.current[t] = i
        /\ \A l \in Link : m.key[l] = IF l \in Strays THEN IF stores.key[l] = t /\ stores.key[real] = NoCell
                                                           THEN NoCell ELSE t
                                      ELSE stores.key[l]
        /\ \A c \in Cell : m.current[c] = IF c \in stale THEN i ELSE stores.current[c]
        /\ \A j \in Cell : j # i => m.inner[j] = stores.inner[j]
    BY <2>3, <2>4, <2>5, <2>6, Names DEF i
  <2>9. /\ m.inner[i].path = real /\ m.inner[i].fallback = stores.inner[i].fallback
        /\ m.inner[i].held = Held
        /\ m.inner[i].latched = (\E j \in both : stores.inner[j].latched)
    <3> DEFINE r == [path |-> real, fallback |-> stores.inner[i].fallback, held |-> Held,
                     latched |-> \E j \in both : stores.inner[j].latched]
    <3>1. m.inner[i] = r
      BY <2>3, <2>4, <2>6
    <3>2. QED
      BY <3>1
  <2>10. m \in Registry
    <3>1. m.key \in [Spelling -> Cell \cup {NoCell}]
      BY <2>3, <2>4, <2>6
    <3>2. m.current \in [Cell -> Cell]
      BY <2>3, <2>4, <2>6
    <3>3. m.inner \in [Cell -> Inner]
      <4>1. [path |-> real, fallback |-> stores.inner[i].fallback, held |-> Held,
             latched |-> \E j \in both : stores.inner[j].latched] \in Inner
        BY <2>3, <2>6, <2>7, Names DEF Inner
      <4>2. QED
        BY <4>1, <2>3, <2>4, <2>6
    <3>4. QED
      BY <3>1, <3>2, <3>3, <2>4 DEF Registry
  \* who is gathered has a handle, and leads to the file
  <2>11. \A l \in Strays : /\ \E h \in Handle : cell[h] = stores.key[l]
                           /\ ToFile(InnerIn(stores, stores.key[l]).path, healed)
    BY <1>0, <2>2, Names DEF RegistrySound, ToFile
  <2>12. \A c \in stale \cup {t} : /\ c \in Cell /\ c # NoCell /\ \E h \in Handle : cell[h] = c
                                   /\ ToFile(InnerIn(stores, c).path, healed)
    <3>1. ASSUME NEW c \in stale PROVE \E l \in Strays : c = stores.key[l]
      BY DEF stale
    <3>2. stores.key[real] # NoCell => /\ \E h \in Handle : cell[h] = t
                                       /\ ToFile(InnerIn(stores, t).path, healed)
      BY <1>0, <2>3, Names DEF RegistrySound, ToFile
    <3>3. QED
      BY <2>3, <2>5, <2>11, <3>1, <3>2, Names
  <2>13. \A h \in Handle : cell[h] # NoCell =>
           \/ InnerIn(m, cell[h]) = m.inner[i]
           \/ /\ InnerIn(m, cell[h]) = InnerIn(stores, cell[h])
              /\ m.current[cell[h]] = stores.current[cell[h]]
    BY <1>0, <2>6, <2>8 DEF InnerIn
  \* a link that leads nowhere is left alone
  <2>14. ASSUME NEW h \in Handle, cell[h] # NoCell, InnerIn(stores, cell[h]).path \notin healed \cup {real}
         PROVE  /\ m.current[cell[h]] = stores.current[cell[h]]
                /\ InnerIn(m, cell[h]) = InnerIn(stores, cell[h])
    <3>1. cell[h] \in Cell /\ cell[h] \notin stale \cup {t}
      BY <1>0, <2>12, <2>14 DEF ToFile
    <3>2. stores.current[cell[h]] # i
      BY <2>12, <2>14 DEF ToFile, InnerIn, i
    <3>3. QED
      BY <2>6, <2>8, <3>1, <3>2 DEF InnerIn
  <2>15. \A h \in Handle : cell[h] # NoCell => Settled(m, cell[h], healed)
    <3> SUFFICES ASSUME NEW h \in Handle, cell[h] # NoCell PROVE Settled(m, cell[h], healed)
      OBVIOUS
    <3>1. CASE InnerIn(stores, cell[h]).path = real
      BY <2>9, <2>13, <3>1 DEF Settled
    <3>2. CASE InnerIn(stores, cell[h]).path \in healed
      <4>1. stores.key[InnerIn(stores, cell[h]).path] = cell[h] /\ InnerIn(stores, cell[h]).fallback
        BY <1>0, <3>2, Names DEF Settled
      <4>2. cell[h] \in stale \cup {t}
        BY <4>1, <3>2 DEF Strays, InnerIn, stale
      <4>3. InnerIn(m, cell[h]) = m.inner[i]
        BY <1>0, <2>8, <4>2 DEF InnerIn
      <4>4. QED
        BY <2>9, <4>3 DEF Settled
    <3>3. CASE InnerIn(stores, cell[h]).path \notin healed \cup {real}
      <4>1. /\ InnerIn(stores, cell[h]).path \in Link \ Strays
            /\ stores.key[InnerIn(stores, cell[h]).path] = cell[h]
            /\ stores.current[cell[h]] = cell[h] /\ InnerIn(stores, cell[h]).fallback
            /\ InnerIn(stores, cell[h]).held = {}
        BY <1>0, <2>2, <3>3 DEF Settled
      <4>2. m.key[InnerIn(stores, cell[h]).path] = cell[h]
        BY <2>8, <4>1
      <4>3. QED
        BY <2>14, <3>3, <4>1, <4>2 DEF Settled
    <3>4. QED
      BY <3>1, <3>2, <3>3
  <2>16. RegistrySound(m, cell, healed)
    <3>1. ASSUME NEW s \in Spelling, m.key[s] # NoCell PROVE \E h \in Handle : cell[h] = m.key[s]
      <4>1. m.key[s] = t \/ m.key[s] = stores.key[s]
        BY <2>4, <3>1
      <4>2. QED
        BY <1>0, <2>12, <3>1, <4>1 DEF RegistrySound
    <3>2. InnerIn(m, m.key[real]).path = real
      BY <2>8, <2>9 DEF InnerIn
    <3>3. ASSUME NEW l \in Link, m.key[l] \notin {NoCell, m.key[real]} PROVE InnerIn(m, m.key[l]).path = l
      <4>1. l \notin Strays /\ m.key[l] = stores.key[l] /\ stores.key[l] \notin {NoCell, t}
        BY <2>8, <3>3
      <4>2. InnerIn(stores, stores.key[l]).path = l
        BY <1>0, <2>3, <4>1 DEF RegistrySound
      <4>3. PICK h \in Handle : cell[h] = stores.key[l]
        BY <1>0, <4>1, Names DEF RegistrySound
      <4>4. l \notin healed /\ l # real
        <5>1. l # real
          BY Names
        <5>2. cell[h] # NoCell /\ InnerIn(stores, cell[h]).path = l
          BY <4>1, <4>2, <4>3
        <5>3. Settled(stores, cell[h], healed)
          BY <1>0, <5>2 DEF RegistrySound
        <5>4. InnerIn(stores, cell[h]).fallback
          BY <5>1, <5>2, <5>3 DEF Settled
        <5>5. stores.inner[stores.current[stores.key[l]]].fallback
          BY <4>3, <5>4 DEF InnerIn
        <5>6. QED
          BY <4>1, <5>1, <5>5 DEF Strays
      <4>5. QED
        BY <2>14, <4>1, <4>2, <4>3, <4>4
    <3>4. QED
      BY <3>1, <3>2, <3>3, <2>15 DEF RegistrySound
  <2>17. ASSUME lapses = {} PROVE StoreSound(m, cell, healed, file, kept)
    <3>1. \A c \in stale \cup {t} : InnerSound(InnerIn(stores, c), file, kept)
      BY <1>0, <2>12, <2>17 DEF StoreSound
    <3>2. ASSUME NEW j \in both PROVE stores.inner[j].held \subseteq Decoded(file)
      BY <3>1 DEF both, InnerSound, InnerIn
    <3>3. Held \subseteq Decoded(file)
      BY <3>2 DEF Held
    <3>4. stores.inner[i].held \subseteq Held
      BY <2>5 DEF Held
    <3>5. stores.inner[i].latched => \E j \in both : stores.inner[j].latched
      BY <2>5
    <3>6. InnerSound(m.inner[i], file, kept)
      BY <2>9, <3>1, <3>3, <3>4, <3>5 DEF InnerSound, InnerIn, i
    <3>7. QED
      BY <1>0, <2>13, <2>17, <3>6 DEF StoreSound
  <2>18. QED
    BY <2>10, <2>16, <2>17
<1>3. QED
  BY <1>1, <1>2


\* A handle that joins a cell changes nothing for the others.
LEMMA AttachSound ==
  ASSUME MemoryInv, NEW m \in Registry, RegistrySound(m, cell, healed),
         NEW h \in Handle, NEW k \in Spelling, m.key[k] # NoCell,
         cell' = [cell EXCEPT ![h] = m.key[k]], cell[h] = NoCell
  PROVE  /\ cell' \in [Handle -> Cell \cup {NoCell}] /\ RegistrySound(m, cell', healed)
         /\ \A g \in Handle : cell[g] # NoCell => cell'[g] = cell[g]
         /\ StoreSound(m, cell, healed, file, kept) => StoreSound(m, cell', healed, file, kept)
<1>1. cell \in [Handle -> Cell \cup {NoCell}] /\ m.key[k] \in Cell
  BY CellsTyped DEF MemoryInv, MemoryTypeOK
<1>2. \A g \in Handle : cell'[g] = IF g = h THEN m.key[k] ELSE cell[g]
  BY <1>1
<1>3. PICK f \in Handle : cell[f] = m.key[k]
  BY DEF RegistrySound
<1>4. /\ \A g \in Handle : cell'[g] # NoCell => \E e \in Handle : cell[e] = cell'[g]
      /\ \A g \in Handle : cell[g] # NoCell => cell'[g] = cell[g]
  BY <1>2, <1>3
<1>5. RegistrySound(m, cell', healed)
  BY <1>4 DEF RegistrySound
<1>6. StoreSound(m, cell, healed, file, kept) => StoreSound(m, cell', healed, file, kept)
  BY <1>4 DEF StoreSound
<1>7. QED
  BY <1>1, <1>4, <1>5, <1>6

\* A new cell: under the file's name it has what was read of the file, and a
\* spelling that leads nowhere has nothing.
Takes(h, m, c, k, K) ==
  /\ m \in Registry /\ RegistrySound(m, cell, healed)
  /\ cell[h] = NoCell /\ m.key[k] = NoCell /\ c \in Unused(m) /\ K \subseteq Entry
  /\ k # real => K = {} /\ k \notin healed
  /\ cell' = [cell EXCEPT ![h] = c] /\ stores' = Created(m, c, k, K)
Taken(h, m, c, k, K) ==
  /\ cell' \in [Handle -> Cell \cup {NoCell}] /\ stores' \in Registry
  /\ RegistrySound(stores', cell', healed)
  /\ cell'[h] = c /\ InnerIn(stores', c).path = k /\ InnerIn(stores', c).held = K
  /\ \A g \in Handle : cell[g] # NoCell => /\ cell'[g] = cell[g] /\ g # h
                                           /\ InnerIn(stores', cell[g]) = InnerIn(m, cell[g])
  /\ \A g \in Handle : cell'[g] # NoCell => g = h \/ cell[g] # NoCell

LEMMA CreateSound ==
  ASSUME MemoryInv, NEW h \in Handle, NEW m, NEW c, NEW k \in Spelling, NEW K, Takes(h, m, c, k, K)
  PROVE  Taken(h, m, c, k, K)
<1>0. /\ m \in Registry /\ RegistrySound(m, cell, healed)
      /\ cell[h] = NoCell /\ m.key[k] = NoCell /\ c \in Unused(m) /\ K \in SUBSET Entry
      /\ k # real => K = {} /\ k \notin healed
      /\ cell' = [cell EXCEPT ![h] = c] /\ stores' = Created(m, c, k, K)
  BY DEF Takes
<1>1. /\ cell \in [Handle -> Cell \cup {NoCell}] /\ c \in Cell /\ c # NoCell
      /\ healed \subseteq Link
  BY <1>0, Names DEF MemoryInv, MemoryTypeOK, Unused
<1>2. \A g \in Handle : cell'[g] = IF g = h THEN c ELSE cell[g]
  BY <1>0, <1>1
<1>3. \A g \in Handle : cell[g] # NoCell => cell[g] \in Cell /\ c # cell[g] /\ c # m.current[cell[g]]
  BY <1>0, <1>1 DEF Unused
<1> DEFINE r == [path |-> k, held |-> K, latched |-> FALSE, fallback |-> k # real]
<1>4. r \in Inner
  BY <1>0 DEF Inner
<1>5. /\ stores'.key = [m.key EXCEPT ![k] = c] /\ stores'.current = [m.current EXCEPT ![c] = c]
      /\ stores'.inner = [m.inner EXCEPT ![c] = r]
      /\ stores' = [key |-> stores'.key, current |-> stores'.current, inner |-> stores'.inner]
  BY <1>0 DEF Created
<1>6. /\ m.key \in [Spelling -> Cell \cup {NoCell}] /\ m.current \in [Cell -> Cell]
      /\ m.inner \in [Cell -> Inner]
  BY <1>0 DEF Registry
<1>7. stores' \in Registry
  <2>1. stores'.key \in [Spelling -> Cell \cup {NoCell}] /\ stores'.current \in [Cell -> Cell]
    BY <1>1, <1>5, <1>6
  <2>2. stores'.inner \in [Cell -> Inner]
    BY <1>1, <1>4, <1>5, <1>6
  <2>3. QED
    BY <2>1, <2>2, <1>5 DEF Registry
<1>8. /\ \A s \in Spelling : stores'.key[s] = IF s = k THEN c ELSE m.key[s]
      /\ stores'.current[c] = c /\ stores'.inner[c] = r
      /\ \A d \in Cell : d # c => stores'.current[d] = m.current[d]
      /\ \A d \in Cell : d # c => stores'.inner[d] = m.inner[d]
  BY <1>1, <1>5, <1>6
<1> HIDE DEF r
<1>9. \A g \in Handle : cell[g] # NoCell =>
        /\ stores'.current[cell[g]] = m.current[cell[g]]
        /\ InnerIn(stores', cell[g]) = InnerIn(m, cell[g])
  BY <1>3, <1>6, <1>8 DEF InnerIn
<1>10. r.path = k /\ r.held = K /\ r.fallback = (k # real) /\ InnerIn(stores', c) = r
  BY <1>8 DEF r, InnerIn
<1>11. \A s \in Spelling : m.key[s] # NoCell =>
         /\ m.key[s] # c /\ stores'.current[m.key[s]] = m.current[m.key[s]]
         /\ InnerIn(stores', m.key[s]) = InnerIn(m, m.key[s])
  BY <1>0, <1>3, <1>9 DEF RegistrySound
<1>12. RegistrySound(stores', cell', healed)
  <2>1. ASSUME NEW s \in Spelling, stores'.key[s] # NoCell
        PROVE  \E g \in Handle : cell'[g] = stores'.key[s]
    BY <1>0, <1>2, <1>8, <2>1 DEF RegistrySound
  <2>2. stores'.key[real] # NoCell => InnerIn(stores', stores'.key[real]).path = real
    BY <1>0, <1>8, <1>10, <1>11, Names DEF RegistrySound
  <2>3. ASSUME NEW l \in Link, stores'.key[l] \notin {NoCell, stores'.key[real]}
        PROVE  InnerIn(stores', stores'.key[l]).path = l
    <3>1. CASE l = k
      BY <1>8, <1>10, <3>1, Names
    <3>2. CASE l # k
      <4>1. stores'.key[l] = m.key[l] /\ m.key[l] \notin {NoCell, m.key[real]}
        BY <1>0, <1>8, <2>3, <3>2, Names
      <4>2. QED
        BY <1>0, <1>11, <4>1, Names DEF RegistrySound
    <3>3. QED
      BY <3>1, <3>2
  <2>4. ASSUME NEW g \in Handle, cell'[g] # NoCell
        PROVE  Settled(stores', cell'[g], healed)
    <3>1. CASE g = h
      <4>1. CASE k = real
        BY <1>2, <1>10, <3>1, <4>1 DEF Settled
      <4>2. CASE k # real
        <5>1. k \in Link
          BY <4>2 DEF Spelling
        <5>2. /\ InnerIn(stores', c).path = k /\ InnerIn(stores', c).held = {}
              /\ InnerIn(stores', c).fallback = TRUE
          BY <1>0, <1>10, <4>2
        <5>3. QED
          BY <1>2, <1>8, <3>1, <5>1, <5>2 DEF Settled
      <4>3. QED
        BY <4>1, <4>2
    <3>2. CASE g # h
      <4>1. cell'[g] = cell[g] /\ cell[g] # NoCell /\ Settled(m, cell[g], healed)
        BY <1>0, <1>2, <2>4, <3>2 DEF RegistrySound
      <4>2. \A s \in Spelling : m.key[s] # NoCell => stores'.key[s] = m.key[s]
        BY <1>0, <1>8
      <4>3. QED
        BY <1>9, <4>1, <4>2, Names DEF Settled
    <3>3. QED
      BY <3>1, <3>2
  <2>5. QED
    BY <2>1, <2>2, <2>3, <2>4 DEF RegistrySound
<1>13. cell' \in [Handle -> Cell \cup {NoCell}]
  BY <1>0, <1>1
<1>14. QED
  BY <1>0, <1>2, <1>7, <1>9, <1>10, <1>12, <1>13 DEF Taken

\* A handle that is dropped takes nothing the others work on, be it the one
\* that owned what they work on.
LEMMA DropSound ==
  ASSUME MemoryInv, NEW h \in Handle, cell[h] # NoCell,
         cell' = [cell EXCEPT ![h] = NoCell], stores' = Without(h)
  PROVE  /\ cell' \in [Handle -> Cell \cup {NoCell}] /\ stores' \in Registry
         /\ RegistrySound(stores', cell', healed)
         /\ \A g \in Handle : cell'[g] # NoCell =>
              /\ g # h /\ cell'[g] = cell[g]
              /\ InnerIn(stores', cell[g]) = InnerIn(stores, cell[g])
<1> DEFINE c    == cell[h]
           last == \A g \in Handle \ {h} : cell[g] # c
           used == {stores.current[cell[g]] : g \in {f \in Handle \ {h} : cell[f] # NoCell}}
<1>1. /\ cell \in [Handle -> Cell \cup {NoCell}] /\ c \in Cell /\ c # NoCell
      /\ stores \in Registry /\ RegistrySound(stores, cell, healed)
  BY Parts, Names
<1>2. \A g \in Handle : cell'[g] = IF g = h THEN NoCell ELSE cell[g]
  BY <1>1
<1>3. /\ stores.key \in [Spelling -> Cell \cup {NoCell}] /\ stores.current \in [Cell -> Cell]
      /\ stores.inner \in [Cell -> Inner]
  BY <1>1 DEF Registry
<1>4. /\ stores'.key = [s \in Spelling |-> IF last /\ stores.key[s] = c THEN NoCell ELSE stores.key[s]]
      /\ stores'.current = IF last THEN [stores.current EXCEPT ![c] = c] ELSE stores.current
      /\ stores'.inner = [i \in Cell |-> IF i \in used THEN stores.inner[i] ELSE Blank]
      /\ stores' = [key |-> stores'.key, current |-> stores'.current, inner |-> stores'.inner]
  BY DEF Without
<1>5. Blank \in Inner
  BY Names DEF Blank, Inner
<1> HIDE DEF c, last, used
<1>6. stores' \in Registry
  <2>1. stores'.key \in [Spelling -> Cell \cup {NoCell}] /\ stores'.current \in [Cell -> Cell]
    BY <1>1, <1>3, <1>4
  <2>2. stores'.inner \in [Cell -> Inner]
    BY <1>3, <1>4, <1>5
  <2>3. QED
    BY <2>1, <2>2, <1>4 DEF Registry
<1>7. /\ \A s \in Spelling : stores'.key[s] = IF last /\ stores.key[s] = c THEN NoCell ELSE stores.key[s]
      /\ \A d \in Cell : d # c \/ ~last => stores'.current[d] = stores.current[d]
      /\ \A i \in used : stores'.inner[i] = stores.inner[i]
  <2>1. used \subseteq Cell
    BY <1>1, <1>3 DEF used
  <2>2. QED
    BY <1>3, <1>4, <2>1
<1>8. \A g \in Handle : cell'[g] # NoCell =>
        /\ g # h /\ cell'[g] = cell[g] /\ cell[g] \in Cell /\ (cell[g] # c \/ ~last)
        /\ stores'.current[cell[g]] = stores.current[cell[g]]
        /\ InnerIn(stores', cell[g]) = InnerIn(stores, cell[g])
  BY <1>1, <1>2, <1>7 DEF InnerIn, last, used
<1>9. \A s \in Spelling : stores'.key[s] # NoCell =>
        stores'.key[s] = stores.key[s] /\ \E g \in Handle : cell'[g] = stores'.key[s]
  <2> SUFFICES ASSUME NEW s \in Spelling, stores'.key[s] # NoCell
               PROVE  stores'.key[s] = stores.key[s] /\ \E g \in Handle : cell'[g] = stores'.key[s]
    OBVIOUS
  <2>1. stores'.key[s] = stores.key[s] /\ (stores.key[s] # c \/ ~last)
    BY <1>7
  <2>2. PICK g \in Handle : cell[g] = stores.key[s]
    BY <1>1, <2>1 DEF RegistrySound
  <2>3. QED
    BY <1>2, <2>1, <2>2 DEF last, c
<1>10. \A s \in Spelling : stores'.key[s] # NoCell =>
         InnerIn(stores', stores'.key[s]) = InnerIn(stores, stores.key[s])
  BY <1>8, <1>9
<1>11. ASSUME NEW g \in Handle, cell'[g] # NoCell PROVE Settled(stores', cell'[g], healed)
  <2>1. Settled(stores, cell[g], healed)
    BY <1>1, <1>8, <1>11 DEF RegistrySound
  <2>2. \A s \in Spelling : stores.key[s] = cell[g] => stores'.key[s] = cell[g]
    BY <1>7, <1>8, <1>11
  <2>3. QED
    BY <1>8, <1>11, <2>1, <2>2, Names DEF Settled
<1>12. RegistrySound(stores', cell', healed)
  <2>1. stores'.key[real] # NoCell => InnerIn(stores', stores'.key[real]).path = real
    BY <1>1, <1>9, <1>10, Names DEF RegistrySound
  <2>2. ASSUME NEW l \in Link, stores'.key[l] \notin {NoCell, stores'.key[real]}
        PROVE  InnerIn(stores', stores'.key[l]).path = l
    <3>1. stores'.key[l] = stores.key[l]
      BY <1>9, <2>2, Names
    <3>2. stores.key[l] # stores.key[real]
      BY <1>7, <2>2, <3>1, Names
    <3>3. QED
      BY <1>1, <1>10, <2>2, <3>1, <3>2, Names DEF RegistrySound
  <2>3. QED
    BY <1>9, <1>11, <2>1, <2>2 DEF RegistrySound
<1>13. QED
  BY <1>1, <1>2, <1>6, <1>8, <1>12

\* The Inner of h, with K in it, latched or not.
Left(h, K, l) == [InnerOf(h) EXCEPT !.held = K, !.latched = l]

\* What an operation leaves in the Inner it works on is seen by those who work
\* on that one, and by nobody else.
LEMMA HoldsSound ==
  ASSUME MemoryInv, NEW h \in Handle, cell[h] # NoCell, NEW K \in SUBSET Entry, NEW l \in BOOLEAN,
         Holds(h, K, l), ~Leads(InnerOf(h).path) => K = {}
  PROVE  /\ stores' \in Registry /\ RegistrySound(stores', cell, healed)
         /\ \A g \in Handle : cell[g] # NoCell =>
              InnerIn(stores', cell[g]) = IF stores.current[cell[g]] = stores.current[cell[h]]
                                          THEN Left(h, K, l)
                                          ELSE InnerIn(stores, cell[g])
<1> DEFINE i == stores.current[cell[h]]
           r == [stores.inner[i] EXCEPT !.held = K, !.latched = l]
<1>1. /\ stores \in Registry /\ RegistrySound(stores, cell, healed) /\ healed \subseteq Link
      /\ \A g \in Handle : cell[g] # NoCell => cell[g] \in Cell
  BY Parts
<1>2. /\ stores.inner \in [Cell -> Inner] /\ i \in Cell /\ stores.current \in [Cell -> Cell]
      /\ \A s \in Spelling : stores.key[s] # NoCell => stores.key[s] \in Cell
  BY <1>1 DEF Registry
<1>3. stores' = [stores EXCEPT !.inner = [stores.inner EXCEPT ![i] = r]]
  BY DEF Holds
<1>4. /\ stores.inner[i] \in Inner /\ r \in Inner /\ r.path = stores.inner[i].path
      /\ r.fallback = stores.inner[i].fallback /\ r.held = K
      /\ r = Left(h, K, l)
  <2>1. stores.inner[i] \in Inner /\ InnerOf(h) = stores.inner[i]
    BY <1>2 DEF InnerOf
  <2> HIDE DEF i
  <2>2. QED
    BY <2>1 DEF Inner, Left
<1>5. ~ToFile(stores.inner[i].path, healed) => K = {}
  BY DEF InnerOf, Leads, ToFile
<1> HIDE DEF i, r
<1>6. /\ stores' \in Registry /\ stores'.key = stores.key /\ stores'.current = stores.current
      /\ stores'.inner = [stores.inner EXCEPT ![i] = r]
  BY <1>1, <1>2, <1>3, <1>4 DEF Registry
<1>7. \A j \in Cell : stores'.inner[j] = IF j = i THEN r ELSE stores.inner[j]
  BY <1>2, <1>6
<1>8. \A d \in Cell : /\ InnerIn(stores', d) = IF stores.current[d] = i THEN r ELSE InnerIn(stores, d)
                      /\ InnerIn(stores', d).path = InnerIn(stores, d).path
                      /\ InnerIn(stores', d).fallback = InnerIn(stores, d).fallback
                      /\ \/ InnerIn(stores', d).held = InnerIn(stores, d).held
                         \/ InnerIn(stores', d).held = {}
                         \/ ToFile(InnerIn(stores, d).path, healed)
  BY <1>2, <1>4, <1>5, <1>6, <1>7 DEF InnerIn
<1>9. \A g \in Handle : cell[g] # NoCell => Settled(stores', cell[g], healed)
  <2> SUFFICES ASSUME NEW g \in Handle, cell[g] # NoCell PROVE Settled(stores', cell[g], healed)
    OBVIOUS
  <2>1. Settled(stores, cell[g], healed) /\ cell[g] \in Cell
    BY <1>1 DEF RegistrySound
  <2>2. QED
    BY <1>6, <1>8, <2>1 DEF Settled, ToFile
<1>10. RegistrySound(stores', cell, healed)
  BY <1>1, <1>2, <1>6, <1>8, <1>9, Names DEF RegistrySound
<1>11. QED
  BY <1>1, <1>4, <1>6, <1>8, <1>10 DEF i

\* Before a lapse, an operation that can reach the file works on a sound store
\* beside no other, and appends behind nothing.
LEMMA MayAct ==
  ASSUME MemoryInv, NEW h \in Handle, busy[h] # "no", Recorded(h)
  PROVE  /\ cell[h] # NoCell /\ InnerOf(h) = InnerIn(stores, cell[h]) /\ InnerOf(h) \in Inner
         /\ ~Leads(InnerOf(h).path) => InnerOf(h).held = {}
         /\ lapses' \in SUBSET Lapse
         /\ lapses' = {} =>
              /\ lapses = {} /\ StoreSound(stores, cell, healed, file, kept)
              /\ DiskSound(file, older, kept, hard)
              /\ Leads(InnerOf(h).path) => InnerSound(InnerOf(h), file, kept)
              /\ Mutates(h) => Alone(h) /\ ~Blind(h)
<1>1. /\ cell[h] # NoCell /\ cell[h] \in Cell /\ Settled(stores, cell[h], healed)
      /\ stores \in Registry /\ lapses \in SUBSET Lapse
      /\ lapses = {} => /\ StoreSound(stores, cell, healed, file, kept)
                        /\ DiskSound(file, older, kept, hard)
  BY Parts
<1>2. InnerOf(h) = InnerIn(stores, cell[h]) /\ InnerOf(h) \in Inner
  BY <1>1, CellsTyped DEF InnerOf, InnerIn
<1>3. ~Leads(InnerOf(h).path) => InnerOf(h).held = {}
  BY <1>1, <1>2 DEF Settled, Leads
<1>4. lapses' \in SUBSET Lapse /\ (lapses' = {} => lapses = {} /\ (Mutates(h) => Alone(h) /\ ~Blind(h)))
  BY <1>1 DEF Recorded, Lapse
<1>5. lapses = {} /\ Leads(InnerOf(h).path) => InnerSound(InnerOf(h), file, kept)
  BY <1>1, <1>2 DEF StoreSound, Leads, ToFile
<1>6. QED
  BY <1>1, <1>2, <1>3, <1>4, <1>5


-----------------------------------------------------------------------------
(* The steps. *)

\* A memory is a line or an unterminated line of the file.
LEMMA DecodedTyped == ASSUME NEW f \in File PROVE Decoded(f) \in SUBSET Entry
BY DEF File, Decoded

LEMMA WrittenIs ==
  ASSUME NEW K \in SUBSET Entry
  PROVE  /\ Written(K) \in File /\ Decoded(Written(K)) = K /\ Written(K).synced = K
         /\ ~Written(K).welded /\ Written(K).tail = NoTail
BY TailAssumption DEF Written, File, Decoded

\* A rewrite writes a file, and leaves what was there in doubt at most.
LEMMA ReplacedTyped ==
  ASSUME file \in File, older \subseteq File, NEW r \in Outcomes, NEW K \in SUBSET Entry, Replaced(r, K)
  PROVE  /\ file' \in File /\ older' \subseteq File
         /\ r = "PreCommit" => file' = file /\ older' = older
         /\ r # "PreCommit" => file' = Written(K)
BY WrittenIs DEF Replaced, Outcomes

\* One that keeps what the hosts were told is stored keeps the disk sound.
Rewrite(r, K, S, H) ==
  /\ r \in Outcomes /\ Replaced(r, K) /\ K \subseteq Entry /\ S \subseteq K /\ H \subseteq S
  /\ r = "Ok" \/ H \subseteq hard
  /\ r # "PreCommit" \/ S = kept

LEMMA ReplacedSound ==
  ASSUME DiskSound(file, older, kept, hard), NEW r, NEW K, NEW S, NEW H, Rewrite(r, K, S, H)
  PROVE  DiskSound(file', older', S, H)
<1>1. /\ Written(K) \in File /\ Decoded(Written(K)) = K /\ Written(K).synced = K
      /\ ~Written(K).welded
  BY WrittenIs DEF Rewrite
<1>2. CASE r = "PreCommit"
  BY <1>2 DEF Replaced, DiskSound, Rewrite
<1>3. CASE r = "Ok"
  BY <1>1, <1>3 DEF Replaced, DiskSound, Rewrite
<1>4. CASE r = "NotDurable"
  BY <1>1, <1>4 DEF Replaced, DiskSound, Rewrite
<1>5. QED
  BY <1>2, <1>3, <1>4 DEF Outcomes, Rewrite

\* What a new cell adds to sound stores.
LEMMA TakenStore ==
  ASSUME NEW h, NEW m, NEW c, NEW k, NEW J, Taken(h, m, c, k, J), NEW f, NEW K,
         StoreSound(m, cell, healed, f, K),
         ToFile(k, healed) => J \subseteq Decoded(f) /\ K \subseteq J /\ f.tail = NoTail
  PROVE  StoreSound(stores', cell', healed, f, K)
<1> SUFFICES ASSUME NEW g \in Handle, cell'[g] # NoCell, ToFile(InnerIn(stores', cell'[g]).path, healed)
             PROVE  InnerSound(InnerIn(stores', cell'[g]), f, K)
  BY DEF StoreSound
<1>1. CASE g = h
  BY <1>1 DEF Taken, InnerSound
<1>2. CASE g # h
  <2>1. cell[g] # NoCell /\ cell'[g] = cell[g] /\ InnerIn(stores', cell[g]) = InnerIn(m, cell[g])
    BY <1>2 DEF Taken
  <2>2. QED
    BY <2>1 DEF StoreSound
<1>3. QED
  BY <1>1, <1>2

LEMMA OpenSound ==
  ASSUME MemoryInv, NEW h \in Handle, NEW s \in Spelling, Open(h, s)
  PROVE  MemoryInv'
<1>1. PICK m \in Migrations :
       \/ Attaches(h, m, real) /\ UNCHANGED Disk
       \/ /\ m.key[real] = NoCell /\ ~file.welded
          /\ \E r \in Outcomes : /\ Repaired(r)
                                /\ IF r = "Ok" THEN Creates(h, m, real, Decoded(file))
                                   ELSE stores' = m /\ UNCHANGED cell
  BY DEF Open
<1>2. /\ m \in Registry /\ RegistrySound(m, cell, healed)
      /\ lapses = {} => StoreSound(m, cell, healed, file, kept)
  BY MigrationSound
<1>3. /\ cell[h] = NoCell
      /\ UNCHANGED <<healed, busy, unstored, kept, hard, lapses>>
      /\ Decoded(file) \in SUBSET Entry /\ file \in File /\ older \subseteq File
      /\ kept \in SUBSET Entry /\ cell \in [Handle -> Cell \cup {NoCell}]
      /\ lapses = {} => DiskSound(file, older, kept, hard)
  BY Parts DEF Open, Client
<1>4. CASE Attaches(h, m, real) /\ UNCHANGED Disk
  <2>1. stores' = m /\ file' = file /\ older' = older
    BY <1>4 DEF Attaches, Disk
  <2>2. /\ cell' \in [Handle -> Cell \cup {NoCell}] /\ RegistrySound(m, cell', healed)
        /\ \A g \in Handle : cell[g] # NoCell => cell'[g] = cell[g]
        /\ StoreSound(m, cell, healed, file, kept) => StoreSound(m, cell', healed, file, kept)
    BY <1>2, <1>3, <1>4, Names, AttachSound DEF Attaches
  <2>3. QED
    BY <1>2, <1>3, <2>1, <2>2, Parts, Whole
<1>5. ASSUME NEW r \in Outcomes, Repaired(r), IF r = "Ok" THEN file' = file \/ Replaced(r, Decoded(file))
                                              ELSE file.tail # NoTail /\ Replaced(r, Decoded(file))
      PROVE  /\ file' \in File /\ older' \subseteq File /\ Decoded(file') = Decoded(file)
             /\ file'.tail # NoTail => file.tail # NoTail
             /\ r = "Ok" => file'.tail = NoTail
             /\ lapses = {} => DiskSound(file', older', kept, hard)
  <2>1. CASE file.tail = NoTail
    BY <1>3, <1>5, <2>1 DEF Repaired, Disk
  <2>2. CASE file.tail # NoTail
    <3>1. Replaced(r, Decoded(file))
      BY <1>5, <2>2 DEF Repaired
    <3>2. /\ file' \in File /\ older' \subseteq File
          /\ r = "PreCommit" => file' = file /\ older' = older
          /\ r # "PreCommit" => file' = Written(Decoded(file))
      BY <1>3, <3>1, ReplacedTyped
    <3>3. lapses = {} => Rewrite(r, Decoded(file), kept, hard)
      BY <1>3, <3>1 DEF Rewrite, DiskSound
    <3>4. QED
      BY <1>3, <2>2, <3>2, <3>3, ReplacedSound, WrittenIs
  <2>3. QED
    BY <2>1, <2>2
<1>6. ASSUME NEW r \in Outcomes, Repaired(r), r # "Ok", stores' = m, UNCHANGED cell
      PROVE  MemoryInv'
  <2>1. file.tail # NoTail /\ Replaced(r, Decoded(file))
    BY <1>6 DEF Repaired
  <2>2. /\ file' \in File /\ older' \subseteq File /\ Decoded(file') = Decoded(file)
        /\ file'.tail # NoTail => file.tail # NoTail
        /\ lapses = {} => DiskSound(file', older', kept, hard)
    BY <1>5, <1>6, <2>1
  <2>3. lapses = {} => StoreSound(m, cell, healed, file', kept)
    BY <1>2, <2>2, SoundLonger
  <2>4. QED
    BY <1>2, <1>3, <1>6, <2>2, <2>3, Parts, Whole
<1>7. ASSUME Repaired("Ok"), Creates(h, m, real, Decoded(file))
      PROVE  MemoryInv'
  <2>1. file' = file \/ Replaced("Ok", Decoded(file))
    BY <1>7 DEF Repaired, Disk
  <2>2. /\ file' \in File /\ older' \subseteq File /\ Decoded(file') = Decoded(file)
        /\ file'.tail # NoTail => file.tail # NoTail
        /\ file'.tail = NoTail
        /\ lapses = {} => DiskSound(file', older', kept, hard)
    BY <1>5, <1>7, <2>1 DEF Outcomes
  <2>3. PICK c \in Unused(m) : cell' = [cell EXCEPT ![h] = c] /\ stores' = Created(m, c, real, Decoded(file))
    BY <1>7 DEF Creates, AnyOf
  <2>4. Taken(h, m, c, real, Decoded(file))
    <3>1. Takes(h, m, c, real, Decoded(file))
      BY <1>2, <1>3, <1>7, <2>3 DEF Takes, Creates
    <3>2. QED
      BY <3>1, Names, CreateSound
  <2>5. ASSUME lapses = {} PROVE StoreSound(stores', cell', healed, file', kept)
    <3>1. StoreSound(m, cell, healed, file', kept)
      BY <1>2, <2>2, <2>5, SoundLonger
    <3>2. kept \subseteq Decoded(file)
      BY <1>3, <2>5 DEF DiskSound
    <3>3. QED
      BY <2>2, <2>4, <3>1, <3>2, TakenStore
  <2>6. /\ cell' \in [Handle -> Cell \cup {NoCell}] /\ stores' \in Registry
        /\ RegistrySound(stores', cell', healed)
        /\ \A g \in Handle : cell[g] # NoCell => cell'[g] = cell[g]
    BY <2>4 DEF Taken
  <2>7. QED
    BY <1>3, <2>2, <2>5, <2>6, Parts, Whole
<1>8. QED
  BY <1>1, <1>4, <1>6, <1>7

LEMMA NewSound ==
  ASSUME MemoryInv, NEW h \in Handle, NEW s \in Spelling, New(h, s)
  PROVE  MemoryInv'
<1> DEFINE k == IF Leads(s) THEN real ELSE s
<1>1. PICK m \in Migrations :
       \/ Attaches(h, m, k) /\ UNCHANGED <<kept, hard, lapses>>
       \/ /\ Creates(h, m, k, {})
          /\ \/ k # real /\ UNCHANGED <<kept, hard, lapses>>
             \/ /\ k = real /\ kept' = {} /\ hard' = {}
                /\ lapses' = IF file.tail = NoTail THEN lapses ELSE lapses \cup {"unread"}
  BY DEF New
<1>2. /\ m \in Registry /\ RegistrySound(m, cell, healed)
      /\ lapses = {} => StoreSound(m, cell, healed, file, kept)
  BY MigrationSound
<1>3. /\ cell[h] = NoCell /\ UNCHANGED <<file, older, healed, busy, unstored>>
      /\ cell \in [Handle -> Cell \cup {NoCell}]
      /\ k \in Spelling /\ (k # real => k \notin healed)
      /\ lapses = {} => DiskSound(file, older, kept, hard)
  BY Names, Parts DEF New, Disk, Leads
<1> HIDE DEF k
<1>4. CASE Attaches(h, m, k) /\ UNCHANGED <<kept, hard, lapses>>
  <2>1. /\ cell' \in [Handle -> Cell \cup {NoCell}] /\ RegistrySound(m, cell', healed)
        /\ \A g \in Handle : cell[g] # NoCell => cell'[g] = cell[g]
        /\ StoreSound(m, cell, healed, file, kept) => StoreSound(m, cell', healed, file, kept)
        /\ stores' = m
    BY <1>2, <1>3, <1>4, AttachSound DEF Attaches
  <2>2. QED
    BY <1>2, <1>3, <1>4, <2>1, Parts, Whole
<1>5. ASSUME Creates(h, m, k, {}),
             \/ k # real /\ UNCHANGED <<kept, hard, lapses>>
             \/ /\ k = real /\ kept' = {} /\ hard' = {}
                /\ lapses' = IF file.tail = NoTail THEN lapses ELSE lapses \cup {"unread"}
      PROVE  MemoryInv'
  <2>1. PICK c \in Unused(m) : cell' = [cell EXCEPT ![h] = c] /\ stores' = Created(m, c, k, {})
    BY <1>5 DEF Creates, AnyOf
  <2>2. Taken(h, m, c, k, {})
    <3>1. Takes(h, m, c, k, {})
      BY <1>2, <1>3, <1>5, <2>1 DEF Takes, Creates
    <3>2. QED
      BY <1>3, <3>1, CreateSound
  <2>3. /\ kept' \in SUBSET Entry /\ hard' \in SUBSET Entry /\ lapses' \in SUBSET Lapse
        /\ lapses' = {} => lapses = {}
        /\ kept' \subseteq kept
    BY <1>5, Parts DEF Lapse
  <2>4. ASSUME lapses' = {}
        PROVE  /\ StoreSound(stores', cell', healed, file, kept')
               /\ DiskSound(file, older, kept', hard')
    <3>1. StoreSound(m, cell, healed, file, kept')
      BY <1>2, <2>3, <2>4, SoundLonger
    <3>2. ToFile(k, healed) => kept' = {} /\ file.tail = NoTail
      BY <1>3, <1>5, <2>4 DEF ToFile
    <3>3. StoreSound(stores', cell', healed, file, kept')
      BY <2>2, <3>1, <3>2, TakenStore
    <3>4. DiskSound(file, older, kept', hard')
      BY <1>3, <1>5, <2>3, <2>4 DEF DiskSound
    <3>5. QED
      BY <3>3, <3>4
  <2>5. /\ cell' \in [Handle -> Cell \cup {NoCell}] /\ stores' \in Registry
        /\ RegistrySound(stores', cell', healed)
        /\ \A g \in Handle : cell[g] # NoCell => cell'[g] = cell[g]
    BY <2>2 DEF Taken
  <2>6. QED
    BY <1>3, <2>3, <2>4, <2>5, Parts, Whole
<1>6. QED
  BY <1>1, <1>4, <1>5


LEMMA DropStepSound ==
  ASSUME MemoryInv, NEW h \in Handle, Drop(h)
  PROVE  MemoryInv'
<1>1. /\ cell[h] # NoCell /\ busy[h] = "no"
      /\ cell' = [cell EXCEPT ![h] = NoCell] /\ stores' = Without(h)
      /\ UNCHANGED <<file, older, healed, busy, unstored, kept, hard, lapses>>
  BY DEF Drop, Disk, Client
<1>2. /\ cell' \in [Handle -> Cell \cup {NoCell}] /\ stores' \in Registry
      /\ RegistrySound(stores', cell', healed)
      /\ \A g \in Handle : cell'[g] # NoCell =>
           /\ g # h /\ cell'[g] = cell[g]
           /\ InnerIn(stores', cell[g]) = InnerIn(stores, cell[g])
  BY <1>1, DropSound
<1>3. StoreSound(stores, cell, healed, file, kept) => StoreSound(stores', cell', healed, file, kept)
  BY <1>2 DEF StoreSound
<1>4. \A g \in Handle : busy[g] # "no" => cell'[g] # NoCell
  BY <1>1, Parts
<1>5. QED
  BY <1>1, <1>2, <1>3, <1>4, Parts, Whole

\* A store whose link comes to resolve was empty, and has not read the file.
LEMMA HealSound ==
  ASSUME MemoryInv, NEW l \in Link, Heal(l)
  PROVE  MemoryInv'
<1>1. /\ healed' = healed \cup {l}
      /\ UNCHANGED <<file, older, cell, stores, busy, unstored, kept, hard, lapses>>
  BY DEF Heal, Disk, Client
<1>2. RegistrySound(stores, cell, healed')
  <2>1. \A h \in Handle : cell[h] # NoCell => Settled(stores, cell[h], healed')
    BY <1>1, Parts DEF Settled
  <2>2. QED
    BY <2>1, Parts DEF RegistrySound
<1>3. StoreSound(stores, cell, healed, file, kept) => StoreSound(stores, cell, healed', file, kept)
  <2> SUFFICES ASSUME StoreSound(stores, cell, healed, file, kept), NEW h \in Handle, cell[h] # NoCell,
                      ToFile(InnerIn(stores, cell[h]).path, healed')
               PROVE  InnerSound(InnerIn(stores, cell[h]), file, kept)
    BY DEF StoreSound
  <2>1. CASE ToFile(InnerIn(stores, cell[h]).path, healed)
    BY <2>1 DEF StoreSound
  <2>2. CASE ~ToFile(InnerIn(stores, cell[h]).path, healed)
    <3>1. InnerIn(stores, cell[h]).fallback /\ InnerIn(stores, cell[h]).held = {}
      BY <2>2, Parts DEF Settled, ToFile
    <3>2. QED
      BY <3>1 DEF InnerSound
  <2>3. QED
    BY <2>1, <2>2
<1>4. QED
  BY <1>1, <1>2, <1>3, Parts, Whole

LEMMA ConvergeSound ==
  ASSUME MemoryInv, NEW h \in Handle, NEW op \in {"store", "flush", "consolidate"}, Converge(h, op)
  PROVE  MemoryInv'
<1>1. /\ cell[h] # NoCell /\ busy' = [busy EXCEPT ![h] = op] /\ stores' \in Migrations
      /\ UNCHANGED <<file, older, healed, cell, unstored, kept, hard, lapses>>
  BY DEF Converge, Disk, Client
<1>2. /\ stores' \in Registry /\ RegistrySound(stores', cell, healed)
      /\ lapses = {} => StoreSound(stores', cell, healed, file, kept)
  BY <1>1, MigrationSound
<1>3. /\ busy' \in [Handle -> {"no", "store", "flush", "consolidate"}]
      /\ \A g \in Handle : busy'[g] # "no" => cell[g] # NoCell
  BY <1>1, Parts
<1>4. QED
  BY <1>1, <1>2, <1>3, Parts, Whole

\* An operation that leaves K in its Inner, and the file and the records as it should.
Finishes(h, K, l) ==
  /\ Holds(h, K, l)
  /\ ~Leads(InnerOf(h).path) => K = {}
  /\ file' \in File /\ older' \subseteq File
  /\ unstored' \in SUBSET Entry /\ kept' \in SUBSET Entry /\ hard' \in SUBSET Entry
  /\ lapses' = {} =>
       /\ DiskSound(file', older', kept', hard')
       /\ Leads(InnerOf(h).path) => Alone(h) /\ InnerSound(Left(h, K, l), file', kept')
       /\ ~Leads(InnerOf(h).path) => file' = file /\ kept' = kept

LEMMA FinishSound ==
  ASSUME MemoryInv, NEW h \in Handle, NEW op, busy[h] # "no", Acts(h, op),
         NEW K \in SUBSET Entry, NEW l \in BOOLEAN, Finishes(h, K, l)
  PROVE  MemoryInv'
<1>1. /\ busy' = [busy EXCEPT ![h] = "no"] /\ Recorded(h) /\ healed' = healed /\ cell' = cell
  BY DEF Acts
<1>2. /\ cell[h] # NoCell /\ InnerOf(h) \in Inner /\ lapses' \in SUBSET Lapse
      /\ lapses' = {} => lapses = {} /\ StoreSound(stores, cell, healed, file, kept)
  BY <1>1, MayAct
<1>3. /\ stores' \in Registry /\ RegistrySound(stores', cell, healed)
      /\ \A g \in Handle : cell[g] # NoCell =>
           InnerIn(stores', cell[g]) = IF stores.current[cell[g]] = stores.current[cell[h]]
                                       THEN Left(h, K, l) ELSE InnerIn(stores, cell[g])
  <2>1. Holds(h, K, l) /\ (~Leads(InnerOf(h).path) => K = {})
    BY DEF Finishes
  <2>2. QED
    BY <1>2, <2>1, HoldsSound
<1>4. ASSUME lapses' = {} PROVE StoreSound(stores', cell, healed, file', kept')
  <2> SUFFICES ASSUME NEW g \in Handle, cell[g] # NoCell, ToFile(InnerIn(stores', cell[g]).path, healed)
               PROVE  InnerSound(InnerIn(stores', cell[g]), file', kept')
    BY DEF StoreSound
  <2>1. CASE stores.current[cell[g]] = stores.current[cell[h]]
    <3>1. InnerIn(stores', cell[g]) = Left(h, K, l) /\ Left(h, K, l).path = InnerOf(h).path
      BY <1>2, <1>3, <2>1 DEF Left, Inner
    <3>2. Leads(InnerOf(h).path)
      BY <3>1 DEF ToFile, Leads
    <3>3. QED
      BY <1>4, <3>1, <3>2 DEF Finishes
  <2>2. CASE stores.current[cell[g]] # stores.current[cell[h]]
    <3>1. InnerIn(stores', cell[g]) = InnerIn(stores, cell[g]) /\ InnerOf(g) = InnerIn(stores, cell[g])
      BY <1>3, <2>2 DEF InnerOf, InnerIn
    <3>2. ~Alone(h)
      BY <2>2, <3>1 DEF Alone, Leads, ToFile
    <3>3. QED
      BY <1>2, <1>4, <3>1, <3>2 DEF Finishes, StoreSound
  <2>3. QED
    BY <2>1, <2>2
<1>5. /\ busy' \in [Handle -> {"no", "store", "flush", "consolidate"}]
      /\ \A g \in Handle : busy'[g] # "no" => cell[g] # NoCell
  BY <1>1, Parts
<1>6. QED
  BY <1>1, <1>2, <1>3, <1>4, <1>5, Parts, Whole DEF Finishes

\* An operation that leaves everything as it was, but is over.
LEMMA GivingUpSound ==
  ASSUME MemoryInv, NEW h \in Handle, NEW op, busy[h] # "no", Acts(h, op),
         UNCHANGED <<file, older, stores, unstored, kept, hard>>
  PROVE  MemoryInv'
<1>1. /\ busy' = [busy EXCEPT ![h] = "no"] /\ Recorded(h) /\ healed' = healed /\ cell' = cell
  BY DEF Acts
<1>2. lapses' \in SUBSET Lapse /\ (lapses' = {} => lapses = {})
  BY <1>1, MayAct
<1>3. /\ busy' \in [Handle -> {"no", "store", "flush", "consolidate"}]
      /\ \A g \in Handle : busy'[g] # "no" => cell[g] # NoCell
  BY <1>1, Parts
<1>4. QED
  BY <1>1, <1>2, <1>3, Parts, Whole

\* A part of a line, or a line, is a file again.
LEMMA LinesTyped ==
  ASSUME NEW f \in File, NEW e \in Entry
  PROVE  \A g \in PartOfLine(f, e) \cup {WithLine(f, e)} : g \in File
<1>1. WithLine(f, e) \in File
  BY DEF WithLine, File
<1>2. ASSUME NEW t \in {Torn, e} PROVE [f EXCEPT !.tail = t] \in File
  BY DEF File
<1>3. QED
  BY <1>1, <1>2 DEF PartOfLine

\* A line is added to a file whose last line ends, or a part of it is.
LEMMA LinesAdd ==
  ASSUME NEW f \in File, f.tail = NoTail, NEW e \in Entry
  PROVE  /\ WithLine(f, e) \in File /\ Decoded(WithLine(f, e)) = Decoded(f) \cup {e}
         /\ WithLine(f, e).tail = NoTail
         /\ \A g \in PartOfLine(f, e) \cup {WithLine(f, e)} :
              /\ g \in File /\ Decoded(f) \subseteq Decoded(g)
              /\ g.welded = f.welded /\ g.synced = f.synced
<1>1. f.tail \notin Entry
  BY TailAssumption
<1>2. /\ WithLine(f, e) = [f EXCEPT !.lines = @ \cup {e}]
      /\ PartOfLine(f, e) = {f} \cup {[f EXCEPT !.tail = t] : t \in {Torn, e}}
  BY DEF WithLine, PartOfLine
<1>3. ASSUME NEW t \in {Torn, e}
      PROVE  /\ [f EXCEPT !.tail = t] \in File /\ Decoded(f) \subseteq Decoded([f EXCEPT !.tail = t])
             /\ [f EXCEPT !.tail = t].welded = f.welded /\ [f EXCEPT !.tail = t].synced = f.synced
  BY <1>1 DEF File, Decoded
<1>4. /\ WithLine(f, e) \in File /\ Decoded(WithLine(f, e)) = Decoded(f) \cup {e}
      /\ WithLine(f, e).tail = NoTail
      /\ WithLine(f, e).welded = f.welded /\ WithLine(f, e).synced = f.synced
  BY <1>1, <1>2 DEF File, Decoded
<1>5. QED
  BY <1>2, <1>3, <1>4

\* Before a lapse, who may append finds the file's last line ended.
LEMMA MayAppend ==
  ASSUME MemoryInv, NEW h \in Handle, busy[h] = "store", Recorded(h), lapses' = {},
         ~InnerOf(h).latched, Leads(InnerOf(h).path)
  PROVE  /\ file.tail = NoTail /\ Alone(h) /\ InnerSound(InnerOf(h), file, kept)
         /\ DiskSound(file, older, kept, hard)
<1>1. /\ Mutates(h) /\ Alone(h) /\ ~Blind(h) /\ InnerSound(InnerOf(h), file, kept)
      /\ DiskSound(file, older, kept, hard)
  BY MayAct DEF Mutates
<1>2. CASE InnerOf(h).fallback
  BY <1>1, <1>2 DEF Blind
<1>3. CASE ~InnerOf(h).fallback
  BY <1>1, <1>3 DEF InnerSound
<1>4. QED
  BY <1>1, <1>2, <1>3

LEMMA AppendLineSound ==
  ASSUME MemoryInv, NEW h \in Handle, NEW e \in Entry, AppendLine(h, e)
  PROVE  MemoryInv'
<1>1. /\ Acts(h, "store") /\ busy[h] = "store" /\ Recorded(h) /\ unstored' = unstored \ {e}
      /\ ~InnerOf(h).latched /\ Leads(InnerOf(h).path)
      /\ file' = WithLine(file, e) /\ Holds(h, InnerOf(h).held \cup {e}, FALSE)
      /\ kept' = kept \cup {e} /\ UNCHANGED <<older, hard>>
  BY DEF AppendLine, Acts
<1>2. InnerOf(h) \in Inner /\ file' \in File /\ InnerOf(h).held \cup {e} \in SUBSET Entry
  <2>1. InnerOf(h) \in Inner
    BY <1>1, MayAct
  <2>2. QED
    BY <1>1, <2>1, Parts, LinesTyped DEF Inner
<1> DEFINE K == InnerOf(h).held \cup {e}
<1>3. ASSUME lapses' = {}
      PROVE  /\ DiskSound(file', older', kept', hard') /\ Alone(h)
             /\ InnerSound(Left(h, K, FALSE), file', kept')
  <2>1. /\ file.tail = NoTail /\ Alone(h) /\ InnerSound(InnerOf(h), file, kept)
        /\ DiskSound(file, older, kept, hard)
    BY <1>1, <1>3, MayAppend
  <2>2. /\ Decoded(file') = Decoded(file) \cup {e} /\ file'.tail = NoTail
        /\ file'.welded = file.welded /\ file'.synced = file.synced
    BY <1>1, <2>1, Parts, LinesAdd
  <2>3. DiskSound(file', older', kept', hard')
    BY <1>1, <2>1, <2>2 DEF DiskSound
  <2>4. Left(h, K, FALSE).held = K /\ Left(h, K, FALSE).fallback = InnerOf(h).fallback
    BY <1>2 DEF Left, Inner
  <2>5. InnerSound(Left(h, K, FALSE), file', kept')
    BY <1>1, <2>1, <2>2, <2>4 DEF InnerSound
  <2>6. QED
    BY <2>1, <2>3, <2>5
<1> HIDE DEF K
<1>4. Finishes(h, K, FALSE)
  BY <1>1, <1>2, <1>3, Parts DEF Finishes, K
<1>5. QED
  BY <1>1, <1>2, <1>4, FinishSound DEF K

LEMMA AppendFailsSound ==
  ASSUME MemoryInv, NEW h \in Handle, NEW e \in Entry, AppendFails(h, e)
  PROVE  MemoryInv'
<1>1. /\ Acts(h, "store") /\ busy[h] = "store" /\ Recorded(h) /\ unstored' = unstored \ {e}
      /\ ~InnerOf(h).latched /\ Leads(InnerOf(h).path)
      /\ file' \in PartOfLine(file, e) /\ Holds(h, InnerOf(h).held, TRUE)
      /\ UNCHANGED <<older, kept, hard>>
  BY DEF AppendFails, Acts, Latches
<1>2. InnerOf(h) \in Inner /\ file' \in File /\ InnerOf(h).held \in SUBSET Entry
  <2>1. InnerOf(h) \in Inner
    BY <1>1, MayAct
  <2>2. QED
    BY <1>1, <2>1, Parts, LinesTyped DEF Inner
<1> DEFINE K == InnerOf(h).held
<1>3. ASSUME lapses' = {}
      PROVE  /\ DiskSound(file', older', kept', hard') /\ Alone(h)
             /\ InnerSound(Left(h, K, TRUE), file', kept')
  <2>1. /\ file.tail = NoTail /\ Alone(h) /\ InnerSound(InnerOf(h), file, kept)
        /\ DiskSound(file, older, kept, hard)
    BY <1>1, <1>3, MayAppend
  <2>2. /\ Decoded(file) \subseteq Decoded(file')
        /\ file'.welded = file.welded /\ file'.synced = file.synced
    BY <1>1, <2>1, Parts, LinesAdd
  <2>3. DiskSound(file', older', kept', hard')
    BY <1>1, <2>1, <2>2 DEF DiskSound
  <2>4. /\ Left(h, K, TRUE).held = K /\ Left(h, K, TRUE).fallback = InnerOf(h).fallback
        /\ Left(h, K, TRUE).latched
    BY <1>2 DEF Left, Inner
  <2>5. InnerSound(Left(h, K, TRUE), file', kept')
    BY <1>1, <2>1, <2>2, <2>4 DEF InnerSound
  <2>6. QED
    BY <2>1, <2>3, <2>5
<1> HIDE DEF K
<1>4. Finishes(h, K, TRUE)
  BY <1>1, <1>2, <1>3, Parts DEF Finishes, K
<1>5. QED
  BY <1>1, <1>2, <1>4, FinishSound DEF K


\* What a rewrite writes is typed; and before a lapse it holds what the hosts
\* were told is stored, because the Inner does or because the file is looked at
\* again.
LEMMA AdoptedSound ==
  ASSUME MemoryInv, NEW h \in Handle, busy[h] \in {"flush", "consolidate"}, Recorded(h)
  PROVE  /\ Adopted(h) \in SUBSET Entry /\ Rewrites(h) \subseteq Outcomes /\ InnerOf(h) \in Inner
         /\ ~Leads(InnerOf(h).path) => Adopted(h) = {} /\ Rewrites(h) = {"PreCommit"}
         /\ lapses' = {} =>
              /\ DiskSound(file, older, kept, hard)
              /\ Leads(InnerOf(h).path) =>
                   /\ Alone(h) /\ InnerSound(InnerOf(h), file, kept)
                   /\ kept \subseteq Adopted(h) /\ Adopted(h) \subseteq Decoded(file)
<1>1. /\ InnerOf(h) \in Inner /\ (~Leads(InnerOf(h).path) => InnerOf(h).held = {})
      /\ lapses' = {} =>
              /\ DiskSound(file, older, kept, hard)
              /\ Leads(InnerOf(h).path) => InnerSound(InnerOf(h), file, kept)
              /\ Mutates(h) => Alone(h)
  BY MayAct
<1>2. Leads(InnerOf(h).path) => Mutates(h)
  BY DEF Mutates
<1>3. Adopted(h) \in SUBSET Entry
  BY <1>1, Parts DEF Adopted, Inner
<1>4. /\ Rewrites(h) \subseteq Outcomes
      /\ ~Leads(InnerOf(h).path) => Adopted(h) = {} /\ Rewrites(h) = {"PreCommit"}
  BY <1>1 DEF Adopted, Rewrites, Outcomes
<1>5. ASSUME lapses' = {}, Leads(InnerOf(h).path)
      PROVE  kept \subseteq Adopted(h) /\ Adopted(h) \subseteq Decoded(file)
  BY <1>1, <1>5 DEF Adopted, InnerSound, DiskSound
<1>6. QED
  BY <1>1, <1>2, <1>3, <1>4, <1>5

LEMMA FlushSound ==
  ASSUME MemoryInv, NEW h \in Handle, Flush(h)
  PROVE  MemoryInv'
<1>1. PICK r \in Rewrites(h) :
       /\ Replaced(r, Adopted(h))
       /\ Holds(h, Adopted(h), r = "PreCommit" /\ InnerOf(h).latched)
       /\ IF r = "Ok" THEN hard' = kept ELSE UNCHANGED hard
  BY DEF Flush
<1>2. /\ Acts(h, "flush") /\ busy[h] = "flush" /\ Recorded(h) /\ UNCHANGED <<unstored, kept>>
  BY DEF Flush, Acts
<1>3. /\ Adopted(h) \in SUBSET Entry /\ r \in Outcomes /\ InnerOf(h) \in Inner
      /\ ~Leads(InnerOf(h).path) => Adopted(h) = {} /\ r = "PreCommit"
      /\ lapses' = {} =>
              /\ DiskSound(file, older, kept, hard)
              /\ Leads(InnerOf(h).path) =>
                   /\ Alone(h) /\ InnerSound(InnerOf(h), file, kept)
                   /\ kept \subseteq Adopted(h) /\ Adopted(h) \subseteq Decoded(file)
  BY <1>1, <1>2, AdoptedSound
<1>4. /\ file' \in File /\ older' \subseteq File
      /\ r = "PreCommit" => file' = file /\ older' = older
      /\ r # "PreCommit" => file' = Written(Adopted(h))
  BY <1>1, <1>3, Parts, ReplacedTyped
<1> DEFINE K == Adopted(h)
           l == r = "PreCommit" /\ InnerOf(h).latched
<1>5. l \in BOOLEAN /\ hard' \in SUBSET Entry
  BY <1>1, <1>3, Parts DEF Inner
<1>6. ASSUME lapses' = {}, ~Leads(InnerOf(h).path)
      PROVE  DiskSound(file', older', kept', hard') /\ file' = file
  BY <1>1, <1>2, <1>3, <1>4, <1>6
<1>7. ASSUME lapses' = {}, Leads(InnerOf(h).path)
      PROVE  DiskSound(file', older', kept', hard') /\ InnerSound(Left(h, K, l), file', kept')
  <2>1. hard' \subseteq kept /\ (r = "Ok" \/ hard' = hard)
    BY <1>1, <1>3, <1>7 DEF DiskSound
  <2>2. Rewrite(r, K, kept, hard')
    BY <1>1, <1>3, <1>7, <2>1 DEF Rewrite
  <2>3. DiskSound(file', older', kept', hard')
    BY <1>2, <1>3, <1>7, <2>2, ReplacedSound
  <2>4. K \subseteq Decoded(file')
    BY <1>3, <1>4, <1>7, WrittenIs
  <2>5. ~InnerOf(h).fallback /\ file'.tail # NoTail => l
    <3>1. ~InnerOf(h).fallback /\ file.tail # NoTail => InnerOf(h).latched
      BY <1>3, <1>7 DEF InnerSound
    <3>2. r # "PreCommit" => file'.tail = NoTail
      BY <1>3, <1>4, WrittenIs
    <3>3. QED
      BY <1>4, <3>1, <3>2
  <2> HIDE DEF K, l
  <2>6. /\ Left(h, K, l).held = K /\ Left(h, K, l).fallback = InnerOf(h).fallback
        /\ Left(h, K, l).latched = l
    BY <1>3 DEF Left, Inner
  <2>7. InnerSound(Left(h, K, l), file', kept')
    BY <1>2, <1>3, <1>7, <2>4, <2>5, <2>6 DEF InnerSound, K
  <2>8. QED
    BY <2>3, <2>7
<1>8. kept' \in SUBSET Entry /\ unstored' \in SUBSET Entry /\ K \in SUBSET Entry
      /\ Holds(h, K, l) /\ kept' = kept
  BY <1>1, <1>2, <1>3, Parts
<1>9. ~Leads(InnerOf(h).path) => K = {}
  BY <1>3
<1> HIDE DEF K, l
<1>10. Finishes(h, K, l)
  BY <1>3, <1>4, <1>5, <1>6, <1>7, <1>8, <1>9 DEF Finishes
<1>11. QED
  BY <1>2, <1>5, <1>8, <1>10, FinishSound

LEMMA ConsolidateSound ==
  ASSUME MemoryInv, NEW h \in Handle, Consolidate(h)
  PROVE  MemoryInv'
<1>1. PICK r \in Rewrites(h), K \in SUBSET Adopted(h) :
       /\ Replaced(r, K)
       /\ IF r = "PreCommit" THEN UNCHANGED <<stores, kept, hard>>
          ELSE /\ Holds(h, K, FALSE)
               /\ kept' = kept \ (Adopted(h) \ K)
               /\ hard' = IF r = "Ok" THEN kept' ELSE hard \cap kept'
  BY DEF Consolidate
<1>2. /\ Acts(h, "consolidate") /\ busy[h] = "consolidate" /\ Recorded(h) /\ unstored' = unstored
  BY DEF Consolidate, Acts
<1>3. /\ Adopted(h) \in SUBSET Entry /\ r \in Outcomes /\ InnerOf(h) \in Inner
      /\ ~Leads(InnerOf(h).path) => r = "PreCommit"
      /\ lapses' = {} =>
              /\ DiskSound(file, older, kept, hard)
              /\ Leads(InnerOf(h).path) => Alone(h) /\ kept \subseteq Adopted(h)
  BY <1>1, <1>2, AdoptedSound
<1>4. CASE r = "PreCommit"
  BY <1>1, <1>2, <1>4, GivingUpSound DEF Replaced
<1>5. CASE r # "PreCommit"
  <2>1. Leads(InnerOf(h).path) /\ kept' = kept \ (Adopted(h) \ K) /\ Holds(h, K, FALSE)
        /\ hard' \subseteq kept' /\ (r = "Ok" \/ hard' \subseteq hard)
    BY <1>1, <1>3, <1>5
  <2>2. /\ file' \in File /\ older' \subseteq File /\ file' = Written(K)
        /\ kept' \in SUBSET Entry /\ hard' \in SUBSET Entry /\ K \in SUBSET Entry
    BY <1>1, <1>3, <1>5, <2>1, Parts, ReplacedTyped
  <2>3. Decoded(file') = K /\ file'.tail = NoTail
    BY <2>2, WrittenIs
  <2>4. ASSUME lapses' = {}
        PROVE  DiskSound(file', older', kept', hard') /\ InnerSound(Left(h, K, FALSE), file', kept')
    <3>1. kept' \subseteq K
      BY <1>3, <2>1, <2>4
    <3>2. Rewrite(r, K, kept', hard')
      BY <1>1, <1>3, <1>5, <2>1, <2>2, <3>1 DEF Rewrite
    <3>3. DiskSound(file', older', kept', hard')
      BY <1>3, <2>4, <3>2, ReplacedSound
    <3>4. Left(h, K, FALSE).held = K
      BY <1>3 DEF Left, Inner
    <3>5. QED
      BY <2>3, <3>1, <3>3, <3>4 DEF InnerSound
  <2>5. Finishes(h, K, FALSE)
    BY <1>2, <1>3, <2>1, <2>2, <2>4, Parts DEF Finishes
  <2>6. QED
    BY <1>2, <2>2, <2>5, FinishSound
<1>6. QED
  BY <1>4, <1>5

\* Whatever a process leaves behind, a sound disk is all the next one needs.
LEMMA StopsSound ==
  ASSUME MemoryInv, Stops, file' \in File, older' \subseteq File, lapses' \in SUBSET Lapse,
         lapses' = {} => DiskSound(file', older', kept', hard'),
         unstored' \in SUBSET Entry, kept' \in SUBSET Entry, hard' \in SUBSET Entry
  PROVE  MemoryInv'
<1>1. cell' = [h \in Handle |-> NoCell] /\ stores' = NoStores
      /\ busy' = [h \in Handle |-> "no"] /\ healed' = healed
  BY DEF Stops
<1>2. /\ NoStores.key = [s \in Spelling |-> NoCell] /\ NoStores.current = [c \in Cell |-> c]
      /\ NoStores.inner = [c \in Cell |-> Blank]
      /\ NoStores = [key |-> NoStores.key, current |-> NoStores.current, inner |-> NoStores.inner]
  BY DEF NoStores
<1>3. NoStores \in Registry
  <2>1. Blank \in Inner
    BY Names DEF Blank, Inner
  <2>2. QED
    BY <1>2, <2>1 DEF Registry
<1>4. RegistrySound(stores', cell', healed') /\ StoreSound(stores', cell', healed', file', kept')
  BY <1>1, <1>2, Names DEF RegistrySound, StoreSound
<1>5. cell' \in [Handle -> Cell \cup {NoCell}] /\ \A h \in Handle : busy'[h] = "no"
      /\ busy' \in [Handle -> {"no", "store", "flush", "consolidate"}]
  BY <1>1
<1>6. QED
  BY <1>1, <1>3, <1>4, <1>5, Parts, Whole

LEMMA DiesSound ==
  ASSUME MemoryInv, Dies \/ \E h \in Handle, e \in Entry : DiesAppending(h, e)
  PROVE  MemoryInv'
<1>1. CASE Dies
  <2>1. Stops /\ UNCHANGED <<file, older, unstored, kept, hard, lapses>>
    BY <1>1 DEF Dies, Disk, Client
  <2>2. QED
    BY <2>1, Parts, StopsSound
<1>2. ASSUME NEW h \in Handle, NEW e \in Entry, DiesAppending(h, e) PROVE MemoryInv'
  <2>1. /\ Stops /\ busy[h] = "store" /\ Recorded(h) /\ ~InnerOf(h).latched /\ Leads(InnerOf(h).path)
        /\ file' \in PartOfLine(file, e) \cup {WithLine(file, e)}
        /\ unstored' = unstored \ {e} /\ UNCHANGED <<older, kept, hard>>
    BY <1>2 DEF DiesAppending
  <2>2. file' \in File
    BY <2>1, Parts, LinesTyped
  <2>3. lapses' \in SUBSET Lapse
    BY <2>1, MayAct
  <2>4. ASSUME lapses' = {} PROVE DiskSound(file', older', kept', hard')
    <3>1. file.tail = NoTail /\ DiskSound(file, older, kept, hard)
      BY <2>1, <2>4, MayAppend
    <3>2. /\ Decoded(file) \subseteq Decoded(file')
          /\ file'.welded = file.welded /\ file'.synced = file.synced
      BY <2>1, <3>1, Parts, LinesAdd
    <3>3. QED
      BY <2>1, <3>1, <3>2 DEF DiskSound
  <2>5. QED
    BY <2>1, <2>2, <2>3, <2>4, Parts, StopsSound
<1>3. QED
  BY <1>1, <1>2

LEMMA DiesRewritingSound ==
  ASSUME MemoryInv, NEW h \in Handle, DiesRewriting(h)
  PROVE  MemoryInv'
<1>1. /\ Stops /\ busy[h] \in {"flush", "consolidate"} /\ Leads(InnerOf(h).path)
      /\ Recorded(h) /\ unstored' = unstored
  BY DEF DiesRewriting
<1>2. PICK K \in SUBSET Adopted(h) :
        /\ Replaced("NotDurable", K) /\ kept' = kept \ (Adopted(h) \ K)
        /\ (hard' = hard /\ kept' = kept) \/ hard' = hard \cap kept'
  <2>1. CASE busy[h] = "flush"
    <3>1. Replaced("NotDurable", Adopted(h)) /\ kept' = kept /\ hard' = hard
      BY <2>1 DEF DiesRewriting
    <3>2. kept' = kept \ (Adopted(h) \ Adopted(h))
      BY <3>1
    <3>3. QED
      BY <3>1, <3>2
  <2>2. CASE busy[h] = "consolidate"
    BY <2>2 DEF DiesRewriting
  <2>3. QED
    BY <1>1, <2>1, <2>2
<1>3. /\ Adopted(h) \in SUBSET Entry
      /\ lapses' = {} => DiskSound(file, older, kept, hard) /\ kept \subseteq Adopted(h)
      /\ lapses' \in SUBSET Lapse
  BY <1>1, AdoptedSound, MayAct
<1>4. file' \in File /\ older' \subseteq File /\ kept' \in SUBSET Entry /\ hard' \in SUBSET Entry
  BY <1>2, <1>3, Parts, ReplacedTyped DEF Outcomes
<1>5. ASSUME lapses' = {} PROVE DiskSound(file', older', kept', hard')
  <2>1. hard' \subseteq kept' /\ hard' \subseteq hard /\ kept' \subseteq K
    <3>1. hard \subseteq kept /\ kept' \subseteq K
      BY <1>2, <1>3, <1>5 DEF DiskSound
    <3>2. QED
      BY <1>2, <3>1
  <2>2. Rewrite("NotDurable", K, kept', hard')
    BY <1>2, <1>3, <2>1 DEF Rewrite, Outcomes
  <2>3. QED
    BY <1>3, <1>5, <2>2, ReplacedSound
<1>6. QED
  BY <1>1, <1>3, <1>4, <1>5, Parts, StopsSound

\* The machine takes only what was not synced, and only once the process is gone.
LEMMA PowerLossSound ==
  ASSUME MemoryInv, PowerLoss
  PROVE  MemoryInv'
<1>1. PICK f \in {file} \cup older :
        \E L \in SUBSET f.lines, t \in {NoTail, Torn} \cup Entry :
         /\ f.synced \subseteq L
         /\ file' = [lines |-> L, welded |-> f.welded, tail |-> t, synced |-> L]
  BY DEF PowerLoss
<1>2. PICK L \in SUBSET f.lines, t \in {NoTail, Torn} \cup Entry :
        /\ f.synced \subseteq L
        /\ file' = [lines |-> L, welded |-> f.welded, tail |-> t, synced |-> L]
  BY <1>1
<1>3. /\ \A h \in Handle : cell[h] = NoCell
      /\ older' = {} /\ kept' = kept \cap Decoded(file')
      /\ UNCHANGED <<healed, cell, stores, busy, unstored, hard, lapses>>
  BY DEF PowerLoss
<1>4. f \in File
  BY Parts
<1>5. /\ file' \in File /\ file'.welded = f.welded /\ file'.synced = L /\ L \subseteq Decoded(file')
  BY <1>2, <1>4 DEF File, Decoded
<1>6. ASSUME lapses = {} PROVE DiskSound(file', older', kept', hard')
  <2>1. ~f.welded /\ hard \subseteq f.synced /\ hard \subseteq kept
    BY <1>6, Parts DEF DiskSound
  <2>2. QED
    BY <1>2, <1>3, <1>5, <2>1 DEF DiskSound
<1>7. StoreSound(stores', cell', healed', file', kept')
  BY <1>3 DEF StoreSound
<1>8. kept' \in SUBSET Entry
  BY <1>3, Parts
<1>9. QED
  BY <1>3, <1>5, <1>6, <1>7, <1>8, Parts, Whole

-----------------------------------------------------------------------------

LEMMA MemoryBegins == MemoryInit => MemoryInv
<1> SUFFICES ASSUME MemoryInit PROVE MemoryInv
  OBVIOUS
<1>1. file = Written({}) /\ Written({}) \in File /\ Decoded(Written({})) = {}
      /\ Written({}).synced = {} /\ ~Written({}).welded
  BY WrittenIs DEF MemoryInit
<1>2. /\ NoStores.key = [s \in Spelling |-> NoCell] /\ NoStores.current = [c \in Cell |-> c]
      /\ NoStores.inner = [c \in Cell |-> Blank]
      /\ NoStores = [key |-> NoStores.key, current |-> NoStores.current, inner |-> NoStores.inner]
  BY DEF NoStores
<1>3. NoStores \in Registry
  <2>1. Blank \in Inner
    BY Names DEF Blank, Inner
  <2>2. QED
    BY <1>2, <2>1 DEF Registry
<1>4. RegistrySound(stores, cell, healed) /\ StoreSound(stores, cell, healed, file, kept)
  BY <1>2, Names DEF MemoryInit, RegistrySound, StoreSound
<1>5. DiskSound(file, older, kept, hard)
  BY <1>1 DEF MemoryInit, DiskSound
<1>6. QED
  BY <1>1, <1>3, <1>4, <1>5 DEF MemoryInit, MemoryInv, MemoryTypeOK, Registry

LEMMA MemoryGoesOn == MemoryInv /\ [MemoryNext]_memoryVars => MemoryInv'
<1> SUFFICES ASSUME MemoryInv, [MemoryNext]_memoryVars PROVE MemoryInv'
  OBVIOUS
<1>1. ASSUME NEW h \in Handle, NEW s \in Spelling, Open(h, s) \/ New(h, s) PROVE MemoryInv'
  BY <1>1, OpenSound, NewSound
<1>2. ASSUME NEW h \in Handle, Drop(h) \/ AppendRefused(h) \/ Flush(h) \/ Consolidate(h)
      PROVE  MemoryInv'
  <2>1. CASE AppendRefused(h)
    BY <2>1, GivingUpSound DEF AppendRefused, Acts, Disk, Client
  <2>2. QED
    BY <1>2, <2>1, DropStepSound, FlushSound, ConsolidateSound
<1>3. ASSUME NEW h \in Handle, NEW op \in {"store", "flush", "consolidate"}, Converge(h, op)
      PROVE  MemoryInv'
  BY <1>3, ConvergeSound
<1>4. ASSUME NEW h \in Handle, NEW e \in AnyOf(unstored),
             AppendLine(h, e) \/ AppendFails(h, e) \/ DiesAppending(h, e)
      PROVE  MemoryInv'
  <2>1. e \in Entry
    BY Parts DEF AnyOf
  <2>2. QED
    BY <1>4, <2>1, AppendLineSound, AppendFailsSound, DiesSound
<1>5. ASSUME NEW h \in Handle, DiesRewriting(h) PROVE MemoryInv'
  BY <1>5, DiesRewritingSound
<1>6. ASSUME NEW l \in Link, Heal(l) PROVE MemoryInv'
  BY <1>6, HealSound
<1>7. CASE Dies \/ PowerLoss
  BY <1>7, DiesSound, PowerLossSound
<1>8. CASE UNCHANGED memoryVars
  BY <1>8, Parts, Whole DEF memoryVars
<1>9. QED
  BY <1>1, <1>2, <1>3, <1>4, <1>5, <1>6, <1>7, <1>8 DEF MemoryNext

\* The invariant of the memory store, whatever its hosts do.
THEOREM MemoryInvariant == MemorySpec => []MemoryInv
BY MemoryBegins, MemoryGoesOn, PTL DEF MemorySpec

\* The disk, the registry and the handles keep their types.
THEOREM MemoryTypeCorrect == MemorySpec => []MemoryTypeOK
<1>1. MemoryInv => MemoryTypeOK
  BY DEF MemoryInv
<1>2. QED
  BY <1>1, MemoryInvariant, PTL

\* Whatever stops, fails, is dropped or comes to resolve, and whenever: before
\* an operation has run beside a second store of the file, or an append met a
\* fragment that its store never read, the file can be opened, has every memory
\* whose store() returned and that no pass pruned, and no handle offers another.
THEOREM StoredAlwaysSurvives == MemorySpec => []StoredSurvives
<1>1. MemoryInv => StoredSurvives
  <2> SUFFICES ASSUME MemoryInv, lapses = {} PROVE StoredIsThere /\ MirrorIsOnDisk
    BY DEF StoredSurvives
  <2>1. StoreSound(stores, cell, healed, file, kept) /\ DiskSound(file, older, kept, hard)
    BY Parts
  <2>2. ASSUME NEW h \in Handle, cell[h] # NoCell PROVE InnerOf(h).held \subseteq Decoded(file)
    <3>1. InnerOf(h) = InnerIn(stores, cell[h]) /\ Settled(stores, cell[h], healed)
      BY <2>2, Parts DEF InnerOf, InnerIn
    <3>2. QED
      BY <2>1, <2>2, <3>1 DEF Settled, StoreSound, InnerSound, ToFile
  <2>3. QED
    BY <2>1, <2>2 DEF DiskSound, StoredIsThere, MirrorIsOnDisk
<1>2. QED
  BY <1>1, MemoryInvariant, PTL

\* What a flush or a consolidation reported durable survives the machine, until
\* one of those two lapses.
THEOREM FlushedAlwaysSurvives == MemorySpec => []FlushedSurvives
<1>1. MemoryInv => FlushedSurvives
  BY Parts DEF DiskSound, FlushedSurvives
<1>2. QED
  BY <1>1, MemoryInvariant, PTL

\* Where every spelling of the file resolves, all handles are on the cell of
\* the file's key.
OneStore == /\ \A h \in Handle : cell[h] # NoCell => cell[h] = stores.key[real]
            /\ "apart" \notin lapses

LEMMA OneStoreKept ==
  ASSUME Link = {}, MemoryInv, OneStore, [MemoryNext]_memoryVars
  PROVE  OneStore'
<1>1. /\ Migrations = {stores} /\ Spelling = {real} /\ stores \in Registry
      /\ cell \in [Handle -> Cell \cup {NoCell}]
  BY Parts DEF Migrations, Strays, Spelling
<1>2. \A h \in Handle : cell[h] # NoCell /\ Recorded(h) => "apart" \notin lapses'
  BY DEF OneStore, Alone, Recorded
<1>3. ASSUME NEW h \in Handle, NEW K,
             Attaches(h, stores, real) \/ Creates(h, stores, real, K), cell[h] = NoCell
      PROVE  \A g \in Handle : cell'[g] # NoCell => cell'[g] = stores'.key[real]
  <2>1. CASE Attaches(h, stores, real)
    BY <1>1, <2>1 DEF Attaches, OneStore
  <2>2. CASE Creates(h, stores, real, K)
    <3>1. PICK c : cell' = [cell EXCEPT ![h] = c] /\ stores' = Created(stores, c, real, K)
      BY <2>2 DEF Creates
    <3>2. stores'.key = [stores.key EXCEPT ![real] = c]
      BY <3>1 DEF Created
    <3>3. stores'.key[real] = c
      BY <1>1, <3>2 DEF Registry
    <3>4. \A g \in Handle : cell[g] = NoCell
      BY <2>2 DEF Creates, OneStore
    <3>5. QED
      BY <1>1, <3>1, <3>3, <3>4
  <2>3. QED
    BY <1>3, <2>1, <2>2
<1>4. ASSUME NEW h \in Handle, NEW s \in Spelling, Open(h, s) \/ New(h, s) PROVE OneStore'
  <2>1. "apart" \notin lapses'
    BY <1>4 DEF Open, New, OneStore
  <2>2. s = real /\ Leads(real) /\ cell[h] = NoCell
    BY <1>1, <1>4 DEF Open, New, Leads
  <2>3. \/ UNCHANGED <<cell, stores>>
        \/ \E K : Attaches(h, stores, real) \/ Creates(h, stores, real, K)
    BY <1>1, <1>4, <2>2 DEF Open, New
  <2>4. QED
    BY <1>3, <2>1, <2>2, <2>3 DEF OneStore
<1>5. ASSUME NEW h \in Handle, Drop(h) PROVE OneStore'
  <2>1. /\ cell' = [cell EXCEPT ![h] = NoCell] /\ lapses' = lapses
        /\ stores'.key = [s \in Spelling |-> IF /\ \A g \in Handle \ {h} : cell[g] # cell[h]
                                                /\ stores.key[s] = cell[h]
                                             THEN NoCell ELSE stores.key[s]]
    BY <1>5 DEF Drop, Without
  <2>2. stores'.key[real] = IF (\A g \in Handle \ {h} : cell[g] # cell[h]) /\ stores.key[real] = cell[h]
                            THEN NoCell ELSE stores.key[real]
    BY <1>1, <2>1
  <2>3. cell[h] # NoCell
    BY <1>5 DEF Drop
  <2>4. QED
    BY <1>1, <2>1, <2>2, <2>3 DEF OneStore
<1>6. ASSUME NEW h \in Handle, NEW op, busy[h] # "no", Acts(h, op),
             stores' = stores \/ \E K, l : Holds(h, K, l)
      PROVE  OneStore'
  <2>1. cell' = cell /\ Recorded(h) /\ stores'.key = stores.key
    BY <1>1, <1>6 DEF Acts, Holds, Registry
  <2>2. cell[h] # NoCell
    BY <1>6, Parts
  <2>3. QED
    BY <1>2, <2>1, <2>2 DEF OneStore
<1>7. ASSUME NEW h \in Handle, AppendRefused(h) \/ Flush(h) \/ Consolidate(h) PROVE OneStore'
  BY <1>6, <1>7 DEF AppendRefused, Flush, Consolidate, Acts
<1>8. ASSUME NEW h \in Handle, NEW e, AppendLine(h, e) \/ AppendFails(h, e) PROVE OneStore'
  BY <1>6, <1>8 DEF AppendLine, AppendFails, Latches, Acts
<1>9. ASSUME NEW h \in Handle, NEW op, Converge(h, op) PROVE OneStore'
  BY <1>1, <1>9 DEF Converge, OneStore
<1>10. ASSUME Stops, "apart" \notin lapses' PROVE OneStore'
  BY <1>10 DEF Stops, OneStore
<1>11. ASSUME NEW h \in Handle, NEW e, DiesAppending(h, e) \/ DiesRewriting(h) PROVE OneStore'
  <2>1. Stops /\ Recorded(h) /\ busy[h] # "no"
    BY <1>11 DEF DiesAppending, DiesRewriting
  <2>2. QED
    BY <1>2, <1>10, <2>1, Parts
<1>12. CASE Dies
  BY <1>10, <1>12 DEF Dies, OneStore
<1>13. CASE UNCHANGED memoryVars
  BY <1>13 DEF memoryVars, OneStore
<1>14. CASE PowerLoss
  BY <1>14 DEF PowerLoss, OneStore
<1>15. QED
  BY <1>4, <1>5, <1>7, <1>8, <1>9, <1>11, <1>12, <1>13, <1>14 DEF MemoryNext

\* Where every spelling of the file resolves, the promise of one lock domain is
\* kept, however handles are opened, made and dropped.
THEOREM OneLockWhereAllResolve ==
  ASSUME Link = {}
  PROVE  MemorySpec => []OneLockDomain
<1>1. MemoryInit => OneStore
  BY DEF MemoryInit, OneStore
<1>2. MemoryInv /\ OneStore /\ [MemoryNext]_memoryVars => OneStore'
  BY OneStoreKept
<1>3. OneStore => OneLockDomain
  BY DEF OneStore, OneLockDomain
<1>4. QED
  BY <1>1, <1>2, <1>3, MemoryInvariant, PTL DEF MemorySpec
=============================================================================
