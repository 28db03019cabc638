----------------------------- MODULE FileTools ------------------------------
(***************************************************************************)
(* What the tools that read and write files know of them, and the guards   *)
(* before they replace one (src/tool/builtin/fs): Read, Write, Edit and    *)
(* MultiEdit, in calls that share a FileSession, beside an editor outside. *)
(* Files are names on inodes, and an inode's content is the number of the  *)
(* write it comes from.                                                    *)
(* Left out: links that are symbolic, the reach of the workspace, matching *)
(* and validation, which end a call before it writes; and the gaps the     *)
(* code documents, in which nothing is compared any more: an edit in place *)
(* between check and rename, a swap between the last look and the rename,  *)
(* an inode number that is used again while a check is under way.          *)
(***************************************************************************)
EXTENDS Naturals, Sequences, FiniteSets

CONSTANTS FName, Inode, NoInode,
          Job,          \* the calls of the tools
          Policies,     \* ResolvePolicy: "Contained", "Unrestricted"
          Edits,        \* the batches of MultiEdit: sequences of names
          MaxVersion    \* bound: writes, by anyone

ASSUME FileAssumption == /\ NoInode \notin Inode /\ MaxVersion \in Nat \ {0}
                         /\ Policies \subseteq {"Contained", "Unrestricted"}
                         /\ Edits \subseteq Seq(FName) \ {<<>>} /\ Inode # {}

VARIABLES
  policy,
  entry, bytes,        \* FName -> inode, inode -> content
  version,             \* writes so far
  byPath, byIdentity,  \* FileBaselines, FileIdentities
  observed,            \* OBSERVATION_SEQ
  job,
  familiar,            \* what the model saw in this session, or had written
  clobbered            \* what an armed write replaced unseen

fileVars == <<policy, entry, bytes, version, byPath, byIdentity, observed, job, familiar, clobbered>>
World    == <<policy, entry, bytes, version>>
Guards   == <<byPath, byIdentity, observed>>

\* Stamps begin at 1: 0 is no observation.
Baseline == [observed : Nat, hash : Nat, resumed : BOOLEAN]
Never    == [observed |-> 0, hash |-> 0, resumed |-> FALSE]

JobState == [at : {"idle", "checks", "looks", "renames", "records", "over"},
             todo : Seq(FName),             \* what is still to be written
             original : [FName -> Nat],     \* the content each is compared with
             armed : BOOLEAN, expected : Inode \cup {NoInode},
             sees : Baseline,               \* an observation that is not recorded yet
             applied : Seq(FName), wrote : Seq(FName), told : Seq(FName)]
NewJob == [at |-> "idle", todo |-> <<>>, original |-> [n \in FName |-> 0],
           armed |-> FALSE, expected |-> NoInode, sees |-> Never,
           applied |-> <<>>, wrote |-> <<>>, told |-> <<>>]

Exists(n)  == entry[n] # NoInode
Content(n) == bytes[entry[n]]
Target(j)  == Head(job[j].todo)
SpareInodes == {i \in Inode : /\ \A n \in FName : entry[n] # i
                            /\ \A j \in Job : job[j].expected # i}

-----------------------------------------------------------------------------
(* The baselines. *)

Newer(old, new) == IF old.observed > new.observed THEN old ELSE new

\* Hard links are different paths and one identity.
BaselineFor(n) ==
  IF policy = "Unrestricted" /\ Exists(n) THEN Newer(byPath[n], byIdentity[entry[n]])
  ELSE byPath[n]

RecordBaseline(n, b) ==
  /\ byPath' = [byPath EXCEPT ![n] = Newer(@, b)]
  /\ byIdentity' = IF policy = "Unrestricted" /\ Exists(n)
                   THEN [byIdentity EXCEPT ![entry[n]] = Newer(@, b)] ELSE byIdentity

-----------------------------------------------------------------------------
(* The calls. *)

Goes(j, s)  == job' = [job EXCEPT ![j] = s]
Begins(j)   == job[j].at = "idle"
Over(s, told) == [NewJob EXCEPT !.at = "over", !.wrote = s.wrote, !.told = told]

\* Read, and record_resumed_read, whose bytes no model sees.
Observe(j, n, isResumed) ==
  /\ Begins(j) /\ Exists(n) /\ observed' = observed + 1
  /\ Goes(j, [job[j] EXCEPT !.at = "records", !.todo = <<n>>,
               !.sees = [observed |-> observed + 1, hash |-> Content(n), resumed |-> isResumed]])
  /\ familiar' = IF isResumed THEN familiar ELSE familiar \cup {Content(n)}
  /\ UNCHANGED <<World, byPath, byIdentity, clobbered>>

\* write_inner: a file that was never read is written without a check.
Refused_never(b) == FALSE   \* mutant: a resumed baseline is as good as a read
Refused(b) == b.resumed
StartWrite(j, n) ==
  LET b == BaselineFor(n) IN
  /\ Begins(j)
  /\ Goes(j, IF Refused(b) THEN Over(job[j], <<>>)
             ELSE [job[j] EXCEPT !.todo = <<n>>, !.armed = (b # Never),
                     !.original[n] = b.hash, !.at = IF b = Never THEN "looks" ELSE "checks"])
  /\ UNCHANGED <<World, Guards, familiar, clobbered>>

\* edit_inner and multi_edit_inner: files are compared with what the call read
\* of them.  One file is not edited twice in a batch under two names.
StartEdit(j, ns) ==
  /\ Begins(j) /\ \A k \in DOMAIN ns : Exists(ns[k])
  /\ \A k, l \in DOMAIN ns : k # l => entry[ns[k]] # entry[ns[l]]
  /\ Goes(j, [job[j] EXCEPT !.at = "checks", !.todo = ns, !.armed = TRUE,
               !.original = [n \in FName |-> IF Exists(n) THEN Content(n) ELSE 0]])
  /\ familiar' = familiar \cup {Content(ns[k]) : k \in DOMAIN ns}
  /\ UNCHANGED <<World, Guards, clobbered>>

\* check_content_unchanged, check_content_hash_unchanged
Compare(j) ==
  LET n == Target(j) IN
  /\ job[j].at = "checks"
  /\ Goes(j, IF Exists(n) /\ Content(n) = job[j].original[n]
             THEN [job[j] EXCEPT !.at = "looks", !.expected = entry[n]]
             ELSE Over(job[j], job[j].applied))
  /\ UNCHANGED <<World, Guards, familiar, clobbered>>

\* The temporary file is written; the identity gate is the last look.
Same_always(j) == TRUE   \* mutant: no identity gate
Same(j) == job[j].armed => entry[Target(j)] = job[j].expected
Look(j) ==
  /\ job[j].at = "looks"
  /\ Goes(j, IF Same(j) THEN [job[j] EXCEPT !.at = "renames"]
             ELSE Over(job[j], job[j].applied))
  /\ UNCHANGED <<World, Guards, familiar, clobbered>>

\* Any step of a write may fail, and then what was applied is reported.
Report_nothing(s) == <<>>   \* mutant: a fault does not name what was written
Report(s) == s.applied
WriteFails(j) ==
  /\ job[j].at \in {"checks", "looks", "renames"} /\ Goes(j, Over(job[j], Report(job[j])))
  /\ UNCHANGED <<World, Guards, familiar, clobbered>>

\* Nobody is between the last look at a name and the rename to it.
Unwatched(n, others) == \A k \in others : job[k].at = "renames" => Target(k) # n

Replaces(n, i) == /\ entry' = [entry EXCEPT ![n] = i] /\ version' = version + 1
                  /\ bytes' = [bytes EXCEPT ![i] = version + 1]
                  /\ version < MaxVersion /\ UNCHANGED policy

\* What goes with a name, unless it has another one.
Lost(n) == IF ~Exists(n) \/ \E m \in FName \ {n} : entry[m] = entry[n] THEN {} ELSE {Content(n)}

Rename(j) ==
  LET n == Target(j) IN
  /\ job[j].at = "renames" /\ Unwatched(n, Job \ {j}) /\ \E i \in SpareInodes : Replaces(n, i)
  /\ clobbered' = IF job[j].armed THEN clobbered \cup (Lost(n) \ familiar) ELSE clobbered
  /\ familiar' = familiar \cup {version + 1}
  /\ Goes(j, [job[j] EXCEPT !.at = "records", !.applied = Append(@, n), !.expected = NoInode,
               !.wrote = Append(@, n), !.sees = [Never EXCEPT !.hash = version + 1]])
  /\ UNCHANGED Guards

\* record_baseline; a write is observed after it landed.
Record(j) ==
  LET s == job[j]
      b == IF s.sees.observed = 0 THEN [s.sees EXCEPT !.observed = observed + 1] ELSE s.sees IN
  /\ s.at = "records" /\ RecordBaseline(Target(j), b)
  /\ observed' = IF s.sees.observed = 0 THEN observed + 1 ELSE observed
  /\ Goes(j, IF Len(s.todo) = 1 THEN Over(s, s.wrote)
             ELSE [s EXCEPT !.at = "checks", !.todo = Tail(@)])
  /\ UNCHANGED <<World, familiar, clobbered>>

-----------------------------------------------------------------------------
(* The editor outside. *)

Outside == <<Guards, job, familiar, clobbered>>

EditInPlace(i) ==
  /\ \E n \in FName : entry[n] = i
  /\ \A j \in Job : job[j].expected # i
  /\ version < MaxVersion /\ version' = version + 1 /\ bytes' = [bytes EXCEPT ![i] = version + 1]
  /\ UNCHANGED <<policy, entry, Outside>>

EditBySwap(n) == /\ Unwatched(n, Job) /\ (\E i \in SpareInodes : Replaces(n, i)) /\ UNCHANGED Outside

Remove(n) == /\ Exists(n) /\ Unwatched(n, Job) /\ entry' = [entry EXCEPT ![n] = NoInode]
             /\ UNCHANGED <<policy, bytes, version, Outside>>

\* The names are links to one file.
FileInit ==
  /\ policy \in Policies /\ version = 1 /\ observed = 0
  /\ \E i \in {CHOOSE i \in Inode : TRUE} :
       entry = [n \in FName |-> i] /\ bytes = [k \in Inode |-> IF k = i THEN 1 ELSE 0]
  /\ byPath = [n \in FName |-> Never] /\ byIdentity = [i \in Inode |-> Never]
  /\ job = [j \in Job |-> NewJob] /\ familiar = {} /\ clobbered = {}

FileNext ==
  \/ \E j \in Job : \/ \E n \in FName : \/ Observe(j, n, FALSE) \/ Observe(j, n, TRUE)
                                        \/ StartWrite(j, n) \/ StartEdit(j, <<n>>)
                    \/ \E ns \in Edits : StartEdit(j, ns)
                    \/ Compare(j) \/ Look(j) \/ WriteFails(j) \/ Rename(j) \/ Record(j)
  \/ \E i \in Inode : EditInPlace(i)
  \/ \E n \in FName : EditBySwap(n) \/ Remove(n)

FileSpec == FileInit /\ [][FileNext]_fileVars

-----------------------------------------------------------------------------

FileTypeOK ==
  /\ policy \in Policies /\ entry \in [FName -> Inode \cup {NoInode}]
  /\ bytes \in [Inode -> Nat] /\ version \in 1..MaxVersion
  /\ byPath \in [FName -> Baseline] /\ byIdentity \in [Inode -> Baseline] /\ observed \in Nat
  /\ job \in [Job -> JobState] /\ familiar \subseteq Nat /\ clobbered \subseteq Nat

\* Outside the documented gaps, a write that a baseline or a read of its own
\* has armed destroys nothing that the model has not seen: not what an editor
\* put there, in place or by a swap, nor what another call wrote, through
\* whatever hard link; the bytes a resumed session read for itself count as
\* unseen.  And a batch that ends early reports just the files it has written.
NothingUnseenIsClobbered ==
  /\ clobbered = {}
  /\ \A j \in Job : job[j].at = "over" => job[j].told = job[j].wrote
=============================================================================
