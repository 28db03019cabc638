----------------------------- MODULE LedgerSink -----------------------------
(***************************************************************************)
(* The background writers of the trajectory ledger                         *)
(* (src/memory/trajectory/sink.rs): each has a bounded queue, a worker     *)
(* thread and one condition variable on which the worker and those who     *)
(* flush wait for opposite things.  Here they append to one file, behind   *)
(* the process-wide lock.  A worker that could not be started, which drops *)
(* what it is given, and other processes are left out.                     *)
(***************************************************************************)
EXTENDS Integers, Sequences, FiniteSets

CONSTANTS Sink,        \* the writers of one ledger; each stands for its worker, too
          Caller,      \* the threads that use them
          Handles,     \* Caller -> the writers it has a reference to
          QueueLimit,  \* capacity of a queue
          MaxRecords   \* bound: records

ASSUME SinkAssumption == /\ QueueLimit \in Nat \ {0} /\ MaxRecords \in Nat
                         /\ Sink # {} /\ Sink \cap Caller = {}
                         /\ Handles \in [Caller -> SUBSET Sink]

VARIABLES
  sink,      \* of each writer: QueueState, the batch its worker holds, the worker
  caller,    \* what each thread does with which writer
  asleep,    \* the workers and the threads that wait on a condition variable
  ledger,    \* the file
  appender,  \* who holds LEDGER_APPEND_LOCK
  made,      \* records handed over; they are numbered
  lost,      \* the records that warnings counted as lost
  unsealed   \* failed writes whose repair and whose seal failed as well

sinkVars == <<sink, caller, asleep, ledger, appender, made, lost, unsealed>>

WriterState == [lines : Seq(Nat), writing : Nat, closed : BOOLEAN, hand : Seq(Nat),
                at : {"ready", "appends", "writes", "repairs", "notifies", "returned"},
                start : Nat]
NewWriter == [lines |-> <<>>, writing |-> 0, closed |-> FALSE, hand |-> <<>>,
              at |-> "ready", start |-> 0]

CallerState == [at : {"idle", "notifies", "flushes", "closes", "joins"}, of : Sink]

\* What the file is made of.  A record is its line, newline included; it can be
\* read where a line begins.
Fragment == 0   \* a line that breaks off
Newline  == -1  \* what seals it
Legible  == {i \in DOMAIN ledger : ledger[i] > 0 /\ (i > 1 => ledger[i - 1] # Fragment)}
Readable == {ledger[i] : i \in Legible}

ItemsOf(s) == {s[i] : i \in DOMAIN s}
Held(s)    == ItemsOf(sink[s].lines) \cup ItemsOf(sink[s].hand)

-----------------------------------------------------------------------------
(* Whoever changes what may be waited for wakes all who wait, after letting *)
(* go of the queue's lock.                                                  *)

Sleepers(s) == {t \in asleep : t = s \/ (t \in Caller /\ caller[t].of = s)}
Wakeups_one(s) == IF Sleepers(s) = {} THEN {{}} ELSE {{t} : t \in Sleepers(s)}  \* mutant: notify_one
Wakeups(s) == {Sleepers(s)}
Notify(s)  == \E woken \in Wakeups(s) : asleep' = asleep \ woken

Sets(s, w) == sink' = [sink EXCEPT ![s] = w]
Turns(c, what) == caller' = [caller EXCEPT ![c].at = what]
OnDisk == <<ledger, appender, unsealed>>

Free(c)  == caller[c].at = "idle"
Takes(c, s, what) == caller' = [caller EXCEPT ![c] = [at |-> what, of |-> s]]

\* When the queue is full, its oldest record goes.
AtLimit(s) == Len(sink[s].lines) >= QueueLimit
Enqueue(c, s) ==
  /\ Free(c) /\ ~sink[s].closed /\ made < MaxRecords /\ made' = made + 1
  /\ LET rest == IF AtLimit(s) THEN Tail(sink[s].lines) ELSE sink[s].lines IN
     Sets(s, [sink[s] EXCEPT !.lines = Append(rest, made + 1)])
  /\ lost' = IF AtLimit(s) THEN lost \cup {Head(sink[s].lines)} ELSE lost
  /\ Takes(c, s, "notifies") /\ UNCHANGED <<asleep, OnDisk>>

NotifyAfterEnqueue(c) ==
  /\ caller[c].at = "notifies" /\ Notify(caller[c].of) /\ Turns(c, "idle")
  /\ UNCHANGED <<sink, made, lost, OnDisk>>

BeginFlush(c, s) == /\ Free(c) /\ ~sink[s].closed /\ Takes(c, s, "flushes")
                    /\ UNCHANGED <<sink, asleep, made, lost, OnDisk>>

\* The loop of flush: it returns, or sleeps until it is woken.
IsDrained(w) == w.lines = <<>> /\ w.writing = 0
CheckDrained(c) ==
  /\ caller[c].at = "flushes" /\ c \notin asleep
  /\ IF IsDrained(sink[caller[c].of]) THEN Turns(c, "idle") /\ UNCHANGED asleep
     ELSE asleep' = asleep \cup {c} /\ UNCHANGED caller
  /\ UNCHANGED <<sink, made, lost, OnDisk>>

\* Drop, which runs when nobody else has a reference any more.
CloseSink(c, s) ==
  /\ Free(c) /\ ~sink[s].closed
  /\ \A d \in Caller : Free(d) \/ caller[d].of # s
  /\ Sets(s, [sink[s] EXCEPT !.closed = TRUE]) /\ Takes(c, s, "closes")
  /\ UNCHANGED <<asleep, made, lost, OnDisk>>
NotifyAfterClose(c) ==
  /\ caller[c].at = "closes" /\ Notify(caller[c].of) /\ Turns(c, "joins")
  /\ UNCHANGED <<sink, made, lost, OnDisk>>
Join(c) == /\ caller[c].at = "joins" /\ sink[caller[c].of].at = "returned" /\ Turns(c, "idle")
           /\ UNCHANGED <<sink, asleep, made, lost, OnDisk>>

-----------------------------------------------------------------------------
(* The worker: work() and append_line().                                     *)

Awake(s, what) == sink[s].at = what /\ s \notin asleep

Writing_unset(w) == w.writing   \* mutant: the batch in hand is not counted
Writing(w) == Len(w.lines)
Work(s) ==
  LET w == sink[s] IN
  /\ Awake(s, "ready")
  /\ \/ /\ w.lines = <<>> /\ ~w.closed /\ asleep' = asleep \cup {s} /\ UNCHANGED sink
     \/ /\ w.lines = <<>> /\ w.closed /\ Sets(s, [w EXCEPT !.at = "returned"]) /\ UNCHANGED asleep
     \/ /\ w.lines # <<>> /\ UNCHANGED asleep
        /\ Sets(s, [w EXCEPT !.at = "appends", !.hand = w.lines, !.lines = <<>>,
                             !.writing = Writing(w)])
  /\ UNCHANGED <<caller, made, lost, OnDisk>>

\* Opening the file may fail, or making its directory.
LockFree_always == TRUE   \* mutant: appends are not serialized
LockFree == appender = {}
Locks(s) ==
  /\ Awake(s, "appends") /\ sink[s].hand # <<>> /\ LockFree
  /\ appender' = {s} /\ Sets(s, [sink[s] EXCEPT !.at = "writes", !.start = Len(ledger)])
  /\ UNCHANGED <<caller, asleep, ledger, made, lost, unsealed>>
CannotOpen(s) ==
  /\ Awake(s, "appends") /\ sink[s].hand # <<>> /\ LockFree
  /\ lost' = lost \cup {Head(sink[s].hand)}
  /\ Sets(s, [sink[s] EXCEPT !.hand = Tail(@)])
  /\ UNCHANGED <<caller, asleep, made, OnDisk>>

NextLine(s) == Sets(s, [sink[s] EXCEPT !.at = "appends", !.hand = Tail(@)]) /\ appender' = {}
WritesLine(s) ==
  /\ Awake(s, "writes") /\ ledger' = Append(ledger, Head(sink[s].hand)) /\ NextLine(s)
  /\ UNCHANGED <<caller, asleep, made, lost, unsealed>>
LineFails(s) ==
  /\ Awake(s, "writes") /\ ledger' \in {ledger, Append(ledger, Fragment)}
  /\ Sets(s, [sink[s] EXCEPT !.at = "repairs"])
  /\ UNCHANGED <<caller, asleep, appender, made, lost, unsealed>>

\* Cut back to where the write began, or sealed, or left as it is.
CutBack_not(s) == ledger   \* mutant: the repair does not truncate
CutBack(s) == SubSeq(ledger, 1, sink[s].start)
Repair(s) ==
  /\ Awake(s, "repairs") /\ NextLine(s) /\ lost' = lost \cup {Head(sink[s].hand)}
  /\ \/ ledger' = CutBack(s) /\ UNCHANGED unsealed
     \/ ledger' = Append(ledger, Newline) /\ UNCHANGED unsealed
     \/ UNCHANGED ledger /\ unsealed' = unsealed + 1
  /\ UNCHANGED <<caller, asleep, made>>

BatchDone(s) ==
  /\ Awake(s, "appends") /\ sink[s].hand = <<>>
  /\ Sets(s, [sink[s] EXCEPT !.writing = 0,
                             !.at = IF sink[s].lines = <<>> THEN "notifies" ELSE "ready"])
  /\ UNCHANGED <<caller, asleep, made, lost, OnDisk>>
NotifyAfterBatch(s) ==
  /\ Awake(s, "notifies") /\ Notify(s) /\ Sets(s, [sink[s] EXCEPT !.at = "ready"])
  /\ UNCHANGED <<caller, made, lost, OnDisk>>

\* A condition variable may wake a thread for no reason.
WakesUp(t) == /\ t \in asleep /\ asleep' = asleep \ {t}
              /\ UNCHANGED <<sink, caller, made, lost, OnDisk>>

SinkInit ==
  /\ sink = [s \in Sink |-> NewWriter] /\ asleep = {}
  /\ caller = [c \in Caller |-> [at |-> "idle", of |-> CHOOSE s \in Sink : TRUE]]
  /\ ledger = <<>> /\ appender = {} /\ made = 0 /\ lost = {} /\ unsealed = 0

SinkNext ==
  \/ \E c \in Caller : \/ \E s \in Handles[c] : Enqueue(c, s) \/ BeginFlush(c, s) \/ CloseSink(c, s)
                       \/ NotifyAfterEnqueue(c) \/ CheckDrained(c) \/ NotifyAfterClose(c) \/ Join(c)
  \/ \E s \in Sink : \/ Work(s) \/ Locks(s) \/ CannotOpen(s) \/ WritesLine(s) \/ LineFails(s)
                     \/ Repair(s) \/ BatchDone(s) \/ NotifyAfterBatch(s)
  \/ \E t \in asleep : WakesUp(t)

SinkSpec == SinkInit /\ [][SinkNext]_sinkVars

-----------------------------------------------------------------------------

SinkTypeOK ==
  /\ sink \in [Sink -> WriterState] /\ caller \in [Caller -> CallerState]
  /\ asleep \subseteq Sink \cup Caller /\ ledger \in Seq(Int) /\ appender \subseteq Sink
  /\ made \in Nat /\ lost \subseteq 1..made /\ unsealed \in Nat

\* Someone is about to wake whoever waits on the writer.
WakeupDue(s) == \/ sink[s].at = "notifies"
                \/ \E c \in Caller : caller[c].of = s /\ caller[c].at \in {"notifies", "closes"}

\* "Wakeup safety": nobody sleeps on when what it waits for has come, unless a
\* wakeup is under way.
NobodySleepsThrough ==
  \A s \in Sink :
    /\ s \in asleep /\ (sink[s].lines # <<>> \/ sink[s].closed) => WakeupDue(s)
    /\ \A c \in Caller : /\ c \in asleep /\ caller[c].of = s /\ IsDrained(sink[s])
                         => WakeupDue(s)

\* Every record is in one place, and not lost without a warning, but for one
\* for each failed write that could be neither cut back nor sealed; no record
\* is written twice; and when flush may return, the worker holds nothing.
RecordsAreAccounted ==
  /\ \A s, t \in Sink : s # t => Held(s) \cap Held(t) = {}
  /\ \A s \in Sink : Held(s) \cap (Readable \cup lost) = {}
  /\ Readable \cap lost = {}
  /\ Cardinality(1..made \ (Readable \cup lost \cup UNION {Held(s) : s \in Sink})) <= unsealed
  /\ \A i, j \in Legible : ledger[i] = ledger[j] => i = j
  /\ \A s \in Sink : IsDrained(sink[s]) => Held(s) = {}
=============================================================================
