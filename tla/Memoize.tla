------------------------------ MODULE Memoize -------------------------------
(***************************************************************************)
(* The cache of tool results (src/middleware/memoize.rs) among the calls   *)
(* of a batch, which run concurrently.  A read answers with what it saw of *)
(* the paths it touches; what a path holds is the number of times it was   *)
(* written.  Calls end, or their futures are dropped, within their turn.   *)
(***************************************************************************)
EXTENDS Integers

CONSTANTS Path, Query,
          Touches,     \* the paths a memoized call reports, which are those it reads
          Writes,      \* the sets of paths a write may touch
          Reader, Writer,
          TtlTurns, NoEntry,
          MaxWritten, MaxTurn, MaxRun   \* bounds

ASSUME MemoAssumption == /\ Touches \in [Query -> SUBSET Path]
                         /\ Writes \subseteq SUBSET Path
                         /\ TtlTurns \in Nat
                         /\ NoEntry \notin Query \cup [seen : [Path -> Nat], turn : Nat]

VARIABLES
  content,   \* what the paths hold
  settled,   \* the last write to each that its caller was told has succeeded
  cache,     \* CacheState: its entries
  epoch,     \* CacheState: write_epoch
  reader, writer,   \* the calls in flight
  turn,      \* the turn of the run, which counts from 0
  run        \* runs so far

memoVars == <<content, settled, cache, epoch, reader, writer, turn, run>>

Versions == [Path -> Nat]
Entries  == [seen : Versions, turn : Nat]
Reads    == [at : {"idle", "sent", "missed", "ran"}, key : Query \cup {NoEntry}, epoch : Nat, seen : Versions]
Changes  == [at : {"idle", "sent", "ran"}, paths : SUBSET Path, made : Versions]

Unseen == [p \in Path |-> 0]
NoRead == [at |-> "idle", key |-> NoEntry, epoch |-> 0, seen |-> Unseen]
NoChange == [at |-> "idle", paths |-> {}, made |-> Unseen]

-----------------------------------------------------------------------------
(* Memoized calls. *)

\* The epoch is taken when the future is made, before it is polled.
SendRead(r, k) ==
  /\ reader[r].at = "idle"
  /\ reader' = [reader EXCEPT ![r] = [at |-> "sent", key |-> k, epoch |-> epoch, seen |-> Unseen]]
  /\ UNCHANGED <<content, settled, cache, epoch, writer, turn, run>>

Age(e) == IF turn > e.turn THEN turn - e.turn ELSE 0   \* saturating_sub
Fresh(k) == cache[k] # NoEntry /\ Age(cache[k]) < TtlTurns

\* lookup_fresh: a hit answers, an expired entry goes
LookUp(r) ==
  LET k == reader[r].key IN
  /\ reader[r].at = "sent"
  /\ IF Fresh(k) THEN reader' = [reader EXCEPT ![r] = NoRead] /\ UNCHANGED cache
     ELSE reader' = [reader EXCEPT ![r].at = "missed"] /\ cache' = [cache EXCEPT ![k] = NoEntry]
  /\ UNCHANGED <<content, settled, epoch, writer, turn, run>>

Read(r) ==
  /\ reader[r].at = "missed"
  /\ reader' = [reader EXCEPT ![r].at = "ran",
                  ![r].seen = [p \in Path |-> IF p \in Touches[reader[r].key] THEN content[p] ELSE 0]]
  /\ UNCHANGED <<content, settled, cache, epoch, writer, turn, run>>

\* insert: not if a write was acknowledged since the read was sent
Current_late(r) == TRUE   \* mutant: the epoch is taken at insertion
Current(r) == reader[r].epoch = epoch
ReadReturns(r) ==
  /\ reader[r].at = "ran" /\ reader' = [reader EXCEPT ![r] = NoRead]
  /\ cache' = IF Current(r)
              THEN [cache EXCEPT ![reader[r].key] = [seen |-> reader[r].seen, turn |-> turn]]
              ELSE cache
  /\ UNCHANGED <<content, settled, epoch, writer, turn, run>>

\* The read fails, or its future is dropped: nothing is cached.
ReadLost(r) ==
  /\ reader[r].at # "idle" /\ reader' = [reader EXCEPT ![r] = NoRead]
  /\ UNCHANGED <<content, settled, cache, epoch, writer, turn, run>>

-----------------------------------------------------------------------------
(* Calls that write. *)

SendWrite(w, P) ==
  /\ writer[w].at = "idle"
  /\ writer' = [writer EXCEPT ![w] = [at |-> "sent", paths |-> P, made |-> Unseen]]
  /\ UNCHANGED <<content, settled, cache, epoch, reader, turn, run>>

Change(w) ==
  LET made == [p \in Path |-> IF p \in writer[w].paths THEN content[p] + 1 ELSE content[p]] IN
  /\ writer[w].at = "sent" /\ \A p \in writer[w].paths : content[p] < MaxWritten
  /\ content' = made /\ writer' = [writer EXCEPT ![w].at = "ran", ![w].made = made]
  /\ UNCHANGED <<settled, cache, epoch, reader, turn, run>>

\* invalidate_paths: entries that touch a written path go
Evicted(P) == [k \in Query |-> IF Touches[k] \cap P # {} THEN NoEntry ELSE cache[k]]
WriteReturns(w) ==
  LET P == writer[w].paths
      made == writer[w].made IN
  /\ writer[w].at = "ran" /\ writer' = [writer EXCEPT ![w] = NoChange]
  /\ settled' = [p \in Path |-> IF p \in P /\ made[p] > settled[p] THEN made[p] ELSE settled[p]]
  /\ cache' = Evicted(P) /\ epoch' = IF P = {} THEN epoch ELSE epoch + 1
  /\ UNCHANGED <<content, reader, turn, run>>

\* The write fails, or its future is dropped, before or after it took effect:
\* the cache is left alone.
WriteLost(w) ==
  /\ writer[w].at # "idle" /\ writer' = [writer EXCEPT ![w] = NoChange]
  /\ UNCHANGED <<content, settled, cache, epoch, reader, turn, run>>

-----------------------------------------------------------------------------

Quiet == /\ \A r \in Reader : reader[r].at = "idle"
         /\ \A w \in Writer : writer[w].at = "idle"

NextTurn == /\ Quiet /\ turn < MaxTurn /\ turn' = turn + 1
            /\ UNCHANGED <<content, settled, cache, epoch, reader, writer, run>>

\* The middleware stays with the agent; the machine counts the turns of a run.
NextRun == /\ Quiet /\ run < MaxRun /\ run' = run + 1 /\ turn' = 0
           /\ UNCHANGED <<content, settled, cache, epoch, reader, writer>>

MemoInit ==
  /\ content = Unseen /\ settled = Unseen /\ cache = [k \in Query |-> NoEntry] /\ epoch = 0
  /\ reader = [r \in Reader |-> NoRead] /\ writer = [w \in Writer |-> NoChange]
  /\ turn = 0 /\ run = 0

MemoNext ==
  \/ \E r \in Reader : \/ \E k \in Query : SendRead(r, k)
                       \/ LookUp(r) \/ Read(r) \/ ReadReturns(r) \/ ReadLost(r)
  \/ \E w \in Writer : \/ \E P \in Writes : SendWrite(w, P)
                       \/ Change(w) \/ WriteReturns(w) \/ WriteLost(w)
  \/ NextTurn \/ NextRun

MemoSpec == MemoInit /\ [][MemoNext]_memoVars

-----------------------------------------------------------------------------

MemoTypeOK ==
  /\ content \in Versions /\ settled \in Versions
  /\ cache \in [Query -> Entries \cup {NoEntry}] /\ epoch \in Nat
  /\ reader \in [Reader -> Reads] /\ writer \in [Writer -> Changes]
  /\ turn \in Nat /\ run \in Nat

\* A result in the cache shows every write to its paths that had returned:
\* no read in flight puts back what a write has invalidated.
NoStaleEntry ==
  \A k \in Query : cache[k] # NoEntry => \A p \in Touches[k] : cache[k].seen[p] >= settled[p]
=============================================================================
