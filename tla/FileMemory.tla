----------------------------- MODULE FileMemory -----------------------------
(***************************************************************************)
(* The file store of memories (src/memory/file.rs): handles of one process *)
(* on one file, under its own name or under links to it that may dangle    *)
(* for a while, the registry that makes them share their state, the file   *)
(* itself, and a process or a machine that may stop at any moment.  What a *)
(* memory says is opaque, and every memory is stored once.                 *)
(***************************************************************************)
EXTENDS Naturals, FiniteSets

CONSTANTS Entry, Handle,
          Link,      \* spellings whose parent directory does not resolve yet
          Cell,      \* names for the SharedInner cells and their Inners
          real, NoCell, Torn, NoTail

ASSUME SpellingAssumption == real \notin Link
ASSUME CellAssumption == NoCell \notin Cell
ASSUME TailAssumption == NoTail # Torn /\ {NoTail, Torn} \cap Entry = {}

VARIABLES
  file,      \* the file as the operating system has it
  older,     \* what its name may still stand for, should the machine stop now
  healed,    \* the links that resolve by now
  cell,      \* Handle -> the SharedInner it holds
  stores,    \* the live registry, the cells and the Inners
  busy,      \* Handle -> the operation that has converged and not acted yet
  unstored,  \* memories nobody has stored
  kept,      \* what the hosts were told is stored, and did not prune
  hard,      \* the part of it that a flush or a consolidation reported durable
  lapses     \* what went against the store's own rules so far: no code reads it

memoryVars == <<file, older, healed, cell, stores, busy, unstored, kept, hard, lapses>>

Spelling == Link \cup {real}
File  == [lines : SUBSET Entry, welded : BOOLEAN,   \* a malformed complete line
          tail : Entry \cup {NoTail, Torn},         \* what follows the last newline
          synced : SUBSET Entry]
Inner == [path : Spelling, held : SUBSET Entry, latched : BOOLEAN, fallback : BOOLEAN]

\* An operation ran beside another store of the same file, or a store that never
\* read the file was to append to one that ends in a fragment.
Lapse == {"apart", "unread"}

-----------------------------------------------------------------------------
(* The file. *)

\* load_entries: an unterminated line that decodes counts, a torn one does not
Decoded(f) == f.lines \cup ({f.tail} \cap Entry)

Written(K) == [lines |-> K, welded |-> FALSE, tail |-> NoTail, synced |-> K]

\* A line appended behind a fragment makes one malformed line of the two.
WithLine(f, e) == IF f.tail = NoTail THEN [f EXCEPT !.lines = @ \cup {e}]
                  ELSE [f EXCEPT !.welded = TRUE, !.tail = NoTail]
\* Part of a line: nothing of it, some of it, or all but its newline.
PartOfLine(f, e) ==
  {f} \cup {[f EXCEPT !.tail = t] : t \in IF f.tail = NoTail THEN {Torn, e} ELSE {Torn}}

\* rewrite: the temporary is synced before it takes the name, and the name is
\* only certain once the directory is synced.
Outcomes == {"Ok", "NotDurable", "PreCommit"}
Replaced_early(r, K) ==   \* mutant: the directory is not synced
  IF r = "PreCommit" THEN UNCHANGED <<file, older>>
  ELSE file' = Written(K) /\ older' = older \cup {file}
Replaced(r, K) ==
  \/ r = "PreCommit" /\ UNCHANGED <<file, older>>
  \/ r = "Ok" /\ file' = Written(K) /\ older' = {}
  \/ r = "NotDurable" /\ file' = Written(K) /\ older' = older \cup {file}

-----------------------------------------------------------------------------
(* The registry. *)

Leads(s) == s = real \/ s \in healed
InnerOf(h) == stores.inner[stores.current[cell[h]]]

\* Registrations under a spelling that the world has outgrown.
Strays == {l \in healed : /\ stores.key[l] # NoCell
                          /\ stores.inner[stores.current[stores.key[l]]].fallback}
Owners == IF stores.key[real] # NoCell THEN {stores.key[real]}
          ELSE {stores.key[l] : l \in Strays}

\* migrate_provisional_entries: the first stray moves to the key its path yields
\* by now if that is free; the others are folded into whoever has the key.
Migrated(t) ==
  LET stale == {stores.key[l] : l \in Strays} \ {t}
      both  == {stores.current[c] : c \in stale \cup {t}}
      union == UNION {stores.inner[i].held : i \in both}
  IN  [key |-> [s \in Spelling |->
                  IF s = real THEN t
                  ELSE IF s \in Strays
                    THEN IF stores.key[s] = t /\ stores.key[real] = NoCell THEN NoCell ELSE t
                    ELSE stores.key[s]],
       current |-> [c \in Cell |-> IF c \in stale THEN stores.current[t] ELSE stores.current[c]],
       inner |-> [stores.inner EXCEPT ![stores.current[t]] =
                    [path |-> real, fallback |-> @.fallback,
                     held |-> IF stale = {} \/ file.welded THEN union
                              ELSE union \cup Decoded(file),
                     latched |-> \E i \in both : stores.inner[i].latched]]]
Migrations == IF Strays = {} THEN {stores} ELSE {Migrated(t) : t \in Owners}

\* Cells, and memories nobody has seen, are all alike: any will do.
AnyOf(S) == IF S = {} THEN {} ELSE {CHOOSE x \in S : TRUE}
Unused(m) == Cell \ UNION {{cell[h], m.current[cell[h]]} : h \in {g \in Handle : cell[g] # NoCell}}

Created(m, c, k, K) ==
  [key |-> [m.key EXCEPT ![k] = c], current |-> [m.current EXCEPT ![c] = c],
   inner |-> [m.inner EXCEPT ![c] = [path |-> k, held |-> K, latched |-> FALSE,
                                     fallback |-> k # real]]]

Blank == [path |-> real, held |-> {}, latched |-> FALSE, fallback |-> FALSE]
NoStores == [key |-> [s \in Spelling |-> NoCell], current |-> [c \in Cell |-> c],
             inner |-> [c \in Cell |-> Blank]]

\* What is left when h lets go: a cell without handles is no longer found.
Without(h) ==
  LET c    == cell[h]
      last == \A g \in Handle \ {h} : cell[g] # c
      used == {stores.current[cell[g]] : g \in {f \in Handle \ {h} : cell[f] # NoCell}}
  IN  [key |-> [s \in Spelling |-> IF last /\ stores.key[s] = c THEN NoCell ELSE stores.key[s]],
       current |-> IF last THEN [stores.current EXCEPT ![c] = c] ELSE stores.current,
       inner |-> [i \in Cell |-> IF i \in used THEN stores.inner[i] ELSE Blank]]

-----------------------------------------------------------------------------
(* Handles come and go. *)

Disk   == <<file, older>>
Client == <<unstored, kept, hard>>

Attaches(h, m, k) == /\ m.key[k] # NoCell /\ stores' = m
                     /\ cell' = [cell EXCEPT ![h] = m.key[k]]
Creates(h, m, k, K) == /\ m.key[k] = NoCell
                       /\ \E c \in AnyOf(Unused(m)) : /\ cell' = [cell EXCEPT ![h] = c]
                                                     /\ stores' = Created(m, c, k, K)

\* The file is read, and repaired if its last line is not terminated.
Repaired_not(r) == r = "Ok" /\ UNCHANGED Disk   \* mutant: read, not repaired
Repaired(r) == IF file.tail = NoTail THEN r = "Ok" /\ UNCHANGED Disk
               ELSE Replaced(r, Decoded(file))

Open(h, s) ==
  /\ cell[h] = NoCell /\ Leads(s)
  /\ \E m \in Migrations :
       \/ Attaches(h, m, real) /\ UNCHANGED Disk
       \/ /\ m.key[real] = NoCell /\ ~file.welded
          /\ \E r \in Outcomes : /\ Repaired(r)
                                /\ IF r = "Ok" THEN Creates(h, m, real, Decoded(file))
                                   ELSE stores' = m /\ UNCHANGED cell
  /\ UNCHANGED <<healed, busy, Client, lapses>>

\* new() does not read what is there: the host gives it up.
New(h, s) ==
  /\ cell[h] = NoCell
  /\ \E m \in Migrations :
       LET k == IF Leads(s) THEN real ELSE s IN
       \/ Attaches(h, m, k) /\ UNCHANGED <<kept, hard, lapses>>
       \/ Creates(h, m, k, {}) /\ k # real /\ UNCHANGED <<kept, hard, lapses>>
       \/ /\ Creates(h, m, k, {}) /\ k = real /\ kept' = {} /\ hard' = {}
          /\ lapses' = IF file.tail = NoTail THEN lapses ELSE lapses \cup {"unread"}
  /\ UNCHANGED <<Disk, healed, busy, unstored>>

Drop(h) ==
  /\ cell[h] # NoCell /\ busy[h] = "no"
  /\ cell' = [cell EXCEPT ![h] = NoCell] /\ stores' = Without(h)
  /\ UNCHANGED <<Disk, healed, busy, Client, lapses>>

Heal(l) ==
  /\ l \notin healed /\ healed' = healed \cup {l}
  /\ UNCHANGED <<Disk, cell, stores, busy, Client, lapses>>

-----------------------------------------------------------------------------
(* Operations: converge_with_registry under the registry's lock, and then  *)
(* all the rest under the lock of the entries.                             *)

Converge(h, op) ==
  /\ cell[h] # NoCell /\ busy[h] = "no" /\ busy' = [busy EXCEPT ![h] = op]
  /\ stores' \in Migrations
  /\ UNCHANGED <<Disk, healed, cell, Client, lapses>>

\* Every handle whose path leads to the file works in the store of h.
Alone(h) == \A g \in Handle : cell[g] # NoCell /\ Leads(InnerOf(g).path) =>
                                 stores.current[cell[g]] = stores.current[cell[h]]
Blind(h) == busy[h] = "store" /\ InnerOf(h).fallback /\ file.tail # NoTail
Mutates(h) == Leads(InnerOf(h).path) /\ (busy[h] = "store" => ~InnerOf(h).latched)
Recorded(h) ==
  lapses' = lapses \cup (IF Mutates(h) /\ ~Alone(h) THEN {"apart"} ELSE {})
                   \cup (IF Mutates(h) /\ Blind(h) THEN {"unread"} ELSE {})

Acts(h, op) == /\ busy[h] = op /\ busy' = [busy EXCEPT ![h] = "no"]
               /\ Recorded(h) /\ UNCHANGED <<healed, cell>>
Holds(h, K, l) == stores' = [stores EXCEPT !.inner[stores.current[cell[h]]] =
                               [@ EXCEPT !.held = K, !.latched = l]]

\* append_line: latched, and a path that does not resolve, are refused
AppendLine(h, e) ==
  /\ Acts(h, "store") /\ e \in unstored /\ unstored' = unstored \ {e}
  /\ ~InnerOf(h).latched /\ Leads(InnerOf(h).path)
  /\ file' = WithLine(file, e) /\ Holds(h, InnerOf(h).held \cup {e}, FALSE)
  /\ kept' = kept \cup {e} /\ UNCHANGED <<older, hard>>
AppendRefused(h) == /\ Acts(h, "store") /\ UNCHANGED <<Disk, stores, Client>>
                    /\ InnerOf(h).latched \/ ~Leads(InnerOf(h).path)

Latches_not(h) == UNCHANGED stores   \* mutant: a failed append is forgotten
Latches(h) == Holds(h, InnerOf(h).held, TRUE)
AppendFails(h, e) ==
  /\ Acts(h, "store") /\ e \in unstored /\ unstored' = unstored \ {e}
  /\ ~InnerOf(h).latched /\ Leads(InnerOf(h).path)
  /\ file' \in PartOfLine(file, e) /\ Latches(h) /\ UNCHANGED <<older, kept, hard>>

\* A store that once had a provisional key looks at the file before it rewrites it.
Adopted(h) == IF InnerOf(h).fallback /\ ~file.welded /\ Leads(InnerOf(h).path)
              THEN InnerOf(h).held \cup Decoded(file) ELSE InnerOf(h).held

\* What a rewrite may come to where the path of the store leads.
Rewrites(h) == IF Leads(InnerOf(h).path) THEN Outcomes ELSE {"PreCommit"}

Flush(h) ==
  /\ Acts(h, "flush")
  /\ \E r \in Rewrites(h) :
       /\ Replaced(r, Adopted(h))
       /\ Holds(h, Adopted(h), r = "PreCommit" /\ InnerOf(h).latched)
       /\ IF r = "Ok" THEN hard' = kept ELSE UNCHANGED hard
  /\ UNCHANGED <<unstored, kept>>

\* The pass keeps any part of what it is given.
Consolidate(h) ==
  /\ Acts(h, "consolidate")
  /\ \E r \in Rewrites(h), K \in SUBSET Adopted(h) :
       /\ Replaced(r, K)
       /\ IF r = "PreCommit" THEN UNCHANGED <<stores, kept, hard>>
          ELSE /\ Holds(h, K, FALSE)
               /\ kept' = kept \ (Adopted(h) \ K)
               /\ hard' = IF r = "Ok" THEN kept' ELSE hard \cap kept'
  /\ UNCHANGED unstored

-----------------------------------------------------------------------------
(* The process may stop anywhere, in the middle of an operation too; then the *)
(* machine may, and takes what was not synced.                               *)

Stops == /\ cell' = [h \in Handle |-> NoCell] /\ stores' = NoStores
         /\ busy' = [h \in Handle |-> "no"] /\ UNCHANGED healed

Dies == Stops /\ UNCHANGED <<Disk, Client, lapses>>

DiesAppending(h, e) ==
  /\ Stops /\ busy[h] = "store" /\ Recorded(h) /\ e \in unstored
  /\ ~InnerOf(h).latched /\ Leads(InnerOf(h).path)
  /\ file' \in PartOfLine(file, e) \cup {WithLine(file, e)}
  /\ unstored' = unstored \ {e} /\ UNCHANGED <<older, kept, hard>>

DiesRewriting(h) ==   \* the rename has landed, and nobody was told
  /\ Stops /\ busy[h] \in {"flush", "consolidate"} /\ Leads(InnerOf(h).path)
  /\ Recorded(h)
  /\ UNCHANGED unstored
  /\ \/ busy[h] = "flush" /\ Replaced("NotDurable", Adopted(h)) /\ UNCHANGED <<kept, hard>>
     \/ /\ busy[h] = "consolidate"
        /\ \E K \in SUBSET Adopted(h) :
             /\ Replaced("NotDurable", K)
             /\ kept' = kept \ (Adopted(h) \ K) /\ hard' = hard \cap kept'

PowerLoss ==
  /\ \A h \in Handle : cell[h] = NoCell
  /\ \E f \in {file} \cup older :
       \E L \in SUBSET f.lines, t \in {NoTail, Torn} \cup Entry :
         /\ f.synced \subseteq L
         /\ \/ L = f.lines /\ t = f.tail
            \/ L # f.lines \/ f.tail # NoTail   \* the cut is in what was not synced
         /\ t \in Entry => t \in (f.lines \ L) \cup {f.tail}
         /\ file' = [lines |-> L, welded |-> f.welded, tail |-> t, synced |-> L]
  /\ older' = {} /\ kept' = kept \cap Decoded(file')
  /\ UNCHANGED <<healed, cell, stores, busy, unstored, hard, lapses>>

MemoryInit ==
  /\ file = Written({}) /\ older = {} /\ healed = {}
  /\ cell = [h \in Handle |-> NoCell] /\ stores = NoStores
  /\ busy = [h \in Handle |-> "no"]
  /\ unstored = Entry /\ kept = {} /\ hard = {} /\ lapses = {}

MemoryNext ==
  \/ \E h \in Handle : \/ \E s \in Spelling : Open(h, s) \/ New(h, s)
                       \/ Drop(h) \/ AppendRefused(h) \/ Flush(h) \/ Consolidate(h)
                       \/ \E op \in {"store", "flush", "consolidate"} : Converge(h, op)
                       \/ \E e \in AnyOf(unstored) : AppendLine(h, e) \/ AppendFails(h, e) \/ DiesAppending(h, e)
                       \/ DiesRewriting(h)
  \/ \E l \in Link : Heal(l)
  \/ Dies \/ PowerLoss

MemorySpec == MemoryInit /\ [][MemoryNext]_memoryVars

-----------------------------------------------------------------------------

MemoryTypeOK ==
  /\ file \in File /\ older \subseteq File /\ healed \subseteq Link
  /\ cell \in [Handle -> Cell \cup {NoCell}]
  /\ stores \in [key : [Spelling -> Cell \cup {NoCell}], current : [Cell -> Cell],
                 inner : [Cell -> Inner]]
  /\ busy \in [Handle -> {"no", "store", "flush", "consolidate"}]
  /\ {unstored, kept, hard} \subseteq SUBSET Entry /\ lapses \subseteq Lapse

\* "No file-mutating operation ever runs while a second spelling of the same
\* file still holds its own lock domain" (memory/file.rs:71-73).
OneLockDomain == "apart" \notin lapses

\* The next open() succeeds and loads every memory whose store() returned and
\* that no pass pruned: "no handle can rewrite the file without the others'
\* entries" (memory/file.rs:62-63).
StoredIsThere == ~file.welded /\ kept \subseteq Decoded(file)

\* A handle offers nothing that a restart would not bring back.
MirrorIsOnDisk == \A h \in Handle : cell[h] # NoCell => InnerOf(h).held \subseteq Decoded(file)

\* It takes one of the two lapses to lose a memory, and nothing less: whatever
\* stops, fails, is dropped or comes to resolve, in the middle of operations
\* too, what was stored is there, and handles offer what is there, until an
\* operation has run beside a second store of the file or an append of a store
\* that never read the file met a fragment.
StoredSurvives == lapses = {} => StoredIsThere /\ MirrorIsOnDisk

\* With the same exception: what was stored when flush() or consolidate() last
\* succeeded is there after the machine lost power, at any moment since.
FlushedSurvives == lapses = {} => hard \subseteq Decoded(file)
=============================================================================
