------------------------------- MODULE FileCache -------------------------------
(***************************************************************************)
(* The indexer's cache of parsed files (core/indexer/file_cache.py): an LRU *)
(* in memory, and the database under it that survives the process.  A file *)
(* is identified with the number of its text, which changes with every     *)
(* write as its mtime does; 0 is a file that cannot be read.               *)
(*                                                                         *)
(* A cache is [memory, rows, persistent].  An entry has the text that was  *)
(* parsed and the mtime found when it was stored, which is read after the  *)
(* parse and may be a later one.                                           *)
(***************************************************************************)
EXTENDS Integers, SequencesExt

CONSTANT Capacity

\* An entry has the symbols of a text (from the full parser or not) and the
\* includes of the text links, 0 for none.  extracted: it has requirements, which
\* are not kept in the database.
NoEntry == [file |-> "", text |-> 0, mtime |-> 0, full |-> FALSE, links |-> 0,
            extracted |-> FALSE]

\* A file has at most one entry.
PlacesOf(entries, f) == {i \in DOMAIN entries : entries[i].file = f}
EntryOf(entries, f) ==
    IF PlacesOf(entries, f) = {} THEN NoEntry
    ELSE entries[CHOOSE i \in PlacesOf(entries, f) : TRUE]
Without(entries, f) ==
    IF PlacesOf(entries, f) = {} THEN entries
    ELSE RemoveAt(entries, CHOOSE i \in PlacesOf(entries, f) : TRUE)

EmptyCache(persistent) ==
    [memory |-> <<>>, rows |-> [f \in {} |-> NoEntry], persistent |-> persistent]

\* The rows of the database are a function on the files that have one.
RowOf(rows, f) == IF f \in DOMAIN rows THEN rows[f] ELSE NoEntry
Insert(rows, e) ==
    [g \in DOMAIN rows \cup {e.file} |-> IF g = e.file THEN e ELSE rows[g]]
Delete(rows, f) == Restrict(rows, DOMAIN rows \ {f})

\* FileCache.put: the file's mtime of now; the least recently used goes.
Remember(entries, e, mtime) ==
    IF mtime = 0 THEN entries
    ELSE LET all == Append(Without(entries, e.file), [e EXCEPT !.mtime = mtime])
         IN IF Len(all) > Capacity THEN Tail(all) ELSE all

\* FileCache.get finds an entry of the mtime that the file has now.
Fresh(e, mtime) == e.mtime # 0 /\ e.mtime = mtime
Touched(entries, f, mtime) ==
    IF Fresh(EntryOf(entries, f), mtime)
    THEN Append(Without(entries, f), EntryOf(entries, f))
    ELSE Without(entries, f)

\* What PersistentFileCache.get (or FileCache.get) returns, NoEntry for a miss,
\* and the cache that it leaves: a row found goes to memory, without the rest of
\* the entry, and is stamped anew; a row of another mtime is deleted.
Found(c, f, mtime) ==
    IF Fresh(EntryOf(c.memory, f), mtime) THEN EntryOf(c.memory, f)
    ELSE IF c.persistent /\ Fresh(RowOf(c.rows, f), mtime) THEN RowOf(c.rows, f) ELSE NoEntry

AfterGet(c, f, mtime) ==
    LET touched == [c EXCEPT !.memory = Touched(@, f, mtime)]
        inMemory == Fresh(EntryOf(c.memory, f), mtime)
    IN IF inMemory \/ ~c.persistent \/ f \notin DOMAIN c.rows \/ mtime = 0 THEN touched
       ELSE IF Fresh(c.rows[f], mtime)
            THEN [touched EXCEPT !.memory = Remember(@, c.rows[f], mtime)]
            ELSE [touched EXCEPT !.rows = Delete(@, f)]

Put(c, e, mtime) ==
    [c EXCEPT !.memory = Remember(@, e, mtime),
              !.rows = IF c.persistent /\ mtime # 0
                       THEN Insert(@, [e EXCEPT !.mtime = mtime, !.extracted = FALSE])
                       ELSE @]

\* Mutant: the entry in memory survives its invalidation.
InvalidateRowOnly(c, f) == [c EXCEPT !.rows = Delete(@, f)]

Invalidate(c, f) ==
    [c EXCEPT !.memory = Without(@, f), !.rows = Delete(@, f)]

\* A new process has the database and an empty memory.
Reopened(c) == [c EXCEPT !.memory = <<>>]
=============================================================================
