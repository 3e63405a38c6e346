------------------------------- MODULE LiteDB --------------------------------
(***************************************************************************)
(* The database facade (db.cpp): INSERTs fill an in-memory buffer per      *)
(* column, a SELECT or Close flushes it to row groups, CREATE, DROP and    *)
(* TRUNCATE change the catalog.  Statements run one at a time; a statement *)
(* that touches the file is several steps, because the process may die or  *)
(* a write may throw between them.                                         *)
(*                                                                         *)
(* The layers below are used through what they promise: a row group's      *)
(* pages are current in the buffer pool when its writers have finished,    *)
(* reach the file at an eviction or at FlushAll (PageStore), and survive   *)
(* there; the catalog reaches the file in one step, which Catalog shows    *)
(* for a catalog that fits one page.                                       *)
(*                                                                         *)
(* A row is a number; the value of each of its columns is that number, so  *)
(* a row that mixes the columns of two INSERTed rows can be told.          *)
(***************************************************************************)
EXTENDS Integers, Sequences, FiniteSets, SequencesExt

CONSTANTS
    Tables,             \* table names
    NumColumns,         \* columns of every table's schema
    kRowGroupSize,      \* rows FlushTable puts into a row group
    MaxInsert,          \* bound: rows of one INSERT statement
    MaxRows,            \* bound: rows INSERTed overall
    MaxDDL,             \* bound: CREATE, DROP and TRUNCATE statements overall
    MaxCrashes,         \* bound: how often the process dies
    BadInserts,         \* TRUE: an INSERT may hold a value Coerce rejects
    MaxThrows           \* bound: how often a write to the file throws

ASSUME LiteDBAssumption ==
    /\ IsFiniteSet(Tables)
    /\ NumColumns \in Nat \ {0}
    /\ kRowGroupSize \in Nat \ {0}
    /\ MaxInsert \in Nat \ {0}
    /\ MaxRows \in Nat /\ MaxDDL \in Nat /\ MaxCrashes \in Nat
    /\ MaxThrows \in Nat
    /\ BadInserts \in BOOLEAN

Columns == 1 .. NumColumns
Junk == 0                   \* what a read beyond the end of a vector yields
Row == Nat \ {0}
NoRows == [c \in Columns |-> <<>>]

VARIABLES
    pending,        \* pending_[t][c]: buffered values of column c
    exists,         \* catalog_: the tables
    groups,         \* catalog_: groups[t], each with an id and its columns
    last_id,        \* the row groups written so far are 1 .. last_id
    dirty,          \* those with pages that only the buffer pool holds
    durable,        \* those whose pages are all in the file
    file,           \* the catalog in the file: its tables and their groups
    pc,             \* "idle", "flush", "flushall", "persist", "closed", "down"
    mode,           \* the statement in progress: "select", "close" or "ddl"
    from,           \* its tables still to be flushed
    start,          \* FlushTable's row offset in the first of them
    rows, ddls, crashes, throws,    \* how many there have been
    logical,        \* history: logical[t] is what INSERTs have put into t
    prior           \* history: exists and logical before the DDL in progress;
                    \*   the tables DROPped or TRUNCATEd since the last Persist

vars == <<pending, exists, groups, last_id, dirty, durable, file, pc, mode, from, start,
          rows, ddls, crashes, throws, logical, prior>>
memory == <<pending, exists, groups>>
disk == <<last_id, dirty, durable, file>>
control == <<pc, mode, from, start>>
history == <<logical, prior>>
counters == <<rows, ddls, crashes, throws>>

Nothing == [t \in Tables |-> <<>>]

\* A new file, just opened.
Init ==
    /\ pending = [t \in Tables |-> NoRows]
    /\ exists = {}
    /\ groups = Nothing
    /\ last_id = 0 /\ dirty = {} /\ durable = {}
    /\ file = [exists |-> {}, groups |-> Nothing]
    /\ pc = "idle" /\ mode = "ddl" /\ from = <<>> /\ start = 0
    /\ rows = 0 /\ ddls = 0 /\ crashes = 0 /\ throws = 0
    /\ logical = Nothing
    /\ prior = [exists |-> {}, logical |-> Nothing, cleared |-> {}]

-----------------------------------------------------------------------------
(* CREATE, DROP, TRUNCATE: change the catalog in memory, then Persist.     *)

DDL(t) ==
    /\ pc = "idle"
    /\ ddls < MaxDDL
    /\ ddls' = ddls + 1
    /\ pc' = "persist" /\ mode' = "ddl" /\ from' = <<>> /\ start' = 0
    /\ prior' = [exists |-> exists, logical |-> logical,
                 cleared |-> prior.cleared \cup (exists \cap {t})]   \* nothing for CREATE
    /\ logical' = [logical EXCEPT ![t] = <<>>]
    /\ groups' = [groups EXCEPT ![t] = <<>>]
    /\ UNCHANGED <<disk, rows, crashes, throws>>

CreateTable(t) ==
    /\ t \notin exists          \* else "table already exists"
    /\ DDL(t)
    /\ exists' = exists \cup {t}
    /\ pending' = [pending EXCEPT ![t] = NoRows]

DropTable(t) ==
    /\ t \in exists             \* else "unknown table"
    /\ DDL(t)
    /\ exists' = exists \ {t}
    /\ pending' = [pending EXCEPT ![t] = NoRows]

\* Mutant: the buffered rows survive the TRUNCATE.
TruncateKeepsPending(t) ==
    /\ t \in exists
    /\ DDL(t)
    /\ UNCHANGED <<exists, pending>>

Truncate(t) ==
    /\ t \in exists             \* else "unknown table"
    /\ DDL(t)
    /\ pending' = [pending EXCEPT ![t] = NoRows]
    /\ UNCHANGED exists

-----------------------------------------------------------------------------
(* INSERT.                                                                 *)

\* n rows arrive in full; then, if k # NumColumns, a row whose first k values
\* are pushed before Coerce throws at the next (k = 0 also stands for a row
\* with the wrong number of values, which throws before any push).
Insert(t, n, k) ==
    LET new == [i \in 1 .. n |-> rows + i]
        torn == IF k = NumColumns THEN 0 ELSE 1
    IN
    /\ pc = "idle"
    /\ t \in exists             \* else "unknown table"
    /\ rows + n + torn <= MaxRows
    /\ k # NumColumns => BadInserts
    /\ rows' = rows + n + torn
    /\ pending' = [pending EXCEPT ![t] =
                     [c \in Columns |-> pending[t][c] \o new
                        \o IF torn = 1 /\ c <= k THEN <<rows + n + 1>> ELSE <<>>]]
    /\ logical' = [logical EXCEPT ![t] = @ \o new]
    /\ UNCHANGED <<exists, groups, disk, control, ddls, crashes, throws, prior>>

-----------------------------------------------------------------------------
(* SELECT and Close begin by flushing tables.                              *)

\* SELECT flushes the tables of its FROM clause, in that order.
BeginSelect(ts) ==
    /\ pc = "idle"
    /\ pc' = "flush" /\ mode' = "select" /\ from' = ts /\ start' = 0
    /\ UNCHANGED <<memory, disk, counters, history>>

\* Close flushes every table of pending_, in the order of the map: that of the
\* names, which is any order here.
BeginClose(ts) ==
    /\ pc = "idle"
    /\ pc' = "flush" /\ mode' = "close" /\ from' = ts /\ start' = 0
    /\ UNCHANGED <<memory, disk, counters, history>>

Total(t) == Len(pending[t][1])

\* FlushTable returns early: unknown table or nothing buffered.
FlushNothing ==
    /\ pc = "flush"
    /\ from # <<>>
    /\ Head(from) \notin exists \/ Total(Head(from)) = 0
    /\ from' = Tail(from)
    /\ UNCHANGED <<memory, disk, pc, mode, start, counters, history>>

\* The values of column c that go into the row group: a vector shorter than
\* the first one is read beyond its end.
Slice(t, c) ==
    LET n == IF start + kRowGroupSize < Total(t) THEN kRowGroupSize ELSE Total(t) - start
    IN  [i \in 1 .. n |-> IF start + i <= Len(pending[t][c]) THEN pending[t][c][start + i] ELSE Junk]

Flushing(t) ==
    /\ pc = "flush"
    /\ from # <<>>
    /\ t = Head(from)
    /\ t \in exists
    /\ Total(t) # 0

\* One row group: a ColumnWriter per column, then AddRowGroup.
WriteGroup(t) ==
    /\ Flushing(t)
    /\ start < Total(t)
    /\ last_id' = last_id + 1
    /\ dirty' = dirty \cup {last_id'}
    /\ groups' = [groups EXCEPT ![t] =
                    Append(@, [id |-> last_id', cols |-> [c \in Columns |-> Slice(t, c)]])]
    /\ start' = start + kRowGroupSize
    /\ UNCHANGED <<pending, exists, durable, file, pc, mode, from, counters, history>>

\* Mutant: the buffers are not cleared after the flush.
ClearPendingNot(t) ==
    /\ Flushing(t)
    /\ start >= Total(t)
    /\ pc' = "flushall"
    /\ start' = 0
    /\ UNCHANGED <<memory, disk, mode, from, counters, history>>

\* All rows are in row groups: the buffers are cleared.
ClearPending(t) ==
    /\ Flushing(t)
    /\ start >= Total(t)
    /\ pending' = [pending EXCEPT ![t] = NoRows]
    /\ pc' = "flushall"
    /\ start' = 0
    /\ UNCHANGED <<exists, groups, disk, mode, from, counters, history>>

\* Mutant: FlushTable persists the catalog without flushing the pool first.
FlushAllLater ==
    /\ pc = "flushall"
    /\ pc' = "persist"
    /\ UNCHANGED <<memory, disk, mode, from, start, counters, history>>

\* Mutant: the frames FlushAll has written stay dirty.
FlushAllKeepsDirty ==
    /\ pc = "flushall"
    /\ durable' = durable \cup dirty
    /\ pc' = "persist"
    /\ UNCHANGED <<memory, last_id, dirty, file, mode, from, start, counters, history>>

\* BufferPool::FlushAll: every finished page is in the file.
FlushAll ==
    /\ pc = "flushall"
    /\ durable' = durable \cup dirty
    /\ dirty' = {}
    /\ pc' = "persist"
    /\ UNCHANGED <<memory, last_id, file, mode, from, start, counters, history>>

\* Catalog::Persist, then on with the statement: a flush goes to the next
\* table, Close and the DDL statements are done.
Persist ==
    /\ pc = "persist"
    /\ file' = [exists |-> exists, groups |-> groups]
    /\ from' = IF from = <<>> THEN <<>> ELSE Tail(from)
    /\ pc' = IF from # <<>> THEN "flush" ELSE IF mode = "close" THEN "closed" ELSE "idle"
    /\ prior' = [exists |-> exists, logical |-> logical, cleared |-> {}]
    /\ UNCHANGED <<memory, last_id, dirty, durable, mode, start, counters, logical>>

\* SELECT has flushed its tables and scans them; the scan changes nothing.
EndSelect ==
    /\ pc = "flush" /\ mode = "select" /\ from = <<>>
    /\ pc' = "idle"
    /\ UNCHANGED <<memory, disk, mode, from, start, counters, history>>

\* Mutant: Close does not persist the catalog once more.
EndCloseEarly ==
    /\ pc = "flush" /\ mode = "close"
    /\ pc' = "closed"
    /\ from' = <<>>
    /\ UNCHANGED <<memory, disk, mode, start, counters, history>>

\* Close has flushed every table: FlushAll and Persist once more.
EndClose ==
    /\ pc = "flush" /\ mode = "close" /\ from = <<>>
    /\ pc' = "flushall"
    /\ UNCHANGED <<memory, disk, mode, from, start, counters, history>>

-----------------------------------------------------------------------------
(* What the layers below may do on their own.                              *)

\* An eviction writes the pages of a finished group.
Evict(g) ==
    /\ pc \in {"idle", "flush"}
    /\ g \in dirty
    /\ durable' = durable \cup {g}
    /\ dirty' = dirty \ {g}
    /\ UNCHANGED <<memory, last_id, file, control, counters, history>>

\* Mutant: FlushTable moves the buffers out before it writes them.
ThrowDropsPending ==
    /\ throws < MaxThrows
    /\ throws' = throws + 1
    /\ pc \in {"flush", "flushall", "persist"}
    /\ pc = "flush" => from # <<>> /\ Flushing(Head(from))
    /\ pc' = "idle" /\ from' = <<>> /\ start' = 0
    /\ pending' = IF pc = "flush" THEN [pending EXCEPT ![Head(from)] = NoRows] ELSE pending
    /\ UNCHANGED <<exists, groups, disk, mode, rows, ddls, crashes, history>>

\* A write throws in a ColumnWriter, in FlushAll or in Persist: the exception
\* leaves Execute or Close with the statement half done.
Throw ==
    /\ throws < MaxThrows
    /\ throws' = throws + 1
    /\ pc \in {"flush", "flushall", "persist"}
    /\ pc = "flush" => from # <<>> /\ Flushing(Head(from))
    /\ pc' = "idle" /\ from' = <<>> /\ start' = 0
    /\ UNCHANGED <<memory, disk, mode, rows, ddls, crashes, history>>

\* The process dies; pages that had not reached the file are gone.
Crash ==
    /\ crashes < MaxCrashes
    /\ pc # "down" /\ pc # "closed"
    /\ crashes' = crashes + 1
    /\ pc' = "down"
    /\ dirty' = {}
    /\ UNCHANGED <<memory, last_id, durable, file, mode, from, start, rows, ddls, throws, history>>

FlattenColumn(gs, c) == FlattenSeq([i \in 1 .. Len(gs) |-> gs[i].cols[c]])

\* Mutant: Load brings back the tables but not their row groups.
OpenWithoutGroups ==
    /\ pc \in {"down", "closed"}
    /\ exists' = file.exists
    /\ groups' = Nothing
    /\ pending' = [t \in Tables |-> NoRows]
    /\ pc' = "idle" /\ mode' = "ddl" /\ from' = <<>> /\ start' = 0
    /\ logical' = [t \in Tables |-> FlattenColumn(file.groups[t], 1)]
    /\ prior' = [exists |-> exists', logical |-> logical', cleared |-> {}]
    /\ UNCHANGED <<disk, counters>>

\* DB::Open: Catalog::Load, empty buffers.
Open ==
    /\ pc \in {"down", "closed"}
    /\ exists' = file.exists
    /\ groups' = file.groups
    /\ pending' = [t \in Tables |-> NoRows]
    /\ pc' = "idle" /\ mode' = "ddl" /\ from' = <<>> /\ start' = 0
    /\ logical' = [t \in Tables |-> FlattenColumn(file.groups[t], 1)]
    /\ prior' = [exists |-> exists', logical |-> logical', cleared |-> {}]
    /\ UNCHANGED <<disk, counters>>

Next ==
    \/ \E t \in Tables : CreateTable(t) \/ DropTable(t) \/ Truncate(t)
    \/ \E t \in Tables, n \in 0 .. MaxInsert, k \in 0 .. NumColumns : Insert(t, n, k)
    \/ \E t \in Tables : BeginSelect(<<t>>)
    \/ \E t, u \in Tables : BeginSelect(<<t, u>>)
    \/ \E ts \in SetToSeqs(Tables) : BeginClose(ts)
    \/ FlushNothing
    \/ \E t \in Tables : WriteGroup(t) \/ ClearPending(t)
    \/ FlushAll \/ Persist \/ EndSelect \/ EndClose
    \/ \E g \in dirty : Evict(g)
    \/ Throw \/ Crash \/ Open

Spec == Init /\ [][Next]_vars

-----------------------------------------------------------------------------
(* Properties.                                                             *)

\* The types of the buffers, the catalog, the file and the control state.
TypeOK ==
    /\ pending \in [Tables -> [Columns -> Seq(1 .. MaxRows)]]
    /\ exists \subseteq Tables
    /\ \A t \in Tables : \A i \in DOMAIN groups[t] : groups[t][i].id \in 1 .. last_id
    /\ dirty \cap durable = {} /\ dirty \cup durable \subseteq 1 .. last_id
    /\ pc \in {"idle", "flush", "flushall", "persist", "closed", "down"}
    /\ mode \in {"select", "close", "ddl"}
    /\ from \in Seq(Tables)
    /\ start \in Nat

\* The catalog in the file only records row groups whose pages are in the
\* file: "the catalog only records what is durably on disk" (catalog.h:37-38),
\* whatever statement persists it and whenever the process dies.
PersistedIsDurable ==
    \A t \in file.exists : \A i \in DOMAIN file.groups[t] : file.groups[t][i].id \in durable

\* What FlushTable has not yet moved to a row group.
Unflushed(t, c) ==
    IF pc = "flush" /\ from # <<>> /\ Head(from) = t
    THEN SubSeq(pending[t][c], start + 1, Len(pending[t][c]))
    ELSE pending[t][c]

\* Every INSERTed row is in exactly one place, a row group or the buffer, in
\* the order of the INSERTs, and this for each column: no statement loses,
\* repeats or reorders a row (FlushTable, db.cpp:67-82).
RowsExactlyOnce ==
    pc # "down" => \A t \in exists, c \in Columns :
        FlattenColumn(groups[t], c) \o Unflushed(t, c) = logical[t]

\* No row is lost in memory even if writes throw: it is still in a row group
\* or in the buffer, so that a retried statement will bring it to the file.
RowsKept ==
    pc # "down" => \A t \in exists, c \in Columns :
        Range(logical[t]) \subseteq Range(FlattenColumn(groups[t], c)) \cup Range(pending[t][c])

FileHolds(ex, lg) ==
    /\ file.exists = ex
    /\ \A t \in ex, c \in Columns : IsPrefix(FlattenColumn(file.groups[t], c), lg[t])

\* Whenever the process dies the file holds a consistent database: the tables
\* that exist, each with the first so many of its rows; during a CREATE, DROP
\* or TRUNCATE the state before it until Persist has written the one after it.
FileIsRecoverable ==
    CASE pc = "persist" /\ mode = "ddl" -> FileHolds(prior.exists, prior.logical)
      [] pc = "down" -> FileHolds(exists, logical) \/ FileHolds(prior.exists, prior.logical)
      [] OTHER -> FileHolds(exists, logical)

\* "Forces all pending writes to disk and persists the catalog." (db.h:43):
\* when Close has returned the file has every table and every row, with all
\* their pages, also if earlier statements of the session failed half way.
CloseIsComplete ==
    pc = "closed" =>
        /\ file.exists = exists
        /\ PersistedIsDurable
        /\ \A t \in exists, c \in Columns :
              Range(logical[t]) \subseteq Range(FlattenColumn(file.groups[t], c))

\* A row group that is in the file stays there, through crashes, reopenings,
\* flushes and statements about other tables, until the catalog is persisted
\* after a DROP or a TRUNCATE of its table in the same session.
PersistedStays ==
    [][\A t \in file.exists \ prior.cleared :
          t \in file'.exists /\ IsPrefix(file.groups[t], file'.groups[t])]_vars

\* The columns of a row group belong to the same rows: "chunk *i* of every
\* column covers the same row range" (column_chunk.h:11), whatever INSERTs
\* have failed before.
ColumnsAligned ==
    \A t \in exists, c \in Columns : \A i \in DOMAIN groups[t] :
        groups[t][i].cols[c] = groups[t][i].cols[1]
=============================================================================
