----------------------------- MODULE ColumnScan ------------------------------
(***************************************************************************)
(* SELECT * FROM t WHERE col op v LIMIT n on one table: the planner's      *)
(* zone-map pushdown (planner.cpp), ColumnScan::Open with its pool of      *)
(* worker threads and ColumnScan::Next (execution/column_scan.cpp), and    *)
(* the Filter and the Limit that pull from it.                             *)
(*                                                                         *)
(* A chunk is the sequence of the values of col in it; the other columns   *)
(* of the same rows travel with them.  The workers' steps interleave: one  *)
(* step is a fetch_add or the reading of one chunk.                        *)
(***************************************************************************)
EXTENDS Integers, Sequences, FiniteSets, SequencesExt, Selection

CONSTANTS
    MinInt, MaxInt,     \* the range of std::int64_t
    Null,               \* the SQL NULL
    Tables,             \* the tables: sequences of row groups, which are
                        \*   sequences of chunks
    Preds,              \* the predicates, each [op, v]
    Limits,             \* the values of LIMIT
    hw                  \* hardware_concurrency()

Value == MinInt .. MaxInt
Chunk == Seq(Value \cup {Null})
Ops == {"eq", "ne", "lt", "le", "gt", "ge"}

ASSUME ColumnScanAssumption ==
    /\ MinInt \in Int /\ MaxInt \in Int /\ MinInt < MaxInt
    /\ Null \notin Int
    /\ Tables \subseteq Seq(Seq(Chunk))
    /\ Preds \subseteq [op : Ops, v : Value]
    /\ Limits \subseteq Nat
    /\ hw \in Nat \ {0}

Workers == 1 .. hw

VARIABLES
    table,          \* table_.row_groups
    pred, zone,     \* the WHERE clause; what SetZoneFilter got
    pc,             \* the thread that runs the query: "open", "spawn", "join",
                    \*   "pull" or "done"
    worker,         \* worker[w]: its state, its row group rg and the chunks
                    \*   of it that it has read
    next_rg,        \* the shared cursor
    per_rg,         \* per_rg[i]: the slot of row group i
    chunks,         \* chunks_
    chunk_cursor,   \* chunk_cursor_: the chunks handed out
    remaining,      \* Limit::remaining_
    limit,          \* what it started with
    rows            \* rs.rows: the result of the query

vars == <<table, pred, zone, pc, worker, next_rg, per_rg, chunks, chunk_cursor, remaining, limit, rows>>
query == <<table, pred, zone, limit>>
output == <<chunks, chunk_cursor, remaining, rows>>

-----------------------------------------------------------------------------
(* The predicate and the zone map.                                         *)

\* A comparison with NULL is never true.
Holds(p, x) ==
    /\ x # Null
    /\ CASE p.op = "eq" -> x = p.v
         [] p.op = "ne" -> x # p.v
         [] p.op = "lt" -> x < p.v
         [] p.op = "le" -> x <= p.v
         [] p.op = "gt" -> x > p.v
         [] p.op = "ge" -> x >= p.v

\* Integers of this width wrap around.
Wrap(x) == IF x > MaxInt THEN MinInt ELSE IF x < MinInt THEN MaxInt ELSE x

\* Mutant: v + 1 for >= and v - 1 for <= as well.
PushdownStrict(p) ==
    [has |-> p.op # "ne",
     lo |-> IF p.op = "eq" THEN p.v ELSE IF p.op \in {"gt", "ge"} THEN Wrap(p.v + 1) ELSE MinInt,
     hi |-> IF p.op = "eq" THEN p.v ELSE IF p.op \in {"lt", "le"} THEN Wrap(p.v - 1) ELSE MaxInt]

\* The bounds the planner passes to SetZoneFilter, if any.
Pushdown(p) ==
    [has |-> p.op # "ne",
     lo |-> CASE p.op \in {"eq", "ge"} -> p.v [] p.op = "gt" -> Wrap(p.v + 1) [] OTHER -> MinInt,
     hi |-> CASE p.op \in {"eq", "le"} -> p.v [] p.op = "lt" -> Wrap(p.v - 1) [] OTHER -> MaxInt]

Ints(chunk) == ToSet(chunk) \ {Null}

\* EncodeChunk: the smallest and the largest value, if there is any.
ZoneMap(chunk) ==
    IF Ints(chunk) = {} THEN [has |-> FALSE, min |-> 0, max |-> 0]
    ELSE [has |-> TRUE, min |-> Min(Ints(chunk)), max |-> Max(Ints(chunk))]

\* The test that makes decode_rg skip a chunk.
Pruned(chunk) ==
    LET m == ZoneMap(chunk)
    IN  zone.has /\ m.has /\ (m.max < zone.lo \/ m.min > zone.hi)

-----------------------------------------------------------------------------
(* ColumnScan::Open.                                                       *)

num_rg == Len(table)
num_workers == IF hw < num_rg THEN hw ELSE num_rg

Asleep == [pc |-> "new", rg |-> 0, read |-> 0]

Init ==
    /\ table \in Tables /\ pred \in Preds /\ limit \in Limits
    /\ zone = Pushdown(pred)
    /\ pc = "open"
    /\ worker = [w \in Workers |-> Asleep]
    /\ next_rg = 0
    /\ per_rg = <<>>
    /\ chunks = <<>> /\ chunk_cursor = 0
    /\ remaining = limit
    /\ rows = <<>>

\* No row groups: Open returns at once with no chunks.
OpenEmpty ==
    /\ pc = "open"
    /\ num_rg = 0
    /\ pc' = "pull"
    /\ UNCHANGED <<query, worker, next_rg, per_rg, output>>

\* An empty slot per row group.
OpenPool ==
    /\ pc = "open"
    /\ num_rg > 0
    /\ per_rg' = [i \in 1 .. num_rg |-> <<>>]
    /\ next_rg' = 0
    /\ pc' = "spawn"
    /\ UNCHANGED <<query, worker, output>>

\* The workers are started one by one; the first may be done before the last
\* is started.
Spawn(w) ==
    /\ pc = "spawn"
    /\ w \in 1 .. num_workers
    /\ worker[w].pc = "new"
    /\ \A u \in 1 .. w - 1 : worker[u].pc # "new"
    /\ worker' = [worker EXCEPT ![w].pc = "fetch"]
    /\ pc' = IF w = num_workers THEN "join" ELSE "spawn"
    /\ UNCHANGED <<query, next_rg, per_rg, output>>

\* Mutant: the cursor is read and advanced in two steps, so that the advance
\* of another worker in between is lost.
FetchTorn(w) ==
    /\ worker[w].pc = "fetch"
    /\ worker' = [worker EXCEPT ![w] =
                    IF next_rg >= num_rg THEN [@ EXCEPT !.pc = "exit"]
                    ELSE [pc |-> "decode", rg |-> next_rg + 1, read |-> 0]]
    /\ next_rg' \in {next_rg, next_rg + 1}
    /\ UNCHANGED <<query, pc, per_rg, output>>

\* next_rg.fetch_add(1); the row groups are numbered from 1 here.
Fetch(w) ==
    /\ worker[w].pc = "fetch"
    /\ next_rg' = next_rg + 1
    /\ worker' = [worker EXCEPT ![w] =
                    IF next_rg >= num_rg THEN [@ EXCEPT !.pc = "exit"]
                    ELSE [pc |-> "decode", rg |-> next_rg + 1, read |-> 0]]
    /\ UNCHANGED <<query, pc, per_rg, output>>

\* decode_rg, one chunk: skipped or appended to the slot.
DecodeNextChunk(w) ==
    LET rg == worker[w].rg
        chunk == table[rg][worker[w].read + 1]
    IN
    /\ worker[w].pc = "decode"
    /\ worker[w].read < Len(table[rg])
    /\ per_rg' = IF Pruned(chunk) THEN per_rg ELSE [per_rg EXCEPT ![rg] = Append(@, chunk)]
    /\ worker' = [worker EXCEPT ![w].read = @ + 1]
    /\ UNCHANGED <<query, pc, next_rg, output>>

\* The end of the row group: on to the next one.
DecodeEnd(w) ==
    /\ worker[w].pc = "decode"
    /\ worker[w].read = Len(table[worker[w].rg])
    /\ worker' = [worker EXCEPT ![w].pc = "fetch"]
    /\ UNCHANGED <<query, pc, next_rg, per_rg, output>>

\* Mutant: only the last worker started is waited for.
JoinLast ==
    /\ pc = "join"
    /\ worker[num_workers].pc = "exit"
    /\ chunks' = FlattenSeq(per_rg)
    /\ chunk_cursor' = 0
    /\ pc' = "pull"
    /\ UNCHANGED <<query, worker, next_rg, per_rg, remaining, rows>>

\* All workers are joined, then the slots are flattened.
Join ==
    /\ pc = "join"
    /\ \A w \in 1 .. num_workers : worker[w].pc = "exit"
    /\ chunks' = FlattenSeq(per_rg)
    /\ chunk_cursor' = 0
    /\ pc' = "pull"
    /\ UNCHANGED <<query, worker, next_rg, per_rg, remaining, rows>>

-----------------------------------------------------------------------------
(* Execute pulls from Limit, Limit from Filter, Filter from ColumnScan.    *)

Satisfying == {x \in Value : Holds(pred, x)}
Kept(chunk) == Select(chunk, Satisfying)

\* Mutant: the cursor only advances when a row is returned.
FilterDropsStays ==
    /\ pc = "pull"
    /\ remaining > 0
    /\ chunk_cursor < Len(chunks)
    /\ Kept(chunks[chunk_cursor + 1]) = <<>>
    /\ UNCHANGED vars

\* A chunk of which Filter keeps nothing: it pulls the next one.
FilterDrops ==
    /\ pc = "pull"
    /\ remaining > 0
    /\ chunk_cursor < Len(chunks)
    /\ Kept(chunks[chunk_cursor + 1]) = <<>>
    /\ chunk_cursor' = chunk_cursor + 1
    /\ UNCHANGED <<query, pc, worker, next_rg, per_rg, chunks, remaining, rows>>

\* Filter returns what it kept, Limit the first so many rows of it.
LimitTakes ==
    /\ pc = "pull"
    /\ remaining > 0
    /\ chunk_cursor < Len(chunks)
    /\ LET kept == Kept(chunks[chunk_cursor + 1])
           take == IF Len(kept) < remaining THEN Len(kept) ELSE remaining
       IN
       /\ kept # <<>>
       /\ rows' = rows \o SubSeq(kept, 1, take)
       /\ remaining' = remaining - take
    /\ chunk_cursor' = chunk_cursor + 1
    /\ UNCHANGED <<query, pc, worker, next_rg, per_rg, chunks>>

\* An empty batch ends the query; ColumnScan::Close drops the chunks.
Finish ==
    /\ pc = "pull"
    /\ remaining = 0 \/ chunk_cursor >= Len(chunks)
    /\ pc' = "done"
    /\ chunks' = <<>>
    /\ UNCHANGED <<query, worker, next_rg, per_rg, chunk_cursor, remaining, rows>>

WorkerStep(w) == Fetch(w) \/ DecodeNextChunk(w) \/ DecodeEnd(w)
MainStep ==
    \/ OpenEmpty
    \/ OpenPool
    \/ \E w \in Workers : Spawn(w)
    \/ Join
    \/ FilterDrops
    \/ LimitTakes
    \/ Finish

\* The query has returned.
Done == pc = "done" /\ UNCHANGED vars

Next == MainStep \/ (\E w \in Workers : WorkerStep(w)) \/ Done

\* The scheduler runs every thread: the query's and each worker's.
Spec ==
    /\ Init
    /\ [][Next]_vars
    /\ WF_vars(MainStep)
    /\ \A w \in Workers : WF_vars(WorkerStep(w))

-----------------------------------------------------------------------------
(* Properties.                                                             *)

Decoding(w) == worker[w].pc = "decode"

\* Two workers never write to the same slot, no worker writes to one when the
\* query's thread reads them, and by then every slot has had its worker:
\* column_scan.cpp has no lock there, only the atomic cursor and the joins.
SlotsNotShared ==
    /\ \A w, u \in Workers : w # u /\ Decoding(w) /\ Decoding(u) => worker[w].rg # worker[u].rg
    /\ pc \in {"pull", "done"} => next_rg >= num_rg /\ \A w \in Workers : ~ Decoding(w)

\* The chunks that Open leaves behind are those that a sequential scan would
\* decode: every row group has been decoded to its end, once, and they are in
\* the order of the table although workers "may finish out of order, but the
\* final flatten below restores row-group order" (column_scan.cpp:37-38).
AllDecoded ==
    pc = "pull" =>
        chunks = Select(FlattenSeq(table), {c \in Chunk : ~ Pruned(c)})

Matching == Select(FlattenSeq(FlattenSeq(table)), Satisfying)

\* The result is what a sequential scan of the whole table without zone maps
\* gives: the first rows that satisfy WHERE, in the order of the table, up to
\* LIMIT.  Skipping a chunk never loses a row, also where v + 1 or v - 1
\* overflows, and the order the workers finish in never shows.
ResultExact ==
    /\ pc = "pull" => IsPrefix(rows, Matching)
    /\ pc = "done" => rows = SubSeq(Matching, 1, IF Len(Matching) < limit THEN Len(Matching) ELSE limit)

\* Every query ends, whatever the interleaving of the workers.
QueryEnds == <>(pc = "done")
=============================================================================
