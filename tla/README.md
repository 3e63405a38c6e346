# LiteOLAP: TLA+ specifications and proofs

LiteOLAP is an embedded analytical database: SQL statements go through `DB::Execute`, rows are
buffered in memory, flushed to compressed column chunks on a chain of 4 KiB pages behind a buffer
pool, and scanned, joined and aggregated by operators, two of which use worker threads. This
directory holds TLA+ modules translated from that code, the TLC configurations that check them on
small instances, and TLAPS proofs of the results that matter most for every instance.

All source paths are relative to the repository's `src/` directory unless they start with `tests/`.

## The system

| Part | State it keeps | Operations | Hard behaviour | What makes it correct |
|---|---|---|---|---|
| page file (`storage/disk_manager`) | the file, its length in pages | read, write, append a page | a write or an extension that fails | a page reads as last written |
| buffer pool (`storage/buffer_pool`) | frames with pin count and dirty flag, `page_table_`, `lru_`, `free_list_` | FetchPage (shared, then exclusive lock), NewPage, UnpinPage, FlushPage, FlushAll | concurrent fetches between the two locks, eviction against a pointer in use, exceptions half way | a pointer stays valid while pinned; no content is lost; what is clean is in the file |
| paged streams (`storage/paged_stream`) | current page, offset, end flag | Write, Finish; Read, Skip | page boundaries, exact end | reads what was written, ends exactly at the end |
| column files (`column/*`) | buffered rows, chunk headers, whether the payload was consumed | Append, Finish; NextChunk, Decode, SkipPayload | any mixture of decoding, skipping, ignoring | the same chunk boundaries in all columns, each chunk read back |
| encodings (`compression/encoding`) | bit writers and readers | encode, decode | widths that do not divide a byte, NULLs, ranges that span int64 | round trip, no read beyond the payload |
| catalog (`catalog/catalog`) | tables and row groups; page chain from page 0 | Persist, Load, table operations | chains that grow and shrink, a crash between page writes | reopening restores the last catalog; column pages are not overwritten |
| database (`db.cpp`) | `pending_` buffers, catalog, pool | CREATE, DROP, TRUNCATE, INSERT, SELECT, Close, Open | crash anywhere, a write that throws, an INSERT rejected in the middle | no row lost, doubled or reordered; the file is always consistent |
| column scan, filter, limit (`execution/*`) | row-group slots, shared cursor | Open, Next | worker interleavings, zone-map bounds at the ends of int64 | the result of a sequential scan |
| hash aggregate | partial groups per worker, merged groups | Open, Next | worker interleavings, merging empty accumulators, key collisions | one group per distinct key with the aggregates of its rows |
| hash join | build index, probe position kept between batches | Open, Next | a batch that ends inside the matches of a row | the nested-loop join |
| lexer (`sql/lexer`) | none between calls | Tokenize | a minus that is a sign or a subtraction, doubled quotes, comments, literals at the ends of int64 | each token as written |
| parser (`sql/parser`, `sql/ast`) | tokens, position | one function per production | reading past the last token, precedence and associativity, `BETWEEN ... AND` | accepts exactly the language and builds the tree that is meant |
| expressions (`execution/expression`, `common/value`) | none | EvalExprRow, EvalPredicate | NULL, mixed numeric types, a fast path beside the general evaluation | the value SQL defines |
| planner (`planner`), order by, projection | the plan | PlanSelect; Open, Next | names of two tables, aliases against columns, sort before or after the projection, bounds taken from WHERE | the operators compute the answer of the statement; wrong names are refused |
| vectors, schema, result set | containers, their bytes | - | - | not modelled |

How they interact: `DB` calls the parser, the planner, the catalog and the column writers; writers and readers
use streams, streams use the pool, the pool and the catalog use the page file. The catalog bypasses
the pool and writes its pages directly. Statements run one at a time; the only concurrency is inside
one SELECT, where `ColumnScan::Open` and `HashAggregate::Open` start threads that share a cursor and,
in the scan, the pool.

## Modules

| Module | Models | Used by |
|---|---|---|
| `PageStore` | abstract: a growing array of pages whose current content is never lost | refined by `BufferPool` |
| `BufferPool` | `buffer_pool.cpp` over `disk_manager.cpp`, concurrent clients, disk faults | `MCBufferPool`, the proofs |
| `Catalog` | `Catalog::Persist` and `Catalog::Load` on the page chain | run `catalog`, `CatalogProofs` |
| `LiteDB` | `db.cpp` and the table operations of the catalog | runs `db*`, `LiteDBProofs` |
| `ColumnFile` | `column_writer.cpp`, `column_reader.cpp`, `paged_stream.cpp` | run `column_file`, `ColumnFileProofs` |
| `Encoding` | `encoding.cpp` | `MCEncoding`, `EncodingProofs` |
| `ColumnScan` | `column_scan.cpp`, `filter.cpp`, `limit.cpp`, the pushdown of `planner.cpp` | `MCColumnScan`, `ColumnScanProofs` |
| `HashAggregate` | `hash_aggregate.cpp` | `MCHashAggregate`, `HashOperatorProofs` |
| `HashJoin` | `hash_join.cpp` | `MCHashJoin`, `HashOperatorProofs` |
| `Lexer` | `lexer.cpp` | `Parser` |
| `Parser` | `parser.cpp`, `ast.h` | `Expression` |
| `Expression` | `value.cpp`, `expression.cpp` | `Planner` |
| `Planner` | `planner.cpp`; `projection.cpp`, `order_by.cpp`; the other operators by their promises | `Query` |
| `Query` | a statement from text to result, and what SQL answers | `MCQuery` |
| `Selection` | the items of a sequence that are in a set, defined so that proofs can expand it | `ColumnScan`, `HashJoin` |
| `SequenceLemmas` | lemmas about slices, flattening, selection and recursive functions, by induction | the proofs about sequences |
| `BufferPoolProofs`, `CatalogProofs`, `LiteDBProofs`, `ColumnFileProofs`, `EncodingProofs`, `ColumnScanProofs`, `HashOperatorProofs` | theorems | |

### BufferPool

The variables are the members of `Frame` and `BufferPool` by name, the file and its length, and the
clients. One step is one critical section, so `FetchPage` is up to two steps with the lock free in
between; `NewPage` is `AllocatePage`, a fetch and the initialisation of the page, which happens with
no lock held. A client is one pin: a scan worker is one client, an output stream up to two. Clients
follow the contract of the streams: use the page only between fetch and unpin, unpin with
`is_dirty = true` after a change. With `Faults` a read or write may throw wherever the code calls the
disk manager; the exception leaves exactly the state the code has reached by then. `FlushAll(k)` is a
`FlushAll` that reaches frame `k`; `k = num_frames` completes. The content of a page is one value,
since every access copies whole pages or is protected by the pin.

`PageStore` is what the layers above rely on, without frames: `Acquire`, `Read`, `Write`, `Release`,
`Extend`, and a write-back of current contents at any time. The mapping takes the content of a page
from its frame if it has one and from the file otherwise.

### Catalog

The serialized tables are a version with a number of slices; each slice fills a page. `Persist` is the
walk of the old chain (`Probe`), the allocation of missing pages, and one page write per step. A
`Persist` whose catalog fills at most `MaxTorn` pages may throw, or the process die, between any two of
these steps. With `MaxTorn = 1` every claim holds. With 2, TLC refutes `ChainAcyclic` and `LoadEnds`: a
crash after the first page of a two-page catalog leaves a link to a page of zeros, whose own link is 0,
and the walks of the code go round. `MaxWalk` bounds the walks, which in the code have no bound.

### LiteDB

`pending`, `exists`, `groups` are the memory of the process, `file`, `durable` what survives. A row is
a number and each of its columns holds that number, so mixed-up columns show. The layers below are
used through their promises: a finished row group is in the pool, an eviction or `FlushAll` brings it
to the file (`PageStore`), `Persist` is one step (which `Catalog` shows for catalogs of one page). The
history variables `logical` and `prior` say what the tables should contain; `prior.cleared` has the tables
that were dropped or truncated since the last `Persist`, the only ones that may lose row groups from the
file (`PersistedStays`).

### ColumnFile, Encoding

Bytes are labelled by chunk and position in `ColumnFile`, so a misplaced byte is visible; a step is
one turn of the copy loops. The length of a payload is arbitrary there. `Encoding` opens the payload:
integers have a width and wrap around, `PackBits` and `UnpackBits` are stepped bit group by bit group
with an arbitrary byte width. A shift is a product or a quotient with `Pow2[k]`; the runs and the
dictionary are recursive functions of the prefix of the chunk, one step per value, as the loops of the code
build them. Strings and the bits of doubles are opaque (`Scalars`). Which encoding is smallest is left open:
any candidate may be chosen.

### ColumnScan, HashAggregate, HashJoin

Workers are processes; a step is one `fetch_add`, one chunk decoded or one row aggregated. The query
is compared with a sequential definition over the same input. The scan reads row groups as values:
that the bytes come back is `ColumnFile`, `Encoding` and `BufferPool`. In `HashAggregate` strings are
sequences of bytes because `KeyString` concatenates them; no chunk of its input is empty, because `Open` stops
draining its child at the first one that is. A step of `HashJoin` is one
row built, passed over or emitted, or one batch returned; `Ids` and `Keys` say what rows are made of, the
properties compare the numbers of keys while the index hashes the type too.

### Lexer, Parser, Expression, Planner, Query

One statement goes through the pipeline of `DB::Execute`: `Tokenize` is one step; each clause of SELECT, each
other statement and the check for tokens left over is an action of `Parser` (`pc` is the next clause, `tokens`
and `pos` are the members of the class, `stmt` the statement so far); each paragraph of `PlanSelect` is an
action of `Planner`, with another action for the `Fail` of that paragraph; and each operator of the plan is one
step over all rows of its child, with an action for the exceptions it may let through.

- A text is a sequence of symbols: single characters, except that a keyword or a name is one symbol. The
  lexer works on characters where it matters (digits, signs, quotes, comments, two-character operators).
- The productions of expressions are one recursive operator, `Production(what, p)`, that gives the tree and
  the next position. `Peek` reads beyond the tokens as the code does, so that doing it is visible.
- A value is a type and a number. FLOATs are counted in tenths, VARCHARs are numbered in their order. What
  differs between INT and BIGINT, a literal's type, what `std::get` finds in a variant, which comparison
  throws, is kept.
- An exception is the value `Threw`, propagated in the order in which the code evaluates.
- Dereferencing the empty optional of `FindColumn` (`planner.cpp:320`) gives any column, or the exception of
  `GetColumn`.
- The scan may leave out any rows outside its zone; the aggregate gives its groups in any order; the
  filter may stop before a row that throws if a LIMIT has enough rows.

The reference, `Answers` in `Query`, is computed from the statement by nested loops, with names resolved
through the schema and three-valued logic; it shares with the model the arithmetic and comparison of two
values and the aggregate of a sequence of values, nothing of the planner but the collection of references
and conjuncts. `Answerable` says which queries must be answered. It is a condition on the statement and the data:
names that mean one column, kinds of values that go together, and the exceptions listed under
"Other behaviour".

## Runs

`tlc -workers 2 -config <cfg> <module>`; each takes at most about a minute and a half.

| Run | Question | Result |
|---|---|---|
| `pool` | 2 clients, 2 frames, 3 pages, throwing reads and writes: all interleavings | invariants and refinement of `PageStore` hold (about 154 000 states) |
| `catalog` | chains of up to 3 pages between column pages, reopened at will; crashes and throws in a `Persist` of one page | restored, acyclic, no column page touched, Load ends (about 25 000 states) |
| `db` | 2 tables, 4 rows, 3 DDL statements, 1 crash | rows exactly once, file recoverable, what is persisted stays (about 510 000 states) |
| `db_faults` | 2 throwing writes | no row lost, a later Close completes (about 340 000 states) |
| `db_ragged` | do the columns stay aligned after a rejected INSERT? | **violated** |
| `column_file` | 7 rows, chunks of 2 rows, pages of 3 bytes, payloads of 1, 2 or 4 | reads what was written, ends exactly |
| `encoding` | all chunks of up to 4 rows of each type, 5-bit and 3-bit integers, 3-bit bytes | round trip, no overread |
| `scan` | up to 3 row groups, 2 workers, all comparisons, LIMIT 0, 2, 9 | the sequential result; the query ends |
| `aggregate` | up to 3 chunks, 3 workers | one row per group with the SQL aggregates; the query ends |
| `join` | up to 3 rows on each side, batches of 2 | the nested-loop result, in order; the join ends |
| `query` | 10 290 texts: every short sequence of tokens after WHERE over six alphabets and every longer expression of the language; queries over one and two tables with all clauses, in two spacings; every edit of some statements by a token | parsed as meant, never past the end token, answered as SQL does, wrong names refused (about 120 000 states) |
| `query_reversed` | does a join return the matched rows if the predicate names the second table first? | **violated**: the query reads the columns of the wrong table |

The two violations are described under `findings` in `PROJECT.json`, each with the line of the code
and of the text it contradicts.

Other behaviour of the code that the models have and that the properties are worded around:

- A `ReadPage` that throws inside `LoadIntoFrame` takes its frame out of circulation for good
  (`LostFrames`); after `num_frames` such failures every fetch throws "all frames pinned" (`buffer_pool.cpp:42`).
- The fast path of `FetchPage` does not `Touch`, so eviction follows the order of loading rather than of
  use (`buffer_pool.cpp:82`).
- `WritePage` and `AllocatePage` do not test the stream after `file_.flush()` (`disk_manager.cpp:73`, `86`): a failure
  that only shows there is silent. The models have every failed write throw, so the durability properties of the pool, the
  catalog and the database hold for failures that the stream reports at `write`.
- A flush that throws leaves its row groups in the catalog in memory; a DDL statement then persists
  them before their pages are in the file (`db.cpp:79`). `PersistedIsDurable` is claimed for sessions
  without a throwing write only.
- A retried flush writes rows again that the failed one had already put into a row group, so under
  throws `RowsKept` is claimed instead of `RowsExactlyOnce`.
- `KeyString` does not escape its mark bytes (`hash_aggregate.cpp:33`), `KeyOf` hashes the type with the
  value (`hash_join.cpp:13`): the inputs of `aggregate` and `join` hold no strings with those bytes and
  keys of one type.
- A catalog of two pages or more is not written atomically (`catalog.cpp:112`), see `MaxTorn` above.
- `NewPage` extends the file before it fetches: if the pool is full the page stays unused (`buffer_pool.cpp:131`).
  Pages of a catalog chain that shrank are not used again when it grows (`catalog.cpp:127`).
- The planner ignores HAVING in a query without aggregates (`planner.cpp:506`), and the alias of a column item
  and of an aggregate's argument in a query with them (`planner.cpp:522`, `70`): `SUM(t.a)` and `SUM(u.a)` become one.
- The first equality of two columns is taken for the join predicate even if both are of one table, and its
  columns must be qualified (`planner.cpp:294`, `402`). Two tables may have the same alias (`planner.cpp:241`).
- ORDER BY takes the last of several output columns of the name (`planner.cpp:564`) and drops a qualifier
  (`parser.cpp:322`).
- A comparison with NULL is false, so NOT of it is true (`expression.cpp:85`, `122`).
- A WHERE that is a single comparison of an INT column with a BIGINT, FLOAT or NULL literal throws, while the same
  comparison in a conjunction is evaluated (`expression.cpp:203`). An IN list of one value is bound to such a
  comparison and throws as well (`planner.cpp:173`). `LiteralsFit` excepts both from `AnswersQuery`; the texts have them.
- SUM or AVG of a VARCHAR throws in a worker thread and ends the process (`hash_aggregate.cpp:87`).
- NULL does not count as a value before a minus, so `NULL -1` is two literals and rejected (`lexer.cpp:78`); no
  text of `ParsedAsMeant` has it.
- A row whose evaluation would throw is not evaluated if LIMIT has enough rows before its chunk (`limit.cpp`).
- ORDER BY puts NULLs last when descending, and says so (`order_by.cpp:40`), while the interface says that "NULLs
  sort before all non-null values" without an exception (`order_by.h:13`). SQL leaves the choice open, so
  `AnswersQuery` accepts either end for the NULLs of a descending order (`NullsFirst`), and only the start of an ascending one.
- `DecodeBitpack` relies on signed addition wrapping around (`encoding.cpp:474`).

Why the bounds are enough. The pool needs two clients to race on one page, a third page to force
an eviction from two frames, and a second reader to have a stale pointer. Two page contents tell a
lost write from a kept one; `Data` is the content `NewPage` leaves, so that clients write it into old pages
too. The catalog needs three
slices to shrink and grow again past a column page. The database needs two tables so that a flush of
one persists the other, more rows than a row group so that one flush writes two, and a DDL statement
before and after. In the column file a header of 2 and payloads of 1, 2 and 4 over pages of 3 bytes end
before, at and after every page boundary. In the encodings 3-bit bytes against widths 0 to 5 give every
alignment of value and byte. The scan has both ends of the integer range, where the pushed-down bound
wraps around. The aggregate has more workers than some inputs have chunks, so that a worker gets none.
The join has batches that end inside and at the end of the matches of a row.

In the query run sequences of 3 tokens over 12, and of 4 or 5 over smaller alphabets, are all tried, so that
every production meets every wrong next token; expressions of the language go up to 5 or 7 tokens, which is
two binary operators with a parenthesis or a NOT, so that every pair of operators meets in both orders. Two
and three rows per table, with NULLs, without and empty, give duplicates in keys and in sort keys, groups of one
and of two rows, and matches of none, one and two. `kIntMax` is 12 so that the literal 20 is a BIGINT,
`kBigMax` is 200 so that sums and products of the tables' values do not overflow; the wrap-around of the
bounds is in the scan run.

Bounds by name: `MaxPages`, `MaxColumnPages`, `MaxSlices`, `MaxVersions`, `MaxWalk`, `MaxTorn` (Catalog);
`MaxInsert`, `MaxRows`, `MaxDDL`, `MaxCrashes`, `MaxThrows` (LiteDB); `MaxPages` (BufferPool); `MaxRows`
(ColumnFile); `kIntMax`, `kBigMax`, `kVarcharMax` and the lengths in `Alphabets` (query). Client
symmetry is used in the pool run; no liveness is checked there. Deadlock is checked in every run; the modules whose behaviours end have an explicit `Done` step.

Fairness. `ColumnScan` and `HashAggregate` assume weak fairness of the query's thread and of each
worker: they are operating-system threads that never wait for anything but their own joins. `Catalog`
assumes weak fairness of the steps of `Persist` and `Load`, `HashJoin` of its single thread. Nothing is
assumed about how often clients call.

## Proofs

Checked with `tlapm <module>.tla`.

**BufferPoolProofs**: for any number of clients, frames and pages, with or without disk faults. The
inductive invariant `PoolInv` is the conjunction of the types, `PageTableExact`, `PointerStable`,
`PinsCounted`, `ListsExact`, `CleanIsDurable` and that pages beyond the end are zero. None of these
is inductive alone: `PointerStable` needs that a victim has no holder, which is `PinsCounted` together with
`PointerStable` itself; `PinsCounted` needs that a frame taken from the free list has no holder, which is
`ListsExact`; `CleanIsDurable` needs `PageTableExact` so that a write to one page cannot be a write to
another. One lemma per action. From it: `TypeCorrect`, `PointersStable`, `PageTableIsExact`,
`PinCountsAreHolders`, `CleanFramesAreDurable`, `FlushAllDurable` (an action property), `FullIsTruthful`, and `FetchNeverFull` (as
many frames in circulation as clients suffice: otherwise each of them has a holder of its own and the
fetching client has none). `FramesStayAccounted` adds that without disk faults every frame stays in
circulation.

Its last part proves the refinement: `PoolImplementsPageStore`, `Spec => PS!Spec`. One lemma per action maps it to
a step of the store or to a stutter; the eviction is the interesting one (a dirty victim is written
back, a clean one equals the file by `CleanIsDurable`, so no current content changes).

**CatalogProofs**: for files and catalog bodies of any size. `CatalogInv` says that outside the writes of
a Persist the file is consistent: page 0 holds no catalog yet, or from it starts one chain of distinct
pages that holds the committed version, slice by slice; the walks of Persist and Load are prefixes of
that chain; the pages to be written are distinct and none is a column page. It needs the hypothesis
`MaxTorn <= 1`: only a Persist of one page may throw or be cut short. Persist writes the pages in place,
so a larger one that stops half way leaves a mixture, and with `MaxTorn = 2` TLC refutes both
`ChainAcyclic` and `ReopenRestores`. From it: `ChainIsAcyclic` and `ReopenBringsBack`. `ColumnPagesStay`
has no hypothesis: its invariant `LinkInv` says that the pages that are not column pages link only to
each other (or to no page), which also a torn catalog does.

**LiteDBProofs**: for any tables, columns, row-group size and number of statements. The invariants build
on each other; the hypotheses say which faults a statement tolerates, and TLC refutes each one when a
hypothesis is dropped. Crashes are allowed unless the table says otherwise.

| Theorem | Hypothesis | Argument |
|---|---|---|
| `DatabaseTypes` | none | `BaseInv`: types, and which tables are where |
| `RowGroupsStay` | none | `StaysInv`: but for the tables of a DROP or TRUNCATE not yet persisted, the catalog in memory continues the one in the file |
| `CatalogNamesDurableGroups` | no write throws | `OrderInv`: every row group in the catalog is dirty or durable, none is dirty when the catalog is about to be persisted |
| `ColumnsStayAligned` | no INSERT is rejected half way | all columns of a buffer and of a row group are equal |
| `RowsAreKeptExactlyOnce`, `CrashRecovery` | no write throws, no INSERT is rejected half way | `RowsInv`: the row groups of a table, then its buffer from the flush position on, are its rows; the file holds the tables before or after the statement in progress, each with a prefix of its rows |
| `RowsSurviveFailedWrites` | no INSERT is rejected half way | `KeptInv`: what a failed flush has written stays in the buffer |
| `CloseWritesEverything` | no INSERT is rejected half way; no crash or no throw | what Close still has to flush shrinks table by table; `ClosedIsDurable` for the pages |

A throw and then a crash may leave a catalog that names pages which never reached the file; that is why
`CloseWritesEverything` excludes the combination.

**ColumnFileProofs**: no hypothesis; any page size, payload length, row count and order of reads. `ColumnInv`
says that every page but the last is full, that each byte on the pages is followed by the byte that comes
next in the chunks, across pages and chunks, that the position of the reader is in front of the byte that
its own state (chunk, header or payload, bytes to go) makes it expect, and that `at_end` is set exactly when
nothing follows. From it: `BoundariesFromRows`, `ReadsTheChunkWritten`, `AtEndIsExact`, `ReadsEveryChunk`.

**EncodingProofs**: for any widths of `int64_t`, `int32_t` and a byte, any chunk of values in the range of its
type and any encoding. The assumption on the constants is that the values are in that range and that the
rows of a chunk can be counted in a word. The bits written so far are one number `s`: the argument is that
byte `j` is the bits of `s` from `ByteBits * (j - 1)` on and value `j` its bits from `bw * (j - 1)` on
(`HasBytes`, `HasVals`, with `Bits(s, p, w)` the `w` bits from bit `p` on). `PackState` says how far PackBits is
with the current value and the current byte, both of which may be incomplete, at the same bit of `s`; a turn
puts bits above `s` and leaves what is below (`PackByte`, `PackValue`). `UnpackState` is its counterpart and also
bounds the bytes: they hold all bits and less than one byte more, so a value that is not complete still has
a byte. The arithmetic below it (`Bits` splits and is cut at any bit) rests on the uniqueness of quotient and
remainder. `PlainBack`, `RleBack`, `DictionaryBack` and `BitpackBack` say that the decoder inverts the
encoder; the last one holds although the range, the deltas and the sum may all wrap around. `Inv` puts these
together, one lemma per action. From it: `ChunkReadBack` and `UnpackStaysInPayload`.

**ColumnScanProofs**: for any table, integer range and number of workers, no hypothesis. `SlotsAreOwned`: the
workers that decode have distinct row groups below the cursor, and the slots are read only after all have
exited. `SkippedChunksMatchNothing`: a pruned chunk holds no row that satisfies the predicate. Where
`v + 1` wraps around to the smallest value the bound prunes nothing. `ScanInv` adds what each slot holds
(the chunks of its row group that have been passed and are not pruned) and what has been pulled. From
it: `ScanIsSequential`, and `QueryIsExact`, where leaving out chunks that match nothing does not change
the rows that match (`SelectSkips`) and LIMIT takes a prefix.

**HashOperatorProofs**, the join: for any tables, chunks and size of a batch. `ProbeInv`: the index has for each key the
positions of the build rows with that key, in their order. `ResultInv`: what has been returned and what is
in the batch are the pairs of the left rows passed and the first `mpos` pairs of the current one. From
them `ProbeTypes` and `JoinIsExact`. The latter has the hypothesis `OneType`: keys with equal numbers
have the same type. Without it the statement is false, because `KeyOf` hashes the type of a key
(`hash_join.cpp:13`).

**HashOperatorProofs**, the aggregate (`Agg`, an instance of `HashAggregate`): for any input, number of threads
and interleaving. `TotalIs` says that `Total` adds up, `TotalChange` how a sum changes with one of its numbers;
`ProcessRowFacts` and `MergeGroupFacts` that a row adds one to the counts of a list of groups, whether its key
is found or not, and a partial group its count. `CountInv`: a chunk that is worked on has been taken from the
cursor and has one owner, so a chunk becomes finished when its owner has counted its last row, and not before.
`MergeInv` adds the joining thread: a worker that has exited found the cursor at the end, a worker that was never
started has no groups, and what is merged are the groups of the first `merged.partials` workers and the first
`merged.groups` of the next. From them `AggregateCountsOnce`.

**SequenceLemmas**: induction over the natural numbers from the least element of a set (`Induction`), and
with it what `FlattenSeq` and `Select` do with an appended item, with two parts and with a prefix.
`SelectSeq` is built into the tools and opaque to the prover; that is why the models use `Select`.
`RecursionExists`: a function defined by recursion over the natural numbers exists, so that its equation may
be used in proofs.

Model-checked only: liveness (`QueryEnds`, `AggregateEnds`, `JoinEnds`, `LoadEnds`), which the prover does
not reach; `ResultExact` of `HashAggregate`, which compares with sums, minima and maxima over sets of rows and
needs keys that `KeyString` tells apart; everything about `Lexer`, `Parser`, `Expression`, `Planner`
and `Query`, whose operators are recursive over texts and syntax trees.

## Not modelled

- A page write is one step: torn pages, and a file extension that stops inside a page, are left out.
  `Sync` only flushes the stream; what the operating system loses on a power failure is left out.
- Exceptions in worker threads, which end the process (`Query` has the failure of the query, not of the
  database).
- The overflow of integer arithmetic and sums, the rounding and infinities of floating-point numbers.
- The conversion of an INSERT's literals to the column types (`db.cpp:25`): the rows of `LiteDB` are abstract
  and `Query` ends with the parsed statement.
- The bytes of the schema and of the catalog's body, and the limits of their length fields.
- Vectors, chunks and result sets as containers; the batches in which ORDER BY and the projection
  pass their rows on.
- Keywords as identifiers in other letter cases; characters outside ASCII.
- Statements after `Close`.
- The tests and the benchmark.

## Plan

Done in the order of importance: pool, page store and refinement; catalog file; database; scan;
aggregate; join; column file; encodings; the statement pipeline from text to answer; the proofs above. Left:

1. `LiteDB` refined to an abstract database of tables with atomic statements and crash recovery to a
   prefix; `LiteDB` over the page-wise `Catalog`.
2. The coercion of INSERT between `Parser` and `LiteDB`.
3. `ResultExact` of `HashAggregate` for keys that `KeyString` tells apart.
