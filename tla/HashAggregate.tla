---------------------------- MODULE HashAggregate ----------------------------
(***************************************************************************)
(* HashAggregate (execution/hash_aggregate.cpp): the chunks of the child   *)
(* are aggregated by worker threads, each into groups of its own, and the  *)
(* partial groups are merged into one list when all workers are joined;    *)
(* Next hands the groups out in batches.                                   *)
(*                                                                         *)
(* A row is its key, a tuple of strings or NULLs, and the argument of the  *)
(* aggregates.  All aggregate kinds are computed side by side: COUNT(star) *)
(* is count, COUNT nonnull, SUM isum, MIN minv, MAX maxv.  Sums are exact. *)
(* Strings are sequences of bytes, because KeyString joins them.           *)
(***************************************************************************)
EXTENDS Integers, Sequences, FiniteSets, SequencesExt

CONSTANTS
    Null,           \* the SQL NULL
    Inputs,         \* what the child may deliver: sequences of chunks of rows
    hw,             \* hardware_concurrency()
    kVectorSize     \* rows of a batch

Row == [key : Seq(Seq(Nat) \cup {Null}), val : Int \cup {Null}]

\* Draining the child ends with its first empty chunk.
ASSUME HashAggregateAssumption ==
    /\ Null \notin Int
    /\ Inputs \subseteq Seq(Seq(Row) \ {<<>>})
    /\ hw \in Nat \ {0}
    /\ kVectorSize \in Nat \ {0}

Workers == 1 .. hw

VARIABLES
    input,          \* inputs: the chunks drained from the child
    grouped,        \* whether there is a GROUP BY
    pc,             \* "drained", "spawn", "join", "merge", "ready",
                    \*   "exhausted" or "closed"
    worker,         \* worker[w]: its state, the chunk ci it works on and the
                    \*   i rows of it that it has processed
    next_chunk,     \* the shared cursor
    partials,       \* partials[w]: the groups of worker w
    merged,         \* the partials that are merged, and the groups of the next
    groups,         \* groups_
    cursor,         \* cursor_: the groups handed out
    rows            \* the rows handed out so far

vars == <<input, grouped, pc, worker, next_chunk, partials, merged, groups, cursor, rows>>
output == <<cursor, rows>>

-----------------------------------------------------------------------------
(* Groups.  index maps the KeyString of each group to its position.        *)

\* A NULL is a zero byte; a string is enclosed in marks.
KeyString(key) ==
    FlattenSeq([k \in 1 .. Len(key) |->
        IF key[k] = Null THEN <<0>> ELSE <<1, 2>> \o key[k] \o <<3>>])

\* The position of the group of a key, or 0.
Find(gs, key) ==
    SelectInSeq(gs, LAMBDA g : KeyString(g.key) = KeyString(key))

NoAcc == [count |-> 0, nonnull |-> 0, isum |-> 0, minv |-> Null, maxv |-> Null]

Lesser(x, y) == IF y = Null \/ (x # Null /\ x < y) THEN x ELSE y
Greater(x, y) == IF y = Null \/ (x # Null /\ x > y) THEN x ELSE y

\* UpdateGroup: a NULL argument counts for COUNT(star) only.
UpdateGroup(acc, v) ==
    IF v = Null THEN [acc EXCEPT !.count = @ + 1]
    ELSE [count |-> acc.count + 1, nonnull |-> acc.nonnull + 1, isum |-> acc.isum + v,
          minv |-> Lesser(v, acc.minv), maxv |-> Greater(v, acc.maxv)]

\* ProcessRow.
ProcessRow(gs, row) ==
    LET k == Find(gs, row.key) IN
    IF k = 0 THEN Append(gs, [key |-> row.key, acc |-> UpdateGroup(NoAcc, row.val)])
    ELSE [gs EXCEPT ![k].acc = UpdateGroup(@, row.val)]

\* Mutant: the minimum is merged although the source has none.
MergeAccNull(dst, src) ==
    [count |-> dst.count + src.count, nonnull |-> dst.nonnull + src.nonnull,
     isum |-> dst.isum + src.isum,
     minv |-> IF dst.minv = Null \/ src.minv = Null \/ src.minv < dst.minv THEN src.minv ELSE dst.minv,
     maxv |-> Greater(src.maxv, dst.maxv)]

\* MergeAcc.
MergeAcc(dst, src) ==
    [count |-> dst.count + src.count, nonnull |-> dst.nonnull + src.nonnull,
     isum |-> dst.isum + src.isum,
     minv |-> IF src.minv = Null THEN dst.minv ELSE Lesser(src.minv, dst.minv),
     maxv |-> IF src.maxv = Null THEN dst.maxv ELSE Greater(src.maxv, dst.maxv)]

\* One partial group goes into the merged groups.
MergeGroup(gs, g) ==
    LET k == Find(gs, g.key) IN
    IF k = 0 THEN Append(gs, g) ELSE [gs EXCEPT ![k].acc = MergeAcc(@, g.acc)]

-----------------------------------------------------------------------------
(* HashAggregate::Open.                                                    *)

num_workers == IF hw < Len(input) THEN hw ELSE Len(input)

Init ==
    /\ input \in Inputs
    /\ grouped \in BOOLEAN
    /\ \A c \in DOMAIN input : \A r \in DOMAIN input[c] : grouped = (input[c][r].key # <<>>)
    /\ pc = "drained"
    /\ worker = [w \in Workers |-> [pc |-> "new", ci |-> 0, i |-> 0]]
    /\ next_chunk = 0
    /\ partials = [w \in Workers |-> <<>>]
    /\ merged = [partials |-> 0, groups |-> 0]
    /\ groups = <<>>
    /\ cursor = 0
    /\ rows = <<>>

\* No GROUP BY and no groups: one group of no rows.
Default(gs) == IF ~ grouped /\ gs = <<>> THEN <<[key |-> <<>>, acc |-> NoAcc]>> ELSE gs

\* Nothing to aggregate.
OpenEmpty ==
    /\ pc = "drained"
    /\ input = <<>>
    /\ groups' = Default(groups)
    /\ pc' = "ready"
    /\ UNCHANGED <<input, grouped, worker, next_chunk, partials, merged, output>>

OpenPool ==
    /\ pc = "drained"
    /\ input # <<>>
    /\ pc' = "spawn"
    /\ UNCHANGED <<input, grouped, worker, next_chunk, partials, merged, groups, output>>

\* The workers are started one by one.
Spawn(w) ==
    /\ pc = "spawn"
    /\ w \in 1 .. num_workers
    /\ worker[w].pc = "new"
    /\ \A u \in 1 .. w - 1 : worker[u].pc # "new"
    /\ worker' = [worker EXCEPT ![w].pc = "fetch"]
    /\ pc' = IF w = num_workers THEN "join" ELSE "spawn"
    /\ UNCHANGED <<input, grouped, next_chunk, partials, merged, groups, output>>

\* Mutant: the cursor is read and advanced in two steps, so that the advance
\* of another worker in between is lost.
FetchTorn(w) ==
    /\ worker[w].pc = "fetch"
    /\ next_chunk' \in {next_chunk, next_chunk + 1}
    /\ worker' = [worker EXCEPT ![w] =
                    IF next_chunk >= Len(input) THEN [@ EXCEPT !.pc = "exit"]
                    ELSE [pc |-> "work", ci |-> next_chunk + 1, i |-> 0]]
    /\ UNCHANGED <<input, grouped, pc, partials, merged, groups, output>>

\* next_chunk.fetch_add(1); the chunks are numbered from 1 here.
Fetch(w) ==
    /\ worker[w].pc = "fetch"
    /\ next_chunk' = next_chunk + 1
    /\ worker' = [worker EXCEPT ![w] =
                    IF next_chunk >= Len(input) THEN [@ EXCEPT !.pc = "exit"]
                    ELSE [pc |-> "work", ci |-> next_chunk + 1, i |-> 0]]
    /\ UNCHANGED <<input, grouped, pc, partials, merged, groups, output>>

\* One row of the chunk, into the groups of this worker alone.
Work(w) ==
    LET me == worker[w]
        chunk == input[me.ci]
    IN
    /\ me.pc = "work"
    /\ partials' = [partials EXCEPT ![w] = ProcessRow(@, chunk[me.i + 1])]
    /\ worker' = [worker EXCEPT ![w] =
                    [me EXCEPT !.i = @ + 1, !.pc = IF me.i + 1 = Len(chunk) THEN "fetch" ELSE "work"]]
    /\ UNCHANGED <<input, grouped, pc, next_chunk, merged, groups, output>>

\* All workers are joined.
Join ==
    /\ pc = "join"
    /\ \A w \in 1 .. num_workers : worker[w].pc = "exit"
    /\ pc' = "merge"
    /\ UNCHANGED <<input, grouped, worker, next_chunk, partials, merged, groups, output>>

\* Mutant: the merge stays at the partial of a worker that got no chunk.
MergeStays ==
    /\ pc = "merge"
    /\ merged.partials < num_workers
    /\ LET partial == partials[merged.partials + 1] IN
       IF merged.groups < Len(partial)
       THEN /\ groups' = MergeGroup(groups, partial[merged.groups + 1])
            /\ merged' = [merged EXCEPT !.groups = @ + 1]
       ELSE /\ merged' = IF partial = <<>> THEN merged
                         ELSE [partials |-> merged.partials + 1, groups |-> 0]
            /\ UNCHANGED groups
    /\ UNCHANGED <<input, grouped, pc, worker, next_chunk, partials, output>>

\* One group of the partial whose turn it is.
Merge ==
    /\ pc = "merge"
    /\ merged.partials < num_workers
    /\ LET partial == partials[merged.partials + 1] IN
       IF merged.groups < Len(partial)
       THEN /\ groups' = MergeGroup(groups, partial[merged.groups + 1])
            /\ merged' = [merged EXCEPT !.groups = @ + 1]
       ELSE /\ merged' = [partials |-> merged.partials + 1, groups |-> 0]
            /\ UNCHANGED groups
    /\ UNCHANGED <<input, grouped, pc, worker, next_chunk, partials, output>>

MergeEnd ==
    /\ pc = "merge"
    /\ merged.partials = num_workers
    /\ groups' = Default(groups)
    /\ pc' = "ready"
    /\ UNCHANGED <<input, grouped, worker, next_chunk, partials, merged, output>>

-----------------------------------------------------------------------------
(* HashAggregate::Next and Close.                                          *)

\* Finalize, for every aggregate kind; AVG is dividend and divisor.
Finalize(g) ==
    [key |-> g.key,
     count_star |-> g.acc.count,
     count |-> g.acc.nonnull,
     sum |-> IF g.acc.nonnull = 0 THEN Null ELSE g.acc.isum,
     avg |-> IF g.acc.nonnull = 0 THEN Null ELSE <<g.acc.isum, g.acc.nonnull>>,
     min |-> g.acc.minv,
     max |-> g.acc.maxv]

\* The next batch: as many groups as are left, but no more than kVectorSize.
NextBatch ==
    LET left == Len(groups) - cursor
        take == IF kVectorSize < left THEN kVectorSize ELSE left
    IN
    /\ pc = "ready"
    /\ cursor < Len(groups)
    /\ rows' = rows \o [r \in 1 .. take |-> Finalize(groups[cursor + r])]
    /\ cursor' = cursor + take
    /\ UNCHANGED <<input, grouped, pc, worker, next_chunk, partials, merged, groups>>

\* An empty batch says that there are no more.
NextEmpty ==
    /\ pc = "ready"
    /\ cursor >= Len(groups)
    /\ pc' = "exhausted"
    /\ UNCHANGED <<input, grouped, worker, next_chunk, partials, merged, groups, output>>

Close ==
    /\ pc = "exhausted"
    /\ pc' = "closed"
    /\ groups' = <<>>
    /\ UNCHANGED <<input, grouped, worker, next_chunk, partials, merged, output>>

WorkerStep(w) == Fetch(w) \/ Work(w)
MainStep ==
    \/ OpenEmpty
    \/ OpenPool
    \/ \E w \in Workers : Spawn(w)
    \/ Join
    \/ Merge
    \/ MergeEnd
    \/ NextBatch
    \/ NextEmpty
    \/ Close

\* The query has its rows.
Done == pc = "closed" /\ UNCHANGED vars

Next == MainStep \/ (\E w \in Workers : WorkerStep(w)) \/ Done

\* The scheduler runs every thread.
Spec ==
    /\ Init
    /\ [][Next]_vars
    /\ WF_vars(MainStep)
    /\ \A w \in Workers : WF_vars(WorkerStep(w))

-----------------------------------------------------------------------------
(* Properties.                                                             *)

\* The types of the control state and the cursors.
TypeOK ==
    /\ pc \in {"drained", "spawn", "join", "merge", "ready", "exhausted", "closed"}
    /\ worker \in [Workers -> [pc : {"new", "fetch", "work", "exit"}, ci : 0 .. Len(input), i : Nat]]
    /\ next_chunk \in 0 .. Len(input) + num_workers
    /\ merged \in [partials : 0 .. num_workers, groups : Nat]
    /\ cursor \in Nat /\ cursor = Len(rows)

AllRows == FlattenSeq(input)
Keys == {AllRows[i].key : i \in DOMAIN AllRows}
Vals(key) ==
    [i \in {i \in DOMAIN AllRows : AllRows[i].key = key /\ AllRows[i].val # Null} |-> AllRows[i].val]
Count(key) == Cardinality({i \in DOMAIN AllRows : AllRows[i].key = key})

\* The aggregates of the rows of a key, by the definition of SQL.
Reference(key) ==
    LET vals == Vals(key) IN
    [key |-> key, count_star |-> Count(key), count |-> Cardinality(DOMAIN vals),
     sum |-> IF vals = <<>> THEN Null ELSE SumFunction(vals),
     avg |-> IF vals = <<>> THEN Null ELSE <<SumFunction(vals), Cardinality(DOMAIN vals)>>,
     min |-> IF vals = <<>> THEN Null ELSE Min(Range(vals)),
     max |-> IF vals = <<>> THEN Null ELSE Max(Range(vals))]

\* "one accumulator set per distinct group key ... one output row per group"
\* (hash_aggregate.h:26-30): the query gets one row for each distinct key with
\* the aggregates of exactly its rows, however the chunks were shared out among
\* the workers and wherever the batches end; with no GROUP BY exactly one row,
\* "even over empty input".
ResultExact ==
    pc \in {"exhausted", "closed"} =>
        LET keys == IF grouped THEN Keys ELSE {<<>>} IN
        /\ Len(rows) = Cardinality(keys)
        /\ ToSet(rows) = {Reference(k) : k \in keys}

\* The sum of a sequence of numbers.
Total(s) ==
    LET sum[k \in 0 .. Len(s)] == IF k = 0 THEN 0 ELSE sum[k - 1] + s[k]
    IN  sum[Len(s)]

\* The rows in the partial groups of each worker; the rows of each chunk that
\* a worker has finished; the rows that each worker has behind it in the chunk
\* it works on.
Counted(gs) == Total([k \in 1 .. Len(gs) |-> gs[k].acc.count])
CountedRows == [w \in Workers |-> Counted(partials[w])]
Busy(c) == \E w \in Workers : worker[w].pc = "work" /\ worker[w].ci = c
FinishedRows == [c \in 1 .. Len(input) |-> IF c <= next_chunk /\ ~ Busy(c) THEN Len(input[c]) ELSE 0]
BusyRows == [w \in Workers |-> IF worker[w].pc = "work" THEN worker[w].i ELSE 0]

InputRows == [c \in 1 .. Len(input) |-> Len(input[c])]

\* Every row that has been taken from the input is in the partial groups of
\* exactly one worker, at any time, and when the groups are handed out every
\* row of the input is in one of them: no row is counted twice or dropped by
\* the workers or by the merge.
RowsCountedOnce ==
    /\ Total(CountedRows) = Total(FinishedRows) + Total(BusyRows)
    /\ pc \in {"ready", "exhausted"} => Counted(groups) = Total(InputRows)

\* Open returns and the query gets its last batch, whatever the interleaving.
AggregateEnds == <>(pc = "closed")
=============================================================================
