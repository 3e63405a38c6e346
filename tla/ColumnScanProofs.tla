-------------------------- MODULE ColumnScanProofs ---------------------------
(***************************************************************************)
(* The lock-free hand-over of row groups in ColumnScan::Open and the       *)
(* result of the query, proved for any number of threads, any table,       *)
(* predicate and limit.                                                    *)
(***************************************************************************)
EXTENDS ColumnScan, SequenceLemmas

Record == [pc : {"new", "fetch", "decode", "exit"}, rg : Nat, read : Nat]

\* A worker owns the row group it decodes: the cursor has passed it and no
\* other worker has it.  A worker exits only when the cursor has passed all
\* row groups, and the query's thread goes on only when all have exited.
PoolTypes ==
    /\ worker \in [Workers -> Record]
    /\ next_rg \in Nat
    /\ table \in Seq(Seq(Chunk))
    /\ pc \in {"open", "spawn", "join", "pull", "done"}

Owned ==
    /\ \A w \in Workers : Decoding(w) => worker[w].rg <= next_rg
    /\ \A w, u \in Workers : w # u /\ Decoding(w) /\ Decoding(u) => worker[w].rg # worker[u].rg

Phases ==
    /\ pc = "open" => \A w \in Workers : worker[w].pc = "new"
    /\ pc \in {"spawn", "join"} => num_rg > 0
    /\ \A w \in Workers : worker[w].pc = "exit" => next_rg >= num_rg
    /\ \A w \in Workers : w > num_workers => worker[w].pc = "new"
    /\ pc \in {"pull", "done"} =>
         next_rg >= num_rg /\ \A w \in Workers : worker[w].pc \in {"new", "exit"}

PoolInv == PoolTypes /\ Owned /\ Phases

\* The number of workers is a natural number, zero only for an empty table.
LEMMA NumWorkers ==
    ASSUME table \in Seq(Seq(Chunk))
    PROVE  /\ num_rg \in Nat /\ num_workers \in Nat
           /\ num_rg > 0 => num_workers > 0
           /\ 1 .. num_workers \subseteq Workers
           /\ Workers \subseteq Nat
  BY ColumnScanAssumption DEF num_rg, num_workers, Workers

\* The invariant holds when the query starts.
LEMMA InitPool == Init => PoolInv
  <1> SUFFICES ASSUME Init PROVE PoolInv
    OBVIOUS
  <1>1. table \in Seq(Seq(Chunk))
    BY ColumnScanAssumption DEF Init
  <1> QED
    BY <1>1, NumWorkers DEF Init, PoolInv, PoolTypes, Owned, Phases, Asleep, Record, Decoding

\* The steps of the query's thread keep it.
LEMMA MainPreserves ==
    ASSUME PoolInv, MainStep
    PROVE  PoolInv'
  <1>0. /\ num_rg \in Nat /\ num_workers \in Nat
        /\ num_rg > 0 => num_workers > 0
        /\ 1 .. num_workers \subseteq Workers
        /\ Workers \subseteq Nat
    BY NumWorkers DEF PoolInv, PoolTypes, Phases
  <1> USE <1>0 DEF query, output, num_rg, num_workers
  <1>1. CASE OpenEmpty
    BY <1>1 DEF OpenEmpty, PoolInv, PoolTypes, Owned, Phases, Decoding
  <1>2. CASE OpenPool
    BY <1>2 DEF OpenPool, PoolInv, PoolTypes, Owned, Phases, Decoding
  <1>3. CASE \E w \in Workers : Spawn(w)
    <2>1. PICK w \in Workers : Spawn(w)
      BY <1>3
    <2>2. worker' \in [Workers -> Record]
      BY <2>1, ZenonT(40) DEF Spawn, PoolInv, PoolTypes, Phases, Record
    <2>3. worker'[w].pc = "fetch" /\ \A u \in Workers : u # w => worker'[u] = worker[u]
      BY <2>1 DEF Spawn, PoolInv, PoolTypes, Phases
    <2>5. table' = table /\ next_rg' = next_rg /\ pc' \in {"spawn", "join"} /\ w <= num_workers /\ pc = "spawn"
      BY <2>1 DEF Spawn
    <2>6. num_rg' = num_rg /\ num_workers' = num_workers
      BY <2>5
    <2> HIDE DEF num_rg, num_workers
    <2>7. PoolTypes'
      BY <2>2, <2>5 DEF PoolInv, PoolTypes
    <2>8. Owned'
      BY <2>3, <2>5 DEF PoolInv, Owned, Decoding
    <2>9. Phases'
      BY <2>3, <2>5, <2>6 DEF PoolInv, PoolTypes, Phases
    <2> QED
      BY <2>7, <2>8, <2>9 DEF PoolInv
  <1>4. CASE Join
    <2> HIDE DEF num_rg, num_workers
    <2>0. 1 \in 1 .. num_workers /\ 1 \in Workers
      BY <1>4 DEF Join, PoolInv, PoolTypes, Phases
    <2>1. next_rg >= num_rg
      BY <1>4, <2>0 DEF Join, PoolInv, PoolTypes, Phases
    <2>2. \A w \in Workers : worker[w].pc \in {"new", "exit"}
      BY <1>4 DEF Join, PoolInv, PoolTypes, Phases, Workers
    <2>3. num_rg' = num_rg /\ num_workers' = num_workers
      BY <1>4 DEF Join, num_rg, num_workers
    <2> QED
      BY <1>4, <2>1, <2>2, <2>3 DEF Join, PoolInv, PoolTypes, Owned, Phases, Decoding
  <1>5. CASE FilterDrops \/ LimitTakes \/ Finish
    BY <1>5 DEF FilterDrops, LimitTakes, Finish, PoolInv, PoolTypes, Owned, Phases, Decoding
  <1> QED
    BY <1>1, <1>2, <1>3, <1>4, <1>5 DEF MainStep

\* The steps of a worker keep it.
LEMMA WorkerPreserves ==
    ASSUME PoolInv, NEW w \in Workers, WorkerStep(w)
    PROVE  PoolInv'
  <1>0. /\ num_rg \in Nat /\ num_workers \in Nat
        /\ num_rg > 0 => num_workers > 0
        /\ 1 .. num_workers \subseteq Workers
        /\ Workers \subseteq Nat
    BY NumWorkers DEF PoolInv, PoolTypes, Phases
  <1> USE <1>0 DEF query, output, num_rg, num_workers
  <1>1. CASE Fetch(w)
    <2> HIDE DEF num_rg, num_workers
    <2>1. worker' \in [Workers -> Record]
      <3>1. CASE next_rg >= num_rg
        BY <1>1, <3>1 DEF Fetch, PoolInv, PoolTypes, Phases, Record
      <3>2. CASE ~ (next_rg >= num_rg)
        BY <1>1, <3>2 DEF Fetch, PoolInv, PoolTypes, Phases, Record
      <3> QED
        BY <3>1, <3>2
    <2>2. \A u \in Workers : u # w => worker'[u] = worker[u]
      BY <1>1 DEF Fetch, PoolInv, PoolTypes, Phases
    <2>3. \/ worker'[w].pc = "exit" /\ next_rg >= num_rg
          \/ worker'[w].pc = "decode" /\ worker'[w].rg = next_rg + 1
      BY <1>1 DEF Fetch, PoolInv, PoolTypes, Phases, Record
    <2>4. table' = table /\ next_rg' = next_rg + 1 /\ pc' = pc /\ worker[w].pc = "fetch"
      BY <1>1 DEF Fetch
    <2>5. num_rg' = num_rg /\ num_workers' = num_workers
      BY <2>4 DEF num_rg, num_workers
    <2>6. PoolTypes'
      BY <2>1, <2>4 DEF PoolInv, PoolTypes
    <2>7. Owned'
      <3>1. \A u \in Workers : worker[u].rg \in Nat /\ worker'[u].rg \in Nat
        BY <2>1 DEF PoolInv, PoolTypes, Record
      <3>2. next_rg \in Nat
        BY DEF PoolInv, PoolTypes
      <3>3. ASSUME NEW u \in Workers, Decoding(u)'
            PROVE  worker'[u].rg <= next_rg'
        BY <2>2, <2>3, <2>4, <3>1, <3>2, <3>3 DEF PoolInv, Owned, Decoding
      <3>4. ASSUME NEW u \in Workers, NEW v \in Workers, u # v, Decoding(u)', Decoding(v)'
            PROVE  worker'[u].rg # worker'[v].rg
        <4>1. CASE u # w /\ v # w
          BY <2>2, <3>4, <4>1 DEF PoolInv, Owned, Decoding
        <4>2. CASE u = w
          BY <2>2, <2>3, <2>4, <3>1, <3>2, <3>4, <4>2 DEF PoolInv, Owned, Decoding
        <4>3. CASE v = w
          BY <2>2, <2>3, <2>4, <3>1, <3>2, <3>4, <4>3 DEF PoolInv, Owned, Decoding
        <4> QED
          BY <4>1, <4>2, <4>3
      <3> QED
        BY <3>3, <3>4 DEF Owned
    <2>8. Phases'
      <3>1. next_rg \in Nat /\ num_rg \in Nat
        BY DEF PoolInv, PoolTypes
      <3>2. pc \notin {"open", "pull", "done"} /\ ~ (w > num_workers)
        BY <2>4 DEF PoolInv, Phases
      <3>3. \A u \in Workers : worker'[u].pc = "exit" => next_rg + 1 >= num_rg
        <4> SUFFICES ASSUME NEW u \in Workers, worker'[u].pc = "exit"
                     PROVE  next_rg + 1 >= num_rg
          OBVIOUS
        <4>1. next_rg >= num_rg
          BY <2>2, <2>3 DEF PoolInv, Phases
        <4> QED
          BY <4>1, <3>1
      <3>4. \A u \in Workers : u > num_workers => worker'[u].pc = "new"
        BY <2>2, <3>2 DEF PoolInv, Phases
      <3> QED
        BY <2>4, <2>5, <3>2, <3>3, <3>4 DEF PoolInv, Phases
    <2> QED
      BY <2>6, <2>7, <2>8 DEF PoolInv
  <1>2. CASE DecodeNextChunk(w) \/ DecodeEnd(w)
    <2>1. worker' \in [Workers -> Record]
      <3>1. CASE DecodeNextChunk(w)
        BY <3>1 DEF DecodeNextChunk, PoolInv, PoolTypes, Record
      <3>2. CASE DecodeEnd(w)
        BY <3>2 DEF DecodeEnd, PoolInv, PoolTypes, Record
      <3> QED
        BY <1>2, <3>1, <3>2
    <2>2. \A u \in Workers : u # w => worker'[u] = worker[u]
      BY <1>2 DEF DecodeNextChunk, DecodeEnd, PoolInv, PoolTypes, Phases
    <2>3. worker'[w].pc \in {"decode", "fetch"} /\ worker'[w].rg = worker[w].rg
      BY <1>2 DEF DecodeNextChunk, DecodeEnd, PoolInv, PoolTypes, Phases, Record
    <2>4. table' = table /\ next_rg' = next_rg /\ pc' = pc /\ worker[w].pc = "decode"
      BY <1>2 DEF DecodeNextChunk, DecodeEnd
    <2>5. num_rg' = num_rg /\ num_workers' = num_workers
      BY <2>4
    <2> HIDE DEF num_rg, num_workers
    <2>6. PoolTypes'
      BY <2>1, <2>4 DEF PoolInv, PoolTypes
    <2>7. Owned'
      <3>1. \A u \in Workers : worker[u].rg \in Nat /\ worker'[u].rg \in Nat
        BY <2>1 DEF PoolInv, PoolTypes, Record
      <3>2. next_rg \in Nat
        BY DEF PoolInv, PoolTypes
      <3>3. ASSUME NEW u \in Workers, Decoding(u)'
            PROVE  worker'[u].rg <= next_rg'
        BY <2>2, <2>3, <2>4, <3>1, <3>2, <3>3 DEF PoolInv, Owned, Decoding
      <3>4. ASSUME NEW u \in Workers, NEW v \in Workers, u # v, Decoding(u)', Decoding(v)'
            PROVE  worker'[u].rg # worker'[v].rg
        <4>1. CASE u # w /\ v # w
          BY <2>2, <3>4, <4>1 DEF PoolInv, Owned, Decoding
        <4>2. CASE u = w
          BY <2>2, <2>3, <2>4, <3>1, <3>2, <3>4, <4>2 DEF PoolInv, Owned, Decoding
        <4>3. CASE v = w
          BY <2>2, <2>3, <2>4, <3>1, <3>2, <3>4, <4>3 DEF PoolInv, Owned, Decoding
        <4> QED
          BY <4>1, <4>2, <4>3
      <3> QED
        BY <3>3, <3>4 DEF Owned
    <2>8. Phases'
      BY <2>2, <2>3, <2>4, <2>5 DEF PoolInv, PoolTypes, Phases
    <2> QED
      BY <2>6, <2>7, <2>8 DEF PoolInv
  <1> QED
    BY <1>1, <1>2 DEF WorkerStep

\* Every step keeps it.
LEMMA PoolStep == PoolInv /\ [Next]_vars => PoolInv'
  <1> SUFFICES ASSUME PoolInv, [Next]_vars PROVE PoolInv'
    OBVIOUS
  <1>1. CASE MainStep
    BY <1>1, MainPreserves
  <1>2. CASE \E w \in Workers : WorkerStep(w)
    BY <1>2, WorkerPreserves
  <1>3. CASE UNCHANGED vars
    BY <1>3 DEF vars, PoolInv, PoolTypes, Owned, Phases, Decoding, num_rg, num_workers
  <1> QED
    BY <1>1, <1>2, <1>3 DEF Next, Done

\* No two threads ever write to the same slot, the slots are read only when
\* no thread writes, and by then every row group has been taken.
THEOREM SlotsAreOwned == Spec => []SlotsNotShared
  <1>2. PoolInv => SlotsNotShared
    BY DEF PoolInv, Owned, Phases, SlotsNotShared, Decoding
  <1> QED
    BY <1>2, InitPool, PoolStep, PTL DEF Spec

-----------------------------------------------------------------------------
(* The zone map.                                                           *)

\* A set of integers of the machine's range has a least and a largest element.
LEMMA MinMaxFacts ==
    ASSUME NEW T, T \subseteq Value, T # {}
    PROVE  /\ Min(T) \in T /\ \A y \in T : Min(T) <= y
           /\ Max(T) \in T /\ \A y \in T : Max(T) >= y
  <1> USE ColumnScanAssumption DEF Value
  <1>1. \E x \in T : \A y \in T : x <= y
    <2> DEFINE U == {y - MinInt : y \in T}
    <2>0. \A y \in T : y - MinInt \in Nat
      OBVIOUS
    <2>1. U \subseteq Nat /\ U # {}
      BY <2>0
    <2>2. PICK u \in U : \A y \in U : u <= y
      BY <2>1, LeastNatural
    <2>3. PICK x \in T : u = x - MinInt
      OBVIOUS
    <2>4. \A y \in T : x - MinInt <= y - MinInt
      BY <2>2, <2>3
    <2>5. \A y \in T : x <= y
      BY <2>4
    <2> QED
      BY <2>5
  <1>2. \E x \in T : \A y \in T : x >= y
    <2> DEFINE U == {MaxInt - y : y \in T}
    <2>0. \A y \in T : MaxInt - y \in Nat
      OBVIOUS
    <2>1. U \subseteq Nat /\ U # {}
      BY <2>0
    <2>2. PICK u \in U : \A y \in U : u <= y
      BY <2>1, LeastNatural
    <2>3. PICK x \in T : u = MaxInt - x
      OBVIOUS
    <2>4. \A y \in T : MaxInt - x <= MaxInt - y
      BY <2>2, <2>3
    <2>5. \A y \in T : x >= y
      BY <2>4
    <2> QED
      BY <2>5
  <1>3. Min(T) \in T /\ \A y \in T : Min(T) <= y
    BY <1>1 DEF Min
  <1>4. Max(T) \in T /\ \A y \in T : Max(T) >= y
    BY <1>2 DEF Max
  <1> QED
    BY <1>3, <1>4

\* A value that satisfies the predicate is within the bounds the planner
\* pushes down, also where v + 1 or v - 1 wraps around.
LEMMA PushdownCovers ==
    ASSUME NEW p \in [op : Ops, v : Value], NEW x \in Value, Holds(p, x)
    PROVE  Pushdown(p).lo <= x /\ x <= Pushdown(p).hi
  <1> USE ColumnScanAssumption DEF Value, Holds, Pushdown, Wrap
  <1>1. p.op \in {"eq", "ne", "lt", "le", "gt", "ge"}
    BY DEF Ops
  <1>2. CASE p.op = "eq"
    BY <1>2
  <1>3. CASE p.op = "ne"
    BY <1>3
  <1>4. CASE p.op = "lt"
    BY <1>4
  <1>5. CASE p.op = "le"
    BY <1>5
  <1>6. CASE p.op = "gt"
    BY <1>6
  <1>7. CASE p.op = "ge"
    BY <1>7
  <1> QED
    BY <1>1, <1>2, <1>3, <1>4, <1>5, <1>6, <1>7

\* A chunk that the scan skips has no row that WHERE would keep, whatever the
\* width of the integers, the predicate and the chunk.
THEOREM SkippedChunksMatchNothing ==
    ASSUME NEW chunk \in Seq(Value \cup {Null}),
           pred \in [op : Ops, v : Value], zone = Pushdown(pred), Pruned(chunk),
           NEW x \in ToSet(chunk)
    PROVE  ~ Holds(pred, x)
  <1> SUFFICES ASSUME Holds(pred, x) PROVE FALSE
    OBVIOUS
  <1>1. x \in Ints(chunk)
    BY DEF Ints, Holds
  <1>2. Ints(chunk) \subseteq Value
    BY DEF Ints, ToSet
  <1>3. /\ Min(Ints(chunk)) <= x /\ Max(Ints(chunk)) >= x
        /\ Min(Ints(chunk)) \in Int /\ Max(Ints(chunk)) \in Int /\ x \in Int
    BY <1>1, <1>2, MinMaxFacts DEF Value
  <1>4. zone.lo <= x /\ x <= zone.hi
    BY <1>1, <1>2, PushdownCovers
  <1>5. zone.lo \in Int /\ zone.hi \in Int
    BY ColumnScanAssumption DEF Pushdown, Value, Wrap
  <1>6. ZoneMap(chunk) = [has |-> TRUE, min |-> Min(Ints(chunk)), max |-> Max(Ints(chunk))]
    BY <1>1 DEF ZoneMap
  <1>7. Max(Ints(chunk)) < zone.lo \/ Min(Ints(chunk)) > zone.hi
    BY <1>6 DEF Pruned
  <1> QED
    BY <1>3, <1>4, <1>5, <1>7

-----------------------------------------------------------------------------
(* The result of the query.                                                *)

\* The chunks that the scan decodes, and the rows that WHERE keeps of the
\* first n of chunks_.
Unpruned == {c \in Chunk : ~ Pruned(c)}
Passed(n) == Select(FlattenSeq(SubSeq(chunks, 1, n)), Satisfying)
Starts(s, t) == Len(s) <= Len(t) /\ \A i \in 1 .. Len(s) : s[i] = t[i]
FirstRows == SubSeq(Matching, 1, IF Len(Matching) < limit THEN Len(Matching) ELSE limit)

QueryTypes ==
    /\ pred \in [op : Ops, v : Value] /\ zone = Pushdown(pred) /\ limit \in Nat

\* The slot of a row group has the chunks of it that were decoded so far: none
\* before a worker takes it, all of them once no worker has it any more.
Slots ==
    /\ per_rg \in Seq(Seq(Chunk)) /\ Len(per_rg) = num_rg
    /\ \A w \in Workers : Decoding(w) =>
         /\ worker[w].rg \in 1 .. num_rg
         /\ worker[w].read <= Len(table[worker[w].rg])
         /\ per_rg[worker[w].rg] = Select(SubSeq(table[worker[w].rg], 1, worker[w].read), Unpruned)
    /\ \A i \in 1 .. num_rg : i > next_rg => per_rg[i] = <<>>
    /\ \A i \in 1 .. num_rg :
         i <= next_rg /\ (\A w \in Workers : Decoding(w) => worker[w].rg # i) =>
           per_rg[i] = Select(table[i], Unpruned)

\* Filter and Limit have passed on the first chunk_cursor chunks.
Pulled ==
    /\ chunks = Select(FlattenSeq(table), Unpruned)
    /\ chunk_cursor \in Nat /\ chunk_cursor <= Len(chunks)
    /\ remaining \in Nat /\ rows \in Chunk /\ Len(rows) + remaining = limit
    /\ Starts(rows, Passed(chunk_cursor))
    /\ remaining > 0 => rows = Passed(chunk_cursor)

ScanInv ==
    /\ QueryTypes
    /\ pc \in {"open", "spawn", "join"} => chunks = <<>> /\ chunk_cursor = 0 /\ remaining = limit /\ rows = <<>>
    /\ pc = "open" => next_rg = 0
    /\ pc \in {"spawn", "join"} => Slots
    /\ pc = "pull" => Pulled
    /\ pc = "done" => rows = FirstRows

\* What the query is does not change.
LEMMA QueryFixed ==
    ASSUME UNCHANGED query
    PROVE  /\ UNCHANGED <<table, limit>> /\ num_rg' = num_rg
           /\ Unpruned' = Unpruned /\ Satisfying' = Satisfying
           /\ Matching' = Matching /\ FirstRows' = FirstRows
           /\ QueryTypes => QueryTypes'
  <1>1. UNCHANGED <<table, pred, zone, limit>>
    BY DEF query
  <1>2. Unpruned' = Unpruned
    BY <1>1 DEF Unpruned, Pruned
  <1>3. Satisfying' = Satisfying
    BY <1>1 DEF Satisfying
  <1>4. Matching' = Matching
    BY <1>1, <1>3 DEF Matching
  <1>5. FirstRows' = FirstRows
    BY <1>1, <1>4 DEF FirstRows
  <1> QED
    BY <1>1, <1>2, <1>3, <1>4, <1>5 DEF num_rg, QueryTypes

\* The types of the table's parts.
LEMMA TableFacts ==
    ASSUME PoolInv
    PROVE  /\ table \in Seq(Seq(Chunk)) /\ num_rg \in Nat
           /\ \A i \in 1 .. num_rg : table[i] \in Seq(Chunk)
           /\ FlattenSeq(table) \in Seq(Chunk)
           /\ FlattenSeq(FlattenSeq(table)) \in Chunk
           /\ Matching \in Chunk
           /\ Select(FlattenSeq(table), Unpruned) \in Seq(Chunk)
  <1>1. table \in Seq(Seq(Chunk))
    BY DEF PoolInv, PoolTypes
  <1>2. FlattenSeq(table) \in Seq(Chunk)
    BY <1>1, FlattenType
  <1>3. FlattenSeq(FlattenSeq(table)) \in Chunk
    BY <1>2, FlattenType DEF Chunk
  <1>4. Matching \in Chunk
    BY <1>3, SelectType DEF Chunk, Matching
  <1>5. Select(FlattenSeq(table), Unpruned) \in Seq(Chunk)
    BY <1>2, SelectType
  <1>6. num_rg \in Nat /\ \A i \in 1 .. num_rg : table[i] \in Seq(Chunk)
    BY <1>1 DEF num_rg
  <1> QED
    BY <1>1, <1>2, <1>3, <1>4, <1>5, <1>6

\* Without the chunks that are skipped WHERE keeps the same rows.
LEMMA SkippingKeepsRows ==
    ASSUME PoolInv, QueryTypes
    PROVE  Select(FlattenSeq(Select(FlattenSeq(table), Unpruned)), Satisfying) = Matching
  <1>1. PICK cs \in Seq(Chunk) : cs = FlattenSeq(table)
    BY TableFacts
  <1>2. ASSUME NEW i \in 1 .. Len(cs), cs[i] \notin Unpruned
        PROVE  Select(cs[i], Satisfying) = <<>>
    <2>1. PICK c \in Chunk : c = cs[i]
      OBVIOUS
    <2>2. Pruned(c)
      BY <1>2, <2>1 DEF Unpruned
    <2>3. ASSUME NEW k \in 1 .. Len(c) PROVE c[k] \notin Satisfying
      <3>1. c[k] \in ToSet(c)
        BY DEF ToSet, Chunk
      <3>2. ~ Holds(pred, c[k])
        BY <2>2, <3>1, SkippedChunksMatchNothing DEF QueryTypes, Chunk
      <3> QED
        BY <3>2 DEF Satisfying
    <2>4. Select(c, Satisfying) = <<>>
      BY <2>3, SelectNone DEF Chunk
    <2> QED
      BY <2>1, <2>4
  <1>3. Select(FlattenSeq(Select(cs, Unpruned)), Satisfying) = Select(FlattenSeq(cs), Satisfying)
    BY <1>2, SelectSkips DEF Chunk
  <1> QED
    BY <1>1, <1>3 DEF Matching

\* The rows kept of the first n chunks are the first ones of all.
LEMMA PassedFacts ==
    ASSUME chunks \in Seq(Chunk), NEW n \in Nat, n <= Len(chunks)
    PROVE  /\ Passed(n) \in Chunk /\ Passed(Len(chunks)) \in Chunk
           /\ Starts(Passed(n), Passed(Len(chunks)))
           /\ n < Len(chunks) => /\ chunks[n + 1] \in Chunk /\ Kept(chunks[n + 1]) \in Chunk
                                 /\ Passed(n + 1) = Passed(n) \o Kept(chunks[n + 1])
  <1> DEFINE V == Value \cup {Null}
  <1>0. Len(chunks) \in Nat /\ chunks \in Seq(Seq(V)) /\ Len(chunks) <= Len(chunks)
    BY DEF Chunk
  <1>1. ASSUME NEW m \in Nat, m <= Len(chunks)
        PROVE  /\ SubSeq(chunks, 1, m) \in Seq(Seq(V))
               /\ FlattenSeq(SubSeq(chunks, 1, m)) \in Seq(V) /\ Passed(m) \in Seq(V)
    <2>1. SubSeq(chunks, 1, m) \in Seq(Seq(V))
      BY <1>0, <1>1
    <2>2. FlattenSeq(SubSeq(chunks, 1, m)) \in Seq(V)
      BY <2>1, FlattenType
    <2>3. Passed(m) \in Seq(V)
      BY <2>2, SelectType DEF Passed
    <2> QED
      BY <2>1, <2>2, <2>3
  <1>2. Starts(Passed(n), Passed(Len(chunks)))
    <2>1. PICK p \in Seq(Seq(V)) : p = SubSeq(chunks, 1, n)
      BY <1>1
    <2>2. PICK q \in Seq(Seq(V)) : chunks = p \o q
      <3>1. \A s \in Seq(Seq(V)) : n <= Len(s) => \E q \in Seq(Seq(V)) : s = SubSeq(s, 1, n) \o q
        <4> HIDE DEF V
        <4> SUFFICES ASSUME NEW s \in Seq(Seq(V)), n <= Len(s)
                     PROVE  \E q \in Seq(Seq(V)) : s = SubSeq(s, 1, n) \o q
          OBVIOUS
        <4>1. \E q \in Seq(Seq(V)) : s = SubSeq(s, 1, n) \o q /\ Len(q) = Len(s) - n
          BY CutInTwo
        <4> QED
          BY <4>1, Zenon
      <3> QED
        BY <1>0, <2>1, <3>1, Zenon
    <2>3. SubSeq(chunks, 1, Len(chunks)) = chunks
      BY <1>0, PrefixEnds
    <2>4. FlattenSeq(p \o q) = FlattenSeq(p) \o FlattenSeq(q) /\ FlattenSeq(p) \in Seq(V) /\ FlattenSeq(q) \in Seq(V)
      BY FlattenConcat, FlattenType
    <2>5. Select(FlattenSeq(p) \o FlattenSeq(q), Satisfying) = Select(FlattenSeq(p), Satisfying) \o Select(FlattenSeq(q), Satisfying)
      BY <2>4, SelectConcat
    <2>6. PICK a \in Seq(V) : a = Select(FlattenSeq(p), Satisfying)
      BY <2>4, SelectType
    <2>7. PICK b \in Seq(V) : b = Select(FlattenSeq(q), Satisfying)
      BY <2>4, SelectType
    <2>8. Passed(n) = a /\ Passed(Len(chunks)) = a \o b
      BY <2>1, <2>2, <2>3, <2>4, <2>5, <2>6, <2>7 DEF Passed
    <2>9. Len(a \o b) = Len(a) + Len(b) /\ \A j \in 1 .. Len(a) : (a \o b)[j] = a[j]
      BY ConcatFacts
    <2>10. Starts(a, a \o b)
      BY <2>9 DEF Starts
    <2> QED
      BY <2>8, <2>10
  <1>3. ASSUME n < Len(chunks)
        PROVE  /\ chunks[n + 1] \in Seq(V) /\ Kept(chunks[n + 1]) \in Seq(V)
               /\ Passed(n + 1) = Passed(n) \o Kept(chunks[n + 1])
    <2>1. PICK c \in Seq(V) : c = chunks[n + 1]
      BY <1>0, <1>3
    <2>2. FlattenSeq(SubSeq(chunks, 1, n + 1)) = FlattenSeq(SubSeq(chunks, 1, n)) \o c
      BY <1>0, <1>3, <2>1, FlattenPrefix
    <2>3. PICK f \in Seq(V) : f = FlattenSeq(SubSeq(chunks, 1, n))
      BY <1>1
    <2>4. Select(f \o c, Satisfying) = Select(f, Satisfying) \o Select(c, Satisfying)
      BY SelectConcat
    <2>5. Select(c, Satisfying) \in Seq(V)
      BY SelectType
    <2> QED
      BY <2>1, <2>2, <2>3, <2>4, <2>5 DEF Passed, Kept
  <1>4. Chunk = Seq(V)
    BY DEF Chunk
  <1>5. Passed(n) \in Seq(V) /\ Passed(Len(chunks)) \in Seq(V)
    BY <1>0, <1>1, Zenon
  <1> HIDE DEF V
  <1> QED
    BY <1>2, <1>3, <1>4, <1>5

\* The query starts with nothing.
LEMMA ScanInit == Init => ScanInv
  <1> SUFFICES ASSUME Init PROVE ScanInv
    OBVIOUS
  <1>1. QueryTypes
    BY ColumnScanAssumption DEF Init, QueryTypes
  <1> QED
    BY <1>1 DEF Init, ScanInv

\* While a worker runs, the query's thread starts or joins workers; its steps
\* leave the rest alone.
LEMMA WorkerRuns ==
    ASSUME PoolInv, ScanInv, NEW w \in Workers, worker[w].pc \in {"fetch", "decode"},
           UNCHANGED <<query, pc, output>>, Slots'
    PROVE  ScanInv'
  <1>1. pc \in {"spawn", "join"}
    BY DEF PoolInv, PoolTypes, Phases
  <1>2. QueryTypes'
    BY QueryFixed DEF ScanInv
  <1>3. UNCHANGED <<limit, chunks, chunk_cursor, remaining, rows>> /\ pc' = pc
    BY QueryFixed DEF output
  <1> QED
    BY <1>1, <1>2, <1>3 DEF ScanInv

\* What holds of the slots while a worker runs.
LEMMA SlotFacts ==
    ASSUME PoolInv, ScanInv, NEW w \in Workers, worker[w].pc \in {"fetch", "decode"}
    PROVE  /\ Slots /\ num_rg \in Nat /\ next_rg \in Nat /\ worker \in [Workers -> Record]
           /\ \A i \in 1 .. num_rg : table[i] \in Seq(Chunk) /\ per_rg[i] \in Seq(Chunk)
           /\ DOMAIN per_rg = 1 .. num_rg
  <1>1. Slots
    BY DEF PoolInv, PoolTypes, Phases, ScanInv
  <1>2. num_rg \in Nat /\ next_rg \in Nat /\ worker \in [Workers -> Record]
        /\ \A i \in 1 .. num_rg : table[i] \in Seq(Chunk)
    BY TableFacts DEF PoolInv, PoolTypes
  <1> QED
    BY <1>1, <1>2 DEF Slots

\* A worker takes a row group, or exits.
LEMMA FetchKeeps ==
    ASSUME PoolInv, ScanInv, NEW w \in Workers, Fetch(w)
    PROVE  ScanInv'
  <1>1. worker[w].pc = "fetch" /\ next_rg' = next_rg + 1 /\ per_rg' = per_rg /\ UNCHANGED <<query, pc, output>>
    BY DEF Fetch
  <1>2. /\ Slots /\ num_rg \in Nat /\ next_rg \in Nat /\ worker \in [Workers -> Record]
        /\ \A i \in 1 .. num_rg : table[i] \in Seq(Chunk) /\ per_rg[i] \in Seq(Chunk)
    BY <1>1, SlotFacts
  <1>3. UNCHANGED table /\ num_rg' = num_rg /\ Unpruned' = Unpruned
    BY <1>1, QueryFixed
  <1>4. \A u \in Workers : u # w => worker'[u] = worker[u]
    BY <1>2 DEF Fetch
  <1>5. ~ Decoding(w)
    BY <1>1 DEF Decoding
  <1>6. \A i \in 1 .. num_rg : i > next_rg + 1 => per_rg[i] = <<>>
    BY <1>2 DEF Slots
  <1>7. CASE next_rg >= num_rg
    <2>1. worker'[w].pc = "exit"
      BY <1>2, <1>7 DEF Fetch
    <2>2. \A u \in Workers : (Decoding(u)' <=> Decoding(u)) /\ (Decoding(u) => worker'[u] = worker[u])
      BY <1>4, <1>5, <2>1 DEF Decoding
    <2>3. \A i \in 1 .. num_rg : i <= next_rg
      BY <1>2, <1>7
    <2>4. Slots'
      BY <1>1, <1>2, <1>3, <1>6, <2>2, <2>3 DEF Slots
    <2> QED
      BY <1>1, <2>4, WorkerRuns
  <1>8. CASE ~ (next_rg >= num_rg)
    <2>1. worker'[w] = [pc |-> "decode", rg |-> next_rg + 1, read |-> 0]
      BY <1>2, <1>8 DEF Fetch
    <2>2. worker'[w].pc = "decode" /\ worker'[w].rg = next_rg + 1 /\ worker'[w].read = 0
      BY <2>1
    <2>3. next_rg + 1 \in 1 .. num_rg
      BY <1>2, <1>8
    <2>4. PICK t \in Seq(Chunk) : t = table[next_rg + 1]
      BY <1>2, <2>3
    <2>5. per_rg[next_rg + 1] = <<>>
      BY <1>2, <2>3 DEF Slots
    <2>6. Select(SubSeq(t, 1, 0), Unpruned) = <<>> /\ 0 <= Len(t)
      <3>1. SubSeq(t, 1, 0) = <<>> /\ Len(t) \in Nat
        BY PrefixEnds
      <3>2. Select(<<>>, Unpruned) = <<>>
        BY SelectEmpty
      <3>3. 0 <= Len(t)
        BY <3>1
      <3> QED
        BY <3>1, <3>2, <3>3, Zenon
    <2>7. ASSUME NEW u \in Workers, Decoding(u)'
          PROVE  /\ worker'[u].rg \in 1 .. num_rg
                 /\ worker'[u].read <= Len(table[worker'[u].rg])
                 /\ per_rg[worker'[u].rg] = Select(SubSeq(table[worker'[u].rg], 1, worker'[u].read), Unpruned)
      <3>1. CASE u = w
        BY <2>2, <2>3, <2>4, <2>5, <2>6, <3>1
      <3>2. CASE u # w
        <4>1. Decoding(u) /\ worker'[u] = worker[u]
          BY <1>4, <2>7, <3>2 DEF Decoding
        <4> QED
          BY <1>2, <4>1 DEF Slots
      <3> QED
        BY <3>1, <3>2
    <2>8. ASSUME NEW i \in 1 .. num_rg, i <= next_rg + 1, \A u \in Workers : Decoding(u)' => worker'[u].rg # i
          PROVE  per_rg[i] = Select(table[i], Unpruned)
      <3>1. Decoding(w)'
        BY <2>2 DEF Decoding
      <3>2. i # next_rg + 1
        BY <2>2, <2>8, <3>1
      <3>3. i <= next_rg
        BY <1>2, <2>8, <3>2
      <3>4. ASSUME NEW u \in Workers, Decoding(u) PROVE worker[u].rg # i
        <4>1. u # w
          BY <1>5, <3>4
        <4>2. Decoding(u)' /\ worker'[u] = worker[u]
          BY <1>4, <3>4, <4>1 DEF Decoding
        <4> QED
          BY <2>8, <4>2
      <3> QED
        BY <1>2, <3>3, <3>4 DEF Slots
    <2>9. Slots'
      <3>1. per_rg' \in Seq(Seq(Chunk)) /\ Len(per_rg') = num_rg'
        BY <1>1, <1>2, <1>3 DEF Slots
      <3> QED
        BY <1>1, <1>3, <1>6, <2>7, <2>8, <3>1 DEF Slots
    <2> QED
      BY <1>1, <2>9, WorkerRuns
  <1> QED
    BY <1>7, <1>8

\* A worker decodes a chunk into the slot that only it writes to.
LEMMA DecodeNextChunkKeeps ==
    ASSUME PoolInv, ScanInv, NEW w \in Workers, DecodeNextChunk(w)
    PROVE  ScanInv'
  <1>1. /\ worker[w].pc = "decode" /\ next_rg' = next_rg /\ UNCHANGED <<query, pc, output>>
        /\ worker[w].read < Len(table[worker[w].rg])
        /\ worker' = [worker EXCEPT ![w].read = @ + 1]
    BY DEF DecodeNextChunk
  <1>2. /\ Slots /\ num_rg \in Nat /\ next_rg \in Nat /\ worker \in [Workers -> Record]
        /\ \A i \in 1 .. num_rg : table[i] \in Seq(Chunk) /\ per_rg[i] \in Seq(Chunk)
        /\ DOMAIN per_rg = 1 .. num_rg
    BY <1>1, SlotFacts
  <1>3. UNCHANGED table /\ num_rg' = num_rg /\ Unpruned' = Unpruned
    BY <1>1, QueryFixed
  <1>4. \A u \in Workers : u # w => worker'[u] = worker[u]
    BY <1>1, <1>2
  <1>5. Decoding(w)
    BY <1>1 DEF Decoding
  <1>6. PICK rg \in 1 .. num_rg, n \in Nat : rg = worker[w].rg /\ n = worker[w].read
    BY <1>2, <1>5 DEF Slots, Record
  <1>7. worker'[w].pc = "decode" /\ worker'[w].rg = rg /\ worker'[w].read = n + 1
    BY <1>1, <1>2, <1>6
  <1>8. PICK t \in Seq(Chunk) : t = table[rg] /\ n < Len(t)
    BY <1>1, <1>2, <1>6
  <1>9. per_rg[rg] = Select(SubSeq(t, 1, n), Unpruned) /\ per_rg[rg] \in Seq(Chunk)
    BY <1>2, <1>5, <1>6, <1>8 DEF Slots
  <1>10. PICK c \in Chunk : c = t[n + 1] /\ SubSeq(t, 1, n + 1) = Append(SubSeq(t, 1, n), c) /\ SubSeq(t, 1, n) \in Seq(Chunk)
    BY <1>8, PrefixStep
  <1>11. Select(SubSeq(t, 1, n + 1), Unpruned) = IF c \in Unpruned THEN Append(per_rg[rg], c) ELSE per_rg[rg]
    <2>1. PICK p \in Seq(Chunk) : p = SubSeq(t, 1, n)
      BY <1>10
    <2>2. Select(Append(p, c), Unpruned) = IF c \in Unpruned THEN Append(Select(p, Unpruned), c) ELSE Select(p, Unpruned)
      BY SelectAppend
    <2> QED
      BY <1>9, <1>10, <2>1, <2>2
  <1>12. per_rg' = IF Pruned(c) THEN per_rg ELSE [per_rg EXCEPT ![rg] = Append(@, c)]
    BY <1>6, <1>8, <1>10 DEF DecodeNextChunk
  <1>13. c \in Unpruned <=> ~ Pruned(c)
    BY DEF Unpruned
  <1>14. /\ per_rg'[rg] = Select(SubSeq(t, 1, n + 1), Unpruned)
         /\ \A i \in 1 .. num_rg : i # rg => per_rg'[i] = per_rg[i]
         /\ per_rg' \in Seq(Seq(Chunk)) /\ Len(per_rg') = num_rg
    <2>0. per_rg \in Seq(Seq(Chunk)) /\ Len(per_rg) = num_rg
      BY <1>2 DEF Slots
    <2>1. CASE Pruned(c)
      BY <1>11, <1>12, <1>13, <2>0, <2>1
    <2>2. CASE ~ Pruned(c)
      <3>1. Append(per_rg[rg], c) \in Seq(Chunk)
        BY <1>9
      <3>2. per_rg' = [per_rg EXCEPT ![rg] = Append(per_rg[rg], c)]
        BY <1>12, <2>2
      <3>3. per_rg' \in [1 .. num_rg -> Seq(Chunk)]
        BY <1>2, <2>0, <3>1, <3>2
      <3>4. per_rg' \in Seq(Seq(Chunk)) /\ Len(per_rg') = num_rg
        BY <1>2, <3>3
      <3>5. per_rg'[rg] = Append(per_rg[rg], c) /\ \A i \in 1 .. num_rg : i # rg => per_rg'[i] = per_rg[i]
        BY <1>2, <3>2
      <3> QED
        BY <1>11, <1>13, <2>2, <3>4, <3>5
    <2> QED
      BY <2>1, <2>2
  <1>15. \A u \in Workers : Decoding(u)' <=> Decoding(u)
    BY <1>4, <1>5, <1>7 DEF Decoding
  <1>16. ASSUME NEW u \in Workers, Decoding(u)
         PROVE  /\ worker'[u].rg \in 1 .. num_rg
                /\ worker'[u].read <= Len(table[worker'[u].rg])
                /\ per_rg'[worker'[u].rg] = Select(SubSeq(table[worker'[u].rg], 1, worker'[u].read), Unpruned)
    <2>1. CASE u = w
      <3>1. n + 1 <= Len(t)
        BY <1>8
      <3> QED
        BY <1>7, <1>8, <1>14, <2>1, <3>1
    <2>2. CASE u # w
      <3>1. worker'[u] = worker[u] /\ worker[u].rg # rg
        BY <1>4, <1>5, <1>6, <1>16, <2>2 DEF PoolInv, Owned
      <3>2. /\ worker[u].rg \in 1 .. num_rg /\ worker[u].read <= Len(table[worker[u].rg])
            /\ per_rg[worker[u].rg] = Select(SubSeq(table[worker[u].rg], 1, worker[u].read), Unpruned)
        BY <1>2, <1>16 DEF Slots
      <3> QED
        BY <1>14, <3>1, <3>2
    <2> QED
      BY <2>1, <2>2
  <1>17. \A i \in 1 .. num_rg : i > next_rg => per_rg'[i] = <<>>
    <2>1. rg <= next_rg
      BY <1>5, <1>6 DEF PoolInv, Owned
    <2>2. \A i \in 1 .. num_rg : i > next_rg => i # rg
      BY <1>2, <2>1
    <2> QED
      BY <1>2, <1>14, <2>2 DEF Slots
  <1>18. ASSUME NEW i \in 1 .. num_rg, i <= next_rg, \A u \in Workers : Decoding(u) => worker'[u].rg # i
         PROVE  per_rg'[i] = Select(table[i], Unpruned)
    <2>1. i # rg
      BY <1>5, <1>7, <1>18
    <2>2. ASSUME NEW u \in Workers, Decoding(u) PROVE worker[u].rg # i
      BY <1>4, <1>6, <1>18, <2>1, <2>2
    <2> QED
      BY <1>2, <1>14, <1>18, <2>1, <2>2 DEF Slots
  <1>19. Slots'
    BY <1>1, <1>3, <1>14, <1>15, <1>16, <1>17, <1>18 DEF Slots
  <1> QED
    BY <1>1, <1>19, WorkerRuns

\* The row group is done: its slot has all of it.
LEMMA DecodeEndKeeps ==
    ASSUME PoolInv, ScanInv, NEW w \in Workers, DecodeEnd(w)
    PROVE  ScanInv'
  <1>1. /\ worker[w].pc = "decode" /\ next_rg' = next_rg /\ per_rg' = per_rg /\ UNCHANGED <<query, pc, output>>
        /\ worker[w].read = Len(table[worker[w].rg])
        /\ worker' = [worker EXCEPT ![w].pc = "fetch"]
    BY DEF DecodeEnd
  <1>2. /\ Slots /\ num_rg \in Nat /\ next_rg \in Nat /\ worker \in [Workers -> Record]
        /\ \A i \in 1 .. num_rg : table[i] \in Seq(Chunk) /\ per_rg[i] \in Seq(Chunk)
    BY <1>1, SlotFacts
  <1>3. UNCHANGED table /\ num_rg' = num_rg /\ Unpruned' = Unpruned
    BY <1>1, QueryFixed
  <1>4. worker'[w].pc = "fetch" /\ \A u \in Workers : u # w => worker'[u] = worker[u]
    BY <1>1, <1>2
  <1>5. Decoding(w) /\ ~ Decoding(w)' /\ \A u \in Workers : u # w => (Decoding(u)' <=> Decoding(u))
    BY <1>1, <1>4 DEF Decoding
  <1>6. PICK rg \in 1 .. num_rg : rg = worker[w].rg
    BY <1>2, <1>5 DEF Slots
  <1>7. per_rg[rg] = Select(table[rg], Unpruned)
    <2>1. PICK t \in Seq(Chunk) : t = table[rg]
      BY <1>2
    <2>2. per_rg[rg] = Select(SubSeq(t, 1, Len(t)), Unpruned)
      BY <1>1, <1>2, <1>5, <1>6, <2>1 DEF Slots
    <2>3. SubSeq(t, 1, Len(t)) = t
      BY PrefixEnds
    <2> QED
      BY <2>1, <2>2, <2>3
  <1>8. ASSUME NEW u \in Workers, Decoding(u)'
        PROVE  /\ worker'[u].rg \in 1 .. num_rg
               /\ worker'[u].read <= Len(table[worker'[u].rg])
               /\ per_rg[worker'[u].rg] = Select(SubSeq(table[worker'[u].rg], 1, worker'[u].read), Unpruned)
    <2>1. u # w
      BY <1>5, <1>8
    <2>2. Decoding(u) /\ worker'[u] = worker[u]
      BY <1>4, <1>5, <1>8, <2>1
    <2> QED
      BY <1>2, <2>2 DEF Slots
  <1>9. ASSUME NEW i \in 1 .. num_rg, i <= next_rg, \A u \in Workers : Decoding(u)' => worker'[u].rg # i
        PROVE  per_rg[i] = Select(table[i], Unpruned)
    <2>1. CASE i = rg
      BY <1>7, <2>1
    <2>2. CASE i # rg
      <3>1. ASSUME NEW u \in Workers, Decoding(u) PROVE worker[u].rg # i
        BY <1>4, <1>5, <1>6, <1>9, <2>2, <3>1
      <3> QED
        BY <1>2, <1>9, <3>1 DEF Slots
    <2> QED
      BY <2>1, <2>2
  <1>10. Slots'
    <2>1. per_rg' \in Seq(Seq(Chunk)) /\ Len(per_rg') = num_rg' /\ \A i \in 1 .. num_rg : i > next_rg => per_rg[i] = <<>>
      BY <1>1, <1>2, <1>3 DEF Slots
    <2> QED
      BY <1>1, <1>3, <1>8, <1>9, <2>1 DEF Slots
  <1> QED
    BY <1>1, <1>10, WorkerRuns

\* Filter and Limit start with the chunks of the whole table.
LEMMA PulledStart ==
    ASSUME PoolInv, QueryTypes, UNCHANGED query,
           chunks' = Select(FlattenSeq(table), Unpruned),
           chunk_cursor' = 0, remaining' = limit, rows' = <<>>
    PROVE  Pulled'
  <1>1. /\ UNCHANGED <<table, limit>> /\ Unpruned' = Unpruned /\ Satisfying' = Satisfying
    BY QueryFixed
  <1>2. chunks' \in Seq(Chunk)
    BY TableFacts
  <1>3. SubSeq(chunks', 1, 0) = <<>> /\ Len(chunks') \in Nat
    BY <1>2, PrefixEnds
  <1>4. Select(FlattenSeq(<<>>), Satisfying) = <<>>
    BY FlattenEmpty, SelectEmpty
  <1>5. Passed(chunk_cursor)' = <<>>
    BY <1>1, <1>3, <1>4 DEF Passed
  <1>6. rows' \in Chunk /\ Len(rows') = 0
    BY DEF Chunk
  <1>7. Starts(<<>>, <<>>)
    BY DEF Starts
  <1>8. Starts(rows, Passed(chunk_cursor))'
    BY <1>5, <1>7 DEF Starts
  <1>9. limit \in Nat
    BY DEF QueryTypes
  <1> QED
    BY <1>1, <1>3, <1>5, <1>6, <1>8, <1>9 DEF Pulled

\* Open without row groups, or with a slot for each.
LEMMA OpenKeeps ==
    ASSUME PoolInv, ScanInv, OpenEmpty \/ OpenPool
    PROVE  ScanInv'
  <1>0. pc = "open" /\ UNCHANGED query /\ UNCHANGED output
    BY DEF OpenEmpty, OpenPool
  <1>1. QueryTypes /\ QueryTypes' /\ num_rg' = num_rg /\ num_rg \in Nat /\ UNCHANGED <<table, limit>>
    BY <1>0, QueryFixed, TableFacts DEF ScanInv
  <1>2. chunks = <<>> /\ chunk_cursor = 0 /\ remaining = limit /\ rows = <<>> /\ next_rg = 0
    BY <1>0 DEF ScanInv
  <1>3. UNCHANGED <<chunks, chunk_cursor, remaining, rows>>
    BY <1>0 DEF output
  <1>4. CASE OpenEmpty
    <2>1. pc' = "pull" /\ num_rg = 0
      BY <1>4 DEF OpenEmpty
    <2>2. table = <<>>
      BY <2>1, TableFacts DEF num_rg
    <2>3. Select(FlattenSeq(table), Unpruned) = <<>>
      BY <2>2, FlattenEmpty, SelectEmpty
    <2>4. Pulled'
      BY <1>0, <1>1, <1>2, <1>3, <2>3, PulledStart
    <2> QED
      BY <1>1, <2>1, <2>4 DEF ScanInv
  <1>5. CASE OpenPool
    <2>1. pc' = "spawn" /\ per_rg' = [i \in 1 .. num_rg |-> <<>>] /\ next_rg' = 0 /\ worker' = worker
      BY <1>5 DEF OpenPool
    <2>2. per_rg' \in Seq(Seq(Chunk)) /\ Len(per_rg') = num_rg
      <3>1. <<>> \in Seq(Chunk)
        OBVIOUS
      <3>2. per_rg' \in [1 .. num_rg -> Seq(Chunk)]
        BY <2>1, <3>1
      <3> QED
        BY <1>1, <3>2
    <2>3. \A w \in Workers : ~ Decoding(w)'
      BY <1>0, <2>1 DEF PoolInv, Phases, Decoding
    <2>4. \A i \in 1 .. num_rg : per_rg'[i] = <<>> /\ ~ (i <= next_rg')
      BY <1>1, <2>1
    <2>5. Slots'
      BY <1>1, <2>2, <2>3, <2>4 DEF Slots
    <2> QED
      BY <1>1, <1>2, <1>3, <2>1, <2>5 DEF ScanInv
  <1> QED
    BY <1>4, <1>5

\* A worker is started.
LEMMA SpawnKeeps ==
    ASSUME PoolInv, ScanInv, NEW w \in Workers, Spawn(w)
    PROVE  ScanInv'
  <1>1. /\ pc = "spawn" /\ pc' \in {"spawn", "join"} /\ worker[w].pc = "new"
        /\ worker' = [worker EXCEPT ![w].pc = "fetch"]
        /\ UNCHANGED <<query, output>> /\ UNCHANGED <<next_rg, per_rg>>
    BY DEF Spawn
  <1>2. worker \in [Workers -> Record] /\ Slots
    BY <1>1 DEF PoolInv, PoolTypes, ScanInv
  <1>3. worker'[w].pc = "fetch" /\ \A u \in Workers : u # w => worker'[u] = worker[u]
    BY <1>1, <1>2
  <1>4. \A u \in Workers : (Decoding(u)' <=> Decoding(u)) /\ (Decoding(u) => worker'[u] = worker[u])
    BY <1>1, <1>3 DEF Decoding
  <1>5. QueryTypes' /\ num_rg' = num_rg /\ UNCHANGED <<table, limit>> /\ Unpruned' = Unpruned
    BY <1>1, QueryFixed DEF ScanInv
  <1>6. Slots'
    BY <1>1, <1>2, <1>4, <1>5 DEF Slots
  <1>7. UNCHANGED <<chunks, chunk_cursor, remaining, rows>>
    BY <1>1 DEF output
  <1> QED
    BY <1>1, <1>5, <1>6, <1>7 DEF ScanInv

\* All workers have exited: the slots together are the whole table.
LEMMA JoinKeeps ==
    ASSUME PoolInv, PoolInv', ScanInv, Join
    PROVE  ScanInv'
  <1>1. /\ pc = "join" /\ pc' = "pull" /\ chunks' = FlattenSeq(per_rg) /\ chunk_cursor' = 0
        /\ UNCHANGED query /\ UNCHANGED <<worker, next_rg, remaining, rows>>
    BY DEF Join
  <1>2. Slots /\ QueryTypes /\ remaining = limit /\ rows = <<>>
    BY <1>1 DEF ScanInv
  <1>3. QueryTypes' /\ num_rg' = num_rg /\ num_rg \in Nat /\ next_rg \in Nat
    BY <1>1, <1>2, QueryFixed, TableFacts DEF PoolInv, PoolTypes
  <1>4. next_rg >= num_rg /\ \A w \in Workers : ~ Decoding(w)
    BY <1>1, <1>3 DEF PoolInv, Phases, Decoding
  <1>5. \A i \in 1 .. num_rg : per_rg[i] = Select(table[i], Unpruned)
    <2>1. \A i \in 1 .. num_rg : i <= next_rg
      BY <1>3, <1>4
    <2> QED
      BY <1>2, <1>4, <2>1 DEF Slots
  <1>6. FlattenSeq(per_rg) = Select(FlattenSeq(table), Unpruned)
    <2>1. PICK t \in Seq(Seq(Chunk)) : t = table /\ Len(t) = num_rg
      BY TableFacts DEF num_rg
    <2>2. PICK p \in Seq(Seq(Chunk)) : p = per_rg /\ Len(p) = num_rg
      BY <1>2 DEF Slots
    <2>3. Len(p) = Len(t) /\ \A i \in 1 .. Len(t) : p[i] = Select(t[i], Unpruned)
      BY <1>5, <2>1, <2>2
    <2>4. FlattenSeq(p) = Select(FlattenSeq(t), Unpruned)
      BY <2>3, SelectFlatten
    <2> QED
      BY <2>1, <2>2, <2>4
  <1>7. Pulled'
    BY <1>1, <1>2, <1>6, PulledStart
  <1> QED
    BY <1>1, <1>3, <1>7 DEF ScanInv

\* What holds while the query's thread pulls.
LEMMA PullFacts ==
    ASSUME PoolInv, ScanInv, pc = "pull"
    PROVE  /\ Pulled /\ QueryTypes /\ chunks \in Seq(Chunk) /\ Len(chunks) \in Nat
           /\ Passed(chunk_cursor) \in Chunk /\ Matching \in Chunk
           /\ Passed(Len(chunks)) = Matching
           /\ Starts(Passed(chunk_cursor), Matching)
           /\ chunk_cursor < Len(chunks) =>
                /\ Kept(chunks[chunk_cursor + 1]) \in Chunk
                /\ Passed(chunk_cursor + 1) = Passed(chunk_cursor) \o Kept(chunks[chunk_cursor + 1])
  <1>1. Pulled /\ QueryTypes
    BY DEF ScanInv
  <1>2. chunks \in Seq(Chunk) /\ Len(chunks) \in Nat /\ Matching \in Chunk
    BY <1>1, TableFacts DEF Pulled
  <1>3. SubSeq(chunks, 1, Len(chunks)) = chunks
    BY <1>2, PrefixEnds
  <1>4. Passed(Len(chunks)) = Matching
    BY <1>1, <1>3, SkippingKeepsRows DEF Passed, Pulled
  <1>5. chunk_cursor \in Nat /\ chunk_cursor <= Len(chunks)
    BY <1>1 DEF Pulled
  <1> QED
    BY <1>1, <1>2, <1>4, <1>5, PassedFacts

\* Filter drops a chunk.
LEMMA FilterDropsKeeps ==
    ASSUME PoolInv, ScanInv, FilterDrops
    PROVE  ScanInv'
  <1>1. /\ pc = "pull" /\ pc' = "pull" /\ chunk_cursor < Len(chunks) /\ Kept(chunks[chunk_cursor + 1]) = <<>>
        /\ chunk_cursor' = chunk_cursor + 1 /\ UNCHANGED query /\ UNCHANGED <<chunks, remaining, rows>>
    BY DEF FilterDrops
  <1>2. Pulled /\ Len(chunks) \in Nat /\ Passed(chunk_cursor) \in Chunk
        /\ Passed(chunk_cursor + 1) = Passed(chunk_cursor) \o Kept(chunks[chunk_cursor + 1])
    BY <1>1, PullFacts
  <1>3. Passed(chunk_cursor + 1) = Passed(chunk_cursor)
    <2>1. \A s \in Chunk : s \o <<>> = s
      BY DEF Chunk
    <2> QED
      BY <1>1, <1>2, <2>1
  <1>4. /\ UNCHANGED <<table, limit>> /\ Unpruned' = Unpruned /\ Satisfying' = Satisfying /\ QueryTypes'
    BY <1>1, QueryFixed DEF ScanInv
  <1>5. Passed(chunk_cursor)' = Passed(chunk_cursor)
    <2>1. Passed(chunk_cursor)' = Passed(chunk_cursor + 1)
      BY <1>1, <1>4 DEF Passed
    <2> QED
      BY <1>3, <2>1
  <1>6. chunk_cursor' \in Nat /\ chunk_cursor' <= Len(chunks)
    BY <1>1, <1>2 DEF Pulled
  <1>7. Starts(rows, Passed(chunk_cursor))'
    BY <1>1, <1>2, <1>5 DEF Pulled, Starts
  <1>8. Pulled'
    BY <1>1, <1>2, <1>4, <1>5, <1>6, <1>7 DEF Pulled
  <1> QED
    BY <1>1, <1>4, <1>8 DEF ScanInv

\* Limit takes rows of a chunk.
LEMMA LimitTakesKeeps ==
    ASSUME PoolInv, ScanInv, LimitTakes
    PROVE  ScanInv'
  <1>0. /\ pc = "pull" /\ pc' = "pull" /\ remaining > 0 /\ chunk_cursor < Len(chunks)
        /\ chunk_cursor' = chunk_cursor + 1 /\ UNCHANGED query /\ UNCHANGED chunks
    BY DEF LimitTakes
  <1>1. /\ Pulled /\ Len(chunks) \in Nat /\ Kept(chunks[chunk_cursor + 1]) \in Chunk
        /\ Passed(chunk_cursor + 1) = Passed(chunk_cursor) \o Kept(chunks[chunk_cursor + 1])
    BY <1>0, PullFacts
  <1> DEFINE V == Value \cup {Null}
  <1>2. PICK kept \in Seq(V) : kept = Kept(chunks[chunk_cursor + 1])
    BY <1>1 DEF Chunk
  <1>3. PICK r \in Seq(V) : r = rows
    BY <1>1 DEF Pulled, Chunk
  <1>a. Chunk = Seq(V)
    BY DEF Chunk
  <1> HIDE DEF V
  <1>4. PICK k \in Nat : k = remaining /\ k > 0 /\ Len(r) + k = limit
    BY <1>0, <1>1, <1>3 DEF Pulled
  <1>5. Passed(chunk_cursor + 1) = r \o kept
    BY <1>0, <1>1, <1>2, <1>3 DEF Pulled
  <1>6. PICK m \in Nat : m = IF Len(kept) < k THEN Len(kept) ELSE k
    OBVIOUS
  <1>7. rows' = r \o SubSeq(kept, 1, m) /\ remaining' = k - m
    BY <1>2, <1>3, <1>4, <1>6 DEF LimitTakes
  <1>8. m <= Len(kept) /\ m <= k /\ (k - m > 0 => m = Len(kept))
    BY <1>6
  <1>9. PICK h \in Seq(V) : h = SubSeq(kept, 1, m) /\ Len(h) = m /\ (\A j \in 1 .. m : h[j] = kept[j]) /\ (m = Len(kept) => h = kept)
    <2>1. SubSeq(kept, 1, m) \in Seq(V) /\ Len(SubSeq(kept, 1, m)) = m /\ \A j \in 1 .. m : SubSeq(kept, 1, m)[j] = kept[j]
      BY <1>8
    <2>2. SubSeq(kept, 1, Len(kept)) = kept
      BY PrefixEnds
    <2> QED
      BY <2>1, <2>2, Zenon
  <1>10. /\ r \o h \in Seq(V) /\ Len(r \o h) = Len(r) + m
         /\ \A j \in 1 .. Len(r) : (r \o h)[j] = r[j]
         /\ \A j \in 1 .. m : (r \o h)[Len(r) + j] = h[j]
    <2>1. /\ r \o h \in Seq(V) /\ Len(r \o h) = Len(r) + Len(h)
          /\ \A j \in 1 .. Len(r) : (r \o h)[j] = r[j]
          /\ \A j \in 1 .. Len(h) : (r \o h)[Len(r) + j] = h[j]
      BY ConcatFacts
    <2> QED
      BY <1>9, <2>1
  <1>11. /\ Len(r \o kept) = Len(r) + Len(kept)
         /\ \A j \in 1 .. Len(r) : (r \o kept)[j] = r[j]
         /\ \A j \in 1 .. Len(kept) : (r \o kept)[Len(r) + j] = kept[j]
    BY ConcatFacts
  <1>12. Starts(r \o h, r \o kept)
    <2>1. Len(r) \in Nat /\ Len(kept) \in Nat
      OBVIOUS
    <2>2. ASSUME NEW j \in 1 .. Len(r) + m PROVE (r \o h)[j] = (r \o kept)[j]
      <3>1. CASE j <= Len(r)
        <4>1. j \in 1 .. Len(r)
          BY <2>1, <3>1
        <4> QED
          BY <1>10, <1>11, <4>1
      <3>2. CASE ~ (j <= Len(r))
        <4>1. j - Len(r) \in 1 .. m /\ j - Len(r) \in 1 .. Len(kept) /\ Len(r) + (j - Len(r)) = j
          BY <1>8, <2>1, <3>2
        <4>2. (r \o h)[Len(r) + (j - Len(r))] = h[j - Len(r)]
          BY <1>10, <4>1
        <4>3. (r \o kept)[Len(r) + (j - Len(r))] = kept[j - Len(r)]
          BY <1>11, <4>1
        <4>4. h[j - Len(r)] = kept[j - Len(r)]
          BY <1>9, <4>1
        <4> QED
          BY <4>1, <4>2, <4>3, <4>4
      <3> QED
        BY <3>1, <3>2
    <2>3. Len(r) + m <= Len(r) + Len(kept)
      BY <1>8, <2>1
    <2> QED
      BY <1>10, <1>11, <2>2, <2>3 DEF Starts
  <1>13. /\ UNCHANGED <<table, limit>> /\ Unpruned' = Unpruned /\ Satisfying' = Satisfying /\ QueryTypes'
    BY <1>0, QueryFixed DEF ScanInv
  <1>14. Passed(chunk_cursor)' = r \o kept
    BY <1>0, <1>5, <1>13 DEF Passed
  <1>15. rows' = r \o h /\ remaining' = k - m /\ remaining' \in Nat
    BY <1>7, <1>8, <1>9
  <1>16. Len(rows') + remaining' = limit'
    <2>1. Len(rows') = Len(r) + m /\ Len(r) \in Nat /\ limit' = Len(r) + k
      BY <1>4, <1>10, <1>13, <1>15
    <2> QED
      BY <1>15, <2>1
  <1>17. remaining' > 0 => rows' = r \o kept
    BY <1>8, <1>9, <1>15
  <1>18. chunk_cursor' \in Nat /\ chunk_cursor' <= Len(chunks')
    BY <1>0, <1>1 DEF Pulled
  <1>19. Starts(rows, Passed(chunk_cursor))'
    BY <1>12, <1>14, <1>15 DEF Starts
  <1>20. chunks' = Select(FlattenSeq(table), Unpruned)'
    BY <1>0, <1>1, <1>13 DEF Pulled
  <1>21. Pulled'
    BY <1>10, <1>14, <1>15, <1>16, <1>17, <1>18, <1>19, <1>20, <1>a DEF Pulled
  <1> QED
    BY <1>0, <1>13, <1>21 DEF ScanInv

\* The query ends with the first rows of the table that satisfy WHERE.
LEMMA FinishKeeps ==
    ASSUME PoolInv, ScanInv, Finish
    PROVE  ScanInv'
  <1>1. pc = "pull" /\ pc' = "done" /\ (remaining = 0 \/ chunk_cursor >= Len(chunks)) /\ UNCHANGED query /\ rows' = rows
    BY DEF Finish
  <1>2. /\ Pulled /\ Len(chunks) \in Nat /\ Passed(Len(chunks)) = Matching
        /\ Starts(Passed(chunk_cursor), Matching) /\ Matching \in Chunk /\ QueryTypes
        /\ Passed(chunk_cursor) \in Chunk
    BY <1>1, PullFacts
  <1>3. FirstRows' = FirstRows /\ QueryTypes'
    BY <1>1, <1>2, QueryFixed
  <1>4. PICK r \in Chunk, n \in Nat : r = rows /\ n = Len(r)
    BY <1>2 DEF Pulled, Chunk
  <1>5. PICK M \in Chunk, len \in Nat : M = Matching /\ len = Len(M)
    BY <1>2 DEF Chunk
  <1>6. Starts(r, M)
    <2>1. PICK p \in Chunk : p = Passed(chunk_cursor)
      BY <1>2
    <2>2. Starts(r, p) /\ Starts(p, M)
      BY <1>2, <1>4, <1>5, <2>1 DEF Pulled
    <2>3. Len(r) \in Nat /\ Len(p) \in Nat /\ Len(M) \in Nat
      BY DEF Chunk
    <2>4. Len(r) <= Len(p) /\ Len(p) <= Len(M) /\ \A i \in 1 .. Len(r) : i \in 1 .. Len(p)
      BY <2>2, <2>3 DEF Starts
    <2> QED
      BY <2>2, <2>3, <2>4 DEF Starts
  <1>7. n <= len /\ \A i \in 1 .. n : r[i] = M[i]
    BY <1>4, <1>5, <1>6 DEF Starts
  <1>8. n = IF len < limit THEN len ELSE limit
    <2>0. limit \in Nat /\ remaining \in Nat /\ n + remaining = limit
      BY <1>2, <1>4 DEF Pulled, QueryTypes
    <2>1. CASE remaining = 0
      BY <1>7, <2>0, <2>1
    <2>2. CASE remaining # 0
      <3>1. chunk_cursor = Len(chunks) /\ remaining > 0
        BY <1>1, <1>2, <2>0, <2>2 DEF Pulled
      <3>2. r = M
        BY <1>2, <1>4, <1>5, <3>1 DEF Pulled
      <3>3. n = len
        BY <1>4, <1>5, <3>2
      <3> QED
        BY <2>0, <3>1, <3>3
    <2> QED
      BY <2>1, <2>2
  <1>9. r = SubSeq(M, 1, n)
    <2>1. SubSeq(M, 1, n) \in Chunk /\ Len(SubSeq(M, 1, n)) = n /\ \A i \in 1 .. n : SubSeq(M, 1, n)[i] = M[i]
      BY <1>5, <1>7 DEF Chunk
    <2> QED
      BY <1>4, <1>7, <2>1 DEF Chunk
  <1>10. FirstRows = SubSeq(M, 1, n)
    BY <1>5, <1>8 DEF FirstRows
  <1> QED
    BY <1>1, <1>3, <1>4, <1>9, <1>10 DEF ScanInv

LEMMA ScanStep == PoolInv /\ PoolInv' /\ ScanInv /\ [Next]_vars => ScanInv'
  <1> SUFFICES ASSUME PoolInv, PoolInv', ScanInv, [Next]_vars PROVE ScanInv'
    OBVIOUS
  <1>1. CASE OpenEmpty \/ OpenPool
    BY <1>1, OpenKeeps
  <1>2. CASE \E w \in Workers : Spawn(w)
    BY <1>2, SpawnKeeps
  <1>3. CASE Join
    BY <1>3, JoinKeeps
  <1>4. CASE FilterDrops
    BY <1>4, FilterDropsKeeps
  <1>5. CASE LimitTakes
    BY <1>5, LimitTakesKeeps
  <1>6. CASE Finish
    BY <1>6, FinishKeeps
  <1>7. CASE \E w \in Workers : WorkerStep(w)
    BY <1>7, FetchKeeps, DecodeNextChunkKeeps, DecodeEndKeeps DEF WorkerStep
  <1>8. CASE UNCHANGED vars
    <2>1. UNCHANGED query /\ UNCHANGED <<pc, worker, next_rg, per_rg, chunks, chunk_cursor, remaining, rows>>
      BY <1>8 DEF vars, query
    <2>2. /\ UNCHANGED <<table, limit>> /\ num_rg' = num_rg /\ Unpruned' = Unpruned /\ Satisfying' = Satisfying
          /\ FirstRows' = FirstRows /\ QueryTypes'
      BY <2>1, QueryFixed DEF ScanInv
    <2>3. Slots' = Slots
      BY <2>1, <2>2 DEF Slots, Decoding
    <2>4. Pulled' = Pulled
      BY <2>1, <2>2 DEF Pulled, Passed, Starts
    <2> QED
      BY <2>1, <2>2, <2>3, <2>4 DEF ScanInv
  <1> QED
    BY <1>1, <1>2, <1>3, <1>4, <1>5, <1>6, <1>7, <1>8 DEF Next, MainStep, Done

\* The slots and the rows are right in every state of the query.
THEOREM ScanInvariant == Spec => [](PoolInv /\ ScanInv)
  <1>1. Init => PoolInv /\ ScanInv
    BY InitPool, ScanInit
  <1>2. PoolInv /\ ScanInv /\ [Next]_vars => (PoolInv /\ ScanInv)'
    BY PoolStep, ScanStep
  <1> QED
    BY <1>1, <1>2, PTL DEF Spec

\* However many threads there are and in whichever order they finish, the
\* chunks that Open leaves are those of a sequential scan, in its order
\* (ColumnScan::Open).
THEOREM ScanIsSequential == Spec => []AllDecoded
  <1>1. ScanInv => AllDecoded
    BY DEF ScanInv, Pulled, AllDecoded, Unpruned
  <1> QED
    BY <1>1, ScanInvariant, PTL

\* The query returns the first rows of the table that satisfy WHERE, up to
\* LIMIT, as if it had read every chunk (ColumnScan::Next, Filter::Next,
\* Limit::Next).
THEOREM QueryIsExact == Spec => []ResultExact
  <1>1. PoolInv /\ ScanInv => ResultExact
    <2> SUFFICES ASSUME PoolInv, ScanInv PROVE ResultExact
      OBVIOUS
    <2>1. pc = "done" => rows = FirstRows
      BY DEF ScanInv
    <2>2. ASSUME pc = "pull" PROVE IsPrefix(rows, Matching)
      <3>1. /\ Pulled /\ Passed(chunk_cursor) \in Chunk /\ Matching \in Chunk
            /\ Starts(Passed(chunk_cursor), Matching)
        BY <2>2, PullFacts
      <3>2. PICK r \in Chunk, p \in Chunk, M \in Chunk : r = rows /\ p = Passed(chunk_cursor) /\ M = Matching
        BY <3>1 DEF Pulled
      <3>3. Starts(r, p) /\ Starts(p, M)
        BY <3>1, <3>2 DEF Pulled
      <3>4. Len(r) \in Nat /\ Len(p) \in Nat /\ Len(M) \in Nat
        BY DEF Chunk
      <3>5. Len(r) <= Len(M) /\ \A i \in 1 .. Len(r) : r[i] = M[i]
        <4>1. Len(r) <= Len(p) /\ Len(p) <= Len(M) /\ \A i \in 1 .. Len(r) : i \in 1 .. Len(p)
          BY <3>3, <3>4 DEF Starts
        <4> QED
          BY <3>3, <3>4, <4>1 DEF Starts
      <3>6. SubSeq(r, 1, Len(r)) = SubSeq(M, 1, Len(r))
        <4>1. SubSeq(r, 1, Len(r)) = r
          BY PrefixEnds DEF Chunk
        <4>2. SubSeq(M, 1, Len(r)) \in Chunk /\ Len(SubSeq(M, 1, Len(r))) = Len(r)
              /\ \A i \in 1 .. Len(r) : SubSeq(M, 1, Len(r))[i] = M[i]
          BY <3>4, <3>5 DEF Chunk
        <4> QED
          BY <3>5, <4>1, <4>2 DEF Chunk
      <3>7. IsPrefix(r, M)
        BY <3>4, <3>5, <3>6 DEF IsPrefix
      <3> QED
        BY <3>2, <3>7
    <2> QED
      BY <2>1, <2>2 DEF ResultExact, FirstRows
  <1> QED
    BY <1>1, ScanInvariant, PTL
=============================================================================
