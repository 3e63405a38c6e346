------------------------- MODULE HashOperatorProofs --------------------------
(***************************************************************************)
(* The two operators that hash: the join and the aggregate.                *)
(*                                                                         *)
(* The hash join gives the rows of the join by nested loops, in its order  *)
(* and each once, for all tables, chunks and sizes of a batch.  The index  *)
(* has for every key the positions of the build rows with that key, in     *)
(* their order; what was returned and what is in the batch are the pairs   *)
(* of the left rows that are done, and some of the current one.            *)
(*                                                                         *)
(* The aggregate counts every row once, for all inputs and numbers of      *)
(* threads.  A chunk that is worked on has one owner, so that the rows in  *)
(* the partial groups are those of the finished chunks and the ones that   *)
(* the owners of the others have behind them; what is merged are the       *)
(* groups of the first workers and some of the next one.                   *)
(***************************************************************************)
EXTENDS HashJoin, SequenceLemmas

\* The aggregate, beside the join.
CONSTANTS Inputs, hw
VARIABLES input, grouped, agg_pc, worker, next_chunk, partials, merged, groups, cursor, rows

Agg == INSTANCE HashAggregate WITH pc <- agg_pc

-----------------------------------------------------------------------------
(* The join.                                                               *)

Pair == Ids \X Ids
Hashed == {KeyOf(key) : key \in Keys}

\* The build rows so far with a key of this hash.
Bucket(k) == {r \in Row : r.key # Null /\ KeyOf(r.key) = k}
Group(k) == Select(build_rows, Bucket(k))

IndexInv ==
    /\ build_rows \in Seq(Row) /\ Len(build_rows) <= Len(right)
    /\ \A i \in 1 .. Len(build_rows) : build_rows[i] = right[i]
    /\ pc # "build" => Len(build_rows) = Len(right)
    /\ DOMAIN build_index \subseteq Hashed
    /\ \A k \in Hashed :
         /\ Lookup(k) \in Seq(Nat) /\ Len(Lookup(k)) = Len(Group(k))
         /\ k \in DOMAIN build_index <=> Len(Group(k)) > 0
         /\ \A j \in 1 .. Len(Group(k)) :
              Lookup(k)[j] \in 1 .. Len(build_rows) /\ build_rows[Lookup(k)[j]] = Group(k)[j]

\* Where the probe is.
Types ==
    /\ left_child \in Seq(Seq(Row)) /\ right_child \in Seq(Seq(Row))
    /\ pc \in {"build", "probe", "emit", "done"}
    /\ lnext \in Nat /\ lnext <= Len(left_child)
    /\ lchunk \in Seq(Row) /\ lpos \in Nat /\ lpos <= Len(lchunk)
    /\ mpos \in Nat
    /\ out \in Seq(Pair) /\ result \in Seq(Pair) /\ Len(out) <= kVectorSize
    /\ pc = "build" => lnext = 0 /\ lchunk = <<>> /\ lpos = 0 /\ out = <<>> /\ result = <<>>
    /\ pc = "emit" =>
         /\ lpos < Len(lchunk) /\ HasMatch(lchunk[lpos + 1].key)
         /\ matches = Lookup(KeyOf(lchunk[lpos + 1].key)) /\ mpos <= Len(matches)

ProbeInv == Types /\ IndexInv

\* The left rows that are done, and the rows of the join that they give.
Fetched(n) == FlattenSeq(SubSeq(left_child, 1, n))
Passed == Len(Fetched(lnext)) - (Len(lchunk) - lpos)
Loop(n) == FlattenSeq([i \in 1 .. n |-> Pairs(left[i])])

ResultInv ==
    /\ Passed \in Nat
    /\ \A i \in 1 .. Len(lchunk) - lpos : left[Passed + i] = lchunk[lpos + i]
    /\ pc # "emit" => result \o out = Loop(Passed)
    /\ pc = "emit" => result \o out = Loop(Passed) \o SubSeq(Pairs(lchunk[lpos + 1]), 1, mpos)
    /\ pc = "done" => Passed = Len(left) /\ out = <<>>

\* Keys that are equal have the same type.
OneType == \A k, l \in Keys : k.v = l.v => k.type = l.type
-----------------------------------------------------------------------------
(* The inputs do not change.                                               *)

LEMMA InputFacts ==
    ASSUME Types
    PROVE  /\ left \in Seq(Row) /\ right \in Seq(Row) /\ Len(left) \in Nat /\ Len(right) \in Nat
           /\ Len(lchunk) \in Nat /\ Len(left_child) \in Nat /\ Len(out) \in Nat
           /\ kVectorSize \in Nat \ {0}
  <1>1. left \in Seq(Row) /\ right \in Seq(Row)
    BY FlattenType DEF Types, left, right
  <1> QED
    BY <1>1, HashJoinAssumption DEF Types

LEMMA InputsFixed ==
    ASSUME UNCHANGED inputs
    PROVE  /\ UNCHANGED <<left_child, right_child>> /\ left' = left /\ right' = right
  BY DEF inputs, left, right

\* The build side does not change either.
LEMMA BuildFixed ==
    ASSUME IndexInv, UNCHANGED <<inputs, build>>, pc # "build" => pc' # "build",
           pc' # "build" /\ pc = "build" => Len(build_rows) = Len(right)
    PROVE  IndexInv' /\ UNCHANGED <<build_rows, build_index>> /\ (\A k : Lookup(k)' = Lookup(k))
           /\ \A key : HasMatch(key)' <=> HasMatch(key)
  <1>1. UNCHANGED <<build_rows, build_index>> /\ right' = right
    BY InputsFixed DEF build
  <1>2. (\A k : Lookup(k)' = Lookup(k)) /\ \A k : Group(k)' = Group(k)
    BY <1>1 DEF Lookup, Group
  <1>3. \A key : HasMatch(key)' <=> HasMatch(key)
    BY <1>1 DEF HasMatch
  <1>4. pc' # "build" => Len(build_rows) = Len(right)
    BY DEF IndexInv
  <1> QED
    BY <1>1, <1>2, <1>3, <1>4 DEF IndexInv

-----------------------------------------------------------------------------
(* Build.                                                                  *)

\* The build rows with a key, when there is one more build row.
LEMMA GroupGrows ==
    ASSUME build_rows \in Seq(Row), NEW row \in Row, build_rows' = Append(build_rows, row), NEW k
    PROVE  /\ Group(k) \in Seq(Row)
           /\ Group(k)' = IF row \in Bucket(k) THEN Append(Group(k), row) ELSE Group(k)
  <1>1. PICK b \in Seq(Row) : b = build_rows
    OBVIOUS
  <1>2. Select(Append(b, row), Bucket(k)) = IF row \in Bucket(k) THEN Append(Select(b, Bucket(k)), row) ELSE Select(b, Bucket(k))
    BY SelectAppend
  <1>3. Select(b, Bucket(k)) \in Seq(Row)
    BY SelectType
  <1>4. Group(k)' = Select(build_rows', Bucket(k))
    BY DEF Group
  <1> QED
    BY <1>1, <1>2, <1>3, <1>4 DEF Group

\* One row of the right child goes into the index.
LEMMA BuildKeeps ==
    ASSUME ProbeInv, Build
    PROVE  ProbeInv'
  <1>1. /\ pc = "build" /\ Len(build_rows) < Len(right)
        /\ UNCHANGED inputs /\ UNCHANGED <<pc, lnext, lchunk, lpos, matches, mpos, out, result>>
    BY DEF Build
  <1>2. Types /\ IndexInv /\ right \in Seq(Row) /\ Len(right) \in Nat
    BY InputFacts DEF ProbeInv
  <1>3. UNCHANGED <<left_child, right_child>> /\ right' = right
    BY <1>1, InputsFixed
  <1>4. PICK n \in Nat : n = Len(build_rows) /\ n + 1 \in 1 .. Len(right)
    BY <1>1, <1>2 DEF IndexInv
  <1>5. PICK row \in Row : row = right[n + 1]
    BY <1>2, <1>4
  <1>6. build_rows' = Append(build_rows, row) /\ build_rows \in Seq(Row)
    BY <1>2, <1>4, <1>5 DEF Build, IndexInv
  <1>7. /\ build_rows' \in Seq(Row) /\ Len(build_rows') = n + 1 /\ build_rows'[n + 1] = row
        /\ \A i \in 1 .. n : build_rows'[i] = build_rows[i]
    BY <1>4, <1>6
  <1>8. Types'
    BY <1>1, <1>2, <1>3 DEF Types
  <1>9. n + 1 <= Len(right) /\ \A i \in 1 .. n + 1 : build_rows'[i] = right[i]
    <2>1. \A i \in 1 .. n : build_rows[i] = right[i]
      BY <1>2, <1>4 DEF IndexInv
    <2>2. \A i \in 1 .. n + 1 : i = n + 1 \/ i \in 1 .. n
      OBVIOUS
    <2> QED
      BY <1>4, <1>5, <1>7, <2>1, <2>2
  <1>10. CASE row.key = Null
    <2>1. build_index' = build_index
      BY <1>4, <1>5, <1>10 DEF Build, Joins
    <2>2. ASSUME NEW k \in Hashed
          PROVE  Group(k)' = Group(k) /\ Lookup(k)' = Lookup(k)
      <3>1. row \notin Bucket(k)
        BY <1>10 DEF Bucket
      <3>2. Group(k)' = IF row \in Bucket(k) THEN Append(Group(k), row) ELSE Group(k)
        BY <1>6, GroupGrows
      <3> QED
        BY <2>1, <3>1, <3>2 DEF Lookup
    <2>3. ASSUME NEW k \in Hashed
          PROVE  /\ Lookup(k)' \in Seq(Nat) /\ Len(Lookup(k)') = Len(Group(k)')
                 /\ k \in DOMAIN build_index' <=> Len(Group(k)') > 0
                 /\ \A j \in 1 .. Len(Group(k)') :
                      Lookup(k)'[j] \in 1 .. Len(build_rows') /\ build_rows'[Lookup(k)'[j]] = Group(k)'[j]
      <3>1. /\ Lookup(k) \in Seq(Nat) /\ Len(Lookup(k)) = Len(Group(k))
            /\ k \in DOMAIN build_index <=> Len(Group(k)) > 0
            /\ \A j \in 1 .. Len(Group(k)) :
                 Lookup(k)[j] \in 1 .. n /\ build_rows[Lookup(k)[j]] = Group(k)[j]
        BY <1>2, <1>4 DEF IndexInv
      <3>2. \A p \in 1 .. n : p \in 1 .. n + 1
        OBVIOUS
      <3> QED
        BY <1>7, <2>1, <2>2, <3>1, <3>2
    <2>4. IndexInv'
      BY <1>1, <1>2, <1>3, <1>7, <1>9, <2>1, <2>3 DEF IndexInv
    <2> QED
      BY <1>8, <2>4 DEF ProbeInv
  <1>11. CASE row.key # Null
    <2>1. PICK h \in Hashed : h = KeyOf(row.key)
      BY <1>11 DEF Row, Hashed
    <2>2. build_index' = [k \in DOMAIN build_index \cup {h} |->
                            IF k = h THEN Append(Lookup(k), n + 1) ELSE build_index[k]]
      BY <1>4, <1>5, <1>11, <2>1 DEF Build, Joins
    <2>3. /\ DOMAIN build_index' = DOMAIN build_index \cup {h}
          /\ Lookup(h)' = Append(Lookup(h), n + 1)
          /\ \A k \in Hashed : k # h => Lookup(k)' = Lookup(k) /\ (k \in DOMAIN build_index' <=> k \in DOMAIN build_index)
      BY <2>2 DEF Lookup
    <2>4. ASSUME NEW k \in Hashed
          PROVE  /\ Lookup(k) \in Seq(Nat) /\ Len(Lookup(k)) = Len(Group(k))
                 /\ k \in DOMAIN build_index <=> Len(Group(k)) > 0
                 /\ \A j \in 1 .. Len(Group(k)) :
                      Lookup(k)[j] \in 1 .. n /\ build_rows[Lookup(k)[j]] = Group(k)[j]
                 /\ Group(k) \in Seq(Row) /\ Len(Group(k)) \in Nat
                 /\ Group(k)' = IF k = h THEN Append(Group(k), row) ELSE Group(k)
      <3>1. row \in Bucket(k) <=> k = h
        BY <1>11, <2>1 DEF Bucket
      <3>2. Group(k) \in Seq(Row) /\ Group(k)' = IF row \in Bucket(k) THEN Append(Group(k), row) ELSE Group(k)
        BY <1>6, GroupGrows
      <3> QED
        BY <1>2, <1>4, <3>1, <3>2 DEF IndexInv
    <2>5. ASSUME NEW k \in Hashed
          PROVE  /\ Lookup(k)' \in Seq(Nat) /\ Len(Lookup(k)') = Len(Group(k)')
                 /\ k \in DOMAIN build_index' <=> Len(Group(k)') > 0
                 /\ \A j \in 1 .. Len(Group(k)') :
                      Lookup(k)'[j] \in 1 .. Len(build_rows') /\ build_rows'[Lookup(k)'[j]] = Group(k)'[j]
      <3>1. \A p \in 1 .. n : p \in 1 .. n + 1
        OBVIOUS
      <3>2. CASE k # h
        <4>1. Lookup(k)' = Lookup(k) /\ Group(k)' = Group(k) /\ (k \in DOMAIN build_index' <=> k \in DOMAIN build_index)
          BY <2>3, <2>4, <3>2
        <4>2. /\ Lookup(k) \in Seq(Nat) /\ Len(Lookup(k)) = Len(Group(k))
              /\ k \in DOMAIN build_index <=> Len(Group(k)) > 0
              /\ \A j \in 1 .. Len(Group(k)) :
                   Lookup(k)[j] \in 1 .. n /\ build_rows[Lookup(k)[j]] = Group(k)[j]
          BY <2>4, Zenon
        <4>3. \A j \in 1 .. Len(Group(k)) :
                Lookup(k)[j] \in 1 .. n + 1 /\ build_rows'[Lookup(k)[j]] = Group(k)[j]
          BY <1>7, <3>1, <4>2
        <4> QED
          BY <1>7, <4>1, <4>2, <4>3, Zenon
      <3>3. CASE k = h
        <4>1. PICK g \in Seq(Row), l \in Seq(Nat), m \in Nat :
                g = Group(k) /\ l = Lookup(k) /\ m = Len(g) /\ m = Len(l)
          BY <2>4
        <4>2. Group(k)' = Append(g, row) /\ Lookup(k)' = Append(l, n + 1) /\ k \in DOMAIN build_index'
          BY <2>3, <2>4, <3>3, <4>1
        <4>3. /\ Append(l, n + 1) \in Seq(Nat) /\ Len(Append(l, n + 1)) = m + 1 /\ Len(Append(g, row)) = m + 1
              /\ Append(l, n + 1)[m + 1] = n + 1 /\ Append(g, row)[m + 1] = row
              /\ \A j \in 1 .. m : Append(l, n + 1)[j] = l[j] /\ Append(g, row)[j] = g[j]
          <5>1. /\ Append(l, n + 1) \in Seq(Nat) /\ Len(Append(l, n + 1)) = m + 1
                /\ Append(l, n + 1)[m + 1] = n + 1 /\ \A j \in 1 .. m : Append(l, n + 1)[j] = l[j]
            BY <4>1
          <5>2. /\ Len(Append(g, row)) = m + 1 /\ Append(g, row)[m + 1] = row
                /\ \A j \in 1 .. m : Append(g, row)[j] = g[j]
            <6>1. /\ Len(Append(g, row)) = Len(g) + 1 /\ Append(g, row)[Len(g) + 1] = row
                  /\ \A j \in 1 .. Len(g) : Append(g, row)[j] = g[j]
              BY AppendProperties
            <6>2. Len(g) = m
              BY <4>1
            <6> QED
              BY <6>1, <6>2
          <5> QED
            BY <5>1, <5>2
        <4>4. \A j \in 1 .. m : l[j] \in 1 .. n /\ build_rows[l[j]] = g[j]
          BY <2>4, <4>1
        <4>5. ASSUME NEW j \in 1 .. m + 1
              PROVE  Append(l, n + 1)[j] \in 1 .. n + 1 /\ build_rows'[Append(l, n + 1)[j]] = Append(g, row)[j]
          <5>1. CASE j = m + 1
            BY <1>7, <4>3, <5>1
          <5>2. CASE j \in 1 .. m
            BY <1>7, <3>1, <4>3, <4>4, <5>2
          <5>3. j = m + 1 \/ j \in 1 .. m
            OBVIOUS
          <5> QED
            BY <5>1, <5>2, <5>3
        <4>6. m + 1 > 0
          OBVIOUS
        <4> QED
          BY <1>7, <4>2, <4>3, <4>5, <4>6
      <3> QED
        BY <3>2, <3>3
    <2>6. DOMAIN build_index' \subseteq Hashed
      BY <1>2, <2>3 DEF IndexInv
    <2>7. IndexInv'
      BY <1>1, <1>3, <1>7, <1>9, <2>5, <2>6 DEF IndexInv
    <2> QED
      BY <1>8, <2>7 DEF ProbeInv
  <1> QED
    BY <1>10, <1>11

\* The index is complete.
LEMMA BuildEndKeeps ==
    ASSUME ProbeInv, BuildEnd
    PROVE  ProbeInv'
  <1>1. /\ pc = "build" /\ pc' = "probe" /\ Len(build_rows) = Len(right) /\ UNCHANGED <<inputs, build>>
        /\ UNCHANGED <<lnext, lchunk, lpos, matches, mpos, out, result>>
    BY DEF BuildEnd
  <1>2. IndexInv' /\ UNCHANGED <<left_child, right_child>>
    BY <1>1, BuildFixed, InputsFixed DEF ProbeInv
  <1>3. Types'
    BY <1>1, <1>2 DEF ProbeInv, Types
  <1> QED
    BY <1>2, <1>3 DEF ProbeInv

-----------------------------------------------------------------------------
(* Probe.                                                                  *)

\* The left row at hand, and what the index has for it.
LEMMA CurrentRow ==
    ASSUME ProbeInv, lpos < Len(lchunk)
    PROVE  /\ lchunk[lpos + 1] \in Row /\ lchunk[lpos + 1].id \in Ids
           /\ lchunk[lpos + 1].key \in Keys \cup {Null}
           /\ HasMatch(lchunk[lpos + 1].key) =>
                /\ lchunk[lpos + 1].key \in Keys
                /\ KeyOf(lchunk[lpos + 1].key) \in Hashed
                /\ build_index[KeyOf(lchunk[lpos + 1].key)] = Lookup(KeyOf(lchunk[lpos + 1].key))
  <1>1. lchunk \in Seq(Row) /\ lpos \in Nat
    BY DEF ProbeInv, Types
  <1>2. lpos + 1 \in 1 .. Len(lchunk)
    BY <1>1
  <1>3. lchunk[lpos + 1] \in Row
    BY <1>1, <1>2
  <1>4. lchunk[lpos + 1].id \in Ids /\ lchunk[lpos + 1].key \in Keys \cup {Null}
    BY <1>3 DEF Row
  <1> QED
    BY <1>3, <1>4 DEF HasMatch, Joins, Lookup, Hashed

\* What a match in the index is.
LEMMA MatchFacts ==
    ASSUME IndexInv, NEW k \in Hashed
    PROVE  /\ Lookup(k) \in Seq(Nat) /\ Len(Lookup(k)) = Len(Group(k)) /\ Len(Lookup(k)) \in Nat
           /\ k \in DOMAIN build_index <=> Len(Group(k)) > 0
           /\ \A j \in 1 .. Len(Lookup(k)) :
                /\ Lookup(k)[j] \in 1 .. Len(build_rows) /\ build_rows[Lookup(k)[j]] = Group(k)[j]
                /\ build_rows[Lookup(k)[j]] \in Row
  BY DEF IndexInv

LEMMA ProbeKeeps ==
    ASSUME ProbeInv, ProbeChunk \/ ProbeSkip \/ ProbeFound
    PROVE  ProbeInv'
  <1>1. pc = "probe" /\ pc' # "build" /\ UNCHANGED <<inputs, build>> /\ UNCHANGED <<out, result>>
    BY DEF ProbeChunk, ProbeSkip, ProbeFound
  <1>2. IndexInv' /\ UNCHANGED <<build_rows, build_index>> /\ (\A k : Lookup(k)' = Lookup(k))
        /\ (\A key : HasMatch(key)' <=> HasMatch(key))
    BY <1>1, BuildFixed DEF ProbeInv
  <1>3. UNCHANGED <<left_child, right_child>>
    BY <1>1, InputsFixed
  <1>4. Types
    BY DEF ProbeInv
  <1>5. CASE ProbeChunk
    <2>1. /\ lnext < Len(left_child) /\ lnext' = lnext + 1 /\ lchunk' = left_child[lnext + 1] /\ lpos' = 0
          /\ pc' = "probe" /\ UNCHANGED <<matches, mpos>>
      BY <1>1, <1>5 DEF ProbeChunk
    <2>2. lchunk' \in Seq(Row) /\ lnext' \in Nat /\ lnext' <= Len(left_child)
      BY <1>4, <2>1 DEF Types
    <2>3. Len(lchunk') \in Nat /\ 0 <= Len(lchunk')
      BY <2>2
    <2>4. Types'
      BY <1>1, <1>3, <1>4, <2>1, <2>2, <2>3 DEF Types
    <2> QED
      BY <1>2, <2>4 DEF ProbeInv
  <1>6. CASE ProbeSkip
    <2>1. lpos < Len(lchunk) /\ lpos' = lpos + 1 /\ pc' = "probe" /\ UNCHANGED <<lnext, lchunk, matches, mpos>>
      BY <1>1, <1>6 DEF ProbeSkip
    <2>2. lpos' \in Nat /\ lpos' <= Len(lchunk)
      BY <1>4, <2>1 DEF Types
    <2>3. Types'
      BY <1>1, <1>3, <1>4, <2>1, <2>2 DEF Types
    <2> QED
      BY <1>2, <2>3 DEF ProbeInv
  <1>7. CASE ProbeFound
    <2>1. /\ lpos < Len(lchunk) /\ HasMatch(lchunk[lpos + 1].key) /\ mpos' = 0 /\ pc' = "emit"
          /\ matches' = build_index[KeyOf(lchunk[lpos + 1].key)] /\ UNCHANGED <<lnext, lchunk, lpos>>
      BY <1>7 DEF ProbeFound
    <2>2. PICK k \in Hashed : k = KeyOf(lchunk[lpos + 1].key) /\ matches' = Lookup(k)
      BY <2>1, CurrentRow
    <2>3. 0 <= Len(matches')
      BY <2>2, MatchFacts DEF ProbeInv
    <2>4. matches' = Lookup(KeyOf(lchunk[lpos + 1].key))'
      BY <1>2, <2>1, <2>2 DEF Lookup
    <2>5. HasMatch(lchunk[lpos + 1].key)'
      BY <1>2, <2>1 DEF HasMatch
    <2>6. Types'
      BY <1>1, <1>3, <1>4, <2>1, <2>3, <2>4, <2>5 DEF Types
    <2> QED
      BY <1>2, <2>6 DEF ProbeInv
  <1> QED
    BY <1>5, <1>6, <1>7

\* The row that Emit adds.
LEMMA EmittedPair ==
    ASSUME ProbeInv, pc = "emit", mpos < Len(matches)
    PROVE  /\ <<lchunk[lpos + 1].id, build_rows[matches[mpos + 1]].id>> \in Pair
  <1>1. Types /\ IndexInv /\ lpos < Len(lchunk) /\ HasMatch(lchunk[lpos + 1].key) /\ mpos \in Nat
    BY DEF ProbeInv, Types
  <1>2. PICK k \in Hashed : k = KeyOf(lchunk[lpos + 1].key)
    BY <1>1, CurrentRow
  <1>3. matches = Lookup(k)
    BY <1>1, <1>2 DEF Types
  <1>4. mpos + 1 \in 1 .. Len(Lookup(k))
    BY <1>1, <1>3, MatchFacts
  <1>5. build_rows[matches[mpos + 1]] \in Row
    BY <1>1, <1>3, <1>4, MatchFacts
  <1>6. build_rows[matches[mpos + 1]].id \in Ids
    BY <1>5 DEF Row
  <1> QED
    BY <1>1, <1>6, CurrentRow DEF Pair

LEMMA EmitKeeps ==
    ASSUME ProbeInv, Emit \/ EmitEnd
    PROVE  ProbeInv'
  <1>1. pc = "emit" /\ pc' # "build" /\ UNCHANGED <<inputs, build>> /\ UNCHANGED <<lnext, lchunk, result>>
        /\ Len(out) < kVectorSize
    BY DEF Emit, EmitEnd
  <1>2. IndexInv' /\ UNCHANGED <<build_rows, build_index>> /\ (\A k : Lookup(k)' = Lookup(k))
        /\ (\A key : HasMatch(key)' <=> HasMatch(key))
    BY <1>1, BuildFixed DEF ProbeInv
  <1>3. UNCHANGED <<left_child, right_child>>
    BY <1>1, InputsFixed
  <1>4. Types /\ Len(out) \in Nat /\ kVectorSize \in Nat
    BY InputFacts DEF ProbeInv
  <1>5. CASE Emit
    <2>1. /\ mpos < Len(matches) /\ out' = Append(out, <<lchunk[lpos + 1].id, build_rows[matches[mpos + 1]].id>>)
          /\ mpos' = mpos + 1 /\ pc' = pc /\ UNCHANGED <<lpos, matches>>
      BY <1>5 DEF Emit
    <2>2. PICK x \in Pair : out' = Append(out, x)
      BY <1>1, <2>1, EmittedPair
    <2>3. out' \in Seq(Pair) /\ Len(out') = Len(out) + 1
      BY <1>4, <2>2 DEF Types
    <2>4. Len(out') <= kVectorSize
      BY <1>1, <1>4, <2>3
    <2>5. PICK k \in Hashed : matches = Lookup(k)
      BY <1>1, <1>4, CurrentRow DEF Types
    <2>6. mpos' \in Nat /\ mpos' <= Len(matches)
      BY <1>4, <2>1, <2>5, MatchFacts DEF ProbeInv, Types
    <2>7. matches' = Lookup(KeyOf(lchunk[lpos + 1].key))' /\ HasMatch(lchunk[lpos + 1].key)'
      BY <1>1, <1>2, <1>4, <2>1 DEF Types, Lookup, HasMatch
    <2>8. Types'
      BY <1>1, <1>3, <1>4, <2>1, <2>3, <2>4, <2>6, <2>7 DEF Types
    <2> QED
      BY <1>2, <2>8 DEF ProbeInv
  <1>6. CASE EmitEnd
    <2>1. lpos' = lpos + 1 /\ pc' = "probe" /\ UNCHANGED <<mpos, out>>
      BY <1>6 DEF EmitEnd
    <2>2. lpos' \in Nat /\ lpos' <= Len(lchunk)
      BY <1>1, <1>4, <2>1 DEF Types
    <2>3. Types'
      BY <1>1, <1>3, <1>4, <2>1, <2>2 DEF Types
    <2> QED
      BY <1>2, <2>3 DEF ProbeInv
  <1> QED
    BY <1>5, <1>6

LEMMA BatchKeeps ==
    ASSUME ProbeInv, BatchFull \/ LeftDone
    PROVE  ProbeInv' /\ pc # "build"
  <1>0. Types /\ Len(out) \in Nat /\ kVectorSize \in Nat \ {0}
    BY InputFacts DEF ProbeInv
  <1>1. pc # "build"
    <2>1. CASE BatchFull
      <3>1. Len(out) = kVectorSize
        BY <2>1 DEF BatchFull
      <3>2. out # <<>>
        BY <1>0, <3>1
      <3> QED
        BY <1>0, <3>2 DEF Types
    <2>2. CASE LeftDone
      BY <2>2 DEF LeftDone
    <2> QED
      BY <2>1, <2>2
  <1>2. /\ pc' # "build" /\ (pc' = pc \/ pc' \in {"probe", "done"}) /\ UNCHANGED <<inputs, build>>
        /\ UNCHANGED <<lnext, lchunk, lpos, matches, mpos>>
        /\ result' = result \o out /\ out' = <<>>
    BY <1>1 DEF BatchFull, LeftDone
  <1>3. IndexInv' /\ UNCHANGED <<build_rows, build_index>> /\ (\A k : Lookup(k)' = Lookup(k))
        /\ (\A key : HasMatch(key)' <=> HasMatch(key))
    BY <1>1, <1>2, BuildFixed DEF ProbeInv
  <1>4. UNCHANGED <<left_child, right_child>>
    BY <1>2, InputsFixed
  <1>5. result' \in Seq(Pair) /\ out' \in Seq(Pair) /\ Len(out') <= kVectorSize
    BY <1>0, <1>2 DEF Types
  <1>6. Lookup(KeyOf(lchunk[lpos + 1].key))' = Lookup(KeyOf(lchunk[lpos + 1].key))
        /\ (HasMatch(lchunk[lpos + 1].key)' <=> HasMatch(lchunk[lpos + 1].key))
    BY <1>2, <1>3 DEF Lookup, HasMatch
  <1>7. Types'
    BY <1>0, <1>1, <1>2, <1>4, <1>5, <1>6 DEF Types
  <1> QED
    BY <1>1, <1>3, <1>7 DEF ProbeInv

LEMMA ProbeInit == Init => ProbeInv
  <1> SUFFICES ASSUME Init PROVE ProbeInv
    OBVIOUS
  <1>1. left_child \in Seq(Seq(Row)) /\ right_child \in Seq(Seq(Row))
    <2>1. \A s \in Seq(Seq(Row) \ {<<>>}) : s \in Seq(Seq(Row))
      OBVIOUS
    <2> QED
      BY <2>1, HashJoinAssumption DEF Init
  <1>2. /\ pc = "build" /\ build_rows = <<>> /\ build_index = <<>> /\ lnext = 0 /\ lchunk = <<>> /\ lpos = 0
        /\ matches = <<>> /\ mpos = 0 /\ out = <<>> /\ result = <<>>
    BY DEF Init
  <1>3. Types
    <2>1. Len(left_child) \in Nat /\ kVectorSize \in Nat
      BY <1>1, HashJoinAssumption
    <2>2. lchunk \in Seq(Row) /\ out \in Seq(Pair) /\ result \in Seq(Pair) /\ Len(out) = 0 /\ Len(lchunk) = 0
      BY <1>2
    <2> QED
      BY <1>1, <1>2, <2>1, <2>2 DEF Types
  <1>4. DOMAIN build_index = {}
    BY <1>2
  <1>5. \A k \in Hashed : Lookup(k) = <<>> /\ Group(k) = <<>>
    BY <1>2, <1>4, SelectEmpty DEF Lookup, Group
  <1>6. build_rows \in Seq(Row) /\ Len(build_rows) = 0 /\ Len(right) \in Nat
    BY <1>2, <1>3, InputFacts
  <1>7. <<>> \in Seq(Nat) /\ Len(<<>>) = 0
    OBVIOUS
  <1>8. ASSUME NEW k \in Hashed
        PROVE  /\ Lookup(k) \in Seq(Nat) /\ Len(Lookup(k)) = Len(Group(k))
               /\ k \in DOMAIN build_index <=> Len(Group(k)) > 0
               /\ \A j \in 1 .. Len(Group(k)) :
                    Lookup(k)[j] \in 1 .. Len(build_rows) /\ build_rows[Lookup(k)[j]] = Group(k)[j]
    <2>1. Lookup(k) = <<>> /\ Group(k) = <<>> /\ k \notin DOMAIN build_index
      BY <1>4, <1>5
    <2>2. ~ (0 > 0) /\ 1 .. 0 = {}
      OBVIOUS
    <2> QED
      BY <1>7, <2>1, <2>2, Zenon
  <1>9. IndexInv
    <2>1. Len(build_rows) <= Len(right) /\ \A i \in 1 .. Len(build_rows) : build_rows[i] = right[i]
      BY <1>6
    <2> QED
      BY <1>2, <1>4, <1>6, <1>8, <2>1 DEF IndexInv
  <1> QED
    BY <1>3, <1>9 DEF ProbeInv

LEMMA ProbeStep == ProbeInv /\ [Next]_vars => ProbeInv'
  <1> SUFFICES ASSUME ProbeInv, [Next]_vars PROVE ProbeInv'
    OBVIOUS
  <1>1. CASE UNCHANGED vars
    <2>1. /\ UNCHANGED <<inputs, build>> /\ UNCHANGED <<left_child, right_child, pc>>
          /\ UNCHANGED <<lnext, lchunk, lpos, matches, mpos, out, result>>
      BY <1>1 DEF vars, inputs, build
    <2>2. IndexInv' /\ UNCHANGED <<build_rows, build_index>>
      BY <2>1, BuildFixed DEF ProbeInv
    <2>3. Types'
      BY <2>1, <2>2 DEF ProbeInv, Types, Lookup, HasMatch
    <2> QED
      BY <2>2, <2>3 DEF ProbeInv
  <1> QED
    BY <1>1, BuildKeeps, BuildEndKeeps, ProbeKeeps, EmitKeeps, BatchKeeps DEF Next, Step, Done

\* The index is what the build rows say, and the probe is within its chunk and
\* its matches (HashJoin::Open, Next and AdvanceProbeRow).
THEOREM ProbeInvariant == Spec => []ProbeInv
  BY ProbeInit, ProbeStep, PTL DEF Spec

\* The probe never reads beyond the left chunk or the matches of a row, and a
\* batch never exceeds its size (HashJoin::Next).
THEOREM ProbeTypes == Spec => []TypeOK
  <1>1. ProbeInv => TypeOK
    <2> SUFFICES ASSUME ProbeInv PROVE TypeOK
      OBVIOUS
    <2>1. Types /\ IndexInv /\ Len(left_child) \in Nat /\ Len(lchunk) \in Nat
      BY InputFacts DEF ProbeInv
    <2>2. lnext \in 0 .. Len(left_child) /\ lpos \in 0 .. Len(lchunk)
      BY <2>1 DEF Types
    <2>3. ASSUME pc = "emit" PROVE matches # <<>> /\ mpos <= Len(matches) /\ lpos < Len(lchunk)
      <3>1. PICK k \in Hashed : k = KeyOf(lchunk[lpos + 1].key) /\ matches = Lookup(k) /\ k \in DOMAIN build_index
        BY <2>1, <2>3, CurrentRow DEF Types, HasMatch
      <3>2. Len(matches) > 0
        BY <2>1, <3>1, MatchFacts
      <3>3. matches # <<>>
        BY <3>2
      <3> QED
        BY <2>1, <2>3, <3>3 DEF Types
    <2> QED
      BY <2>1, <2>2, <2>3 DEF TypeOK, Types
  <1> QED
    BY <1>1, ProbeInvariant, PTL

-----------------------------------------------------------------------------
(* The join by nested loops.                                               *)

\* The inputs do not change, nor what the join gives.
LEMMA LoopFixed ==
    ASSUME UNCHANGED inputs
    PROVE  /\ \A n : Loop(n)' = Loop(n) /\ Fetched(n)' = Fetched(n)
           /\ \A row : Matched(row)' = Matched(row) /\ Pairs(row)' = Pairs(row)
           /\ NestedLoop' = NestedLoop
  <1>1. left' = left /\ right' = right /\ left_child' = left_child
    BY InputsFixed
  <1>2. \A row : Matched(row)' = Matched(row)
    BY <1>1 DEF Matched
  <1>3. \A row : Pairs(row)' = Pairs(row)
    BY <1>2 DEF Pairs
  <1> QED
    BY <1>1, <1>2, <1>3 DEF Loop, Fetched, NestedLoop

LEMMA PairsFacts ==
    ASSUME Types, NEW row \in Row
    PROVE  /\ Matched(row) \in Seq(Row) /\ Len(Matched(row)) \in Nat
           /\ Pairs(row) \in Seq(Pair) /\ Len(Pairs(row)) = Len(Matched(row))
           /\ \A j \in 1 .. Len(Matched(row)) : Pairs(row)[j] = <<row.id, Matched(row)[j].id>>
  <1>1. right \in Seq(Row)
    BY InputFacts
  <1>2. Matched(row) \in Seq(Row)
    BY <1>1, SelectType DEF Matched
  <1>3. PICK m \in Seq(Row) : m = Matched(row)
    BY <1>2
  <1>4. Pairs(row) = [j \in 1 .. Len(m) |-> <<row.id, m[j].id>>]
    BY <1>3 DEF Pairs
  <1>5. \A j \in 1 .. Len(m) : <<row.id, m[j].id>> \in Pair
    <2>1. \A j \in 1 .. Len(m) : m[j] \in Row
      OBVIOUS
    <2>2. \A x \in Row : x.id \in Ids
      BY DEF Row
    <2> QED
      BY <2>1, <2>2 DEF Pair
  <1>6. Pairs(row) \in Seq(Pair) /\ Len(Pairs(row)) = Len(m)
    BY <1>4, <1>5
  <1> QED
    BY <1>3, <1>4, <1>6

\* The pairs of the first n left rows, and those of the others.
LEMMA LoopFacts ==
    ASSUME Types, NEW n \in Nat, n <= Len(left)
    PROVE  /\ Loop(n) \in Seq(Pair)
           /\ n < Len(left) => Loop(n + 1) = Loop(n) \o Pairs(left[n + 1])
           /\ \E q \in Seq(Pair) : NestedLoop = Loop(n) \o q
  <1> DEFINE all == [i \in 1 .. Len(left) |-> Pairs(left[i])]
  <1>1. left \in Seq(Row) /\ Len(left) \in Nat
    BY InputFacts
  <1>2. \A i \in 1 .. Len(left) : Pairs(left[i]) \in Seq(Pair)
    BY <1>1, PairsFacts
  <1>3. all \in Seq(Seq(Pair)) /\ Len(all) = Len(left)
    BY <1>1, <1>2
  <1>4. PICK a \in Seq(Seq(Pair)) : a = all /\ Len(a) = Len(left)
    BY <1>3
  <1>5. ASSUME NEW k \in Nat, k <= Len(left)
        PROVE  SubSeq(a, 1, k) = [i \in 1 .. k |-> Pairs(left[i])] /\ Loop(k) = FlattenSeq(SubSeq(a, 1, k))
    <2>1. SubSeq(a, 1, k) = [i \in 1 .. k |-> a[i]]
      BY <1>1, <1>4, <1>5
    <2>2. \A i \in 1 .. k : a[i] = Pairs(left[i])
      BY <1>1, <1>4, <1>5
    <2> QED
      BY <2>1, <2>2 DEF Loop
  <1>6. Loop(n) = FlattenSeq(SubSeq(a, 1, n))
    BY <1>5
  <1>7. SubSeq(a, 1, n) \in Seq(Seq(Pair))
    BY <1>1, <1>4
  <1>8. Loop(n) \in Seq(Pair)
    BY <1>6, <1>7, FlattenType
  <1>9. ASSUME n < Len(left) PROVE Loop(n + 1) = Loop(n) \o Pairs(left[n + 1])
    <2>1. n + 1 \in Nat /\ n + 1 <= Len(left) /\ n + 1 \in 1 .. Len(left)
      BY <1>1, <1>9
    <2>2. FlattenSeq(SubSeq(a, 1, n + 1)) = FlattenSeq(SubSeq(a, 1, n)) \o a[n + 1]
      BY <1>4, <1>9, FlattenPrefix
    <2>3. a[n + 1] = Pairs(left[n + 1])
      BY <1>4, <2>1
    <2>4. Loop(n + 1) = FlattenSeq(SubSeq(a, 1, n + 1))
      BY <1>5, <2>1
    <2> QED
      BY <1>6, <2>2, <2>3, <2>4
  <1>10. NestedLoop = FlattenSeq(a)
    BY <1>4 DEF NestedLoop
  <1>11. PICK r \in Seq(Seq(Pair)) : a = SubSeq(a, 1, n) \o r
    <2>1. n <= Len(a)
      BY <1>4
    <2>2. \E r \in Seq(Seq(Pair)) : a = SubSeq(a, 1, n) \o r /\ Len(r) = Len(a) - n
      BY <2>1, CutInTwo
    <2> QED
      BY <2>2
  <1>12. FlattenSeq(SubSeq(a, 1, n) \o r) = FlattenSeq(SubSeq(a, 1, n)) \o FlattenSeq(r)
    BY <1>7, FlattenConcat
  <1>13. FlattenSeq(r) \in Seq(Pair)
    BY FlattenType
  <1>14. NestedLoop = Loop(n) \o FlattenSeq(r)
    BY <1>6, <1>10, <1>11, <1>12
  <1> QED
    BY <1>8, <1>9, <1>13, <1>14

\* The left rows are the rows of the chunks, in their order.
LEMMA FetchedFacts ==
    ASSUME Types, NEW n \in Nat, n <= Len(left_child)
    PROVE  /\ Fetched(n) \in Seq(Row) /\ Len(Fetched(n)) \in Nat /\ Len(Fetched(n)) <= Len(left)
           /\ \A i \in 1 .. Len(Fetched(n)) : left[i] = Fetched(n)[i]
           /\ n = 0 => Fetched(n) = <<>>
           /\ n = Len(left_child) => Fetched(n) = left
  <1>1. PICK c \in Seq(Seq(Row)) : c = left_child
    BY DEF Types
  <1>2. SubSeq(c, 1, n) \in Seq(Seq(Row))
    BY <1>1
  <1>3. PICK f \in Seq(Row) : f = Fetched(n) /\ f = FlattenSeq(SubSeq(c, 1, n))
    BY <1>1, <1>2, FlattenType DEF Fetched
  <1>4. PICK r \in Seq(Seq(Row)) : c = SubSeq(c, 1, n) \o r
    <2>1. n <= Len(c)
      BY <1>1
    <2>2. \E r \in Seq(Seq(Row)) : c = SubSeq(c, 1, n) \o r /\ Len(r) = Len(c) - n
      BY <2>1, CutInTwo
    <2> QED
      BY <2>2
  <1>5. PICK g \in Seq(Row) : g = FlattenSeq(r)
    BY FlattenType
  <1>6. FlattenSeq(SubSeq(c, 1, n) \o r) = FlattenSeq(SubSeq(c, 1, n)) \o FlattenSeq(r)
    BY <1>2, FlattenConcat
  <1>7. left = f \o g
    BY <1>1, <1>3, <1>4, <1>5, <1>6 DEF left
  <1>8. Len(f \o g) = Len(f) + Len(g) /\ \A j \in 1 .. Len(f) : (f \o g)[j] = f[j]
    BY ConcatFacts
  <1>9. Len(f) \in Nat /\ Len(g) \in Nat
    OBVIOUS
  <1>10. SubSeq(c, 1, Len(c)) = c /\ SubSeq(c, 1, 0) = <<>>
    BY PrefixEnds
  <1>11. n = 0 => f = <<>>
    BY <1>3, <1>10, FlattenEmpty
  <1>12. n = Len(left_child) => f = left
    BY <1>1, <1>3, <1>10 DEF left
  <1>13. Len(f) <= Len(left)
    BY <1>7, <1>8, <1>9
  <1> QED
    BY <1>3, <1>7, <1>8, <1>9, <1>11, <1>12, <1>13

\* One more chunk.
LEMMA FetchedStep ==
    ASSUME Types, lnext < Len(left_child)
    PROVE  /\ left_child[lnext + 1] \in Seq(Row)
           /\ Len(Fetched(lnext + 1)) = Len(Fetched(lnext)) + Len(left_child[lnext + 1])
           /\ \A i \in 1 .. Len(left_child[lnext + 1]) :
                left[Len(Fetched(lnext)) + i] = left_child[lnext + 1][i]
  <1>1. PICK c \in Seq(Seq(Row)), n \in Nat : c = left_child /\ n = lnext /\ n + 1 \in 1 .. Len(c)
    BY DEF Types
  <1>2. PICK x \in Seq(Row) : x = c[n + 1]
    BY <1>1
  <1>3. Fetched(n + 1) = Fetched(n) \o x
    BY <1>1, <1>2, FlattenPrefix DEF Fetched
  <1>4. PICK f \in Seq(Row) : f = Fetched(n)
    BY <1>1, FetchedFacts
  <1>5. /\ Len(f \o x) = Len(f) + Len(x)
        /\ \A j \in 1 .. Len(x) : (f \o x)[Len(f) + j] = x[j]
    BY ConcatFacts
  <1>6. \A i \in 1 .. Len(f \o x) : left[i] = (f \o x)[i]
    <2>1. n + 1 \in Nat /\ n + 1 <= Len(left_child)
      BY <1>1
    <2>2. \A i \in 1 .. Len(Fetched(n + 1)) : left[i] = Fetched(n + 1)[i]
      BY <2>1, FetchedFacts
    <2> QED
      BY <1>3, <1>4, <2>2
  <1>7. \A i \in 1 .. Len(x) : Len(f) + i \in 1 .. Len(f) + Len(x)
    OBVIOUS
  <1> QED
    BY <1>1, <1>2, <1>3, <1>4, <1>5, <1>6, <1>7

-----------------------------------------------------------------------------
(* What the index has for a left row is what the row joins.                *)

LEMMA MatchedIsGroup ==
    ASSUME OneType, ProbeInv, pc # "build", NEW row \in Row
    PROVE  /\ row.key = Null => Matched(row) = <<>>
           /\ row.key # Null => KeyOf(row.key) \in Hashed /\ Matched(row) = Group(KeyOf(row.key))
  <1>1. Types /\ IndexInv /\ right \in Seq(Row) /\ Len(right) \in Nat
    BY InputFacts DEF ProbeInv
  <1>2. build_rows = right
    <2>1. /\ build_rows \in Seq(Row) /\ Len(build_rows) = Len(right)
          /\ \A i \in 1 .. Len(build_rows) : build_rows[i] = right[i]
      BY <1>1 DEF IndexInv
    <2> QED
      BY <1>1, <2>1, SeqEqual
  <1>3. row.key \in Keys \cup {Null} /\ \A r \in Row : r.key \in Keys \cup {Null}
    BY DEF Row
  <1>4. ASSUME row.key = Null PROVE Matched(row) = <<>>
    <2>1. {r \in Row : Equal(row.key, r.key)} = {}
      BY <1>4 DEF Equal
    <2>2. Select(right, {}) = <<>>
      BY <1>1, SelectNone
    <2> QED
      BY <2>1, <2>2 DEF Matched
  <1>5. ASSUME row.key # Null PROVE KeyOf(row.key) \in Hashed /\ Matched(row) = Group(KeyOf(row.key))
    <2>1. row.key \in Keys
      BY <1>3, <1>5
    <2>2. ASSUME NEW r \in Row
          PROVE  Equal(row.key, r.key) <=> r.key # Null /\ KeyOf(r.key) = KeyOf(row.key)
      <3>1. CASE r.key = Null
        BY <3>1 DEF Equal
      <3>2. CASE r.key # Null
        <4>1. r.key \in Keys
          BY <1>3, <3>2
        <4>2. row.key.v = r.key.v => row.key.type = r.key.type
          BY <2>1, <4>1 DEF OneType
        <4> QED
          BY <1>5, <3>2, <4>2 DEF Equal, KeyOf
      <3> QED
        BY <3>1, <3>2
    <2>3. {r \in Row : Equal(row.key, r.key)} = Bucket(KeyOf(row.key))
      BY <2>2 DEF Bucket
    <2> QED
      BY <1>2, <2>1, <2>3 DEF Matched, Group, Hashed
  <1> QED
    BY <1>4, <1>5

LEMMA PairsOfMatches ==
    ASSUME OneType, ProbeInv, pc # "build", NEW row \in Row
    PROVE  /\ ~ HasMatch(row.key) => Pairs(row) = <<>>
           /\ HasMatch(row.key) =>
                /\ Len(Pairs(row)) = Len(Lookup(KeyOf(row.key)))
                /\ \A j \in 1 .. Len(Pairs(row)) :
                     Pairs(row)[j] = <<row.id, build_rows[Lookup(KeyOf(row.key))[j]].id>>
  <1>1. Types /\ IndexInv
    BY DEF ProbeInv
  <1>2. PICK m \in Seq(Row), q \in Seq(Pair) :
          /\ m = Matched(row) /\ q = Pairs(row) /\ Len(m) \in Nat /\ Len(q) = Len(m)
          /\ \A j \in 1 .. Len(m) : q[j] = <<row.id, m[j].id>>
    BY <1>1, PairsFacts
  <1>3. ASSUME ~ HasMatch(row.key) PROVE q = <<>>
    <2>1. Len(m) = 0
      <3>1. CASE row.key = Null
        <4>1. m = <<>>
          BY <1>2, <3>1, MatchedIsGroup
        <4> QED
          BY <4>1
      <3>2. CASE row.key # Null
        <4>1. KeyOf(row.key) \in Hashed /\ m = Group(KeyOf(row.key))
          BY <1>2, <3>2, MatchedIsGroup
        <4>2. KeyOf(row.key) \notin DOMAIN build_index
          BY <1>3, <3>2 DEF HasMatch, Joins
        <4>3. ~ (Len(m) > 0)
          BY <1>1, <4>1, <4>2, MatchFacts
        <4> QED
          BY <1>2, <4>3
      <3> QED
        BY <3>1, <3>2
    <2> QED
      BY <1>2, <2>1, EmptySeq
  <1>4. ASSUME HasMatch(row.key)
        PROVE  /\ Len(q) = Len(Lookup(KeyOf(row.key)))
               /\ \A j \in 1 .. Len(q) : q[j] = <<row.id, build_rows[Lookup(KeyOf(row.key))[j]].id>>
    <2>1. PICK k \in Hashed : k = KeyOf(row.key) /\ m = Group(k)
      BY <1>2, <1>4, MatchedIsGroup DEF HasMatch, Joins
    <2>2. /\ Len(Lookup(k)) = Len(m)
          /\ \A j \in 1 .. Len(Lookup(k)) : build_rows[Lookup(k)[j]] = m[j]
      BY <1>1, <2>1, MatchFacts
    <2> QED
      BY <1>2, <2>1, <2>2
  <1> QED
    BY <1>2, <1>3, <1>4

-----------------------------------------------------------------------------
(* The probe.                                                              *)

\* The row at hand is the next left row.
LEMMA PassedFacts ==
    ASSUME ProbeInv, ResultInv
    PROVE  /\ Types /\ Passed \in Nat /\ Passed <= Len(left) /\ Loop(Passed) \in Seq(Pair)
           /\ lpos < Len(lchunk) =>
                /\ Passed < Len(left) /\ left[Passed + 1] = lchunk[lpos + 1] /\ lchunk[lpos + 1] \in Row
                /\ Loop(Passed + 1) = Loop(Passed) \o Pairs(lchunk[lpos + 1])
           /\ lpos = Len(lchunk) => Passed = Len(Fetched(lnext))
  <1>1. Types /\ Len(lchunk) \in Nat /\ Len(left) \in Nat
    BY InputFacts DEF ProbeInv
  <1>2. /\ lnext \in Nat /\ lnext <= Len(left_child) /\ lpos \in Nat /\ lpos <= Len(lchunk)
    BY <1>1 DEF Types
  <1>3. PICK f \in Nat : f = Len(Fetched(lnext)) /\ f <= Len(left)
    BY <1>1, <1>2, FetchedFacts
  <1>4. PICK p \in Nat : p = Passed
    BY DEF ResultInv
  <1>5. p = f - (Len(lchunk) - lpos)
    BY <1>3, <1>4 DEF Passed
  <1>6. p <= Len(left) /\ (lpos < Len(lchunk) => p < Len(left)) /\ (lpos = Len(lchunk) => p = f)
    BY <1>1, <1>2, <1>3, <1>5
  <1>7. Loop(p) \in Seq(Pair) /\ (p < Len(left) => Loop(p + 1) = Loop(p) \o Pairs(left[p + 1]))
    BY <1>1, <1>6, LoopFacts
  <1>8. ASSUME lpos < Len(lchunk) PROVE left[p + 1] = lchunk[lpos + 1] /\ lchunk[lpos + 1] \in Row
    <2>1. 1 \in 1 .. Len(lchunk) - lpos
      BY <1>1, <1>2, <1>8
    <2>2. left[p + 1] = lchunk[lpos + 1]
      BY <1>4, <2>1 DEF ResultInv
    <2> QED
      BY <1>8, <2>2, CurrentRow
  <1> QED
    BY <1>1, <1>3, <1>4, <1>6, <1>7, <1>8

\* A left row is done.
LEMMA PassRow ==
    ASSUME ProbeInv, ResultInv, UNCHANGED <<inputs, lnext, lchunk>>, lpos < Len(lchunk), lpos' = lpos + 1
    PROVE  /\ Passed' \in Nat
           /\ Passed' = Passed + 1
           /\ \A i \in 1 .. Len(lchunk') - lpos' : left'[Passed' + i] = lchunk'[lpos' + i]
           /\ Loop(Passed)' = Loop(Passed) \o Pairs(lchunk[lpos + 1])
  <1>1. Types /\ Len(lchunk) \in Nat /\ Len(left) \in Nat
    BY InputFacts DEF ProbeInv
  <1>2. lnext \in Nat /\ lnext <= Len(left_child) /\ lpos \in Nat
    BY <1>1 DEF Types
  <1>3. left' = left /\ Fetched(lnext)' = Fetched(lnext)
    BY InputsFixed DEF Fetched
  <1>4. PICK p \in Nat, f \in Nat : p = Passed /\ f = Len(Fetched(lnext)) /\ p = f - (Len(lchunk) - lpos)
    BY <1>1, <1>2, FetchedFacts DEF ResultInv, Passed
  <1>5. Passed' = p + 1
    <2>1. Passed' = f - (Len(lchunk) - (lpos + 1))
      BY <1>3, <1>4 DEF Passed
    <2> QED
      BY <1>1, <1>2, <1>4, <2>1
  <1>6. ASSUME NEW i \in 1 .. Len(lchunk) - (lpos + 1)
        PROVE  left[(p + 1) + i] = lchunk[(lpos + 1) + i]
    <2>1. i + 1 \in 1 .. Len(lchunk) - lpos /\ p + (i + 1) = (p + 1) + i /\ lpos + (i + 1) = (lpos + 1) + i
      BY <1>1, <1>2
    <2>2. left[p + (i + 1)] = lchunk[lpos + (i + 1)]
      BY <1>4, <2>1 DEF ResultInv
    <2> QED
      BY <2>1, <2>2
  <1>7. Loop(Passed)' = Loop(p + 1)
    <2>1. left' = left /\ right' = right
      BY InputsFixed
    <2> HIDE DEF Passed
    <2> QED
      BY <1>5, <2>1 DEF Loop, Pairs, Matched
  <1>8. Loop(p + 1) = Loop(p) \o Pairs(lchunk[lpos + 1])
    BY <1>4, PassedFacts
  <1> QED
    BY <1>3, <1>4, <1>5, <1>6, <1>7, <1>8

\* Nothing of where the probe is changes.
LEMMA PassNothing ==
    ASSUME ResultInv, UNCHANGED inputs, Passed' = Passed,
           \A i \in 1 .. Len(lchunk') - lpos' : left'[Passed' + i] = lchunk'[lpos' + i],
           result' \o out' = result \o out, pc' # "emit", pc # "emit", pc' # "done"
    PROVE  ResultInv'
  <1>1. Loop(Passed)' = Loop(Passed)
    <2>1. left' = left /\ right' = right
      BY InputsFixed
    <2> HIDE DEF Passed
    <2> QED
      BY <2>1 DEF Loop, Pairs, Matched
  <1> HIDE DEF Passed
  <1> QED
    BY <1>1 DEF ResultInv

LEMMA WindowFixed ==
    ASSUME ResultInv, UNCHANGED <<inputs, lnext, lchunk, lpos>>
    PROVE  /\ Passed' = Passed /\ Loop(Passed)' = Loop(Passed)
           /\ \A i \in 1 .. Len(lchunk') - lpos' : left'[Passed' + i] = lchunk'[lpos' + i]
           /\ Pairs(lchunk[lpos + 1])' = Pairs(lchunk[lpos + 1])
  <1>1. left' = left /\ right' = right /\ left_child' = left_child
    BY InputsFixed
  <1>2. Passed' = Passed
    BY <1>1 DEF Passed, Fetched
  <1>3. Loop(Passed)' = Loop(Passed)
    <2> HIDE DEF Passed
    <2> QED
      BY <1>1, <1>2 DEF Loop, Pairs, Matched
  <1>4. Pairs(lchunk[lpos + 1])' = Pairs(lchunk[lpos + 1])
    BY <1>1 DEF Pairs, Matched
  <1>5. \A i \in 1 .. Len(lchunk) - lpos : left[Passed + i] = lchunk[lpos + i]
    BY DEF ResultInv
  <1> QED
    BY <1>1, <1>2, <1>3, <1>4, <1>5

LEMMA AppendConcat ==
    ASSUME NEW S, NEW s \in Seq(S), NEW r \in Seq(S), NEW x \in S
    PROVE  s \o Append(r, x) = Append(s \o r, x) /\ s \o <<>> = s
  OBVIOUS

\* A chunk is fetched, or a left row that joins nothing is passed over.
LEMMA SkipResult ==
    ASSUME OneType, ProbeInv, ResultInv, ProbeChunk \/ ProbeSkip
    PROVE  ResultInv'
  <1>1. Types /\ Len(lchunk) \in Nat /\ lpos \in Nat /\ lpos <= Len(lchunk) /\ lnext \in Nat
        /\ result \in Seq(Pair) /\ out \in Seq(Pair)
    BY InputFacts DEF ProbeInv, Types
  <1>2. pc = "probe" /\ pc' = "probe" /\ UNCHANGED inputs /\ UNCHANGED <<out, result>>
    BY DEF ProbeChunk, ProbeSkip
  <1>3. left' = left /\ left_child' = left_child /\ result' \o out' = result \o out
    BY <1>2, InputsFixed
  <1>4. CASE ProbeChunk
    <2>1. /\ lpos >= Len(lchunk) /\ lnext < Len(left_child) /\ lnext' = lnext + 1
          /\ lchunk' = left_child[lnext + 1] /\ lpos' = 0
      BY <1>4 DEF ProbeChunk
    <2>2. lpos = Len(lchunk)
      BY <1>1, <2>1
    <2>3. PICK p \in Nat : p = Passed /\ p = Len(Fetched(lnext))
      BY <2>2, PassedFacts
    <2>4. PICK m \in Nat : m = Len(lchunk') /\ Len(Fetched(lnext + 1)) = p + m
      BY <1>1, <2>1, <2>3, FetchedStep
    <2>5. Passed' = p
      <3>1. Fetched(lnext)' = Fetched(lnext + 1)
        BY <1>3, <2>1 DEF Fetched
      <3>2. Passed' = (p + m) - (m - 0)
        BY <2>1, <2>4, <3>1 DEF Passed
      <3> QED
        BY <3>2
    <2>6. \A i \in 1 .. m : left[p + i] = lchunk'[i]
      BY <1>1, <2>1, <2>3, <2>4, FetchedStep
    <2>7. m - 0 = m /\ \A i \in 1 .. m : 0 + i = i
      OBVIOUS
    <2>8. \A i \in 1 .. Len(lchunk') - lpos' : left'[Passed' + i] = lchunk'[lpos' + i]
      BY <1>3, <2>1, <2>4, <2>5, <2>6, <2>7
    <2> QED
      BY <1>2, <1>3, <2>3, <2>5, <2>8, PassNothing
  <1>5. CASE ProbeSkip
    <2>1. lpos < Len(lchunk) /\ lpos' = lpos + 1 /\ ~ HasMatch(lchunk[lpos + 1].key) /\ UNCHANGED <<lnext, lchunk>>
      BY <1>5 DEF ProbeSkip
    <2>2. /\ Passed' \in Nat
          /\ \A i \in 1 .. Len(lchunk') - lpos' : left'[Passed' + i] = lchunk'[lpos' + i]
          /\ Loop(Passed)' = Loop(Passed) \o Pairs(lchunk[lpos + 1])
      BY <1>2, <2>1, PassRow
    <2>3. Loop(Passed) \in Seq(Pair) /\ lchunk[lpos + 1] \in Row
      BY <2>1, PassedFacts
    <2>4. Pairs(lchunk[lpos + 1]) = <<>>
      BY <1>2, <2>1, <2>3, PairsOfMatches
    <2>5. Loop(Passed) \o <<>> = Loop(Passed)
      BY <2>3
    <2>6. result \o out = Loop(Passed)
      BY <1>2 DEF ResultInv
    <2>7. result' \o out' = Loop(Passed)'
      BY <1>3, <2>2, <2>4, <2>5, <2>6
    <2> HIDE DEF Passed
    <2> QED
      BY <1>2, <2>2, <2>7 DEF ResultInv
  <1> QED
    BY <1>4, <1>5

\* The first match of a left row is found.
LEMMA FoundResult ==
    ASSUME OneType, ProbeInv, ResultInv, ProbeFound
    PROVE  ResultInv'
  <1>1. /\ pc = "probe" /\ pc' = "emit" /\ lpos < Len(lchunk) /\ mpos' = 0
        /\ UNCHANGED <<inputs, lnext, lchunk, lpos>> /\ UNCHANGED <<out, result>>
    BY DEF ProbeFound
  <1>2. /\ Passed' = Passed /\ Loop(Passed)' = Loop(Passed)
        /\ \A i \in 1 .. Len(lchunk') - lpos' : left'[Passed' + i] = lchunk'[lpos' + i]
        /\ Pairs(lchunk[lpos + 1])' = Pairs(lchunk[lpos + 1])
    BY <1>1, WindowFixed
  <1>3. Types /\ Passed \in Nat /\ Loop(Passed) \in Seq(Pair) /\ lchunk[lpos + 1] \in Row
    BY <1>1, PassedFacts
  <1>4. Pairs(lchunk[lpos + 1]) \in Seq(Pair)
    BY <1>3, PairsFacts
  <1>5. SubSeq(Pairs(lchunk[lpos + 1]), 1, 0) = <<>>
    BY <1>4, PrefixEnds
  <1>6. Loop(Passed) \o <<>> = Loop(Passed)
    BY <1>3
  <1>7. result \o out = Loop(Passed)
    BY <1>1 DEF ResultInv
  <1>8. result' \o out' = Loop(Passed)' \o SubSeq(Pairs(lchunk[lpos + 1])', 1, mpos')
    BY <1>1, <1>2, <1>5, <1>6, <1>7
  <1> HIDE DEF Passed
  <1> QED
    BY <1>1, <1>2, <1>3, <1>8 DEF ResultInv

\* A pair is emitted, or the pairs of a left row are done.
LEMMA EmitResult ==
    ASSUME OneType, ProbeInv, ResultInv, Emit \/ EmitEnd
    PROVE  ResultInv'
  <1>1. pc = "emit" /\ UNCHANGED <<inputs, lnext, lchunk>> /\ UNCHANGED result /\ UNCHANGED <<inputs>>
    BY DEF Emit, EmitEnd
  <1>2. /\ Types /\ lpos < Len(lchunk) /\ HasMatch(lchunk[lpos + 1].key) /\ mpos \in Nat
        /\ matches = Lookup(KeyOf(lchunk[lpos + 1].key)) /\ mpos <= Len(matches)
        /\ result \in Seq(Pair) /\ out \in Seq(Pair)
    BY <1>1 DEF ProbeInv, Types
  <1>3. Passed \in Nat /\ Loop(Passed) \in Seq(Pair) /\ lchunk[lpos + 1] \in Row
    BY <1>2, PassedFacts
  <1>4. PICK q \in Seq(Pair), m \in Nat : q = Pairs(lchunk[lpos + 1]) /\ m = Len(q)
    BY <1>2, <1>3, PairsFacts
  <1>5. /\ m = Len(matches)
        /\ \A j \in 1 .. m : q[j] = <<lchunk[lpos + 1].id, build_rows[matches[j]].id>>
    BY <1>1, <1>2, <1>3, <1>4, PairsOfMatches
  <1>6. PICK l \in Seq(Pair) : l = Loop(Passed)
    BY <1>3
  <1>7. result \o out = l \o SubSeq(q, 1, mpos)
    BY <1>1, <1>4, <1>6 DEF ResultInv
  <1>8. CASE Emit
    <2>1. /\ mpos < m /\ mpos' = mpos + 1 /\ pc' = "emit" /\ UNCHANGED lpos
          /\ out' = Append(out, <<lchunk[lpos + 1].id, build_rows[matches[mpos + 1]].id>>)
      BY <1>1, <1>5, <1>8 DEF Emit
    <2>2. mpos + 1 \in 1 .. m /\ mpos < Len(q)
      BY <1>2, <1>4, <2>1
    <2>3. PICK x \in Pair : x = q[mpos + 1] /\ out' = Append(out, x)
      <3>1. q[mpos + 1] \in Pair
        BY <1>4, <2>2
      <3>2. q[mpos + 1] = <<lchunk[lpos + 1].id, build_rows[matches[mpos + 1]].id>>
        BY <1>5, <2>2
      <3> QED
        BY <2>1, <3>1, <3>2, Zenon
    <2>4. SubSeq(q, 1, mpos) \in Seq(Pair) /\ SubSeq(q, 1, mpos + 1) = Append(SubSeq(q, 1, mpos), x)
      BY <1>2, <2>2, <2>3, PrefixStep
    <2>5. result \o Append(out, x) = Append(result \o out, x)
      <3>1. PICK s \in Seq(Pair), r \in Seq(Pair) : s = result /\ r = out
        BY <1>2, Zenon
      <3>2. s \o Append(r, x) = Append(s \o r, x)
        BY AppendConcat
      <3> QED
        BY <3>1, <3>2, Zenon
    <2>6. l \o Append(SubSeq(q, 1, mpos), x) = Append(l \o SubSeq(q, 1, mpos), x)
      <3>1. PICK h \in Seq(Pair) : h = SubSeq(q, 1, mpos)
        BY <2>4, Zenon
      <3>2. l \o Append(h, x) = Append(l \o h, x)
        BY AppendConcat
      <3> QED
        BY <3>1, <3>2, Zenon
    <2>7. result' \o out' = l \o SubSeq(q, 1, mpos')
      BY <1>1, <1>7, <2>1, <2>3, <2>4, <2>5, <2>6
    <2>8. /\ Passed' = Passed /\ Loop(Passed)' = Loop(Passed)
          /\ \A i \in 1 .. Len(lchunk') - lpos' : left'[Passed' + i] = lchunk'[lpos' + i]
          /\ Pairs(lchunk[lpos + 1])' = Pairs(lchunk[lpos + 1])
      BY <1>1, <2>1, WindowFixed
    <2>9. result' \o out' = Loop(Passed)' \o SubSeq(Pairs(lchunk[lpos + 1])', 1, mpos')
      BY <1>4, <1>6, <2>7, <2>8
    <2> HIDE DEF Passed
    <2> QED
      BY <1>3, <2>1, <2>8, <2>9 DEF ResultInv
  <1>9. CASE EmitEnd
    <2>1. mpos >= m /\ lpos' = lpos + 1 /\ pc' = "probe" /\ UNCHANGED out
      BY <1>5, <1>9 DEF EmitEnd
    <2>2. mpos = m
      BY <1>2, <1>5, <2>1
    <2>3. SubSeq(q, 1, mpos) = q
      BY <1>4, <2>2, PrefixEnds
    <2>4. /\ Passed' \in Nat
          /\ \A i \in 1 .. Len(lchunk') - lpos' : left'[Passed' + i] = lchunk'[lpos' + i]
          /\ Loop(Passed)' = Loop(Passed) \o Pairs(lchunk[lpos + 1])
      BY <1>1, <1>2, <2>1, PassRow
    <2>5. result' \o out' = Loop(Passed)'
      BY <1>1, <1>4, <1>6, <1>7, <2>1, <2>3, <2>4
    <2> HIDE DEF Passed
    <2> QED
      BY <2>1, <2>4, <2>5 DEF ResultInv
  <1> QED
    BY <1>8, <1>9

\* A batch is returned.
LEMMA BatchResult ==
    ASSUME ProbeInv, ResultInv, BatchFull \/ LeftDone
    PROVE  ResultInv'
  <1>1. /\ result' = result \o out /\ out' = <<>> /\ UNCHANGED <<inputs, lnext, lchunk, lpos>> /\ UNCHANGED mpos
    BY DEF BatchFull, LeftDone
  <1>2. Types /\ result \in Seq(Pair) /\ out \in Seq(Pair) /\ Len(lchunk) \in Nat /\ Len(out) \in Nat
        /\ lpos \in Nat /\ lpos <= Len(lchunk) /\ kVectorSize \in Nat \ {0}
    BY InputFacts DEF ProbeInv, Types
  <1>3. result' \o out' = result \o out
    BY <1>1, <1>2
  <1>4. /\ Passed' = Passed /\ Loop(Passed)' = Loop(Passed)
        /\ \A i \in 1 .. Len(lchunk') - lpos' : left'[Passed' + i] = lchunk'[lpos' + i]
        /\ Pairs(lchunk[lpos + 1])' = Pairs(lchunk[lpos + 1])
    BY <1>1, WindowFixed
  <1>5. Passed \in Nat
    BY DEF ResultInv
  <1>6. CASE BatchFull
    <2>1. pc' = pc /\ Len(out) = kVectorSize
      BY <1>6 DEF BatchFull
    <2>2. pc # "done"
      <3>1. out # <<>>
        BY <1>2, <2>1
      <3> QED
        BY <3>1 DEF ResultInv
    <2>3. pc # "emit" => result' \o out' = Loop(Passed)'
      BY <1>3, <1>4 DEF ResultInv
    <2>4. pc = "emit" => result' \o out' = Loop(Passed)' \o SubSeq(Pairs(lchunk[lpos + 1])', 1, mpos')
      BY <1>1, <1>3, <1>4 DEF ResultInv
    <2> HIDE DEF Passed
    <2> QED
      BY <1>4, <1>5, <2>1, <2>2, <2>3, <2>4 DEF ResultInv
  <1>7. CASE LeftDone
    <2>1. pc = "probe" /\ pc' \in {"probe", "done"} /\ lpos >= Len(lchunk) /\ lnext = Len(left_child)
      BY <1>7 DEF LeftDone
    <2>2. lpos = Len(lchunk) /\ lnext \in Nat /\ lnext <= Len(left_child)
      BY <1>2, <2>1 DEF Types
    <2>3. Fetched(lnext) = left
      BY <1>2, <2>1, <2>2, FetchedFacts
    <2>4. Passed = Len(left) /\ left' = left
      BY <1>1, <2>2, <2>3, PassedFacts, InputsFixed
    <2>5. result' \o out' = Loop(Passed)'
      BY <1>3, <1>4, <2>1 DEF ResultInv
    <2> HIDE DEF Passed
    <2> QED
      BY <1>1, <1>4, <1>5, <2>1, <2>4, <2>5 DEF ResultInv
  <1> QED
    BY <1>6, <1>7

LEMMA ResultInit == ProbeInv /\ Init => ResultInv
  <1> SUFFICES ASSUME ProbeInv, Init PROVE ResultInv
    OBVIOUS
  <1>1. pc = "build" /\ lnext = 0 /\ lchunk = <<>> /\ lpos = 0 /\ out = <<>> /\ result = <<>>
    BY DEF Init
  <1>2. Types /\ Len(left_child) \in Nat
    BY InputFacts DEF ProbeInv
  <1>3. Fetched(0) = <<>>
    BY <1>2, FetchedFacts
  <1>4. Passed = 0
    BY <1>1, <1>3 DEF Passed
  <1>5. Loop(0) = <<>>
    BY FlattenEmpty DEF Loop
  <1>6. Len(lchunk) = 0 /\ result \o out = <<>>
    BY <1>1
  <1>7. \A i \in 1 .. Len(lchunk) - lpos : left[Passed + i] = lchunk[lpos + i]
    BY <1>1, <1>6
  <1> HIDE DEF Passed
  <1> QED
    BY <1>1, <1>4, <1>5, <1>6, <1>7 DEF ResultInv

LEMMA ResultStep ==
    ASSUME OneType
    PROVE  ProbeInv /\ ResultInv /\ [Next]_vars => ResultInv'
  <1> SUFFICES ASSUME ProbeInv, ResultInv, [Next]_vars PROVE ResultInv'
    OBVIOUS
  <1>1. CASE Build \/ BuildEnd \/ UNCHANGED vars
    <2>1. /\ UNCHANGED <<inputs, lnext, lchunk, lpos>> /\ UNCHANGED <<mpos, out, result>>
          /\ (pc' = pc \/ (pc = "build" /\ pc' = "probe"))
      BY <1>1 DEF Build, BuildEnd, vars, inputs
    <2>2. /\ Passed' = Passed /\ Loop(Passed)' = Loop(Passed)
          /\ \A i \in 1 .. Len(lchunk') - lpos' : left'[Passed' + i] = lchunk'[lpos' + i]
          /\ Pairs(lchunk[lpos + 1])' = Pairs(lchunk[lpos + 1])
      BY <2>1, WindowFixed
    <2>3. left' = left /\ Passed \in Nat
      BY <2>1, InputsFixed DEF ResultInv
    <2>4. pc' # "emit" => result' \o out' = Loop(Passed)'
      BY <2>1, <2>2 DEF ResultInv
    <2>5. pc' = "emit" => result' \o out' = Loop(Passed)' \o SubSeq(Pairs(lchunk[lpos + 1])', 1, mpos')
      BY <2>1, <2>2 DEF ResultInv
    <2>6. pc' = "done" => Passed' = Len(left') /\ out' = <<>>
      BY <2>1, <2>2, <2>3 DEF ResultInv
    <2> HIDE DEF Passed
    <2> QED
      BY <2>2, <2>3, <2>4, <2>5, <2>6 DEF ResultInv
  <1> QED
    BY <1>1, SkipResult, FoundResult, EmitResult, BatchResult DEF Next, Step, Done

\* What was returned and what is in the batch are the rows of the nested loop
\* over the left rows that are done (HashJoin::Next).
THEOREM ResultInvariant ==
    ASSUME OneType
    PROVE  Spec => []ResultInv
  <1>1. Init => ResultInv
    BY ProbeInit, ResultInit
  <1>2. ProbeInv /\ ResultInv /\ [Next]_vars => ResultInv'
    BY ResultStep
  <1> QED
    BY <1>1, <1>2, ProbeInvariant, PTL DEF Spec

\* For all tables, however they are cut into chunks, and every size of a batch,
\* the join returns the rows of the nested-loop join, each once and in order,
\* when equal keys have the same type (HashJoin::Open, Next).
THEOREM JoinIsExact ==
    ASSUME OneType
    PROVE  Spec => []JoinExact
  <1>0. \A a, b, c \in Seq(Pair) : (a \o b) \o c = a \o (b \o c)
    BY ThreeParts, SMTT(40)
  <1>1. ProbeInv /\ ResultInv => JoinExact
    <2> SUFFICES ASSUME ProbeInv, ResultInv PROVE JoinExact
      OBVIOUS
    <2>1. /\ Types /\ Passed \in Nat /\ Passed <= Len(left) /\ Loop(Passed) \in Seq(Pair)
          /\ lpos < Len(lchunk) =>
                /\ Passed < Len(left) /\ lchunk[lpos + 1] \in Row
                /\ Loop(Passed + 1) = Loop(Passed) \o Pairs(lchunk[lpos + 1])
      BY PassedFacts
    <2>2. Len(left) \in Nat /\ result \in Seq(Pair) /\ out \in Seq(Pair) /\ mpos \in Nat
      BY <2>1, InputFacts DEF Types
    <2>3. PICK p \in Nat, s \in Seq(Pair) : p = Passed /\ s = result \o out
      <3>1. result \o out \in Seq(Pair)
        BY <2>2
      <3> QED
        BY <2>1, <3>1, Zenon
    <2>4. \E r \in Seq(Pair) : NestedLoop = s \o r
      <3>1. CASE pc # "emit"
        <4>1. s = Loop(p)
          BY <2>3, <3>1 DEF ResultInv
        <4> QED
          BY <2>1, <2>3, <4>1, LoopFacts
      <3>2. CASE pc = "emit"
        <4>1. lpos < Len(lchunk)
          BY <2>1, <3>2 DEF Types
        <4>2. PICK q \in Seq(Pair) : q = Pairs(lchunk[lpos + 1])
          BY <2>1, <4>1, PairsFacts
        <4>3. PICK l \in Seq(Pair) : l = Loop(p) /\ s = l \o SubSeq(q, 1, mpos) /\ Loop(p + 1) = l \o q
          BY <2>1, <2>3, <3>2, <4>1, <4>2 DEF ResultInv
        <4>4. mpos <= Len(q) /\ Len(q) \in Nat
          <5>1. /\ HasMatch(lchunk[lpos + 1].key) /\ mpos <= Len(matches)
                /\ matches = Lookup(KeyOf(lchunk[lpos + 1].key))
            BY <2>1, <3>2 DEF Types
          <5>2. Len(q) = Len(matches)
            BY <2>1, <3>2, <4>1, <4>2, <5>1, PairsOfMatches
          <5> QED
            BY <5>1, <5>2
        <4>5. \E t \in Seq(Pair) : q = SubSeq(q, 1, mpos) \o t /\ Len(t) = Len(q) - mpos
          BY <2>2, <4>4, CutInTwo
        <4>6. PICK t \in Seq(Pair) : q = SubSeq(q, 1, mpos) \o t
          BY <4>5
        <4>7. p + 1 \in Nat /\ p + 1 <= Len(left)
          BY <2>1, <2>2, <2>3, <4>1
        <4>8. PICK u \in Seq(Pair) : NestedLoop = Loop(p + 1) \o u
          BY <2>1, <4>7, LoopFacts
        <4>9. PICK h \in Seq(Pair) : h = SubSeq(q, 1, mpos)
          <5>1. SubSeq(q, 1, mpos) \in Seq(Pair)
            BY <2>2, <4>4
          <5> QED
            BY <5>1
        <4>10. (l \o (h \o t)) \o u = (l \o h) \o (t \o u) /\ t \o u \in Seq(Pair)
          <5>1. l \o h \in Seq(Pair) /\ t \o u \in Seq(Pair)
            OBVIOUS
          <5>2. (l \o h) \o t = l \o (h \o t)
            BY ConcatAssociative, SMTT(40)
          <5>3. ((l \o h) \o t) \o u = (l \o h) \o (t \o u)
            BY <1>0, <5>1, SMTT(40)
          <5> QED
            BY <5>1, <5>2, <5>3, Zenon
        <4> QED
          BY <4>3, <4>6, <4>8, <4>9, <4>10
      <3> QED
        BY <3>1, <3>2
    <2>5. IsPrefix(s, NestedLoop)
      BY <2>4 DEF IsPrefix
    <2>6. ASSUME pc = "done" PROVE result = NestedLoop
      <3>1. result \o out = Loop(Len(left)) /\ out = <<>>
        BY <2>6 DEF ResultInv
      <3>2. result \o out = result
        BY <2>2, <3>1
      <3> QED
        BY <3>1, <3>2 DEF Loop, NestedLoop
    <2> QED
      BY <2>3, <2>5, <2>6 DEF JoinExact
  <1> QED
    BY <1>1, ProbeInvariant, ResultInvariant, PTL

-----------------------------------------------------------------------------
(* Sums.                                                                   *)

LEMMA Cancel ==
    ASSUME NEW x \in Nat, NEW y \in Nat, NEW e \in Nat, NEW d \in Nat, x + e = y + (e + d)
    PROVE  x = y + d
  OBVIOUS

\* f has the sums of the prefixes of the m numbers in s.
IsSums(f, s, m) ==
    f \in [0 .. m -> Nat] /\ f[0] = 0 /\ \A k \in 1 .. m : f[k] = f[k - 1] + s[k]

LEMMA SumsExist ==
    ASSUME NEW m \in Nat, NEW s \in [1 .. m -> Nat]
    PROVE  \E f : IsSums(f, s, m)
  <1> DEFINE step == [k \in Nat |-> [d \in Nat |-> IF k \in 1 .. m THEN d + s[k] ELSE d]]
  <1>1. step \in [Nat -> [Nat -> Nat]] /\ 0 \in Nat
    OBVIOUS
  <1>2. \A k \in 1 .. m, d \in Nat : k \in Nat /\ step[k][d] = d + s[k]
    OBVIOUS
  <1>3. PICK f : IsRecursion(f, Nat, 0, step)
    <2> HIDE DEF step
    <2> QED
      BY <1>1, RecursionExists
  <1> HIDE DEF step
  <1>4. f \in [Nat -> Nat] /\ f[0] = 0
    BY <1>3 DEF IsRecursion
  <1>5. ASSUME NEW k \in 1 .. m PROVE f[k] = f[k - 1] + s[k]
    <2>1. k - 1 \in Nat /\ (k - 1) + 1 = k
      OBVIOUS
    <2>2. f[k] = step[k][f[k - 1]]
      BY <1>3, <2>1 DEF IsRecursion
    <2> QED
      BY <1>2, <1>4, <2>1, <2>2
  <1> DEFINE g == [k \in 0 .. m |-> f[k]]
  <1>6. IsSums(g, s, m)
    <2>1. \A k \in 0 .. m : k \in Nat /\ g[k] = f[k]
      OBVIOUS
    <2>2. g \in [0 .. m -> Nat] /\ 0 \in 0 .. m
      BY <1>4
    <2>3. \A k \in 1 .. m : k \in 0 .. m /\ k - 1 \in 0 .. m
      OBVIOUS
    <2> HIDE DEF g
    <2> QED
      BY <1>4, <1>5, <2>1, <2>2, <2>3 DEF IsSums
  <1> QED
    BY <1>6

\* Total is the last of them.
LEMMA TotalIs ==
    ASSUME NEW m \in Nat, NEW s \in [1 .. m -> Nat]
    PROVE  \E f : IsSums(f, s, m) /\ Agg!Total(s) = f[m]
  <1> DEFINE Eq(f) == f = [k \in 0 .. m |-> IF k = 0 THEN 0 ELSE f[k - 1] + s[k]]
  <1>1. PICK g : IsSums(g, s, m)
    BY SumsExist
  <1>2. Eq(g)
    <2>1. g \in [0 .. m -> Nat] /\ \A k \in 0 .. m : g[k] = IF k = 0 THEN 0 ELSE g[k - 1] + s[k]
      BY <1>1 DEF IsSums
    <2> QED
      BY <2>1
  <1>3. Len(s) = m
    OBVIOUS
  <1>4. Agg!Total(s) = (CHOOSE f : Eq(f))[m]
    BY <1>3 DEF Agg!Total
  <1>5. PICK f : f = (CHOOSE h : Eq(h))
    OBVIOUS
  <1>6. Eq(f)
    <2> HIDE DEF Eq
    <2> QED
      BY <1>2, <1>5
  <1>7. f[0] = 0 /\ \A k \in 1 .. m : f[k] = f[k - 1] + s[k]
    <2>1. \A k \in 0 .. m : f[k] = IF k = 0 THEN 0 ELSE f[k - 1] + s[k]
      BY <1>6
    <2>2. 0 \in 0 .. m /\ \A k \in 1 .. m : k \in 0 .. m /\ k # 0
      OBVIOUS
    <2> HIDE DEF Eq
    <2> QED
      BY <2>1, <2>2
  <1>8. \A k \in Nat : k <= m => f[k] \in Nat
    <2> HIDE DEF Eq
    <2> DEFINE T == {k \in Nat : k <= m => f[k] \in Nat}
    <2>1. 0 \in T
      BY <1>7
    <2>2. \A k \in Nat : k \in T => k + 1 \in T
      <3> SUFFICES ASSUME NEW k \in Nat, k + 1 <= m, f[k] \in Nat PROVE f[k + 1] \in Nat
        OBVIOUS
      <3>1. k + 1 \in 1 .. m /\ (k + 1) - 1 = k
        OBVIOUS
      <3>2. f[k + 1] = f[k] + s[k + 1] /\ s[k + 1] \in Nat
        BY <1>7, <3>1
      <3> QED
        BY <3>2
    <2> HIDE DEF T
    <2>3. \A k \in Nat : k \in T
      BY <2>1, <2>2, Induction
    <2> QED
      BY <2>3 DEF T
  <1>9. f \in [0 .. m -> Nat]
    <2>1. f = [k \in 0 .. m |-> IF k = 0 THEN 0 ELSE f[k - 1] + s[k]]
      BY <1>6
    <2>2. \A k \in 0 .. m : f[k] \in Nat
      BY <1>8
    <2> HIDE DEF Eq
    <2>3. PICK g2 : g2 = [k \in 0 .. m |-> f[k]]
      OBVIOUS
    <2>4. DOMAIN f = 0 .. m
      BY <2>1
    <2>5. f = [k \in DOMAIN f |-> f[k]]
      BY <2>1
    <2> QED
      BY <2>2, <2>4, <2>5
  <1> HIDE DEF Eq
  <1> QED
    BY <1>4, <1>5, <1>7, <1>9 DEF IsSums

\* A sum is a number; a sum of zeros is zero.
LEMMA TotalNat ==
    ASSUME NEW m \in Nat, NEW s \in [1 .. m -> Nat]
    PROVE  Agg!Total(s) \in Nat
  BY TotalIs DEF IsSums

\* Sums of numbers that differ in one place.
LEMMA TotalChange ==
    ASSUME NEW m \in Nat, NEW s \in [1 .. m -> Nat], NEW t \in [1 .. m -> Nat],
           NEW i \in 1 .. m, \A j \in 1 .. m : j # i => t[j] = s[j]
    PROVE  Agg!Total(t) + s[i] = Agg!Total(s) + t[i]
  <1>1. PICK f : IsSums(f, s, m) /\ Agg!Total(s) = f[m]
    BY TotalIs
  <1>2. PICK g : IsSums(g, t, m) /\ Agg!Total(t) = g[m]
    BY TotalIs
  <1>3. /\ f \in [0 .. m -> Nat] /\ f[0] = 0 /\ \A k \in 1 .. m : f[k] = f[k - 1] + s[k]
        /\ g \in [0 .. m -> Nat] /\ g[0] = 0 /\ \A k \in 1 .. m : g[k] = g[k - 1] + t[k]
    BY <1>1, <1>2 DEF IsSums
  <1> DEFINE T == {k \in Nat : k <= m => IF k < i THEN g[k] = f[k] ELSE g[k] + s[i] = f[k] + t[i]}
  <1>4. 0 \in T
    BY <1>3
  <1>5. \A k \in Nat : k \in T => k + 1 \in T
    <2> SUFFICES ASSUME NEW k \in Nat, k + 1 <= m, k \in T
                 PROVE  IF k + 1 < i THEN g[k + 1] = f[k + 1] ELSE g[k + 1] + s[i] = f[k + 1] + t[i]
      OBVIOUS
    <2>1. k + 1 \in 1 .. m /\ (k + 1) - 1 = k /\ k \in 0 .. m /\ k <= m
      OBVIOUS
    <2>2. PICK a \in Nat, b \in Nat, x \in Nat, y \in Nat, si \in Nat, ti \in Nat :
             /\ a = f[k] /\ b = g[k] /\ x = s[k + 1] /\ y = t[k + 1] /\ si = s[i] /\ ti = t[i]
      BY <1>3, <2>1
    <2>3. f[k + 1] = a + x /\ g[k + 1] = b + y
      BY <1>3, <2>1, <2>2
    <2>4. IF k < i THEN b = a ELSE b + si = a + ti
      BY <2>1, <2>2
    <2>5. CASE k + 1 < i
      <3>1. y = x
        BY <2>1, <2>2, <2>5
      <3> QED
        BY <2>3, <2>4, <2>5, <3>1
    <2>6. CASE k + 1 = i
      <3>1. y = ti /\ x = si /\ b = a
        BY <2>2, <2>4, <2>6
      <3> QED
        BY <2>2, <2>3, <2>6, <3>1
    <2>7. CASE k + 1 > i
      <3>1. y = x /\ b + si = a + ti
        BY <2>1, <2>2, <2>4, <2>7
      <3>2. (b + y) + si = (a + x) + ti
        BY <3>1
      <3>3. ~ (k + 1 < i)
        BY <2>7
      <3> QED
        BY <2>2, <2>3, <3>2, <3>3
    <2> QED
      BY <2>5, <2>6, <2>7
  <1> HIDE DEF T
  <1>6. m \in T
    BY <1>4, <1>5, Induction
  <1> QED
    BY <1>1, <1>2, <1>6 DEF T

\* Sums of the same numbers and one more.
LEMMA TotalAppend ==
    ASSUME NEW m \in Nat, NEW s \in [1 .. m -> Nat], NEW t \in [1 .. m + 1 -> Nat],
           \A j \in 1 .. m : t[j] = s[j]
    PROVE  Agg!Total(t) = Agg!Total(s) + t[m + 1]
  <1>1. PICK f : IsSums(f, s, m) /\ Agg!Total(s) = f[m]
    BY TotalIs
  <1>2. PICK g : IsSums(g, t, m + 1) /\ Agg!Total(t) = g[m + 1]
    <2>1. m + 1 \in Nat
      OBVIOUS
    <2> QED
      BY <2>1, TotalIs
  <1>3. /\ f \in [0 .. m -> Nat] /\ f[0] = 0 /\ \A k \in 1 .. m : f[k] = f[k - 1] + s[k]
        /\ g[0] = 0 /\ \A k \in 1 .. m + 1 : g[k] = g[k - 1] + t[k]
    BY <1>1, <1>2 DEF IsSums
  <1> DEFINE T == {k \in Nat : k <= m => g[k] = f[k]}
  <1>4. 0 \in T
    BY <1>3
  <1>5. \A k \in Nat : k \in T => k + 1 \in T
    <2> SUFFICES ASSUME NEW k \in Nat, k + 1 <= m, k \in T PROVE g[k + 1] = f[k + 1]
      OBVIOUS
    <2>1. k + 1 \in 1 .. m /\ k + 1 \in 1 .. m + 1 /\ (k + 1) - 1 = k /\ k <= m
      OBVIOUS
    <2> QED
      BY <1>3, <2>1
  <1> HIDE DEF T
  <1>6. m \in T
    BY <1>4, <1>5, Induction
  <1>7. g[m] = f[m]
    BY <1>6 DEF T
  <1>8. m + 1 \in 1 .. m + 1 /\ (m + 1) - 1 = m
    OBVIOUS
  <1> QED
    BY <1>1, <1>2, <1>3, <1>7, <1>8

LEMMA TotalZero ==
    ASSUME NEW m \in Nat, NEW s \in [1 .. m -> Nat], \A k \in 1 .. m : s[k] = 0
    PROVE  Agg!Total(s) = 0
  <1>1. PICK f : IsSums(f, s, m) /\ Agg!Total(s) = f[m]
    BY TotalIs
  <1>2. f \in [0 .. m -> Nat] /\ f[0] = 0 /\ \A k \in 1 .. m : f[k] = f[k - 1] + s[k]
    BY <1>1 DEF IsSums
  <1> DEFINE T == {k \in Nat : k <= m => f[k] = 0}
  <1>3. 0 \in T
    BY <1>2
  <1>4. \A k \in Nat : k \in T => k + 1 \in T
    <2> SUFFICES ASSUME NEW k \in Nat, k + 1 <= m, k \in T PROVE f[k + 1] = 0
      OBVIOUS
    <2>1. k + 1 \in 1 .. m /\ (k + 1) - 1 = k /\ k <= m
      OBVIOUS
    <2> QED
      BY <1>2, <2>1
  <1> HIDE DEF T
  <1>5. m \in T
    BY <1>3, <1>4, Induction
  <1> QED
    BY <1>1, <1>5 DEF T

-----------------------------------------------------------------------------
(* Groups.                                                                 *)

AggVal == Int \cup {Null}
Acc == [count : Nat, nonnull : Nat, isum : Int, minv : AggVal, maxv : AggVal]
PartialGroup == [key : Seq(Seq(Nat) \cup {Null}), acc : Acc]

LEMMA FindFacts ==
    ASSUME NEW gs, Len(gs) \in Nat, NEW key
    PROVE  Agg!Find(gs, key) \in 0 .. Len(gs)
  <1> DEFINE I == {i \in 1 .. Len(gs) : Agg!KeyString(gs[i].key) = Agg!KeyString(key)}
  <1>1. Agg!Find(gs, key) = IF I # {} THEN Agg!Min(I) ELSE 0
    BY DEF Agg!Find, Agg!SelectInSeq
  <1>2. I \subseteq Nat /\ I \subseteq 1 .. Len(gs)
    OBVIOUS
  <1>3. CASE I # {}
    <2> HIDE DEF I
    <2>1. \E x \in I : \A y \in I : x <= y
      BY <1>2, <1>3, LeastNatural
    <2>2. Agg!Min(I) \in I
      BY <2>1 DEF Agg!Min
    <2>3. PICK k \in 1 .. Len(gs) : k = Agg!Min(I)
      BY <1>2, <2>2
    <2>4. Agg!Find(gs, key) = k /\ k \in 0 .. Len(gs)
      BY <1>1, <1>3, <2>3
    <2> QED
      BY <2>4
  <1>4. CASE I = {}
    BY <1>1, <1>4
  <1> QED
    BY <1>3, <1>4

\* Every row counts once.
LEMMA UpdateGroupFacts ==
    ASSUME NEW acc \in Acc, NEW v \in AggVal
    PROVE  Agg!UpdateGroup(acc, v) \in Acc /\ Agg!UpdateGroup(acc, v).count = acc.count + 1
  <1>1. CASE v = Null
    BY <1>1 DEF Agg!UpdateGroup, Acc
  <1>2. CASE v # Null
    <2>1. v \in Int
      BY <1>2 DEF AggVal
    <2>2. Agg!Lesser(v, acc.minv) \in AggVal /\ Agg!Greater(v, acc.maxv) \in AggVal
      BY DEF Agg!Lesser, Agg!Greater, Acc
    <2> QED
      BY <1>2, <2>1, <2>2 DEF Agg!UpdateGroup, Acc
  <1> QED
    BY <1>1, <1>2

LEMMA MergeAccFacts ==
    ASSUME NEW dst \in Acc, NEW src \in Acc
    PROVE  Agg!MergeAcc(dst, src) \in Acc /\ Agg!MergeAcc(dst, src).count = dst.count + src.count
  <1>1. /\ (IF src.minv = Null THEN dst.minv ELSE Agg!Lesser(src.minv, dst.minv)) \in AggVal
        /\ (IF src.maxv = Null THEN dst.maxv ELSE Agg!Greater(src.maxv, dst.maxv)) \in AggVal
    BY DEF Agg!Lesser, Agg!Greater, Acc
  <1> QED
    BY <1>1 DEF Agg!MergeAcc, Acc

\* The counts of groups.
Counts(gs) == [k \in 1 .. Len(gs) |-> gs[k].acc.count]

LEMMA CountedFacts ==
    ASSUME NEW gs \in Seq(PartialGroup)
    PROVE  /\ Counts(gs) \in [1 .. Len(gs) -> Nat] /\ Len(gs) \in Nat
           /\ Agg!Counted(gs) = Agg!Total(Counts(gs)) /\ Agg!Counted(gs) \in Nat
  <1>1. Counts(gs) \in [1 .. Len(gs) -> Nat] /\ Len(gs) \in Nat
    <2>1. \A k \in 1 .. Len(gs) : gs[k] \in PartialGroup
      OBVIOUS
    <2>2. \A k \in 1 .. Len(gs) : gs[k].acc.count \in Nat
      BY <2>1 DEF PartialGroup, Acc
    <2> QED
      BY <2>2 DEF Counts
  <1>2. Agg!Counted(gs) = Agg!Total(Counts(gs))
    BY DEF Agg!Counted, Counts
  <1> QED
    BY <1>1, <1>2, TotalNat

\* A group at the end adds its count.
LEMMA CountedAppend ==
    ASSUME NEW gs \in Seq(PartialGroup), NEW g \in PartialGroup
    PROVE  Append(gs, g) \in Seq(PartialGroup) /\ Agg!Counted(Append(gs, g)) = Agg!Counted(gs) + g.acc.count
  <1>1. PICK m \in Nat : m = Len(gs)
    OBVIOUS
  <1>2. PICK hs : hs = Append(gs, g) /\ hs \in Seq(PartialGroup) /\ Len(hs) = m + 1
    <2>1. Append(gs, g) \in Seq(PartialGroup)
      OBVIOUS
    <2>2. Len(Append(gs, g)) = Len(gs) + 1
      OBVIOUS
    <2> QED
      BY <1>1, <2>1, <2>2
  <1>3. hs[m + 1] = g /\ \A k \in 1 .. m : hs[k] = gs[k]
    BY <1>1, <1>2
  <1>4. Counts(gs) \in [1 .. m -> Nat] /\ Agg!Counted(gs) = Agg!Total(Counts(gs))
    BY <1>1, CountedFacts
  <1>5. Counts(hs) \in [1 .. m + 1 -> Nat] /\ Agg!Counted(hs) = Agg!Total(Counts(hs))
    BY <1>2, CountedFacts
  <1>6. Counts(hs)[m + 1] = g.acc.count /\ \A k \in 1 .. m : Counts(hs)[k] = Counts(gs)[k]
    BY <1>1, <1>2, <1>3 DEF Counts
  <1>7. Agg!Total(Counts(hs)) = Agg!Total(Counts(gs)) + Counts(hs)[m + 1]
    BY <1>4, <1>5, <1>6, TotalAppend
  <1> QED
    BY <1>2, <1>4, <1>5, <1>6, <1>7

\* A change of one accumulator changes the sum by as much.
LEMMA CountedChange ==
    ASSUME NEW gs \in Seq(PartialGroup), NEW i \in 1 .. Len(gs), NEW a \in Acc, NEW d \in Nat,
           a.count = gs[i].acc.count + d, NEW hs, hs = [gs EXCEPT ![i].acc = a]
    PROVE  hs \in Seq(PartialGroup) /\ Agg!Counted(hs) = Agg!Counted(gs) + d
  <1>1. PICK m \in Nat : m = Len(gs)
    OBVIOUS
  <1>2. gs[i] \in PartialGroup
    OBVIOUS
  <1>3. [gs[i] EXCEPT !.acc = a] \in PartialGroup /\ [gs[i] EXCEPT !.acc = a].acc = a
    BY <1>2 DEF PartialGroup
  <1>4. hs = [gs EXCEPT ![i] = [gs[i] EXCEPT !.acc = a]]
    OBVIOUS
  <1>5. /\ hs \in Seq(PartialGroup) /\ Len(hs) = m /\ hs[i].acc = a
        /\ \A k \in 1 .. m : k # i => hs[k] = gs[k]
    BY <1>1, <1>3, <1>4
  <1>6. Counts(gs) \in [1 .. m -> Nat] /\ Agg!Counted(gs) = Agg!Total(Counts(gs)) /\ Agg!Counted(gs) \in Nat
    BY <1>1, CountedFacts
  <1>7. Counts(hs) \in [1 .. m -> Nat] /\ Agg!Counted(hs) = Agg!Total(Counts(hs)) /\ Agg!Counted(hs) \in Nat
    BY <1>5, CountedFacts
  <1>8. /\ Counts(hs)[i] = a.count /\ Counts(gs)[i] = gs[i].acc.count
        /\ \A k \in 1 .. m : k # i => Counts(hs)[k] = Counts(gs)[k]
    BY <1>1, <1>5 DEF Counts
  <1>9. Agg!Total(Counts(hs)) + Counts(gs)[i] = Agg!Total(Counts(gs)) + Counts(hs)[i]
    BY <1>1, <1>6, <1>7, <1>8, TotalChange
  <1>10. PICK x \in Nat, y \in Nat, e \in Nat :
            x = Agg!Counted(hs) /\ y = Agg!Counted(gs) /\ e = gs[i].acc.count
    BY <1>2, <1>6, <1>7 DEF PartialGroup, Acc
  <1>11. x + e = y + (e + d)
    BY <1>6, <1>7, <1>8, <1>9, <1>10
  <1>12. x = y + d
    BY <1>11, Cancel
  <1> QED
    BY <1>5, <1>10, <1>12

\* ProcessRow counts one row more.
LEMMA ProcessRowFacts ==
    ASSUME NEW gs \in Seq(PartialGroup), NEW row \in Agg!Row
    PROVE  Agg!ProcessRow(gs, row) \in Seq(PartialGroup) /\ Agg!Counted(Agg!ProcessRow(gs, row)) = Agg!Counted(gs) + 1
  <1>1. row.key \in Seq(Seq(Nat) \cup {Null}) /\ row.val \in AggVal
    BY DEF Agg!Row, AggVal
  <1>2. PICK k \in 0 .. Len(gs) : k = Agg!Find(gs, row.key)
    BY FindFacts
  <1>3. CASE k = 0
    <2>1. Agg!NoAcc \in Acc /\ Agg!NoAcc.count = 0
      BY DEF Agg!NoAcc, Acc, AggVal
    <2>2. PICK a \in Acc : a = Agg!UpdateGroup(Agg!NoAcc, row.val) /\ a.count = 1
      BY <1>1, <2>1, UpdateGroupFacts
    <2>3. PICK g \in PartialGroup : g = [key |-> row.key, acc |-> a] /\ g.acc.count = 1
      <3>1. [key |-> row.key, acc |-> a] \in PartialGroup
        BY <1>1 DEF PartialGroup
      <3> QED
        BY <2>2, <3>1
    <2>4. Agg!ProcessRow(gs, row) = Append(gs, g)
      BY <1>2, <1>3, <2>2, <2>3 DEF Agg!ProcessRow
    <2> QED
      BY <2>3, <2>4, CountedAppend
  <1>4. CASE k # 0
    <2>1. k \in 1 .. Len(gs)
      BY <1>4
    <2>2. gs[k].acc \in Acc
      <3>1. gs[k] \in PartialGroup
        BY <2>1
      <3> QED
        BY <3>1 DEF PartialGroup
    <2>3. PICK a \in Acc : a = Agg!UpdateGroup(gs[k].acc, row.val) /\ a.count = gs[k].acc.count + 1
      BY <1>1, <2>2, UpdateGroupFacts
    <2>4. PICK hs : hs = [gs EXCEPT ![k].acc = a]
      OBVIOUS
    <2>5. Agg!ProcessRow(gs, row) = hs
      BY <1>2, <1>4, <2>3, <2>4 DEF Agg!ProcessRow
    <2>6. 1 \in Nat
      OBVIOUS
    <2>7. hs \in Seq(PartialGroup) /\ Agg!Counted(hs) = Agg!Counted(gs) + 1
      BY <2>1, <2>3, <2>4, <2>6, CountedChange
    <2> QED
      BY <2>5, <2>7
  <1> QED
    BY <1>3, <1>4

\* MergeGroup adds the count of the partial group.
LEMMA MergeGroupFacts ==
    ASSUME NEW gs \in Seq(PartialGroup), NEW g \in PartialGroup
    PROVE  /\ Agg!MergeGroup(gs, g) \in Seq(PartialGroup)
           /\ Agg!Counted(Agg!MergeGroup(gs, g)) = Agg!Counted(gs) + g.acc.count
  <1>1. PICK k \in 0 .. Len(gs) : k = Agg!Find(gs, g.key)
    BY FindFacts
  <1>2. CASE k = 0
    <2>1. Agg!MergeGroup(gs, g) = Append(gs, g)
      BY <1>1, <1>2 DEF Agg!MergeGroup
    <2> QED
      BY <2>1, CountedAppend
  <1>3. CASE k # 0
    <2>1. k \in 1 .. Len(gs)
      BY <1>3
    <2>2. gs[k].acc \in Acc /\ g.acc \in Acc /\ g.acc.count \in Nat
      <3>1. gs[k] \in PartialGroup
        BY <2>1
      <3> QED
        BY <3>1 DEF PartialGroup, Acc
    <2>3. PICK a \in Acc : a = Agg!MergeAcc(gs[k].acc, g.acc) /\ a.count = gs[k].acc.count + g.acc.count
      BY <2>2, MergeAccFacts
    <2>4. PICK hs : hs = [gs EXCEPT ![k].acc = a]
      OBVIOUS
    <2>5. Agg!MergeGroup(gs, g) = hs
      BY <1>1, <1>3, <2>3, <2>4 DEF Agg!MergeGroup
    <2>6. hs \in Seq(PartialGroup) /\ Agg!Counted(hs) = Agg!Counted(gs) + g.acc.count
      BY <2>1, <2>2, <2>3, <2>4, CountedChange, Zenon
    <2> QED
      BY <2>5, <2>6
  <1> QED
    BY <1>2, <1>3

-----------------------------------------------------------------------------
(* The rows that are counted.                                              *)

WorkerState == [pc : {"new", "fetch", "work", "exit"}, ci : Nat, i : Nat]

CountTypes ==
    /\ input \in Inputs /\ next_chunk \in Nat
    /\ worker \in [1 .. hw -> WorkerState]
    /\ partials \in [1 .. hw -> Seq(PartialGroup)]

\* A chunk that is worked on has been taken from the cursor, by one worker.
ChunksOwned ==
    /\ \A w \in 1 .. hw : worker[w].pc = "work" =>
          /\ worker[w].ci \in 1 .. Len(input) /\ worker[w].ci <= next_chunk
          /\ worker[w].i < Len(input[worker[w].ci])
    /\ \A w \in 1 .. hw, u \in 1 .. hw :
          worker[w].pc = "work" /\ worker[u].pc = "work" /\ worker[w].ci = worker[u].ci => w = u

\* Every row that has been taken is in the groups of one worker.
RowsTaken == Agg!Total(Agg!CountedRows) = Agg!Total(Agg!FinishedRows) + Agg!Total(Agg!BusyRows)

CountInv == CountTypes /\ ChunksOwned /\ RowsTaken

LEMMA ChunkFacts ==
    ASSUME Agg!HashAggregateAssumption, input \in Inputs
    PROVE  /\ input \in Seq(Seq(Agg!Row) \ {<<>>}) /\ Len(input) \in Nat /\ hw \in Nat
           /\ \A c \in 1 .. Len(input) :
                 /\ input[c] \in Seq(Agg!Row) /\ Len(input[c]) \in Nat /\ Len(input[c]) > 0
                 /\ \A r \in 1 .. Len(input[c]) : input[c][r] \in Agg!Row
  <1>1. input \in Seq(Seq(Agg!Row) \ {<<>>}) /\ hw \in Nat
    BY DEF Agg!HashAggregateAssumption
  <1>2. \A c \in 1 .. Len(input) : input[c] \in Seq(Agg!Row) /\ input[c] # <<>>
    BY <1>1
  <1>3. ASSUME NEW s \in Seq(Agg!Row), s # <<>>
        PROVE  Len(s) \in Nat /\ Len(s) > 0 /\ \A r \in 1 .. Len(s) : s[r] \in Agg!Row
    BY <1>3
  <1> QED
    BY <1>1, <1>2, <1>3

\* What is added up are numbers.
LEMMA RowsAreNumbers ==
    ASSUME Agg!HashAggregateAssumption, CountTypes
    PROVE  /\ Agg!CountedRows \in [1 .. hw -> Nat] /\ Agg!BusyRows \in [1 .. hw -> Nat]
           /\ Agg!FinishedRows \in [1 .. Len(input) -> Nat]
           /\ \A w \in 1 .. hw : Agg!CountedRows[w] = Agg!Counted(partials[w])
           /\ \A w \in 1 .. hw : Agg!BusyRows[w] = IF worker[w].pc = "work" THEN worker[w].i ELSE 0
           /\ \A c \in 1 .. Len(input) :
                 Agg!FinishedRows[c] = IF c <= next_chunk /\ ~ Agg!Busy(c) THEN Len(input[c]) ELSE 0
  <1>1. \A w \in 1 .. hw : Agg!Counted(partials[w]) \in Nat
    <2> TAKE w \in 1 .. hw
    <2>1. partials[w] \in Seq(PartialGroup)
      BY DEF CountTypes
    <2> QED
      BY <2>1, CountedFacts
  <1>2. \A w \in 1 .. hw : worker[w].i \in Nat
    BY DEF CountTypes, WorkerState
  <1>3. \A c \in 1 .. Len(input) : Len(input[c]) \in Nat
    BY ChunkFacts DEF CountTypes
  <1>4. Agg!CountedRows \in [1 .. hw -> Nat] /\ \A w \in 1 .. hw : Agg!CountedRows[w] = Agg!Counted(partials[w])
    BY <1>1 DEF Agg!CountedRows, Agg!Workers
  <1>5. /\ Agg!BusyRows \in [1 .. hw -> Nat]
        /\ \A w \in 1 .. hw : Agg!BusyRows[w] = IF worker[w].pc = "work" THEN worker[w].i ELSE 0
    BY <1>2 DEF Agg!BusyRows, Agg!Workers
  <1>6. /\ Agg!FinishedRows \in [1 .. Len(input) -> Nat]
        /\ \A c \in 1 .. Len(input) :
              Agg!FinishedRows[c] = IF c <= next_chunk /\ ~ Agg!Busy(c) THEN Len(input[c]) ELSE 0
    BY <1>3 DEF Agg!FinishedRows
  <1> QED
    BY <1>4, <1>5, <1>6

\* No groups count nothing.
LEMMA NothingCounted == Agg!Counted(<<>>) = 0 /\ <<>> \in Seq(PartialGroup)
  <1>1. <<>> \in Seq(PartialGroup) /\ Len(<<>>) = 0
    OBVIOUS
  <1>2. Counts(<<>>) \in [1 .. 0 -> Nat] /\ Agg!Counted(<<>>) = Agg!Total(Counts(<<>>))
    BY <1>1, CountedFacts
  <1>3. \A k \in 1 .. 0 : Counts(<<>>)[k] = 0
    OBVIOUS
  <1> QED
    BY <1>1, <1>2, <1>3, TotalZero

LEMMA CountInit == ASSUME Agg!HashAggregateAssumption PROVE Agg!Init => CountInv
  <1> SUFFICES ASSUME Agg!Init PROVE CountInv
    OBVIOUS
  <1>1. hw \in Nat
    BY DEF Agg!HashAggregateAssumption
  <1>2. /\ input \in Inputs /\ next_chunk = 0
        /\ worker = [w \in 1 .. hw |-> [pc |-> "new", ci |-> 0, i |-> 0]]
        /\ partials = [w \in 1 .. hw |-> <<>>]
    BY DEF Agg!Init, Agg!Workers
  <1>3. CountTypes
    BY <1>2 DEF CountTypes, WorkerState
  <1>4. ChunksOwned
    BY <1>2 DEF ChunksOwned
  <1>5. \A w \in 1 .. hw : Agg!CountedRows[w] = 0 /\ Agg!BusyRows[w] = 0
    BY <1>2, <1>3, NothingCounted, RowsAreNumbers
  <1>6. \A c \in 1 .. Len(input) : Agg!FinishedRows[c] = 0
    <2>1. Len(input) \in Nat
      BY <1>2, ChunkFacts
    <2> QED
      BY <1>2, <1>3, <2>1, RowsAreNumbers
  <1>7. Agg!Total(Agg!CountedRows) = 0 /\ Agg!Total(Agg!BusyRows) = 0 /\ Agg!Total(Agg!FinishedRows) = 0
    <2>1. Len(input) \in Nat
      BY <1>2, ChunkFacts
    <2> QED
      BY <1>1, <1>3, <1>5, <1>6, <2>1, RowsAreNumbers, TotalZero
  <1> QED
    BY <1>3, <1>4, <1>7 DEF CountInv, RowsTaken

\* Most steps change none of the state that this is about.
CountSame == input' = input /\ next_chunk' = next_chunk /\ worker' = worker /\ partials' = partials

LEMMA CountStays == ASSUME CountInv, CountSame PROVE CountInv'
  <1>1. CountTypes' /\ ChunksOwned'
    BY DEF CountInv, CountSame, CountTypes, ChunksOwned
  <1>2. Agg!CountedRows' = Agg!CountedRows /\ Agg!BusyRows' = Agg!BusyRows /\ Agg!FinishedRows' = Agg!FinishedRows
    BY DEF CountSame, Agg!CountedRows, Agg!BusyRows, Agg!FinishedRows, Agg!Busy
  <1>3. RowsTaken'
    BY <1>2 DEF CountInv, RowsTaken
  <1> QED
    BY <1>1, <1>3 DEF CountInv

\* A worker is started.
LEMMA SpawnCount ==
    ASSUME Agg!HashAggregateAssumption, CountInv, NEW w \in 1 .. hw, Agg!Spawn(w)
    PROVE  CountInv'
  <1>1. /\ input' = input /\ next_chunk' = next_chunk /\ partials' = partials
        /\ worker[w].pc = "new" /\ worker' = [worker EXCEPT ![w].pc = "fetch"]
    BY DEF Agg!Spawn
  <1>2. CountTypes /\ ChunksOwned
    BY DEF CountInv
  <1>3. worker \in [1 .. hw -> WorkerState] /\ worker[w] \in WorkerState
    BY <1>2 DEF CountTypes
  <1>4. [worker[w] EXCEPT !.pc = "fetch"] \in WorkerState /\ [worker[w] EXCEPT !.pc = "fetch"].pc = "fetch"
    BY <1>3 DEF WorkerState
  <1>5. /\ worker' \in [1 .. hw -> WorkerState] /\ worker'[w].pc = "fetch"
        /\ \A u \in 1 .. hw : u # w => worker'[u] = worker[u]
    BY <1>1, <1>3, <1>4
  <1>6. CountTypes'
    BY <1>1, <1>2, <1>5 DEF CountTypes
  <1>7. \A u \in 1 .. hw : worker'[u].pc = "work" <=> worker[u].pc = "work"
    BY <1>1, <1>5
  <1>8. \A u \in 1 .. hw : worker[u].pc = "work" => worker'[u] = worker[u]
    BY <1>1, <1>5
  <1>9. ChunksOwned'
    BY <1>1, <1>2, <1>7, <1>8 DEF ChunksOwned
  <1>10. Agg!CountedRows' = Agg!CountedRows
    BY <1>1 DEF Agg!CountedRows
  <1>11. Agg!BusyRows' = Agg!BusyRows
    BY <1>7, <1>8 DEF Agg!BusyRows, Agg!Workers
  <1>12. Agg!FinishedRows' = Agg!FinishedRows
    <2>1. \A c : Agg!Busy(c)' <=> Agg!Busy(c)
      BY <1>7, <1>8 DEF Agg!Busy, Agg!Workers
    <2> QED
      BY <1>1, <2>1 DEF Agg!FinishedRows
  <1>13. RowsTaken'
    BY <1>10, <1>11, <1>12 DEF CountInv, RowsTaken
  <1> QED
    BY <1>6, <1>9, <1>13 DEF CountInv

\* A worker takes a chunk, or finds that there are no more.
LEMMA FetchCount ==
    ASSUME Agg!HashAggregateAssumption, CountInv, NEW w \in 1 .. hw, Agg!Fetch(w)
    PROVE  CountInv'
  <1> DEFINE new == IF next_chunk >= Len(input) THEN [worker[w] EXCEPT !.pc = "exit"]
                    ELSE [pc |-> "work", ci |-> next_chunk + 1, i |-> 0]
  <1>1. /\ input' = input /\ next_chunk' = next_chunk + 1 /\ partials' = partials
        /\ worker[w].pc = "fetch" /\ worker' = [worker EXCEPT ![w] = new]
    BY DEF Agg!Fetch
  <1>2. CountTypes /\ ChunksOwned
    BY DEF CountInv
  <1>3. worker \in [1 .. hw -> WorkerState] /\ worker[w] \in WorkerState /\ next_chunk \in Nat /\ input \in Inputs
    BY <1>2 DEF CountTypes
  <1>4. /\ Len(input) \in Nat
        /\ \A c \in 1 .. Len(input) : Len(input[c]) \in Nat /\ Len(input[c]) > 0
    BY <1>3, ChunkFacts
  <1>5. new \in WorkerState
    BY <1>3 DEF WorkerState
  <1>6. new.pc = "work" => new.ci = next_chunk + 1 /\ new.i = 0 /\ next_chunk < Len(input)
    <2>1. CASE next_chunk >= Len(input)
      <3>1. new.pc = "exit"
        BY <1>3, <2>1 DEF WorkerState
      <3> QED
        BY <3>1
    <2>2. CASE ~ (next_chunk >= Len(input))
      BY <1>3, <1>4, <2>2
    <2> QED
      BY <2>1, <2>2
  <1>7. new.pc # "work" => next_chunk >= Len(input)
    OBVIOUS
  <1> HIDE DEF new
  <1>8. /\ worker' \in [1 .. hw -> WorkerState] /\ worker'[w] = new
        /\ \A u \in 1 .. hw : u # w => worker'[u] = worker[u]
    BY <1>1, <1>3, <1>5
  <1>9. CountTypes'
    BY <1>1, <1>2, <1>3, <1>8 DEF CountTypes
  <1>10. \A u \in 1 .. hw : worker[u].pc = "work" =>
            /\ u # w /\ worker'[u] = worker[u] /\ worker[u].ci \in 1 .. Len(input) /\ worker[u].ci <= next_chunk
            /\ worker[u].i < Len(input[worker[u].ci])
    BY <1>1, <1>2, <1>8 DEF ChunksOwned
  <1>11. \A u \in 1 .. hw : worker'[u].pc = "work" =>
            \/ worker[u].pc = "work" /\ worker'[u] = worker[u] /\ u # w
            \/ u = w /\ worker'[u] = new /\ worker'[u].ci = next_chunk + 1 /\ worker'[u].i = 0 /\ next_chunk < Len(input)
    BY <1>1, <1>6, <1>8
  <1>12. ChunksOwned'
    <2>1. ASSUME NEW u \in 1 .. hw, worker'[u].pc = "work"
          PROVE  /\ worker'[u].ci \in 1 .. Len(input) /\ worker'[u].ci <= next_chunk + 1
                 /\ worker'[u].i < Len(input[worker'[u].ci])
      <3>1. CASE worker[u].pc = "work" /\ worker'[u] = worker[u]
        <4>1. PICK c \in 1 .. Len(input) : c = worker[u].ci /\ c <= next_chunk
          BY <1>10, <3>1
        <4>2. c <= next_chunk + 1
          BY <1>3, <1>4, <4>1
        <4> QED
          BY <1>10, <3>1, <4>1, <4>2
      <3>2. CASE worker'[u].ci = next_chunk + 1 /\ worker'[u].i = 0 /\ next_chunk < Len(input)
        <4>1. next_chunk + 1 \in 1 .. Len(input) /\ next_chunk + 1 <= next_chunk + 1
          BY <1>3, <1>4, <3>2
        <4>2. 0 < Len(input[next_chunk + 1])
          BY <1>4, <4>1
        <4> QED
          BY <3>2, <4>1, <4>2
      <3> QED
        BY <1>11, <2>1, <3>1, <3>2
    <2>2. ASSUME NEW u \in 1 .. hw, NEW v \in 1 .. hw, worker'[u].pc = "work", worker'[v].pc = "work",
                 worker'[u].ci = worker'[v].ci
          PROVE  u = v
      <3>1. \A x \in 1 .. hw : worker[x].pc = "work" => worker[x].ci # next_chunk + 1
        BY <1>3, <1>4, <1>10
      <3>2. CASE u # w /\ v # w
        BY <1>2, <1>11, <2>2, <3>2 DEF ChunksOwned
      <3>3. CASE u = w \/ v = w
        BY <1>11, <2>2, <3>1, <3>3
      <3> QED
        BY <3>2, <3>3
    <2> QED
      BY <1>1, <2>1, <2>2 DEF ChunksOwned
  <1>13. Agg!CountedRows' = Agg!CountedRows
    BY <1>1 DEF Agg!CountedRows
  <1>14. Agg!BusyRows' = Agg!BusyRows
    <2>1. ASSUME NEW u \in 1 .. hw
          PROVE  (IF worker'[u].pc = "work" THEN worker'[u].i ELSE 0) = (IF worker[u].pc = "work" THEN worker[u].i ELSE 0)
      BY <1>1, <1>8, <1>10, <1>11
    <2> QED
      BY <2>1 DEF Agg!BusyRows, Agg!Workers
  <1>15. Agg!FinishedRows' = Agg!FinishedRows
    <2>1. ASSUME NEW c \in 1 .. Len(input)
          PROVE  (c <= next_chunk + 1 /\ ~ Agg!Busy(c)') <=> (c <= next_chunk /\ ~ Agg!Busy(c))
      <3>1. CASE c <= next_chunk
        <4>1. c # next_chunk + 1 /\ c <= next_chunk + 1
          BY <1>3, <1>4, <3>1
        <4>2. Agg!Busy(c)' <=> Agg!Busy(c)
          BY <1>10, <1>11, <4>1 DEF Agg!Busy, Agg!Workers
        <4> QED
          BY <3>1, <4>1, <4>2
      <3>2. CASE c = next_chunk + 1
        <4>1. ~ (next_chunk >= Len(input)) /\ ~ (c <= next_chunk)
          BY <1>3, <1>4, <3>2
        <4>2. worker'[w].pc = "work" /\ worker'[w].ci = c
          BY <1>6, <1>7, <1>8, <3>2, <4>1
        <4>3. Agg!Busy(c)'
          BY <4>2 DEF Agg!Busy, Agg!Workers
        <4> QED
          BY <4>1, <4>3
      <3>3. CASE c > next_chunk + 1
        <4>1. ~ (c <= next_chunk) /\ ~ (c <= next_chunk + 1)
          BY <1>3, <1>4, <3>3
        <4> QED
          BY <4>1
      <3>4. c <= next_chunk \/ c = next_chunk + 1 \/ c > next_chunk + 1
        BY <1>3, <1>4
      <3> QED
        BY <3>1, <3>2, <3>3, <3>4
    <2> QED
      BY <1>1, <2>1 DEF Agg!FinishedRows
  <1>16. RowsTaken'
    BY <1>13, <1>14, <1>15 DEF CountInv, RowsTaken
  <1> QED
    BY <1>9, <1>12, <1>16 DEF CountInv

\* A chunk is finished.
LEMMA FinishedChange ==
    ASSUME Len(input) \in Nat, NEW c \in 1 .. Len(input), NEW fr \in [1 .. Len(input) -> Nat],
           Agg!FinishedRows \in [1 .. Len(input) -> Nat],
           \A b \in 1 .. Len(input) : b # c => fr[b] = Agg!FinishedRows[b]
    PROVE  Agg!Total(fr) + Agg!FinishedRows[c] = Agg!Total(Agg!FinishedRows) + fr[c]
  BY TotalChange

\* A worker counts a row of its chunk.
LEMMA WorkCount ==
    ASSUME Agg!HashAggregateAssumption, CountInv, NEW w \in 1 .. hw, Agg!Work(w)
    PROVE  CountInv'
  <1>1. CountTypes /\ ChunksOwned /\ RowsTaken
    BY DEF CountInv
  <1>2. /\ worker \in [1 .. hw -> WorkerState] /\ partials \in [1 .. hw -> Seq(PartialGroup)]
        /\ next_chunk \in Nat /\ input \in Inputs
    BY <1>1 DEF CountTypes
  <1>3. worker[w].pc = "work"
    BY DEF Agg!Work
  <1>4. PICK c \in 1 .. Len(input) : c = worker[w].ci /\ c <= next_chunk
    BY <1>1, <1>3 DEF ChunksOwned
  <1>5. /\ Len(input) \in Nat /\ hw \in Nat /\ Len(input[c]) \in Nat
        /\ \A r \in 1 .. Len(input[c]) : input[c][r] \in Agg!Row
    BY <1>2, <1>4, ChunkFacts
  <1>6. PICK n \in Nat, i \in Nat : n = Len(input[c]) /\ i = worker[w].i /\ i < n
    <2>1. worker[w].i \in Nat
      BY <1>2 DEF WorkerState
    <2> QED
      BY <1>1, <1>3, <1>4, <1>5, <2>1 DEF ChunksOwned
  <1> DEFINE new == [worker[w] EXCEPT !.i = @ + 1, !.pc = IF i + 1 = n THEN "fetch" ELSE "work"]
  <1>7. /\ input' = input /\ next_chunk' = next_chunk
        /\ worker' = [worker EXCEPT ![w] = new]
        /\ partials' = [partials EXCEPT ![w] = Agg!ProcessRow(partials[w], input[c][i + 1])]
    BY <1>4, <1>6 DEF Agg!Work
  <1>8. /\ new \in WorkerState /\ new.i = i + 1 /\ new.ci = c
        /\ new.pc = IF i + 1 = n THEN "fetch" ELSE "work"
    <2>1. worker[w] \in WorkerState /\ worker[w].ci = c /\ worker[w].i = i
      BY <1>2, <1>4, <1>6
    <2>2. PICK p \in {"fetch", "work"} : p = IF i + 1 = n THEN "fetch" ELSE "work"
      OBVIOUS
    <2>3. PICK a : a = [worker[w] EXCEPT !.i = i + 1]
      OBVIOUS
    <2>4. a \in WorkerState /\ a.i = i + 1 /\ a.ci = c
      BY <2>1, <2>3 DEF WorkerState
    <2>5. PICK b : b = [a EXCEPT !.pc = p]
      OBVIOUS
    <2>6. b \in WorkerState /\ b.i = i + 1 /\ b.ci = c /\ b.pc = p
      BY <2>2, <2>4, <2>5 DEF WorkerState
    <2>7. new = b
      BY <2>1, <2>2, <2>3, <2>5
    <2> QED
      BY <2>2, <2>6, <2>7
  <1> HIDE DEF new
  <1>9. /\ worker' \in [1 .. hw -> WorkerState] /\ worker'[w] = new
        /\ \A u \in 1 .. hw : u # w => worker'[u] = worker[u]
    BY <1>2, <1>7, <1>8
  <1>10. input[c][i + 1] \in Agg!Row /\ partials[w] \in Seq(PartialGroup)
    <2>1. i + 1 \in 1 .. Len(input[c])
      BY <1>6
    <2> QED
      BY <1>2, <1>5, <2>1
  <1>11. PICK hs \in Seq(PartialGroup) : hs = Agg!ProcessRow(partials[w], input[c][i + 1])
                                  /\ Agg!Counted(hs) = Agg!Counted(partials[w]) + 1
    BY <1>10, ProcessRowFacts
  <1>12. /\ partials' \in [1 .. hw -> Seq(PartialGroup)] /\ partials'[w] = hs
         /\ \A u \in 1 .. hw : u # w => partials'[u] = partials[u]
    BY <1>2, <1>7, <1>11
  <1>13. CountTypes'
    BY <1>2, <1>7, <1>9, <1>12 DEF CountTypes
  <1>14. ASSUME NEW u \in 1 .. hw, worker'[u].pc = "work"
         PROVE  worker[u].pc = "work" /\ worker'[u].ci = worker[u].ci
    BY <1>3, <1>4, <1>8, <1>9, <1>14
  <1>15. ChunksOwned'
    <2>1. ASSUME NEW u \in 1 .. hw, worker'[u].pc = "work"
          PROVE  /\ worker'[u].ci \in 1 .. Len(input) /\ worker'[u].ci <= next_chunk
                 /\ worker'[u].i < Len(input[worker'[u].ci])
      <3>1. CASE u # w
        <4>1. worker'[u] = worker[u]
          BY <1>9, <3>1
        <4> QED
          BY <1>1, <2>1, <4>1 DEF ChunksOwned
      <3>2. CASE u = w
        <4>1. i + 1 # n
          BY <1>8, <1>9, <2>1, <3>2
        <4>2. i + 1 < n
          BY <1>6, <4>1
        <4> QED
          BY <1>4, <1>6, <1>8, <1>9, <3>2, <4>2
      <3> QED
        BY <3>1, <3>2
    <2>2. ASSUME NEW u \in 1 .. hw, NEW v \in 1 .. hw, worker'[u].pc = "work", worker'[v].pc = "work",
                 worker'[u].ci = worker'[v].ci
          PROVE  u = v
      <3>1. /\ worker[u].pc = "work" /\ worker'[u].ci = worker[u].ci
            /\ worker[v].pc = "work" /\ worker'[v].ci = worker[v].ci
        BY <1>14, <2>2
      <3> QED
        BY <1>1, <2>2, <3>1 DEF ChunksOwned
    <2> QED
      BY <1>7, <2>1, <2>2 DEF ChunksOwned
  <1>16. /\ Agg!CountedRows \in [1 .. hw -> Nat] /\ Agg!BusyRows \in [1 .. hw -> Nat]
         /\ Agg!FinishedRows \in [1 .. Len(input) -> Nat]
         /\ \A u \in 1 .. hw : Agg!CountedRows[u] = Agg!Counted(partials[u])
         /\ \A u \in 1 .. hw : Agg!BusyRows[u] = IF worker[u].pc = "work" THEN worker[u].i ELSE 0
         /\ \A b \in 1 .. Len(input) :
               Agg!FinishedRows[b] = IF b <= next_chunk /\ ~ Agg!Busy(b) THEN Len(input[b]) ELSE 0
    BY <1>1, RowsAreNumbers
  <1>17. PICK cr \in [1 .. hw -> Nat] : /\ cr = Agg!CountedRows' /\ cr[w] = Agg!CountedRows[w] + 1
                                        /\ \A u \in 1 .. hw : u # w => cr[u] = Agg!CountedRows[u]
    <2>1. Agg!CountedRows' = [u \in 1 .. hw |-> Agg!Counted(partials'[u])]
      BY DEF Agg!CountedRows, Agg!Workers
    <2>2. \A u \in 1 .. hw : Agg!Counted(partials'[u]) \in Nat
      <3> TAKE u \in 1 .. hw
      <3>1. partials'[u] \in Seq(PartialGroup)
        BY <1>12
      <3> QED
        BY <3>1, CountedFacts
    <2>3. Agg!CountedRows' \in [1 .. hw -> Nat]
      BY <2>1, <2>2
    <2>4. \A u \in 1 .. hw : Agg!CountedRows'[u] = Agg!Counted(partials'[u])
      BY <2>1
    <2>5. Agg!CountedRows'[w] = Agg!CountedRows[w] + 1
      BY <1>11, <1>12, <1>16, <2>4
    <2>6. \A u \in 1 .. hw : u # w => Agg!CountedRows'[u] = Agg!CountedRows[u]
      BY <1>12, <1>16, <2>4
    <2> QED
      BY <2>3, <2>5, <2>6
  <1>18. PICK br \in [1 .. hw -> Nat] : /\ br = Agg!BusyRows' /\ br[w] = (IF i + 1 = n THEN 0 ELSE i + 1)
                                        /\ \A u \in 1 .. hw : u # w => br[u] = Agg!BusyRows[u]
    <2>1. Agg!BusyRows' = [u \in 1 .. hw |-> IF worker'[u].pc = "work" THEN worker'[u].i ELSE 0]
      BY DEF Agg!BusyRows, Agg!Workers
    <2>2. \A u \in 1 .. hw : worker'[u].i \in Nat
      BY <1>9 DEF WorkerState
    <2>3. Agg!BusyRows' \in [1 .. hw -> Nat]
      BY <2>1, <2>2
    <2>4. Agg!BusyRows'[w] = (IF i + 1 = n THEN 0 ELSE i + 1)
      BY <1>8, <1>9, <2>1
    <2>5. \A u \in 1 .. hw : u # w => Agg!BusyRows'[u] = Agg!BusyRows[u]
      BY <1>9, <1>16, <2>1
    <2> QED
      BY <2>3, <2>4, <2>5
  <1>19. Agg!BusyRows[w] = i
    BY <1>3, <1>6, <1>16
  <1>20. Agg!Total(cr) = Agg!Total(Agg!CountedRows) + 1
    <2>1. Agg!Total(cr) + Agg!CountedRows[w] = Agg!Total(Agg!CountedRows) + cr[w]
      BY <1>5, <1>16, <1>17, TotalChange
    <2>2. PICK x \in Nat, y \in Nat, z \in Nat :
             x = Agg!Total(cr) /\ y = Agg!Total(Agg!CountedRows) /\ z = Agg!CountedRows[w]
      BY <1>5, <1>16, <1>17, TotalNat
    <2>3. x + z = y + (z + 1)
      BY <1>17, <2>1, <2>2
    <2>4. x = y + 1
      BY <2>3, Cancel
    <2> QED
      BY <2>2, <2>4
  <1>21. Agg!Total(br) + i = Agg!Total(Agg!BusyRows) + (IF i + 1 = n THEN 0 ELSE i + 1)
    <2>1. Agg!Total(br) + Agg!BusyRows[w] = Agg!Total(Agg!BusyRows) + br[w]
      BY <1>5, <1>16, <1>18, TotalChange
    <2> QED
      BY <1>18, <1>19, <2>1
  <1>22. PICK x \in Nat, y \in Nat, b0 \in Nat, b1 \in Nat, f0 \in Nat :
            /\ x = Agg!Total(Agg!CountedRows) /\ y = Agg!Total(cr) /\ b0 = Agg!Total(Agg!BusyRows)
            /\ b1 = Agg!Total(br) /\ f0 = Agg!Total(Agg!FinishedRows)
    BY <1>5, <1>16, <1>17, <1>18, TotalNat
  <1>23. x = f0 + b0 /\ y = x + 1 /\ b1 + i = b0 + (IF i + 1 = n THEN 0 ELSE i + 1)
    BY <1>1, <1>20, <1>21, <1>22 DEF RowsTaken
  <1>24. Agg!FinishedRows' =
            [b \in 1 .. Len(input) |-> IF b <= next_chunk /\ ~ Agg!Busy(b)' THEN Len(input[b]) ELSE 0]
    BY <1>7 DEF Agg!FinishedRows
  \* The busy chunks are the same but for the one that may be finished.
  <1>25. ASSUME NEW b \in 1 .. Len(input), b # c PROVE Agg!Busy(b)' <=> Agg!Busy(b)
    BY <1>4, <1>8, <1>9, <1>25 DEF Agg!Busy, Agg!Workers
  <1>26. Agg!Busy(c)
    BY <1>3, <1>4 DEF Agg!Busy, Agg!Workers
  <1>27. Agg!Busy(c)' <=> i + 1 # n
    <2>1. CASE i + 1 # n
      <3>1. worker'[w].pc = "work" /\ worker'[w].ci = c
        BY <1>8, <1>9, <2>1
      <3> QED
        BY <2>1, <3>1 DEF Agg!Busy, Agg!Workers
    <2>2. CASE i + 1 = n
      <3>1. worker'[w].pc # "work"
        BY <1>8, <1>9, <2>2
      <3>2. ASSUME NEW u \in 1 .. hw, worker'[u].pc = "work", worker'[u].ci = c PROVE FALSE
        <4>1. u # w /\ worker[u].pc = "work" /\ worker[u].ci = c
          BY <1>14, <3>1, <3>2
        <4> QED
          BY <1>1, <1>3, <1>4, <4>1 DEF ChunksOwned
      <3> QED
        BY <2>2, <3>2 DEF Agg!Busy, Agg!Workers
    <2> QED
      BY <2>1, <2>2
  <1>28. RowsTaken' <=> y = Agg!Total(Agg!FinishedRows') + b1
    BY <1>17, <1>18, <1>22 DEF RowsTaken
  <1>29. CASE i + 1 # n
    <2>1. \A b \in 1 .. Len(input) : Agg!Busy(b)' <=> Agg!Busy(b)
      BY <1>25, <1>26, <1>27, <1>29
    <2>2. Agg!FinishedRows' = Agg!FinishedRows
      BY <1>7, <2>1 DEF Agg!FinishedRows
    <2>3. y = f0 + b1
      BY <1>23, <1>29
    <2> QED
      BY <1>13, <1>15, <1>22, <1>28, <2>2, <2>3 DEF CountInv
  <1>30. CASE i + 1 = n
    <2>1. PICK fr \in [1 .. Len(input) -> Nat] :
             /\ fr = Agg!FinishedRows' /\ fr[c] = n
             /\ \A b \in 1 .. Len(input) : b # c => fr[b] = Agg!FinishedRows[b]
      <3>1. \A b \in 1 .. Len(input) : Len(input[b]) \in Nat
        BY <1>2, ChunkFacts
      <3>2. Agg!FinishedRows' \in [1 .. Len(input) -> Nat]
        BY <1>24, <3>1
      <3>3. Agg!FinishedRows'[c] = n
        BY <1>4, <1>6, <1>24, <1>27, <1>30
      <3>4. \A b \in 1 .. Len(input) : b # c => Agg!FinishedRows'[b] = Agg!FinishedRows[b]
        BY <1>16, <1>24, <1>25
      <3> QED
        BY <3>2, <3>3, <3>4
    <2>2. Agg!FinishedRows[c] = 0
      BY <1>16, <1>26
    <2>3. Agg!Total(fr) + Agg!FinishedRows[c] = Agg!Total(Agg!FinishedRows) + fr[c]
      <3>1. /\ Len(input) \in Nat /\ Agg!FinishedRows \in [1 .. Len(input) -> Nat]
            /\ \A b \in 1 .. Len(input) : b # c => fr[b] = Agg!FinishedRows[b]
        BY <1>5, <1>16, <2>1
      <3> QED
        BY <2>1, <3>1, FinishedChange
    <2>4. PICK f1 \in Nat : f1 = Agg!Total(fr)
      BY <1>5, <2>1, TotalNat
    <2>5. f1 + 0 = f0 + n
      BY <1>22, <2>1, <2>2, <2>3, <2>4
    <2>6. y = f1 + b1
      BY <1>23, <1>30, <2>5
    <2> QED
      BY <1>13, <1>15, <1>28, <2>1, <2>4, <2>6 DEF CountInv
  <1> QED
    BY <1>29, <1>30

LEMMA CountNext ==
    ASSUME Agg!HashAggregateAssumption, CountInv, [Agg!Next]_Agg!vars PROVE CountInv'
  <1>1. CASE UNCHANGED Agg!vars
    <2>1. CountSame
      BY <1>1 DEF Agg!vars, CountSame
    <2> QED
      BY <2>1, CountStays
  <1>2. CASE Agg!MainStep
    <2>1. CASE \E w \in 1 .. hw : Agg!Spawn(w)
      BY <2>1, SpawnCount
    <2>2. CASE \/ Agg!OpenEmpty \/ Agg!OpenPool \/ Agg!Join \/ Agg!Merge \/ Agg!MergeEnd
               \/ Agg!NextBatch \/ Agg!NextEmpty \/ Agg!Close
      <3>1. CountSame
        <4>1. CASE Agg!OpenEmpty \/ Agg!OpenPool \/ Agg!Join
          BY <4>1 DEF CountSame, Agg!OpenEmpty, Agg!OpenPool, Agg!Join
        <4>2. CASE Agg!Merge \/ Agg!MergeEnd
          BY <4>2 DEF CountSame, Agg!Merge, Agg!MergeEnd
        <4>3. CASE Agg!NextBatch \/ Agg!NextEmpty \/ Agg!Close
          BY <4>3 DEF CountSame, Agg!NextBatch, Agg!NextEmpty, Agg!Close
        <4> QED
          BY <2>2, <4>1, <4>2, <4>3
      <3> QED
        BY <3>1, CountStays
    <2> QED
      BY <1>2, <2>1, <2>2 DEF Agg!MainStep, Agg!Workers
  <1>3. CASE \E w \in 1 .. hw : Agg!WorkerStep(w)
    <2>1. PICK w \in 1 .. hw : Agg!Fetch(w) \/ Agg!Work(w)
      BY <1>3 DEF Agg!WorkerStep
    <2> QED
      BY <2>1, FetchCount, WorkCount
  <1>4. CASE Agg!Done
    <2>1. CountSame
      BY <1>4 DEF Agg!Done, Agg!vars, CountSame
    <2> QED
      BY <2>1, CountStays
  <1> QED
    BY <1>1, <1>2, <1>3, <1>4 DEF Agg!Next, Agg!Workers

-----------------------------------------------------------------------------
(* The merge.                                                              *)

\* The first p of m numbers.
UpTo(s, m, p) == [k \in 1 .. m |-> IF k <= p THEN s[k] ELSE 0]

LEMMA UpToFacts ==
    ASSUME NEW m \in Nat, NEW s \in [1 .. m -> Nat], NEW p \in Nat
    PROVE  /\ Agg!Total(UpTo(s, m, p)) \in Nat /\ Agg!Total(UpTo(s, m, 0)) = 0
           /\ (\A k \in 1 .. m : k > p => s[k] = 0) => UpTo(s, m, p) = s
  <1>1. \A q \in Nat : UpTo(s, m, q) \in [1 .. m -> Nat]
    BY DEF UpTo
  <1>2. Agg!Total(UpTo(s, m, p)) \in Nat
    BY <1>1, TotalNat
  <1>3. Agg!Total(UpTo(s, m, 0)) = 0
    <2>1. \A k \in 1 .. m : UpTo(s, m, 0)[k] = 0
      BY DEF UpTo
    <2> QED
      BY <1>1, <2>1, TotalZero
  <1>4. ASSUME \A k \in 1 .. m : k > p => s[k] = 0 PROVE UpTo(s, m, p) = s
    <2>1. \A k \in 1 .. m : UpTo(s, m, p)[k] = s[k]
      BY <1>4 DEF UpTo
    <2>2. UpTo(s, m, p) \in [1 .. m -> Nat]
      BY <1>1
    <2> QED
      BY <2>1, <2>2
  <1> QED
    BY <1>2, <1>3, <1>4

\* One number more.
LEMMA UpToStep ==
    ASSUME NEW m \in Nat, NEW s \in [1 .. m -> Nat], NEW p \in Nat, p < m
    PROVE  Agg!Total(UpTo(s, m, p + 1)) = Agg!Total(UpTo(s, m, p)) + s[p + 1]
  <1>1. PICK a \in [1 .. m -> Nat], b \in [1 .. m -> Nat] : a = UpTo(s, m, p) /\ b = UpTo(s, m, p + 1)
    <2>1. \A q \in Nat : UpTo(s, m, q) \in [1 .. m -> Nat]
      BY DEF UpTo
    <2>2. p + 1 \in Nat
      OBVIOUS
    <2> QED
      BY <2>1, <2>2
  <1>2. p + 1 \in 1 .. m
    OBVIOUS
  <1>3. a[p + 1] = 0 /\ b[p + 1] = s[p + 1] /\ \A j \in 1 .. m : j # p + 1 => b[j] = a[j]
    BY <1>1, <1>2 DEF UpTo
  <1>4. Agg!Total(b) + a[p + 1] = Agg!Total(a) + b[p + 1]
    BY <1>2, <1>3, TotalChange
  <1>5. Agg!Total(b) \in Nat
    BY TotalNat
  <1> QED
    BY <1>1, <1>3, <1>4, <1>5

\* The threads, seen from the one that waits for them and merges.
WorkersEnd ==
    /\ \A w \in 1 .. hw : worker[w].pc = "exit" => next_chunk >= Len(input)
    /\ \A w \in 1 .. hw : worker[w].pc = "new" => partials[w] = <<>>
    /\ \A w \in 1 .. hw : w > Agg!num_workers => worker[w].pc = "new"
    /\ agg_pc \in {"spawn", "join", "merge"} => input # <<>>
    /\ agg_pc \in {"merge", "ready", "exhausted"} =>
          next_chunk >= Len(input) /\ \A w \in 1 .. hw : worker[w].pc \in {"exit", "new"}

\* What is merged so far are the groups of the first workers and the first
\* groups of the next one.
Merging ==
    /\ groups \in Seq(PartialGroup) /\ merged \in [partials : Nat, groups : Nat]
    /\ agg_pc \in {"drained", "spawn", "join"} => groups = <<>> /\ merged = [partials |-> 0, groups |-> 0]
    /\ agg_pc = "merge" =>
          /\ merged.partials <= Agg!num_workers
          /\ IF merged.partials < Agg!num_workers
             THEN LET partial == partials[merged.partials + 1] IN
                  /\ merged.groups <= Len(partial)
                  /\ Agg!Counted(groups) = Agg!Total(UpTo(Agg!CountedRows, hw, merged.partials))
                                             + Agg!Total(UpTo(Counts(partial), Len(partial), merged.groups))
             ELSE Agg!Counted(groups) = Agg!Total(UpTo(Agg!CountedRows, hw, merged.partials))

AllMerged == agg_pc \in {"ready", "exhausted"} => Agg!Counted(groups) = Agg!Total(Agg!InputRows)

MergeInv == CountInv /\ WorkersEnd /\ Merging /\ AllMerged

LEMMA WorkersFacts ==
    ASSUME Agg!HashAggregateAssumption, input \in Inputs
    PROVE  /\ Agg!num_workers \in 0 .. hw /\ hw \in Nat /\ Len(input) \in Nat
           /\ input # <<>> => Agg!num_workers > 0
           /\ input = <<>> => Agg!num_workers = 0
  <1>1. input \in Seq(Seq(Agg!Row) \ {<<>>}) /\ hw \in Nat \ {0}
    BY DEF Agg!HashAggregateAssumption
  <1>2. Len(input) \in Nat /\ (input # <<>> => Len(input) > 0) /\ (input = <<>> => Len(input) = 0)
    BY <1>1
  <1> QED
    BY <1>1, <1>2 DEF Agg!num_workers

\* The default group counts nothing.
LEMMA DefaultCounted ==
    ASSUME NEW gs \in Seq(PartialGroup)
    PROVE  Agg!Default(gs) \in Seq(PartialGroup) /\ Agg!Counted(Agg!Default(gs)) = Agg!Counted(gs)
  <1>1. CASE ~ grouped /\ gs = <<>>
    <2>1. PICK g : g = [key |-> <<>>, acc |-> Agg!NoAcc]
      OBVIOUS
    <2>2. g \in PartialGroup /\ g.acc.count = 0
      BY <2>1 DEF Agg!NoAcc, PartialGroup, Acc, AggVal
    <2>3. Agg!Default(gs) = <<g>> /\ <<g>> = Append(<<>>, g)
      BY <1>1, <2>1 DEF Agg!Default
    <2>4. Append(<<>>, g) \in Seq(PartialGroup) /\ Agg!Counted(Append(<<>>, g)) = Agg!Counted(<<>>) + g.acc.count
      BY <2>2, NothingCounted, CountedAppend
    <2>5. Agg!Counted(Append(<<>>, g)) = 0
      BY <2>2, <2>4, NothingCounted
    <2> QED
      BY <1>1, <2>3, <2>4, <2>5, NothingCounted
  <1>2. CASE ~ (~ grouped /\ gs = <<>>)
    BY <1>2 DEF Agg!Default
  <1> QED
    BY <1>1, <1>2

\* When all workers are joined, all rows are in their groups.
LEMMA AllCounted ==
    ASSUME Agg!HashAggregateAssumption, CountInv, next_chunk >= Len(input),
           \A w \in 1 .. hw : worker[w].pc \in {"exit", "new"}
    PROVE  Agg!Total(Agg!CountedRows) = Agg!Total(Agg!InputRows)
  <1>1. CountTypes /\ RowsTaken
    BY DEF CountInv
  <1>2. Len(input) \in Nat /\ hw \in Nat /\ next_chunk \in Nat
    BY <1>1, ChunkFacts DEF CountTypes
  <1>3. /\ Agg!CountedRows \in [1 .. hw -> Nat] /\ Agg!BusyRows \in [1 .. hw -> Nat]
        /\ \A w \in 1 .. hw : Agg!BusyRows[w] = 0
    BY <1>1, RowsAreNumbers
  <1>4. Agg!Total(Agg!BusyRows) = 0
    BY <1>2, <1>3, TotalZero
  <1>5. \A c : ~ Agg!Busy(c)
    BY DEF Agg!Busy, Agg!Workers
  <1>6. \A c \in 1 .. Len(input) : c <= next_chunk
    BY <1>2
  <1>7. Agg!FinishedRows = Agg!InputRows
    BY <1>5, <1>6 DEF Agg!FinishedRows, Agg!InputRows
  <1>8. Agg!Total(Agg!FinishedRows) \in Nat
    BY <1>1, <1>2, RowsAreNumbers, TotalNat
  <1> QED
    BY <1>1, <1>4, <1>7, <1>8 DEF RowsTaken
LEMMA MergeInit == ASSUME Agg!HashAggregateAssumption PROVE Agg!Init => MergeInv
  <1> SUFFICES ASSUME Agg!Init PROVE MergeInv
    OBVIOUS
  <1>1. /\ agg_pc = "drained" /\ groups = <<>> /\ merged = [partials |-> 0, groups |-> 0]
        /\ worker = [w \in 1 .. hw |-> [pc |-> "new", ci |-> 0, i |-> 0]]
        /\ partials = [w \in 1 .. hw |-> <<>>]
    BY DEF Agg!Init, Agg!Workers
  <1>2. WorkersEnd
    BY <1>1 DEF WorkersEnd
  <1>3. Merging /\ AllMerged
    BY <1>1, NothingCounted DEF Merging, AllMerged
  <1> QED
    BY <1>2, <1>3, CountInit DEF MergeInv

\* While a worker is at work nothing is merged.
LEMMA MergeWorker ==
    ASSUME Agg!HashAggregateAssumption, MergeInv, CountInv', NEW w \in 1 .. hw, Agg!WorkerStep(w)
    PROVE  MergeInv'
  <1>1. CountTypes /\ WorkersEnd /\ Merging
    BY DEF MergeInv, CountInv
  <1>2. /\ input' = input /\ agg_pc' = agg_pc /\ groups' = groups /\ merged' = merged
        /\ worker[w].pc \in {"fetch", "work"}
    BY DEF Agg!WorkerStep, Agg!Fetch, Agg!Work
  <1>3. agg_pc \notin {"merge", "ready", "exhausted"}
    BY <1>1, <1>2 DEF WorkersEnd
  <1>4. next_chunk \in Nat /\ Len(input) \in Nat /\ worker \in [1 .. hw -> WorkerState]
    BY <1>1, ChunkFacts DEF CountTypes
  <1>5. /\ next_chunk' \in {next_chunk, next_chunk + 1}
        /\ worker'[w].pc # "new" /\ (worker'[w].pc = "exit" => next_chunk >= Len(input))
        /\ \A u \in 1 .. hw : u # w => worker'[u] = worker[u] /\ partials'[u] = partials[u]
    <2>1. CASE Agg!Fetch(w)
      BY <1>4, <2>1 DEF Agg!Fetch, WorkerState
    <2>2. CASE Agg!Work(w)
      <3>1. /\ next_chunk' = next_chunk
            /\ worker' = [worker EXCEPT ![w] = [worker[w] EXCEPT !.i = @ + 1,
                          !.pc = IF worker[w].i + 1 = Len(input[worker[w].ci]) THEN "fetch" ELSE "work"]]
            /\ \E x : partials' = [partials EXCEPT ![w] = x]
        BY <2>2 DEF Agg!Work
      <3>2. worker[w] \in WorkerState
        BY <1>4
      <3>3. PICK p \in {"fetch", "work"} : p = IF worker[w].i + 1 = Len(input[worker[w].ci]) THEN "fetch" ELSE "work"
        OBVIOUS
      <3>4. PICK a : a = [worker[w] EXCEPT !.i = worker[w].i + 1]
        OBVIOUS
      <3>5. a \in WorkerState
        BY <3>2, <3>4 DEF WorkerState
      <3>6. PICK b : b = [a EXCEPT !.pc = p]
        OBVIOUS
      <3>7. b.pc = p
        BY <3>5, <3>6 DEF WorkerState
      <3>8. worker' = [worker EXCEPT ![w] = b]
        BY <3>1, <3>3, <3>4, <3>6
      <3>9. PICK x : partials' = [partials EXCEPT ![w] = x]
        BY <3>1
      <3>10. worker'[w].pc \in {"fetch", "work"} /\ \A u \in 1 .. hw : u # w => worker'[u] = worker[u]
        BY <1>4, <3>7, <3>8
      <3>11. \A u \in 1 .. hw : u # w => partials'[u] = partials[u]
        BY <1>1, <3>9 DEF CountTypes
      <3> QED
        BY <3>1, <3>10, <3>11
    <2> QED
      BY <2>1, <2>2 DEF Agg!WorkerStep
  <1>6. next_chunk >= Len(input) => next_chunk' >= Len(input)
    BY <1>4, <1>5
  <1>7. Agg!num_workers' = Agg!num_workers
    BY <1>2 DEF Agg!num_workers
  <1>8. WorkersEnd'
    <2>1. \A u \in 1 .. hw : worker'[u].pc = "exit" => next_chunk' >= Len(input)
      BY <1>1, <1>5, <1>6 DEF WorkersEnd
    <2>2. \A u \in 1 .. hw : worker'[u].pc = "new" => partials'[u] = <<>>
      BY <1>1, <1>5 DEF WorkersEnd
    <2>3. ~ (w > Agg!num_workers)
      BY <1>1, <1>2 DEF WorkersEnd
    <2>4. \A u \in 1 .. hw : u > Agg!num_workers => worker'[u].pc = "new"
      BY <1>1, <1>5, <2>3 DEF WorkersEnd
    <2>5. agg_pc \in {"spawn", "join", "merge"} => input # <<>>
      BY <1>1 DEF WorkersEnd
    <2> QED
      BY <1>2, <1>3, <1>7, <2>1, <2>2, <2>4, <2>5 DEF WorkersEnd
  <1>9. Merging' /\ AllMerged'
    BY <1>1, <1>2, <1>3 DEF Merging, AllMerged
  <1> QED
    BY <1>8, <1>9 DEF MergeInv

\* Up to the end of Join the groups are empty.
LEMMA MergeSpawn ==
    ASSUME Agg!HashAggregateAssumption, MergeInv, CountInv', NEW w \in 1 .. hw, Agg!Spawn(w)
    PROVE  MergeInv'
  <1>1. CountTypes /\ WorkersEnd /\ Merging
    BY DEF MergeInv, CountInv
  <1>2. /\ input' = input /\ groups' = groups /\ merged' = merged /\ partials' = partials
        /\ next_chunk' = next_chunk /\ agg_pc = "spawn" /\ agg_pc' \in {"spawn", "join"}
        /\ w \in 1 .. Agg!num_workers /\ worker' = [worker EXCEPT ![w].pc = "fetch"]
    BY DEF Agg!Spawn
  <1>3. Agg!num_workers' = Agg!num_workers /\ Agg!num_workers \in Nat
    BY <1>1, <1>2, WorkersFacts DEF CountTypes, Agg!num_workers
  <1>4. worker'[w].pc = "fetch" /\ \A u \in 1 .. hw : u # w => worker'[u] = worker[u]
    <2>1. worker \in [1 .. hw -> WorkerState] /\ worker[w] \in WorkerState
      BY <1>1 DEF CountTypes
    <2>2. [worker[w] EXCEPT !.pc = "fetch"].pc = "fetch"
      BY <2>1 DEF WorkerState
    <2> QED
      BY <1>2, <2>1, <2>2
  <1>5. ~ (w > Agg!num_workers)
    BY <1>2, <1>3
  <1>6. WorkersEnd'
    BY <1>1, <1>2, <1>3, <1>4, <1>5 DEF WorkersEnd
  <1>7. Merging' /\ AllMerged'
    BY <1>1, <1>2 DEF Merging, AllMerged
  <1> QED
    BY <1>6, <1>7 DEF MergeInv

LEMMA MergeOpen ==
    ASSUME Agg!HashAggregateAssumption, MergeInv, CountInv', Agg!OpenEmpty \/ Agg!OpenPool
    PROVE  MergeInv'
  <1>1. CountTypes /\ WorkersEnd /\ Merging
    BY DEF MergeInv, CountInv
  <1>2. /\ input' = input /\ merged' = merged /\ partials' = partials
        /\ next_chunk' = next_chunk /\ worker' = worker /\ agg_pc = "drained"
    BY DEF Agg!OpenEmpty, Agg!OpenPool
  <1>3. groups = <<>> /\ merged = [partials |-> 0, groups |-> 0]
    BY <1>1, <1>2 DEF Merging
  <1>4. Agg!num_workers' = Agg!num_workers
    BY <1>2 DEF Agg!num_workers
  <1>5. CASE Agg!OpenPool
    <2>1. groups' = groups /\ agg_pc' = "spawn" /\ input # <<>>
      BY <1>5 DEF Agg!OpenPool
    <2>2. WorkersEnd'
      BY <1>1, <1>2, <1>4, <2>1 DEF WorkersEnd
    <2>3. Merging' /\ AllMerged'
      BY <1>1, <1>2, <1>3, <2>1 DEF Merging, AllMerged
    <2> QED
      BY <2>2, <2>3 DEF MergeInv
  <1>6. CASE Agg!OpenEmpty
    <2>1. groups' = Agg!Default(groups) /\ agg_pc' = "ready" /\ input = <<>>
      BY <1>6 DEF Agg!OpenEmpty
    <2>2. groups' \in Seq(PartialGroup) /\ Agg!Counted(groups') = 0
      BY <1>3, <2>1, NothingCounted, DefaultCounted
    <2>3. Agg!num_workers = 0 /\ hw \in Nat /\ next_chunk \in Nat /\ Len(input) = 0
      BY <1>1, <2>1, WorkersFacts DEF CountTypes
    <2>4. \A w \in 1 .. hw : worker[w].pc = "new"
      BY <1>1, <2>3 DEF WorkersEnd
    <2>5. WorkersEnd'
      BY <1>1, <1>2, <1>4, <2>1, <2>3, <2>4 DEF WorkersEnd
    <2>6. Merging'
      BY <1>1, <1>2, <2>1, <2>2 DEF Merging
    <2>7. Agg!Total(Agg!InputRows)' = 0
      <3>1. Agg!InputRows' \in [1 .. 0 -> Nat]
        BY <1>2, <2>1, <2>3 DEF Agg!InputRows
      <3>2. \A k \in 1 .. 0 : Agg!InputRows'[k] = 0
        OBVIOUS
      <3> QED
        BY <3>1, <3>2, TotalZero
    <2>8. AllMerged'
      BY <2>2, <2>7 DEF AllMerged
    <2> QED
      BY <2>5, <2>6, <2>8 DEF MergeInv
  <1> QED
    BY <1>5, <1>6

LEMMA MergeJoin ==
    ASSUME Agg!HashAggregateAssumption, MergeInv, CountInv', Agg!Join
    PROVE  MergeInv'
  <1>1. CountTypes /\ WorkersEnd /\ Merging
    BY DEF MergeInv, CountInv
  <1>2. /\ input' = input /\ merged' = merged /\ partials' = partials /\ groups' = groups
        /\ next_chunk' = next_chunk /\ worker' = worker /\ agg_pc = "join" /\ agg_pc' = "merge"
        /\ \A w \in 1 .. Agg!num_workers : worker[w].pc = "exit"
    BY DEF Agg!Join
  <1>3. groups = <<>> /\ merged = [partials |-> 0, groups |-> 0] /\ input # <<>>
    BY <1>1, <1>2 DEF Merging, WorkersEnd
  <1>4. Agg!num_workers' = Agg!num_workers /\ Agg!CountedRows' = Agg!CountedRows
    BY <1>2 DEF Agg!num_workers, Agg!CountedRows
  <1>5. Agg!num_workers \in 1 .. hw /\ hw \in Nat
    BY <1>1, <1>3, WorkersFacts DEF CountTypes
  <1>6. next_chunk >= Len(input)
    <2>1. 1 \in 1 .. hw /\ 1 \in 1 .. Agg!num_workers
      BY <1>5
    <2> QED
      BY <1>1, <1>2, <2>1 DEF WorkersEnd
  <1>7. \A w \in 1 .. hw : worker[w].pc \in {"exit", "new"}
    <2> TAKE w \in 1 .. hw
    <2>1. w \in 1 .. Agg!num_workers \/ w > Agg!num_workers
      BY <1>5
    <2> QED
      BY <1>1, <1>2, <2>1 DEF WorkersEnd
  <1>8. WorkersEnd'
    BY <1>1, <1>2, <1>3, <1>4, <1>6, <1>7 DEF WorkersEnd
  <1>9. partials[1] \in Seq(PartialGroup) /\ Len(partials[1]) \in Nat
    <2>1. 1 \in 1 .. hw
      BY <1>5
    <2> QED
      BY <1>1, <2>1 DEF CountTypes
  <1>10. Agg!Total(UpTo(Agg!CountedRows, hw, 0)) = 0
    BY <1>1, <1>5, RowsAreNumbers, UpToFacts
  <1>11. Agg!Total(UpTo(Counts(partials[1]), Len(partials[1]), 0)) = 0
    <2>1. Counts(partials[1]) \in [1 .. Len(partials[1]) -> Nat]
      BY <1>9, CountedFacts
    <2> QED
      BY <1>9, <2>1, UpToFacts
  <1>12. Merging'
    <2>1. /\ merged'.partials = 0 /\ merged'.groups = 0 /\ 0 < Agg!num_workers /\ 0 <= Agg!num_workers
          /\ 0 <= Len(partials[1]) /\ 0 + 1 = 1 /\ merged' \in [partials : Nat, groups : Nat]
      BY <1>2, <1>3, <1>5, <1>9
    <2>2. groups' \in Seq(PartialGroup) /\ Agg!Counted(groups') = 0 /\ 0 = 0 + 0
      BY <1>2, <1>3, NothingCounted
    <2>3. Agg!Counted(groups') = Agg!Total(UpTo(Agg!CountedRows, hw, 0))
                                   + Agg!Total(UpTo(Counts(partials[1]), Len(partials[1]), 0))
      BY <1>10, <1>11, <2>2
    <2> QED
      BY <1>2, <1>4, <2>1, <2>2, <2>3 DEF Merging
  <1>13. AllMerged'
    BY <1>2 DEF AllMerged
  <1> QED
    BY <1>8, <1>12, <1>13 DEF MergeInv
\* One more group is merged, or the next partial begins.
LEMMA MergeStep ==
    ASSUME Agg!HashAggregateAssumption, MergeInv, CountInv', Agg!Merge
    PROVE  MergeInv'
  <1>1. CountTypes /\ WorkersEnd /\ Merging
    BY DEF MergeInv, CountInv
  <1>2. /\ input' = input /\ partials' = partials /\ next_chunk' = next_chunk /\ worker' = worker
        /\ agg_pc = "merge" /\ agg_pc' = "merge" /\ merged.partials < Agg!num_workers
    BY DEF Agg!Merge
  <1>3. Agg!num_workers' = Agg!num_workers /\ Agg!CountedRows' = Agg!CountedRows
    BY <1>2 DEF Agg!num_workers, Agg!CountedRows
  <1>4. Agg!num_workers \in 0 .. hw /\ hw \in Nat
    BY <1>1, WorkersFacts DEF CountTypes
  <1>5. groups \in Seq(PartialGroup) /\ merged \in [partials : Nat, groups : Nat]
    BY <1>1 DEF Merging
  <1>6. PICK p \in Nat, g \in Nat, n \in Nat :
           p = merged.partials /\ g = merged.groups /\ n = Agg!num_workers /\ p < n /\ n <= hw
    BY <1>2, <1>4, <1>5
  <1>7. p + 1 \in 1 .. hw /\ p + 1 \in Nat /\ p + 1 <= n /\ p < hw
    BY <1>4, <1>6
  <1>8. PICK partial \in Seq(PartialGroup), m \in Nat : partial = partials[p + 1] /\ m = Len(partial)
    BY <1>1, <1>7 DEF CountTypes
  <1>9. PICK s \in [1 .. m -> Nat] : s = Counts(partial) /\ Agg!Counted(partial) = Agg!Total(s)
    BY <1>8, CountedFacts
  <1>10. PICK cr \in [1 .. hw -> Nat] : cr = Agg!CountedRows /\ cr[p + 1] = Agg!Total(s)
    BY <1>1, <1>7, <1>8, <1>9, RowsAreNumbers
  <1>11. /\ g <= m
         /\ Agg!Counted(groups) = Agg!Total(UpTo(cr, hw, p)) + Agg!Total(UpTo(s, m, g))
    BY <1>1, <1>2, <1>6, <1>8, <1>9, <1>10 DEF Merging
  <1>12. IF g < m
         THEN /\ groups' = Agg!MergeGroup(groups, partial[g + 1])
              /\ merged' = [merged EXCEPT !.groups = g + 1]
         ELSE merged' = [partials |-> p + 1, groups |-> 0] /\ groups' = groups
    BY <1>6, <1>8, <1>9 DEF Agg!Merge
  <1>13. WorkersEnd' /\ AllMerged'
    BY <1>1, <1>2, <1>3 DEF WorkersEnd, AllMerged
  <1>14. PICK a \in Nat, b \in Nat : a = Agg!Total(UpTo(cr, hw, p)) /\ b = Agg!Total(UpTo(s, m, g))
    BY <1>4, UpToFacts
  <1>15. Agg!Counted(groups) = a + b
    BY <1>11, <1>14
  <1>16. CASE g < m
    <2>1. g + 1 \in 1 .. m /\ g + 1 <= m /\ g + 1 \in Nat
      BY <1>16
    <2>2. partial[g + 1] \in PartialGroup /\ s[g + 1] = partial[g + 1].acc.count /\ s[g + 1] \in Nat
      BY <1>8, <1>9, <2>1 DEF Counts
    <2>3. groups' \in Seq(PartialGroup) /\ Agg!Counted(groups') = (a + b) + s[g + 1]
      BY <1>5, <1>12, <1>15, <1>16, <2>2, MergeGroupFacts
    <2>4. Agg!Total(UpTo(s, m, g + 1)) = b + s[g + 1]
      <3>1. Agg!Total(UpTo(s, m, g + 1)) = Agg!Total(UpTo(s, m, g)) + s[g + 1]
        BY <1>16, UpToStep
      <3> QED
        BY <1>14, <3>1
    <2>5. Agg!Counted(groups') = a + Agg!Total(UpTo(s, m, g + 1))
      BY <2>2, <2>3, <2>4
    <2>6. merged' \in [partials : Nat, groups : Nat] /\ merged'.partials = p /\ merged'.groups = g + 1
      BY <1>5, <1>6, <1>12, <1>16, <2>1
    <2>7. Merging'
      <3>1. p <= n
        BY <1>6
      <3> QED
        BY <1>2, <1>3, <1>6, <1>8, <1>9, <1>10, <1>14, <2>1, <2>3, <2>5, <2>6, <3>1 DEF Merging
    <2> QED
      BY <1>13, <2>7 DEF MergeInv
  <1>17. CASE ~ (g < m)
    <2>1. g = m
      BY <1>11, <1>17
    <2>2. UpTo(s, m, m) = s
      <3>1. \A k \in 1 .. m : k > m => s[k] = 0
        OBVIOUS
      <3> QED
        BY <3>1, UpToFacts
    <2>3. b = cr[p + 1]
      BY <1>10, <1>14, <2>1, <2>2
    <2>4. Agg!Total(UpTo(cr, hw, p + 1)) = a + b
      <3>1. Agg!Total(UpTo(cr, hw, p + 1)) = Agg!Total(UpTo(cr, hw, p)) + cr[p + 1]
        BY <1>4, <1>7, UpToStep
      <3> QED
        BY <1>14, <2>3, <3>1
    <2>5. /\ merged' \in [partials : Nat, groups : Nat] /\ merged'.partials = p + 1 /\ merged'.groups = 0
          /\ groups' = groups
      BY <1>7, <1>12, <1>17
    <2>6. Agg!Counted(groups') = Agg!Total(UpTo(Agg!CountedRows, hw, p + 1))
      BY <1>10, <1>15, <2>4, <2>5
    <2>7. ASSUME p + 1 < n
          PROVE  LET q == partials[(p + 1) + 1] IN
                 /\ 0 <= Len(q)
                 /\ Agg!Counted(groups') = Agg!Total(UpTo(Agg!CountedRows, hw, p + 1))
                                              + Agg!Total(UpTo(Counts(q), Len(q), 0))
      <3>1. (p + 1) + 1 \in 1 .. hw
        BY <1>4, <1>6, <2>7
      <3>2. PICK q \in Seq(PartialGroup) : q = partials[(p + 1) + 1]
        BY <1>1, <3>1 DEF CountTypes
      <3>3. Len(q) \in Nat /\ Counts(q) \in [1 .. Len(q) -> Nat]
        BY CountedFacts
      <3>4. Agg!Total(UpTo(Counts(q), Len(q), 0)) = 0
        BY <3>3, UpToFacts
      <3>5. Agg!Counted(groups') = Agg!Total(UpTo(Agg!CountedRows, hw, p + 1)) + 0
        BY <1>10, <2>4, <2>6
      <3> QED
        BY <3>2, <3>3, <3>4, <3>5
    <2>8. Merging'
      BY <1>2, <1>3, <1>5, <1>6, <1>7, <2>5, <2>6, <2>7 DEF Merging
    <2> QED
      BY <1>13, <2>8 DEF MergeInv
  <1> QED
    BY <1>16, <1>17

\* The last partial is merged: every row of the input is.
LEMMA MergeLast ==
    ASSUME Agg!HashAggregateAssumption, MergeInv, CountInv', Agg!MergeEnd
    PROVE  MergeInv'
  <1>1. CountInv /\ CountTypes /\ WorkersEnd /\ Merging
    BY DEF MergeInv, CountInv
  <1>2. /\ input' = input /\ partials' = partials /\ next_chunk' = next_chunk /\ worker' = worker
        /\ agg_pc = "merge" /\ agg_pc' = "ready" /\ merged' = merged /\ groups' = Agg!Default(groups)
        /\ merged.partials = Agg!num_workers
    BY DEF Agg!MergeEnd
  <1>3. Agg!num_workers \in 0 .. hw /\ hw \in Nat
    BY <1>1, WorkersFacts DEF CountTypes
  <1>4. /\ groups \in Seq(PartialGroup)
        /\ Agg!Counted(groups) = Agg!Total(UpTo(Agg!CountedRows, hw, Agg!num_workers))
    <2>1. ~ (Agg!num_workers < Agg!num_workers)
      BY <1>3
    <2> QED
      BY <1>1, <1>2, <2>1 DEF Merging
  <1>5. UpTo(Agg!CountedRows, hw, Agg!num_workers) = Agg!CountedRows
    <2>1. PICK cr \in [1 .. hw -> Nat] : cr = Agg!CountedRows /\ \A w \in 1 .. hw : cr[w] = Agg!Counted(partials[w])
      BY <1>1, RowsAreNumbers
    <2>2. \A w \in 1 .. hw : w > Agg!num_workers => cr[w] = 0
      BY <1>1, <2>1, NothingCounted DEF WorkersEnd
    <2>3. PICK n \in Nat : n = Agg!num_workers
      BY <1>3
    <2>4. UpTo(cr, hw, n) = cr
      BY <1>3, <2>2, <2>3, UpToFacts
    <2> QED
      BY <2>1, <2>3, <2>4
  <1>6. Agg!Total(Agg!CountedRows) = Agg!Total(Agg!InputRows)
    BY <1>1, <1>2, AllCounted DEF WorkersEnd
  <1>7. groups' \in Seq(PartialGroup) /\ Agg!Counted(groups') = Agg!Total(Agg!InputRows)
    BY <1>2, <1>4, <1>5, <1>6, DefaultCounted
  <1>8. Agg!InputRows' = Agg!InputRows /\ Agg!num_workers' = Agg!num_workers
    BY <1>2 DEF Agg!InputRows, Agg!num_workers
  <1>9. AllMerged'
    BY <1>7, <1>8 DEF AllMerged
  <1>10. WorkersEnd'
    BY <1>1, <1>2, <1>8 DEF WorkersEnd
  <1>11. Merging'
    BY <1>1, <1>2, <1>7 DEF Merging
  <1> QED
    BY <1>9, <1>10, <1>11 DEF MergeInv

\* The groups are handed out as they are.
LEMMA MergeOut ==
    ASSUME MergeInv, CountInv', Agg!NextBatch \/ Agg!NextEmpty \/ Agg!Close
    PROVE  MergeInv'
  <1>1. WorkersEnd /\ Merging /\ AllMerged
    BY DEF MergeInv
  <1>2. /\ input' = input /\ partials' = partials /\ next_chunk' = next_chunk /\ worker' = worker
        /\ merged' = merged
        /\ \/ agg_pc = "ready" /\ agg_pc' \in {"ready", "exhausted"} /\ groups' = groups
           \/ agg_pc' = "closed" /\ groups' = <<>>
    BY DEF Agg!NextBatch, Agg!NextEmpty, Agg!Close
  <1>3. Agg!InputRows' = Agg!InputRows /\ Agg!num_workers' = Agg!num_workers
    BY <1>2 DEF Agg!InputRows, Agg!num_workers
  <1>4. WorkersEnd'
    BY <1>1, <1>2, <1>3 DEF WorkersEnd
  <1>5. Merging'
    BY <1>1, <1>2, NothingCounted DEF Merging
  <1>6. AllMerged'
    BY <1>1, <1>2, <1>3 DEF AllMerged
  <1> QED
    BY <1>4, <1>5, <1>6 DEF MergeInv

LEMMA MergeSame == ASSUME MergeInv, CountInv', UNCHANGED Agg!vars PROVE MergeInv'
  <1>1. WorkersEnd /\ Merging /\ AllMerged
    BY DEF MergeInv
  <1>2. /\ input' = input /\ partials' = partials /\ next_chunk' = next_chunk /\ worker' = worker
        /\ merged' = merged /\ groups' = groups /\ agg_pc' = agg_pc
    BY DEF Agg!vars
  <1>3. /\ Agg!InputRows' = Agg!InputRows /\ Agg!num_workers' = Agg!num_workers
        /\ Agg!CountedRows' = Agg!CountedRows
    BY <1>2 DEF Agg!InputRows, Agg!num_workers, Agg!CountedRows
  <1>4. WorkersEnd' /\ Merging' /\ AllMerged'
    BY <1>1, <1>2, <1>3 DEF WorkersEnd, Merging, AllMerged
  <1> QED
    BY <1>4 DEF MergeInv

LEMMA MergeNext ==
    ASSUME Agg!HashAggregateAssumption, MergeInv, [Agg!Next]_Agg!vars PROVE MergeInv'
  <1>1. CountInv'
    BY CountNext DEF MergeInv
  <1>2. CASE UNCHANGED Agg!vars
    BY <1>1, <1>2, MergeSame
  <1>3. CASE Agg!Done
    BY <1>1, <1>3, MergeSame DEF Agg!Done
  <1>4. CASE \E w \in 1 .. hw : Agg!WorkerStep(w)
    BY <1>1, <1>4, MergeWorker
  <1>5. CASE Agg!MainStep
    <2>1. \/ Agg!OpenEmpty \/ Agg!OpenPool
          \/ \E w \in 1 .. hw : Agg!Spawn(w)
          \/ Agg!Join \/ Agg!Merge \/ Agg!MergeEnd
          \/ Agg!NextBatch \/ Agg!NextEmpty \/ Agg!Close
      BY <1>5 DEF Agg!MainStep, Agg!Workers
    <2> QED
      BY <1>1, <2>1, MergeOpen, MergeSpawn, MergeJoin, MergeStep, MergeLast, MergeOut
  <1> QED
    BY <1>2, <1>3, <1>4, <1>5 DEF Agg!Next, Agg!Workers

\* Every row of the input is counted once by the workers and by the merge of
\* HashAggregate::Open, for any input, any number of threads and any
\* interleaving of them.
THEOREM AggregateCountsOnce ==
    ASSUME Agg!HashAggregateAssumption PROVE Agg!Spec => []Agg!RowsCountedOnce
  <1>1. Agg!Init => MergeInv
    BY MergeInit
  <1>2. MergeInv /\ [Agg!Next]_Agg!vars => MergeInv'
    BY MergeNext
  <1>3. MergeInv => Agg!RowsCountedOnce
    BY DEF MergeInv, CountInv, RowsTaken, AllMerged, Agg!RowsCountedOnce
  <1> QED
    BY <1>1, <1>2, <1>3, PTL DEF Agg!Spec
=============================================================================
