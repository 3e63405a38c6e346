------------------------------ MODULE HashJoin -------------------------------
(***************************************************************************)
(* A join of two tables: HashJoin::Open (build) and HashJoin::Next (probe) *)
(* with its state kept between batches (execution/hash_join.cpp).          *)
(*                                                                         *)
(* A row is [id, key]; a key is NULL or a type and a number.  One step is  *)
(* one row built, one probe row passed over, one row emitted or one batch  *)
(* returned.                                                               *)
(***************************************************************************)
EXTENDS Integers, Sequences, FiniteSets, SequencesExt, Selection

CONSTANTS
    Null,               \* the SQL NULL
    kVectorSize,        \* rows of a batch
    Ids, Keys,          \* what tells rows apart, and the keys
    Lefts, Rights       \* what the children can return: sequences of chunks of
                        \*   rows

Row == [id : Ids, key : Keys \cup {Null}]

ASSUME HashJoinAssumption ==
    /\ kVectorSize \in Nat \ {0}
    /\ Null \notin Keys
    \* An operator returns an empty chunk only at its end.
    /\ Lefts \subseteq Seq(Seq(Row) \ {<<>>}) /\ Rights \subseteq Seq(Seq(Row) \ {<<>>})

VARIABLES
    left_child,     \* the chunks of the left child and
    right_child,    \*   of the right one
    pc,             \* "build", "probe", "emit" or "done"
    build_rows,     \* build_rows_
    build_index,    \* build_index_: positions in build_rows_ by KeyOf
    lnext,          \* the chunks the left child has handed out
    lchunk, lpos,   \* lchunk_ and lpos_, the rows of it that are done
    matches, mpos,  \* matches_ and mpos_; matches is <<>> for a null pointer
    out,            \* the batch being filled
    result          \* the batches returned so far, one after the other

vars == <<left_child, right_child, pc, build_rows, build_index, lnext, lchunk, lpos, matches, mpos, out, result>>
inputs == <<left_child, right_child>>
build == <<build_rows, build_index>>

left == FlattenSeq(left_child)
right == FlattenSeq(right_child)

\* The type is part of the string that is hashed.
KeyOf(key) == <<key.type, key.v>>

\* NULLs never join.
Joins(key) == key # Null

-----------------------------------------------------------------------------
(* Open.                                                                   *)

Init ==
    /\ left_child \in Lefts /\ right_child \in Rights
    /\ pc = "build"
    /\ build_rows = <<>> /\ build_index = <<>>
    /\ lnext = 0 /\ lchunk = <<>> /\ lpos = 0
    /\ matches = <<>> /\ mpos = 0
    /\ out = <<>> /\ result = <<>>

Lookup(k) == IF k \in DOMAIN build_index THEN build_index[k] ELSE <<>>

\* One row of the right child.
Build ==
    LET row == right[Len(build_rows) + 1] IN
    /\ pc = "build"
    /\ Len(build_rows) < Len(right)
    /\ build_rows' = Append(build_rows, row)
    /\ build_index' =
         IF Joins(row.key)
         THEN [k \in DOMAIN build_index \cup {KeyOf(row.key)} |->
                 IF k = KeyOf(row.key) THEN Append(Lookup(k), Len(build_rows) + 1) ELSE build_index[k]]
         ELSE build_index
    /\ UNCHANGED <<inputs, pc, lnext, lchunk, lpos, matches, mpos, out, result>>

BuildEnd ==
    /\ pc = "build"
    /\ Len(build_rows) = Len(right)
    /\ pc' = "probe"
    /\ UNCHANGED <<inputs, build, lnext, lchunk, lpos, matches, mpos, out, result>>

-----------------------------------------------------------------------------
(* Next.  In "emit" matches points to the matches of a left row; in        *)
(* "probe" the loop is at AdvanceProbeRow.                                 *)

HasMatch(key) == Joins(key) /\ KeyOf(key) \in DOMAIN build_index

\* The left child's next chunk.
ProbeChunk ==
    /\ pc = "probe"
    /\ Len(out) < kVectorSize
    /\ lpos >= Len(lchunk)
    /\ lnext < Len(left_child)
    /\ lnext' = lnext + 1
    /\ lchunk' = left_child[lnext + 1]
    /\ lpos' = 0
    /\ UNCHANGED <<inputs, pc, build, matches, mpos, out, result>>

\* Mutant: a NULL key is passed over without advancing.
ProbeSkipStays ==
    /\ pc = "probe"
    /\ Len(out) < kVectorSize
    /\ lpos < Len(lchunk)
    /\ ~ HasMatch(lchunk[lpos + 1].key)
    /\ lpos' = IF Joins(lchunk[lpos + 1].key) THEN lpos + 1 ELSE lpos
    /\ UNCHANGED <<inputs, pc, build, lnext, lchunk, matches, mpos, out, result>>

\* A left row with no match.
ProbeSkip ==
    /\ pc = "probe"
    /\ Len(out) < kVectorSize
    /\ lpos < Len(lchunk)
    /\ ~ HasMatch(lchunk[lpos + 1].key)
    /\ lpos' = lpos + 1
    /\ UNCHANGED <<inputs, pc, build, lnext, lchunk, matches, mpos, out, result>>

\* A left row with matches.
ProbeFound ==
    /\ pc = "probe"
    /\ Len(out) < kVectorSize
    /\ lpos < Len(lchunk)
    /\ HasMatch(lchunk[lpos + 1].key)
    /\ matches' = build_index[KeyOf(lchunk[lpos + 1].key)]
    /\ mpos' = 0
    /\ pc' = "emit"
    /\ UNCHANGED <<inputs, build, lnext, lchunk, lpos, out, result>>

\* Mutant: all matches of a left row go into the same batch.
EmitUnbounded ==
    /\ pc = "emit"
    /\ mpos < Len(matches)
    /\ out' = Append(out, <<lchunk[lpos + 1].id, build_rows[matches[mpos + 1]].id>>)
    /\ mpos' = mpos + 1
    /\ UNCHANGED <<inputs, pc, build, lnext, lchunk, lpos, matches, result>>

\* Emit one row.
Emit ==
    /\ pc = "emit"
    /\ Len(out) < kVectorSize
    /\ mpos < Len(matches)
    /\ out' = Append(out, <<lchunk[lpos + 1].id, build_rows[matches[mpos + 1]].id>>)
    /\ mpos' = mpos + 1
    /\ UNCHANGED <<inputs, pc, build, lnext, lchunk, lpos, matches, result>>

\* The matches of the left row are done: on to the next one, but only when
\* the batch has room for another row.
EmitEnd ==
    /\ pc = "emit"
    /\ Len(out) < kVectorSize
    /\ mpos >= Len(matches)
    /\ lpos' = lpos + 1
    /\ matches' = <<>>
    /\ pc' = "probe"
    /\ UNCHANGED <<inputs, build, lnext, lchunk, mpos, out, result>>

\* Mutant: the state of the probe is not kept when the batch is full, and the
\* remaining matches of the left row are forgotten.
BatchFullForgets ==
    /\ Len(out) = kVectorSize
    /\ result' = result \o out
    /\ out' = <<>>
    /\ matches' = <<>> /\ mpos' = 0
    /\ IF pc = "emit" THEN pc' = "probe" /\ lpos' = lpos + 1 ELSE UNCHANGED <<pc, lpos>>
    /\ UNCHANGED <<inputs, build, lnext, lchunk>>

\* The batch is full: Next returns, and is called again.
BatchFull ==
    /\ Len(out) = kVectorSize
    /\ result' = result \o out
    /\ out' = <<>>
    /\ UNCHANGED <<inputs, pc, build, lnext, lchunk, lpos, matches, mpos>>

\* The left child is exhausted: Next returns what it has; the caller takes an
\* empty batch for the end.
LeftDone ==
    /\ pc = "probe"
    /\ Len(out) < kVectorSize
    /\ lpos >= Len(lchunk)
    /\ lnext = Len(left_child)
    /\ result' = result \o out
    /\ out' = <<>>
    /\ pc' = IF out = <<>> THEN "done" ELSE "probe"
    /\ UNCHANGED <<inputs, build, lnext, lchunk, lpos, matches, mpos>>

Step == Build \/ BuildEnd \/ ProbeChunk \/ ProbeSkip \/ ProbeFound \/ Emit \/ EmitEnd \/ BatchFull \/ LeftDone

\* The query has its result.
Done == pc = "done" /\ UNCHANGED vars

Next == Step \/ Done

\* The query runs on one thread, to its end.
Spec == Init /\ [][Next]_vars /\ WF_vars(Step)

-----------------------------------------------------------------------------
(* Properties.                                                             *)

\* The types of the probe state.
TypeOK ==
    /\ pc \in {"build", "probe", "emit", "done"}
    /\ lnext \in 0 .. Len(left_child)
    /\ lpos \in 0 .. Len(lchunk)
    /\ mpos \in Nat
    /\ pc = "emit" => matches # <<>> /\ mpos <= Len(matches) /\ lpos < Len(lchunk)
    /\ Len(out) <= kVectorSize

\* Two keys are equal: "Mixed numeric types compare numerically" (value.h:62).
Equal(k, l) == k # Null /\ l # Null /\ k.v = l.v

Matched(row) == Select(right, {r \in Row : Equal(row.key, r.key)})

\* A left row with every right row that it joins.
Pairs(row) == [j \in 1 .. Len(Matched(row)) |-> <<row.id, Matched(row)[j].id>>]

\* The join by nested loops over the two tables.
NestedLoop == FlattenSeq([i \in 1 .. Len(left) |-> Pairs(left[i])])

\* The query gets the rows of the nested-loop join, each once and in its
\* order, wherever the batches and the left chunks end.
JoinExact ==
    /\ IsPrefix(result \o out, NestedLoop)
    /\ pc = "done" => result = NestedLoop

\* The join ends.
JoinEnds == <>(pc = "done")
=============================================================================
