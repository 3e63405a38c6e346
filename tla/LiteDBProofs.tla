--------------------------- MODULE LiteDBProofs -----------------------------
(***************************************************************************)
(* LiteDB proved, for any tables, schema, row group size and number of     *)
(* statements: the types; the order of the writes, if no write throws; and *)
(* that no statement, crash or failed write loses a row it should keep.    *)
(***************************************************************************)
EXTENDS LiteDB, SequenceLemmas, SequenceTheorems, FiniteSetTheorems

Group == [id : Nat, cols : [Columns -> Seq(Nat)]]
History == [Tables -> Seq(Nat)]

Settled(gs) == \A t \in Tables : \A i \in DOMAIN gs[t] : gs[t][i].id \in durable

\* r begins with s.
Begins(s, r) == Len(s) <= Len(r) /\ \A i \in 1 .. Len(s) : s[i] = r[i]

\* What is needed of the types beside TypeOK.
Types ==
    /\ TypeOK
    /\ groups \in [Tables -> Seq(Group)]
    /\ file \in [exists : SUBSET Tables, groups : [Tables -> Seq(Group)]]
    /\ last_id \in Nat
    /\ rows \in Nat /\ throws \in Nat /\ crashes \in Nat
    /\ logical \in History
    /\ prior \in [exists : SUBSET Tables, logical : History, cleared : SUBSET Tables]

\* The control state: FlushTable's row offset is 0 except in the middle of a
\* table, and the statement in progress fits where it stands.
Control ==
    /\ pc = "flush" /\ start # 0 =>
         from # <<>> /\ Head(from) \in exists /\ Total(Head(from)) # 0
    /\ pc \in {"idle", "persist", "flushall", "closed"} => start = 0
    /\ pc \in {"flush", "flushall"} => mode # "ddl"
    /\ pc = "persist" /\ mode = "ddl" => from = <<>>

\* What holds whatever happens to the writes.
BaseInv ==
    /\ Types
    /\ \A t \in Tables : \A i \in DOMAIN file.groups[t] : file.groups[t][i].id \in 1 .. last_id
    /\ Control

\* Every row group in memory has its pages in the pool or in the file.
\* Between statements, and wherever Persist may come next, they are in the
\* file: only a flush in progress, after its first row group and before
\* FlushAll, has row groups that are not.
Ordered ==
    /\ Settled(file.groups)
    /\ pc # "down" => \A t \in Tables : \A i \in DOMAIN groups[t] : groups[t][i].id \in dirty \cup durable
    /\ pc \in {"idle", "persist", "closed"} => Settled(groups)
    /\ pc = "flush" /\ start = 0 => Settled(groups)

\* While the process runs, the catalog in memory continues the one in the
\* file, but for the tables that a DROP or a TRUNCATE not yet persisted has
\* cleared.
Continues ==
    pc # "down" => \A t \in file.exists \ prior.cleared :
                      t \in exists /\ Begins(file.groups[t], groups[t])

StaysInv == BaseInv /\ Continues

OrderInv == BaseInv /\ Ordered

-----------------------------------------------------------------------------
(* The operators of the model.                                             *)

\* A prefix in the sense of SequencesExt is a beginning, item by item.
LEMMA PrefixIsBeginning ==
    ASSUME NEW S, NEW s \in Seq(S), NEW r \in Seq(S), Begins(s, r)
    PROVE  IsPrefix(s, r)
  <1>1. SubSeq(s, 1, Len(s)) = SubSeq(r, 1, Len(s))
    BY DEF Begins
  <1> QED
    BY <1>1 DEF IsPrefix, Begins

\* An item of a sequence over S is in S.
LEMMA ItemType ==
    ASSUME NEW S, NEW s \in Seq(S), NEW j \in 1 .. Len(s)
    PROVE  s[j] \in S
  OBVIOUS

\* The first column of a table is one of its columns.
LEMMA FirstColumn == 1 \in Columns
  BY LiteDBAssumption DEF Columns

\* What FlushTable takes from a buffer for one row group is a sequence.
LEMMA SliceType ==
    ASSUME BaseInv, NEW t \in Tables, NEW c \in Columns, start < Total(t)
    PROVE  Slice(t, c) \in Seq(Nat)
  <1> DEFINE n == IF start + kRowGroupSize < Total(t) THEN kRowGroupSize ELSE Total(t) - start
  <1>2. Total(t) \in Nat /\ start \in Nat
    BY FirstColumn DEF BaseInv, Types, TypeOK, Total
  <1>3. n \in Nat
    BY <1>2, LiteDBAssumption
  <1>4. pending[t][c] \in Seq(1 .. MaxRows)
    BY DEF BaseInv, Types, TypeOK
  <1>5. \A i \in 1 .. n :
          (IF start + i <= Len(pending[t][c]) THEN pending[t][c][start + i] ELSE Junk) \in Nat
    <2> SUFFICES ASSUME NEW i \in 1 .. n, start + i <= Len(pending[t][c])
                 PROVE  pending[t][c][start + i] \in Nat
      BY DEF Junk
    <2>1. start + i \in 1 .. Len(pending[t][c])
      BY <1>2, <1>3, <1>4
    <2>2. pending[t][c][start + i] \in 1 .. MaxRows
      BY <2>1, <1>4, ItemType
    <2> QED
      BY <2>2
  <1>6. Slice(t, c) = [i \in 1 .. n |-> IF start + i <= Len(pending[t][c])
                                        THEN pending[t][c][start + i] ELSE Junk]
    BY DEF Slice
  <1> HIDE DEF n
  <1> QED
    BY <1>3, <1>5, <1>6

\* The values of a column of the row groups gs are a sequence.
LEMMA ColumnType ==
    ASSUME NEW gs \in Seq(Group), NEW c \in Columns
    PROVE  /\ [i \in 1 .. Len(gs) |-> gs[i].cols[c]] \in Seq(Seq(Nat))
           /\ FlattenColumn(gs, c) \in Seq(Nat)
  <1> DEFINE cs == [i \in 1 .. Len(gs) |-> gs[i].cols[c]]
  <1>1. \A i \in 1 .. Len(gs) : gs[i].cols[c] \in Seq(Nat)
    <2> TAKE i \in 1 .. Len(gs)
    <2>1. gs[i] \in Group
      OBVIOUS
    <2> QED
      BY <2>1 DEF Group
  <1>2. cs \in Seq(Seq(Nat))
    BY <1>1
  <1>3. FlattenColumn(gs, c) = FlattenSeq(cs)
    BY DEF FlattenColumn
  <1> HIDE DEF cs
  <1>4. FlattenSeq(cs) \in Seq(Nat)
    BY <1>2, FlattenType
  <1> QED
    BY <1>2, <1>3, <1>4 DEF cs

\* No row groups, no values.
LEMMA ColumnOfNothing ==
    ASSUME NEW c \in Columns
    PROVE  FlattenColumn(<<>>, c) = <<>>
  <1>1. [i \in 1 .. Len(<<>>) |-> <<>>[i].cols[c]] = <<>>
    OBVIOUS
  <1> QED
    BY <1>1, FlattenEmpty DEF FlattenColumn

\* A new row group adds its values at the end.
LEMMA ColumnOfAppend ==
    ASSUME NEW gs \in Seq(Group), NEW g \in Group, NEW c \in Columns
    PROVE  FlattenColumn(Append(gs, g), c) = FlattenColumn(gs, c) \o g.cols[c]
  <1> DEFINE cs == [i \in 1 .. Len(gs) |-> gs[i].cols[c]]
             ds == [i \in 1 .. Len(Append(gs, g)) |-> Append(gs, g)[i].cols[c]]
  <1>1. cs \in Seq(Seq(Nat)) /\ Len(cs) = Len(gs) /\ \A i \in 1 .. Len(gs) : cs[i] = gs[i].cols[c]
    BY ColumnType
  <1>2. g.cols[c] \in Seq(Nat)
    BY DEF Group
  <1>3. Append(gs, g) \in Seq(Group) /\ Len(Append(gs, g)) = Len(gs) + 1
    OBVIOUS
  <1>4. ds \in Seq(Seq(Nat)) /\ Len(ds) = Len(gs) + 1
    <2>1. ds \in Seq(Seq(Nat))
      BY <1>3, ColumnType
    <2>2. DOMAIN ds = 1 .. Len(gs) + 1
      BY <1>3
    <2> HIDE DEF ds
    <2> QED
      BY <2>1, <2>2
  <1>5. \A i \in 1 .. Len(gs) + 1 : ds[i] = IF i <= Len(gs) THEN gs[i].cols[c] ELSE g.cols[c]
    BY <1>3
  <1>6. ds = Append(cs, g.cols[c])
    <2> HIDE DEF cs, ds
    <2> DEFINE es == Append(cs, g.cols[c])
    <2>1. es \in Seq(Seq(Nat)) /\ Len(es) = Len(gs) + 1
      BY <1>1, <1>2
    <2>2. \A i \in 1 .. Len(gs) + 1 : es[i] = IF i <= Len(gs) THEN gs[i].cols[c] ELSE g.cols[c]
      BY <1>1, <1>2
    <2> HIDE DEF es
    <2>3. \A i \in 1 .. Len(gs) + 1 : ds[i] = es[i]
      BY <1>5, <2>2
    <2>4. ds = es
      BY <1>4, <2>1, <2>3, SeqEqual
    <2> QED
      BY <2>4 DEF es
  <1>7. FlattenColumn(gs, c) = FlattenSeq(cs) /\ FlattenColumn(Append(gs, g), c) = FlattenSeq(ds)
    BY DEF FlattenColumn
  <1> HIDE DEF cs, ds
  <1> QED
    BY <1>1, <1>2, <1>6, <1>7, FlattenAppend

\* Close flushes the tables in some order.
LEMMA CloseOrderType ==
    ASSUME NEW ts \in SetToSeqs(Tables)
    PROVE  ts \in Seq(Tables)
  <1>1. Cardinality(Tables) \in Nat
    BY FS_CardinalityType, LiteDBAssumption
  <1>2. ts \in [1 .. Cardinality(Tables) -> Tables]
    BY DEF SetToSeqs
  <1> QED
    BY <1>1, <1>2

-----------------------------------------------------------------------------
(* Types and control.                                                      *)

\* The invariant holds when a new file has been opened.
LEMMA InitBase == Init => BaseInv
  <1> SUFFICES ASSUME Init PROVE BaseInv
    OBVIOUS
  <1>1. TypeOK
    BY DEF Init, TypeOK, NoRows, Nothing
  <1>2. Nothing \in History /\ Nothing \in [Tables -> Seq(Group)]
    BY DEF Nothing, History
  <1>3. Types
    BY <1>1, <1>2 DEF Init, Types
  <1>4. Control
    BY DEF Init, Control
  <1> QED
    BY <1>3, <1>4 DEF BaseInv, Init, Nothing

\* No buffer is the empty buffer of a table.
LEMMA NoRowsType ==
    ASSUME BaseInv, NEW t \in Tables
    PROVE  [pending EXCEPT ![t] = NoRows] \in [Tables -> [Columns -> Seq(1 .. MaxRows)]]
  <1>1. NoRows \in [Columns -> Seq(1 .. MaxRows)]
    BY DEF NoRows
  <1> QED
    BY <1>1 DEF BaseInv, Types, TypeOK

\* CREATE, DROP and TRUNCATE forget the row groups and the rows of one table.
LEMMA DDLBase ==
    ASSUME BaseInv, NEW t \in Tables, CreateTable(t) \/ DropTable(t) \/ Truncate(t)
    PROVE  BaseInv'
  <1> USE DEF DDL, disk
  <1>0. DDL(t) /\ exists' \subseteq Tables /\ pending' = [pending EXCEPT ![t] = NoRows]
    BY DEF CreateTable, DropTable, Truncate, BaseInv, Types, TypeOK
  <1>1. groups' \in [Tables -> Seq(Group)] /\ logical' \in History
    BY <1>0 DEF BaseInv, Types, History
  <1>2. \A u \in Tables : \A i \in DOMAIN groups'[u] : i \in DOMAIN groups[u] /\ groups'[u][i] = groups[u][i]
    BY <1>0 DEF BaseInv, Types
  <1>3. TypeOK'
    BY <1>0, <1>1, <1>2, NoRowsType DEF BaseInv, Types, TypeOK
  <1>4. Types'
    BY <1>0, <1>1, <1>3 DEF BaseInv, Types, TypeOK
  <1>5. Control'
    BY <1>0 DEF Control
  <1> QED
    BY <1>0, <1>4, <1>5 DEF BaseInv

\* The rows of an INSERT, all complete or with one that is cut short.
LEMMA InsertBase ==
    ASSUME BaseInv, NEW t \in Tables, NEW n \in Nat, NEW k \in Nat, Insert(t, n, k)
    PROVE  BaseInv'
  <1> DEFINE torn == IF k = NumColumns THEN 0 ELSE 1
             new == [i \in 1 .. n |-> rows + i]
             extra(c) == IF torn = 1 /\ c <= k THEN <<rows + n + 1>> ELSE <<>>
  <1>0. rows \in Nat /\ MaxRows \in Nat /\ rows + n + torn <= MaxRows
    BY LiteDBAssumption DEF BaseInv, Types, Insert
  <1>1. new \in Seq(1 .. MaxRows) /\ new \in Seq(Nat)
    <2>1. \A i \in 1 .. n : rows + i \in 1 .. MaxRows
      BY <1>0
    <2> QED
      BY <2>1
  <1>2. \A c \in Columns : extra(c) \in Seq(1 .. MaxRows)
    <2>1. torn = 1 => rows + n + 1 \in 1 .. MaxRows
      BY <1>0
    <2>2. torn = 1 => <<rows + n + 1>> \in Seq(1 .. MaxRows)
      BY <2>1
    <2>3. <<>> \in Seq(1 .. MaxRows)
      OBVIOUS
    <2> TAKE c \in Columns
    <2>4. CASE torn = 1 /\ c <= k
      BY <2>2, <2>4, Zenon
    <2>5. CASE ~ (torn = 1 /\ c <= k)
      BY <2>3, <2>5, Zenon
    <2> QED
      BY <2>4, <2>5
  <1>3. /\ pending' = [pending EXCEPT ![t] = [c \in Columns |-> pending[t][c] \o new \o extra(c)]]
        /\ logical' = [logical EXCEPT ![t] = @ \o new]
    BY DEF Insert
  <1>4. pending' \in [Tables -> [Columns -> Seq(1 .. MaxRows)]]
    <2> HIDE DEF new, extra
    <2>1. \A c \in Columns : pending[t][c] \o new \o extra(c) \in Seq(1 .. MaxRows)
      BY <1>1, <1>2 DEF BaseInv, Types, TypeOK
    <2> QED
      BY <2>1, <1>3 DEF BaseInv, Types, TypeOK
  <1>5. logical' \in History
    <2> HIDE DEF new
    <2> QED
      BY <1>1, <1>3 DEF BaseInv, Types, History
  <1>6. rows' \in Nat
    BY <1>0 DEF Insert
  <1>7. Types'
    BY <1>4, <1>5, <1>6 DEF BaseInv, Types, TypeOK, Insert, disk, control
  <1>8. Control'
    BY DEF BaseInv, Control, Insert, control
  <1> QED
    BY <1>7, <1>8 DEF BaseInv, Insert, disk

\* The new row group has a new number and typed columns.
LEMMA NewGroup ==
    ASSUME BaseInv, NEW t \in Tables, WriteGroup(t)
    PROVE  \E g \in Group :
             /\ g.id = last_id + 1
             /\ \A c \in Columns : g.cols[c] = Slice(t, c)
             /\ groups' = [groups EXCEPT ![t] = Append(groups[t], g)]
  <1> DEFINE g == [id |-> last_id', cols |-> [c \in Columns |-> Slice(t, c)]]
  <1>1. \A c \in Columns : Slice(t, c) \in Seq(Nat)
    BY SliceType DEF WriteGroup
  <1>2. last_id' \in Nat /\ last_id' = last_id + 1
    BY DEF WriteGroup, BaseInv, Types
  <1>3. g \in Group
    BY <1>1, <1>2 DEF Group
  <1>4. g.id = last_id + 1 /\ \A c \in Columns : g.cols[c] = Slice(t, c)
    BY <1>2
  <1>5. groups' = [groups EXCEPT ![t] = Append(groups[t], g)]
    BY DEF WriteGroup
  <1> HIDE DEF g
  <1> QED
    BY <1>3, <1>4, <1>5

\* One row group more.
LEMMA WriteGroupBase ==
    ASSUME BaseInv, NEW t \in Tables, WriteGroup(t)
    PROVE  BaseInv'
  <1>1. PICK g \in Group :
             /\ g.id = last_id + 1
             /\ \A c \in Columns : g.cols[c] = Slice(t, c)
             /\ groups' = [groups EXCEPT ![t] = Append(groups[t], g)]
    BY NewGroup
  <1>4. groups' \in [Tables -> Seq(Group)]
    BY <1>1 DEF BaseInv, Types
  <1>5. \A u \in Tables : \A i \in DOMAIN groups'[u] :
          \/ i \in DOMAIN groups[u] /\ groups'[u][i] = groups[u][i]
          \/ groups'[u][i] = g
    BY <1>1 DEF BaseInv, Types
  <1>6. TypeOK'
    <2>1. \A u \in Tables : \A i \in DOMAIN groups'[u] : groups'[u][i].id \in 1 .. last_id'
      BY <1>1, <1>5 DEF BaseInv, Types, TypeOK, WriteGroup
    <2>2. dirty' \cap durable' = {} /\ dirty' \cup durable' \subseteq 1 .. last_id'
      BY DEF BaseInv, Types, TypeOK, WriteGroup
    <2>3. start' \in Nat
      BY LiteDBAssumption DEF BaseInv, Types, TypeOK, WriteGroup
    <2> QED
      BY <2>1, <2>2, <2>3 DEF BaseInv, Types, TypeOK, WriteGroup
  <1>7. Types'
    BY <1>4, <1>6 DEF BaseInv, Types, WriteGroup, counters, history
  <1>8. Control'
    <2>1. from' # <<>> /\ Head(from)' \in exists' /\ Total(Head(from))' # 0
      BY DEF WriteGroup, Flushing, Total
    <2> QED
      BY <2>1 DEF BaseInv, Control, WriteGroup, Flushing
  <1>9. \A u \in Tables : \A i \in DOMAIN file'.groups[u] : file'.groups[u][i].id \in 1 .. last_id'
    BY DEF BaseInv, Types, WriteGroup
  <1> QED
    BY <1>7, <1>8, <1>9 DEF BaseInv

\* The catalog in the file becomes the one in memory.
LEMMA PersistBase ==
    ASSUME BaseInv, Persist
    PROVE  BaseInv'
  <1> USE DEF BaseInv, Persist, memory, counters
  <1>1. from' \in Seq(Tables)
    BY DEF Types, TypeOK
  <1>2. file' \in [exists : SUBSET Tables, groups : [Tables -> Seq(Group)]]
    BY DEF Types, TypeOK
  <1>3. prior' \in [exists : SUBSET Tables, logical : History, cleared : SUBSET Tables]
    BY DEF Types, TypeOK
  <1>4. Types'
    BY <1>1, <1>2, <1>3 DEF Types, TypeOK
  <1>5. Control'
    BY DEF Control
  <1>6. \A t \in Tables : \A i \in DOMAIN file'.groups[t] : file'.groups[t][i].id \in 1 .. last_id'
    BY DEF Types, TypeOK
  <1> QED
    BY <1>4, <1>5, <1>6

\* The catalog that Load brings back is the one in the file.
LEMMA OpenBase ==
    ASSUME BaseInv, Open
    PROVE  BaseInv'
  <1> USE DEF BaseInv, Open, disk, counters
  <1>1. pending' \in [Tables -> [Columns -> Seq(1 .. MaxRows)]]
    BY DEF NoRows
  <1>2. \A t \in Tables : \A i \in DOMAIN groups'[t] : groups'[t][i].id \in 1 .. last_id'
    OBVIOUS
  <1>3. exists' \subseteq Tables /\ groups' \in [Tables -> Seq(Group)]
    BY DEF Types
  <1>4. logical' \in History
    <2>1. \A t \in Tables : FlattenColumn(file.groups[t], 1) \in Seq(Nat)
      BY FirstColumn, ColumnType DEF Types
    <2> QED
      BY <2>1 DEF History
  <1>5. Types'
    BY <1>1, <1>2, <1>3, <1>4 DEF Types, TypeOK
  <1>6. Control'
    BY DEF Control
  <1> QED
    BY <1>5, <1>6

\* The steps that only move the control state or make row groups durable.
LEMMA QuietBase ==
    ASSUME BaseInv,
           \/ \E ts \in Seq(Tables) : BeginSelect(ts) \/ BeginClose(ts)
           \/ FlushNothing \/ FlushAll \/ EndSelect \/ EndClose
           \/ \E g \in dirty : Evict(g)
           \/ Throw \/ Crash \/ UNCHANGED vars
    PROVE  BaseInv'
  <1> USE DEF BaseInv, memory, disk, counters, control, history
  <1>1. CASE \E ts \in Seq(Tables) : BeginSelect(ts) \/ BeginClose(ts)
    <2>1. Types'
      BY <1>1 DEF Types, TypeOK, BeginSelect, BeginClose
    <2>2. Control'
      BY <1>1 DEF Control, BeginSelect, BeginClose
    <2> QED
      BY <1>1, <2>1, <2>2 DEF BeginSelect, BeginClose
  <1>2. CASE FlushNothing
    <2>1. Types'
      BY <1>2 DEF Types, TypeOK, FlushNothing
    <2>2. Control'
      BY <1>2 DEF Control, FlushNothing
    <2> QED
      BY <1>2, <2>1, <2>2 DEF FlushNothing
  <1>3. CASE FlushAll
    <2>1. Types'
      BY <1>3 DEF Types, TypeOK, FlushAll
    <2>2. Control'
      BY <1>3 DEF Control, FlushAll
    <2> QED
      BY <1>3, <2>1, <2>2 DEF FlushAll
  <1>4. CASE EndSelect \/ EndClose
    <2>1. Types'
      BY <1>4 DEF Types, TypeOK, EndSelect, EndClose
    <2>2. Control'
      BY <1>4 DEF Control, EndSelect, EndClose
    <2> QED
      BY <1>4, <2>1, <2>2 DEF EndSelect, EndClose
  <1>5. CASE \E g \in dirty : Evict(g)
    <2>1. Types'
      BY <1>5 DEF Types, TypeOK, Evict
    <2>2. Control'
      BY <1>5 DEF Control, Evict, Total
    <2> QED
      BY <1>5, <2>1, <2>2 DEF Evict
  <1>6. CASE Throw
    <2>1. Types'
      BY <1>6 DEF Types, TypeOK, Throw
    <2>2. Control'
      BY <1>6 DEF Control, Throw
    <2> QED
      BY <1>6, <2>1, <2>2 DEF Throw
  <1>7. CASE Crash
    <2>1. Types'
      BY <1>7 DEF Types, TypeOK, Crash
    <2>2. Control'
      BY <1>7 DEF Control, Crash
    <2> QED
      BY <1>7, <2>1, <2>2 DEF Crash
  <1>8. CASE UNCHANGED vars
    <2>1. Types'
      BY <1>8 DEF Types, TypeOK, vars
    <2>2. Control'
      BY <1>8 DEF Control, Total, vars
    <2> QED
      BY <1>8, <2>1, <2>2 DEF vars
  <1> QED
    BY <1>1, <1>2, <1>3, <1>4, <1>5, <1>6, <1>7, <1>8

\* FlushTable forgets the buffers it has written.
LEMMA ClearPendingBase ==
    ASSUME BaseInv, NEW t \in Tables, ClearPending(t)
    PROVE  BaseInv'
  <1> USE DEF BaseInv, ClearPending, Flushing, disk, counters, history
  <1>1. Types'
    BY NoRowsType DEF Types, TypeOK
  <1>2. Control'
    BY DEF Control
  <1> QED
    BY <1>1, <1>2

\* What a step may be, with the sets its parameters are from.
LEMMA StepKinds ==
    ASSUME [Next]_vars
    PROVE  \/ \E t \in Tables : CreateTable(t) \/ DropTable(t) \/ Truncate(t)
           \/ \E t \in Tables, n \in Nat, k \in Nat : Insert(t, n, k)
           \/ \E t \in Tables : WriteGroup(t)
           \/ \E t \in Tables : ClearPending(t)
           \/ Persist
           \/ Open
           \/ \E ts \in Seq(Tables) : BeginSelect(ts) 
           \/ \E ts \in SetToSeqs(Tables) : ts \in Seq(Tables) /\ BeginClose(ts)
           \/ FlushNothing \/ FlushAll \/ EndSelect \/ EndClose
           \/ \E g \in dirty : Evict(g)
           \/ Throw \/ Crash \/ UNCHANGED vars
  <1>1. CASE \E t \in Tables, n \in 0 .. MaxInsert, k \in 0 .. NumColumns : Insert(t, n, k)
    <2>1. 0 .. MaxInsert \subseteq Nat /\ 0 .. NumColumns \subseteq Nat
      BY LiteDBAssumption
    <2> QED
      BY <1>1, <2>1
  <1>2. CASE \E t \in Tables : BeginSelect(<<t>>)
    <2>1. \A t \in Tables : <<t>> \in Seq(Tables)
      OBVIOUS
    <2> QED
      BY <1>2, <2>1
  <1>3. CASE \E t, u \in Tables : BeginSelect(<<t, u>>)
    <2>1. \A t, u \in Tables : <<t, u>> \in Seq(Tables)
      OBVIOUS
    <2> QED
      BY <1>3, <2>1
  <1>4. CASE \E ts \in SetToSeqs(Tables) : BeginClose(ts)
    BY <1>4, CloseOrderType
  <1>5. ASSUME ~ (\E t \in Tables, n \in 0 .. MaxInsert, k \in 0 .. NumColumns : Insert(t, n, k)),
               ~ (\E t \in Tables : BeginSelect(<<t>>)), ~ (\E t, u \in Tables : BeginSelect(<<t, u>>)),
               ~ (\E ts \in SetToSeqs(Tables) : BeginClose(ts))
        PROVE  \/ \E t \in Tables : CreateTable(t) \/ DropTable(t) \/ Truncate(t)
               \/ \E t \in Tables : WriteGroup(t) \/ ClearPending(t)
               \/ Persist \/ Open \/ FlushNothing \/ FlushAll \/ EndSelect \/ EndClose
               \/ \E g \in dirty : Evict(g)
               \/ Throw \/ Crash \/ UNCHANGED vars
    BY <1>5, Zenon DEF Next
  <1> QED
    BY <1>1, <1>2, <1>3, <1>4, <1>5, Zenon

\* BaseInv is an inductive invariant, whatever writes throw.
THEOREM BaseInvariant == Spec => []BaseInv
  <1>1. ASSUME BaseInv, [Next]_vars
        PROVE  BaseInv'
    BY <1>1, StepKinds, DDLBase, InsertBase, WriteGroupBase, ClearPendingBase, PersistBase,
       OpenBase, QuietBase
  <1> QED
    BY <1>1, InitBase, PTL DEF Spec

\* The buffers, the catalog and the control state keep their types, also if
\* statements fail half way and the process dies.
THEOREM DatabaseTypes == Spec => []TypeOK
  <1>1. BaseInv => TypeOK
    BY DEF BaseInv, Types
  <1> QED
    BY <1>1, BaseInvariant, PTL

-----------------------------------------------------------------------------
(* The order of the writes, if none throws.                                *)

\* The invariant holds when a new file has been opened.
LEMMA InitOrder == Init => OrderInv
  <1> SUFFICES ASSUME Init PROVE OrderInv
    OBVIOUS
  <1>1. Ordered
    BY DEF Init, Ordered, Settled, Nothing
  <1> QED
    BY <1>1, InitBase DEF OrderInv

\* CREATE, DROP and TRUNCATE start from a settled catalog and forget row
\* groups of one table.
LEMMA DDLOrder ==
    ASSUME OrderInv, NEW t \in Tables, CreateTable(t) \/ DropTable(t) \/ Truncate(t)
    PROVE  Ordered'
  <1> USE DEF DDL, disk
  <1>0. DDL(t)
    BY DEF CreateTable, DropTable, Truncate
  <1>1. \A u \in Tables : \A i \in DOMAIN groups'[u] : i \in DOMAIN groups[u] /\ groups'[u][i] = groups[u][i]
    BY <1>0 DEF OrderInv, BaseInv, Types
  <1>2. Settled(groups)
    BY <1>0 DEF OrderInv, Ordered
  <1>3. Settled(groups)'
    BY <1>0, <1>1, <1>2 DEF Settled
  <1> QED
    BY <1>0, <1>3 DEF OrderInv, Ordered, Settled

\* The new row group is dirty, the others are as they were.
LEMMA WriteGroupOrder ==
    ASSUME OrderInv, BaseInv', NEW t \in Tables, WriteGroup(t)
    PROVE  Ordered'
  <1>1. PICK g \in Group :
             /\ g.id = last_id + 1
             /\ \A c \in Columns : g.cols[c] = Slice(t, c)
             /\ groups' = [groups EXCEPT ![t] = Append(groups[t], g)]
    BY NewGroup DEF OrderInv
  <1>2. \A u \in Tables : \A i \in DOMAIN groups'[u] :
          \/ i \in DOMAIN groups[u] /\ groups'[u][i] = groups[u][i]
          \/ groups'[u][i] = g
    BY <1>1 DEF OrderInv, BaseInv, Types
  <1>3. Settled(file.groups)'
    BY DEF OrderInv, Ordered, Settled, WriteGroup
  <1>4. \A u \in Tables : \A i \in DOMAIN groups'[u] : groups'[u][i].id \in dirty' \cup durable'
    BY <1>1, <1>2 DEF OrderInv, Ordered, WriteGroup, Flushing
  <1>5. start' # 0
    BY LiteDBAssumption DEF OrderInv, BaseInv, Types, TypeOK, WriteGroup
  <1>6. pc' = "flush"
    BY DEF WriteGroup, Flushing
  <1> QED
    BY <1>3, <1>4, <1>5, <1>6 DEF Ordered

\* Persist comes only when the catalog is settled.
LEMMA PersistOrder ==
    ASSUME OrderInv, Persist
    PROVE  Ordered'
  <1> USE DEF OrderInv, BaseInv, Persist, memory, counters
  <1>1. Settled(groups)
    BY DEF Ordered
  <1>2. Settled(groups)' /\ Settled(file.groups)'
    BY <1>1 DEF Settled
  <1> QED
    BY <1>2 DEF Ordered, Types, TypeOK

\* The catalog that Load brings back is the one in the file, and settled.
LEMMA OpenOrder ==
    ASSUME OrderInv, Open
    PROVE  Ordered'
  <1> USE DEF OrderInv, BaseInv, Open, disk, counters
  <1> QED
    BY DEF Ordered, Settled

\* The steps that leave the catalog in memory and in the file alone.
LEMMA QuietOrder ==
    ASSUME OrderInv,
           \/ \E t \in Tables, n \in Nat, k \in Nat : Insert(t, n, k)
           \/ \E t \in Tables : ClearPending(t)
           \/ \E ts \in Seq(Tables) : BeginSelect(ts)
           \/ \E ts \in SetToSeqs(Tables) : BeginClose(ts)
           \/ FlushNothing \/ FlushAll \/ EndSelect \/ EndClose
           \/ \E g \in dirty : Evict(g)
           \/ Crash \/ UNCHANGED vars
    PROVE  Ordered'
  <1> USE DEF OrderInv, BaseInv, memory, disk, counters, control, history
  <1>1. CASE FlushAll
    <2>1. Settled(groups)'
      BY <1>1 DEF Ordered, Settled, FlushAll
    <2> QED
      BY <1>1, <2>1 DEF Ordered, Settled, FlushAll
  <1>2. CASE FlushNothing
    <2>1. start = 0
      BY <1>2 DEF Control, FlushNothing
    <2> QED
      BY <1>2, <2>1 DEF Ordered, Settled, FlushNothing
  <1>3. CASE EndSelect \/ EndClose
    BY <1>3 DEF Ordered, Settled, Control, EndSelect, EndClose
  <1>4. CASE Crash
    BY <1>4 DEF Ordered, Settled, Crash
  <1>5. CASE \E g \in dirty : Evict(g)
    BY <1>5 DEF Ordered, Settled, Evict
  <1>6. CASE \E t \in Tables, n \in Nat, k \in Nat : Insert(t, n, k)
    BY <1>6 DEF Ordered, Settled, Insert
  <1>7. CASE \E t \in Tables : ClearPending(t)
    BY <1>7 DEF Ordered, Settled, ClearPending, Flushing
  <1>8. CASE \E ts \in Seq(Tables) : BeginSelect(ts)
    BY <1>8 DEF Ordered, Settled, BeginSelect
  <1>9. CASE \E ts \in SetToSeqs(Tables) : BeginClose(ts)
    BY <1>9 DEF Ordered, Settled, BeginClose
  <1>10. CASE UNCHANGED vars
    BY <1>10 DEF Ordered, Settled, vars
  <1> QED
    BY <1>1, <1>2, <1>3, <1>4, <1>5, <1>6, <1>7, <1>8, <1>9, <1>10

\* OrderInv is an inductive invariant if no write throws.
THEOREM OrderInvariant ==
    ASSUME MaxThrows = 0
    PROVE  Spec => []OrderInv
  <1>1. ASSUME OrderInv, BaseInv', [Next]_vars
        PROVE  OrderInv'
    <2>1. ~ Throw
      BY <1>1 DEF Throw, OrderInv, BaseInv, Types
    <2>2. Ordered'
      BY <1>1, <2>1, StepKinds, DDLOrder, WriteGroupOrder, PersistOrder, OpenOrder, QuietOrder
    <2> QED
      BY <1>1, <2>2 DEF OrderInv
  <1> QED
    BY <1>1, InitOrder, BaseInvariant, PTL DEF Spec

\* The catalog in the file names only row groups that are in the file,
\* whatever statement persisted it and wherever the process has died.
THEOREM CatalogNamesDurableGroups ==
    ASSUME MaxThrows = 0
    PROVE  Spec => []PersistedIsDurable
  <1>1. OrderInv => PersistedIsDurable
    BY DEF OrderInv, BaseInv, Types, Ordered, Settled, PersistedIsDurable
  <1> QED
    BY <1>1, OrderInvariant, PTL

-----------------------------------------------------------------------------
(* What is in the file stays there, whatever writes throw.                 *)

\* CREATE, DROP and TRUNCATE change one table: CREATE one that the catalog in
\* memory did not have, the others one that they mark as cleared.
LEMMA DDLContinues ==
    ASSUME StaysInv, NEW t \in Tables, CreateTable(t) \/ DropTable(t) \/ Truncate(t)
    PROVE  Continues'
  <1>0. DDL(t)
    BY DEF CreateTable, DropTable, Truncate
  <1>1. pc # "down" /\ file' = file
    BY <1>0 DEF DDL, disk
  <1>2. ASSUME NEW u \in file.exists \ prior'.cleared
        PROVE  u \in exists' /\ Begins(file.groups[u], groups'[u])
    <2>1. prior'.cleared = prior.cleared \cup (exists \cap {t})
      BY <1>0 DEF DDL
    <2>2. u \in exists /\ Begins(file.groups[u], groups[u])
      BY <1>1, <1>2, <2>1 DEF StaysInv, Continues
    <2>3. u # t /\ u \in Tables
      BY <1>2, <2>1, <2>2 DEF StaysInv, BaseInv, Types, TypeOK
    <2>4. groups'[u] = groups[u]
      BY <1>0, <2>3 DEF DDL, StaysInv, BaseInv, Types
    <2>5. u \in exists'
      BY <2>2, <2>3 DEF CreateTable, DropTable, Truncate
    <2> QED
      BY <2>2, <2>4, <2>5
  <1> QED
    BY <1>1, <1>2 DEF Continues

\* A row group more at the end of a table.
LEMMA WriteGroupContinues ==
    ASSUME StaysInv, BaseInv', NEW t \in Tables, WriteGroup(t)
    PROVE  Continues'
  <1>1. PICK g \in Group :
             /\ g.id = last_id + 1
             /\ \A c \in Columns : g.cols[c] = Slice(t, c)
             /\ groups' = [groups EXCEPT ![t] = Append(groups[t], g)]
    BY NewGroup DEF StaysInv
  <1> SUFFICES ASSUME NEW u \in file.exists \ prior.cleared
               PROVE  u \in exists /\ Begins(file.groups[u], groups'[u])
    BY DEF Continues, WriteGroup, history
  <1>2. u \in Tables /\ u \in exists /\ Begins(file.groups[u], groups[u])
    BY DEF StaysInv, BaseInv, Types, TypeOK, Continues, WriteGroup, Flushing
  <1>3. groups[u] \in Seq(Group) /\ file.groups[u] \in Seq(Group)
    BY <1>2 DEF StaysInv, BaseInv, Types
  <1>4. Begins(groups[u], groups'[u])
    BY <1>1, <1>2, <1>3 DEF Begins, StaysInv, BaseInv, Types
  <1>5. groups'[u] \in Seq(Group)
    BY <1>2 DEF BaseInv, Types
  <1> QED
    BY <1>2, <1>3, <1>4, <1>5 DEF Begins

\* After Persist and after Load the two catalogs are the same.
LEMMA SameContinues ==
    ASSUME StaysInv, Persist \/ Open
    PROVE  Continues'
  <1>1. file'.exists = exists' /\ file'.groups = groups'
    BY DEF Persist, Open, memory, disk, StaysInv, BaseInv, Types
  <1>2. \A t \in exists' : Begins(groups'[t], groups'[t])
    BY DEF Begins, Persist, Open, memory, StaysInv, BaseInv, Types, TypeOK
  <1> QED
    BY <1>1, <1>2 DEF Continues

\* The other steps leave both catalogs and the cleared tables alone.
LEMMA QuietContinues ==
    ASSUME StaysInv,
           \/ \E t \in Tables, n \in Nat, k \in Nat : Insert(t, n, k)
           \/ \E t \in Tables : ClearPending(t)
           \/ \E ts \in Seq(Tables) : BeginSelect(ts)
           \/ \E ts \in SetToSeqs(Tables) : BeginClose(ts)
           \/ FlushNothing \/ FlushAll \/ EndSelect \/ EndClose
           \/ \E g \in dirty : Evict(g)
           \/ Throw \/ Crash \/ UNCHANGED vars
    PROVE  Continues'
  <1> USE DEF memory, disk, counters, control, history
  <1>1. UNCHANGED <<exists, groups, file, prior>>
    BY DEF Insert, ClearPending, BeginSelect, BeginClose, FlushNothing, FlushAll, EndSelect,
           EndClose, Evict, Throw, Crash, vars
  <1>2. pc' # "down" => pc # "down"
    BY DEF Insert, ClearPending, Flushing, BeginSelect, BeginClose, FlushNothing, FlushAll,
           EndSelect, EndClose, Evict, Throw, Crash, vars
  <1> QED
    BY <1>1, <1>2 DEF StaysInv, Continues

\* StaysInv is an inductive invariant, whatever writes throw.
THEOREM StaysInvariant == Spec => []StaysInv
  <1>1. Init => StaysInv
    BY InitBase DEF Init, StaysInv, Continues
  <1>2. ASSUME StaysInv, BaseInv', [Next]_vars
        PROVE  StaysInv'
    <2>1. Continues'
      BY <1>2, StepKinds, DDLContinues, WriteGroupContinues, SameContinues, QuietContinues
    <2> QED
      BY <1>2, <2>1 DEF StaysInv
  <1> QED
    BY <1>1, <1>2, BaseInvariant, PTL DEF Spec

\* A row group in the file stays there until the catalog is persisted after a
\* DROP or a TRUNCATE of its own table, also when writes throw and the process
\* dies in between.
THEOREM RowGroupsStay == Spec => PersistedStays
  <1> DEFINE Stays == \A t \in file.exists \ prior.cleared :
                        t \in file'.exists /\ IsPrefix(file.groups[t], file'.groups[t])
  <1>1. ASSUME StaysInv, [Next]_vars
        PROVE  Stays
    <2> SUFFICES ASSUME NEW t \in file.exists \ prior.cleared
                 PROVE  t \in file'.exists /\ IsPrefix(file.groups[t], file'.groups[t])
      OBVIOUS
    <2>1. t \in Tables /\ file.groups[t] \in Seq(Group) /\ groups[t] \in Seq(Group)
      BY <1>1 DEF StaysInv, BaseInv, Types
    <2>2. CASE Persist
      <3>1. t \in exists /\ Begins(file.groups[t], groups[t])
        BY <1>1, <2>2 DEF StaysInv, Continues, Persist
      <3>2. IsPrefix(file.groups[t], groups[t])
        BY <2>1, <3>1, PrefixIsBeginning
      <3> QED
        BY <2>2, <3>1, <3>2 DEF Persist
    <2>3. CASE file' = file
      <3>1. Begins(file.groups[t], file.groups[t])
        BY <2>1 DEF Begins
      <3>2. IsPrefix(file.groups[t], file.groups[t])
        BY <2>1, <3>1, PrefixIsBeginning
      <3> QED
        BY <2>3, <3>2
    <2>4. Persist \/ file' = file
      BY <1>1 DEF Next, vars, disk, CreateTable, DropTable, Truncate, DDL, Insert, BeginSelect,
                  BeginClose, FlushNothing, WriteGroup, ClearPending, FlushAll, EndSelect,
                  EndClose, Evict, Throw, Crash, Open
    <2> QED
      BY <2>2, <2>3, <2>4
  <1> QED
    BY <1>1, StaysInvariant, PTL DEF Spec, PersistedStays

-----------------------------------------------------------------------------
(* The columns of a table, if every INSERT succeeds or fails before it has *)
(* pushed a value.                                                         *)

SameColumns(gs) ==
    \A t \in Tables, c \in Columns : \A i \in DOMAIN gs[t] : gs[t][i].cols[c] = gs[t][i].cols[1]

\* Row i of a buffer or of a row group is the same row in every column.
Aligned ==
    /\ \A t \in Tables, c \in Columns : pending[t][c] = pending[t][1]
    /\ SameColumns(groups)
    /\ SameColumns(file.groups)

\* The rows of an INSERT that succeeds arrive in every column and nowhere else.
LEMMA InsertEffect ==
    ASSUME BaseInv, BadInserts = FALSE,
           NEW t \in Tables, NEW n \in Nat, NEW k \in Nat, Insert(t, n, k)
    PROVE  \E new \in Seq(1 .. MaxRows) :
             /\ new \in Seq(Nat)
             /\ pending' = [pending EXCEPT ![t] = [c \in Columns |-> pending[t][c] \o new]]
             /\ logical' = [logical EXCEPT ![t] = logical[t] \o new]
  <1> DEFINE new == [i \in 1 .. n |-> rows + i]
  <1>1. k = NumColumns /\ rows \in Nat /\ MaxRows \in Nat /\ rows + n <= MaxRows
    BY LiteDBAssumption DEF BaseInv, Types, Insert
  <1>2. \A i \in 1 .. n : rows + i \in 1 .. MaxRows
    BY <1>1
  <1>3. new \in Seq(1 .. MaxRows) /\ new \in Seq(Nat)
    BY <1>2
  <1>4. pending' = [pending EXCEPT ![t] = [c \in Columns |-> pending[t][c] \o new \o <<>>]]
    BY <1>1 DEF Insert
  <1>5. logical' = [logical EXCEPT ![t] = logical[t] \o new]
    BY DEF Insert
  <1> HIDE DEF new
  <1>6. \A c \in Columns : pending[t][c] \o new \o <<>> = pending[t][c] \o new
    <2> TAKE c \in Columns
    <2>1. pending[t][c] \in Seq(1 .. MaxRows)
      BY DEF BaseInv, Types, TypeOK
    <2>2. pending[t][c] \o new \in Seq(1 .. MaxRows)
      BY <1>3, <2>1
    <2> QED
      BY <2>2, ConcatEmptySeq
  <1> QED
    BY <1>3, <1>4, <1>5, <1>6

\* Every step keeps the columns aligned.
LEMMA AlignedStep ==
    ASSUME BaseInv, BadInserts = FALSE, Aligned, [Next]_vars
    PROVE  Aligned'
  <1>0. /\ pending \in [Tables -> [Columns -> Seq(1 .. MaxRows)]]
        /\ groups \in [Tables -> Seq(Group)]
    BY DEF BaseInv, Types, TypeOK
  <1>1. CASE \E t \in Tables : CreateTable(t) \/ DropTable(t) \/ Truncate(t)
    <2>1. PICK t \in Tables : DDL(t) /\ pending' = [pending EXCEPT ![t] = NoRows]
      BY <1>1 DEF CreateTable, DropTable, Truncate
    <2>2. \A u \in Tables, c \in Columns : pending'[u][c] = pending'[u][1]
      BY <1>0, <2>1, FirstColumn DEF Aligned, NoRows
    <2>3. SameColumns(groups)'
      BY <1>0, <2>1 DEF Aligned, SameColumns, DDL
    <2> QED
      BY <2>1, <2>2, <2>3 DEF Aligned, SameColumns, DDL, disk
  <1>2. CASE \E t \in Tables, n \in Nat, k \in Nat : Insert(t, n, k)
    <2>1. PICK t \in Tables, n \in Nat, k \in Nat : Insert(t, n, k)
      BY <1>2
    <2>2. PICK new \in Seq(1 .. MaxRows) :
             pending' = [pending EXCEPT ![t] = [c \in Columns |-> pending[t][c] \o new]]
      BY <2>1, InsertEffect
    <2>3. \A u \in Tables, c \in Columns : pending'[u][c] = pending'[u][1]
      BY <1>0, <2>2, FirstColumn DEF Aligned
    <2> QED
      BY <2>1, <2>3 DEF Aligned, SameColumns, Insert, disk
  <1>3. CASE \E t \in Tables : WriteGroup(t)
    <2>1. PICK t \in Tables : WriteGroup(t)
      BY <1>3
    <2>2. PICK g \in Group :
             /\ \A c \in Columns : g.cols[c] = Slice(t, c)
             /\ groups' = [groups EXCEPT ![t] = Append(groups[t], g)]
      BY <2>1, NewGroup
    <2>3. \A c \in Columns : Slice(t, c) = Slice(t, 1)
      BY DEF Aligned, Slice
    <2>4. \A c \in Columns : g.cols[c] = g.cols[1]
      BY <2>2, <2>3, FirstColumn
    <2>5. \A u \in Tables : \A i \in DOMAIN groups'[u] :
            \/ i \in DOMAIN groups[u] /\ groups'[u][i] = groups[u][i]
            \/ groups'[u][i] = g
      BY <1>0, <2>2
    <2>6. SameColumns(groups)'
      <3>1. \A u \in Tables, c \in Columns : \A i \in DOMAIN groups'[u] :
              groups'[u][i].cols[c] = groups'[u][i].cols[1]
        BY <2>4, <2>5 DEF Aligned, SameColumns
      <3> QED
        BY <3>1 DEF SameColumns
    <2> QED
      BY <2>1, <2>6 DEF Aligned, SameColumns, WriteGroup
  <1>4. CASE \E t \in Tables : ClearPending(t)
    <2>1. PICK t \in Tables : ClearPending(t)
      BY <1>4
    <2>2. \A u \in Tables, c \in Columns : pending'[u][c] = pending'[u][1]
      BY <1>0, <2>1, FirstColumn DEF Aligned, NoRows, ClearPending
    <2> QED
      BY <2>1, <2>2 DEF Aligned, SameColumns, ClearPending, disk
  <1>5. CASE Persist
    BY <1>5 DEF Aligned, SameColumns, Persist, memory
  <1>6. CASE Open
    <2>1. \A u \in Tables, c \in Columns : pending'[u][c] = pending'[u][1]
      BY <1>6, FirstColumn DEF NoRows, Open
    <2> QED
      BY <1>6, <2>1 DEF Aligned, SameColumns, Open, disk
  <1>7. CASE UNCHANGED <<pending, groups, file>>
    BY <1>7 DEF Aligned, SameColumns
  <1> QED
    BY <1>1, <1>2, <1>3, <1>4, <1>5, <1>6, <1>7, StepKinds
       DEF BeginSelect, BeginClose, FlushNothing, FlushAll, EndSelect, EndClose, Evict, Throw,
           Crash, vars, memory, disk

\* Aligned holds when a new file has been opened.
LEMMA InitAligned == Init => Aligned
  BY FirstColumn DEF Init, Aligned, SameColumns, Nothing, NoRows

\* The columns are aligned if no INSERT fails after it has pushed a value:
\* writes that throw and crashes do not disturb them.
THEOREM ColumnsStayAligned ==
    ASSUME BadInserts = FALSE
    PROVE  Spec => []ColumnsAligned
  <1>1. BaseInv /\ Aligned /\ [Next]_vars => Aligned'
    BY AlignedStep
  <1>2. BaseInv /\ Aligned => ColumnsAligned
    BY DEF BaseInv, Types, TypeOK, Aligned, SameColumns, ColumnsAligned
  <1> QED
    BY <1>1, <1>2, InitAligned, BaseInvariant, PTL DEF Spec

-----------------------------------------------------------------------------
(* Where the rows are.  The columns are aligned, so that the first one     *)
(* speaks for all of them.                                                 *)

Stored(gs) == FlattenColumn(gs, 1)

\* Every column of aligned row groups holds the same values.
LEMMA StoredColumns ==
    ASSUME NEW gs, SameColumns(gs), NEW t \in Tables, gs[t] \in Seq(Group), NEW c \in Columns
    PROVE  FlattenColumn(gs[t], c) = Stored(gs[t])
  <1>1. \A i \in 1 .. Len(gs[t]) : gs[t][i].cols[c] = gs[t][i].cols[1]
    BY DEF SameColumns
  <1>2. [i \in 1 .. Len(gs[t]) |-> gs[t][i].cols[c]] = [i \in 1 .. Len(gs[t]) |-> gs[t][i].cols[1]]
    BY <1>1
  <1> QED
    BY <1>2 DEF FlattenColumn, Stored

\* The values of a flushed slice, one by one.
LEMMA SliceItems ==
    ASSUME BaseInv, NEW t \in Tables, start < Total(t)
    PROVE  LET n == IF start + kRowGroupSize < Total(t) THEN kRowGroupSize ELSE Total(t) - start
           IN  /\ n \in Nat /\ Total(t) \in Nat
               /\ Slice(t, 1) \in Seq(Nat)
               /\ Len(Slice(t, 1)) = n
               /\ \A i \in 1 .. n : Slice(t, 1)[i] = pending[t][1][start + i]
  <1> DEFINE n == IF start + kRowGroupSize < Total(t) THEN kRowGroupSize ELSE Total(t) - start
  <1>1. Total(t) \in Nat /\ start \in Nat
    BY FirstColumn DEF BaseInv, Types, TypeOK, Total
  <1>2. n \in Nat /\ \A i \in 1 .. n : start + i <= Total(t)
    BY <1>1, LiteDBAssumption
  <1>3. Slice(t, 1) = [i \in 1 .. n |-> IF start + i <= Len(pending[t][1])
                                        THEN pending[t][1][start + i] ELSE Junk]
    BY DEF Slice
  <1>4. Slice(t, 1) \in Seq(Nat)
    BY FirstColumn, SliceType
  <1> HIDE DEF n
  <1>5. DOMAIN Slice(t, 1) = 1 .. n
    BY <1>3
  <1>6. Len(Slice(t, 1)) = n
    BY <1>2, <1>4, <1>5
  <1>7. \A i \in 1 .. n : Slice(t, 1)[i] = pending[t][1][start + i]
    BY <1>2, <1>3 DEF Total
  <1> QED
    BY <1>1, <1>2, <1>4, <1>6, <1>7 DEF n

\* A slice and what remains after it are what remained before it.
LEMMA SliceAndRest ==
    ASSUME BaseInv, NEW t \in Tables, start < Total(t)
    PROVE  Slice(t, 1) \o SubSeq(pending[t][1], start + kRowGroupSize + 1, Len(pending[t][1]))
             = SubSeq(pending[t][1], start + 1, Len(pending[t][1]))
  <1> DEFINE p == pending[t][1]
             n == IF start + kRowGroupSize < Total(t) THEN kRowGroupSize ELSE Total(t) - start
             rest == SubSeq(p, start + kRowGroupSize + 1, Len(p))
             whole == SubSeq(p, start + 1, Len(p))
  <1>0. p \in Seq(Nat) /\ Len(p) = Total(t) /\ start \in Nat /\ kRowGroupSize \in Nat \ {0}
    <2>1. p \in Seq(1 .. MaxRows)
      BY FirstColumn DEF BaseInv, Types, TypeOK
    <2>2. 1 .. MaxRows \subseteq Nat
      BY LiteDBAssumption
    <2>3. p \in Seq(Nat)
      BY <2>1, <2>2, SeqMonotonic
    <2> QED
      BY <2>3, LiteDBAssumption DEF BaseInv, Types, TypeOK, Total
  <1>1. /\ n \in Nat /\ Slice(t, 1) \in Seq(Nat) /\ Len(Slice(t, 1)) = n
        /\ \A i \in 1 .. n : Slice(t, 1)[i] = p[start + i]
    BY SliceItems
  <1> HIDE DEF p
  <1>2. /\ rest \in Seq(Nat)
        /\ Len(rest) = IF start + kRowGroupSize < Len(p) THEN Len(p) - start - kRowGroupSize ELSE 0
        /\ \A i \in 1 .. Len(rest) : rest[i] = p[start + kRowGroupSize + i]
    BY <1>0
  <1>3. /\ whole \in Seq(Nat)
        /\ Len(whole) = Len(p) - start
        /\ \A i \in 1 .. Len(whole) : whole[i] = p[start + i]
    <2>1. start < Len(p)
      BY <1>0
    <2> QED
      BY <1>0, <2>1
  <1>4. n = IF start + kRowGroupSize < Len(p) THEN kRowGroupSize ELSE Len(p) - start
    BY <1>0
  <1> HIDE DEF rest, whole, n
  <1> DEFINE both == Slice(t, 1) \o rest
  <1>5. /\ both \in Seq(Nat) /\ Len(both) = n + Len(rest)
        /\ \A i \in 1 .. n + Len(rest) : both[i] = IF i <= n THEN Slice(t, 1)[i] ELSE rest[i - n]
    BY <1>1, <1>2, ConcatProperties
  <1> HIDE DEF both
  <1>8. n + Len(rest) = Len(whole) /\ Len(rest) \in Nat /\ Len(whole) \in Nat
    <2>1. start < Len(p)
      BY <1>0
    <2>2. CASE start + kRowGroupSize < Len(p)
      BY <1>0, <1>2, <1>3, <1>4, <2>2
    <2>3. CASE ~ (start + kRowGroupSize < Len(p))
      BY <1>0, <1>2, <1>3, <1>4, <2>1, <2>3
    <2> QED
      BY <2>2, <2>3
  <1>6. ASSUME NEW i \in 1 .. Len(whole) PROVE both[i] = whole[i]
    <2>1. CASE i <= n
      <3>1. i \in 1 .. n /\ i \in 1 .. n + Len(rest)
        BY <1>1, <1>8, <2>1
      <3> QED
        BY <1>1, <1>3, <1>5, <2>1, <3>1
    <2>2. CASE i > n
      <3>1. n = kRowGroupSize /\ i - n \in 1 .. Len(rest)
        BY <1>0, <1>1, <1>2, <1>3, <1>4, <1>8, <2>2
      <3>2. both[i] = rest[i - n]
        BY <1>1, <1>5, <1>8, <2>2
      <3>3. start + kRowGroupSize + (i - n) = start + i
        BY <1>0, <3>1
      <3> QED
        BY <1>2, <1>3, <3>1, <3>2, <3>3
    <2> QED
      BY <1>1, <1>8, <2>1, <2>2
  <1>7. both = whole
    BY <1>3, <1>5, <1>6, <1>8, SeqEqual
  <1> QED
    BY <1>7 DEF both, rest, whole, p

\* Unless FlushTable is in the middle of a table its buffer is all unflushed.
LEMMA AllUnflushed ==
    ASSUME BaseInv, NEW t \in Tables, pc # "flush" \/ start = 0
    PROVE  Unflushed(t, 1) = pending[t][1]
  <1>1. pending[t][1] \in Seq(1 .. MaxRows)
    BY FirstColumn DEF BaseInv, Types, TypeOK
  <1>2. SubSeq(pending[t][1], 1, Len(pending[t][1])) = pending[t][1]
    BY <1>1, SubSeqFull
  <1>3. 0 + 1 = 1
    OBVIOUS
  <1> QED
    BY <1>2, <1>3 DEF Unflushed

\* The same after a step.
LEMMA AllUnflushedNext ==
    ASSUME BaseInv', NEW t \in Tables, pc' # "flush" \/ start' = 0
    PROVE  Unflushed(t, 1)' = pending'[t][1]
  <1>1. pending'[t][1] \in Seq(1 .. MaxRows)
    BY FirstColumn DEF BaseInv, Types, TypeOK
  <1>2. SubSeq(pending'[t][1], 1, Len(pending'[t][1])) = pending'[t][1]
    BY <1>1, SubSeqFull
  <1>3. 0 + 1 = 1
    OBVIOUS
  <1> QED
    BY <1>2, <1>3 DEF Unflushed

\* Every row is in a row group or in the buffer, once and in order.
Whole == pc # "down" => \A t \in Tables : Stored(groups[t]) \o Unflushed(t, 1) = logical[t]

\* The types of what Whole speaks of.
LEMMA RowTypes ==
    ASSUME BaseInv
    PROVE  \A t \in Tables :
             /\ groups[t] \in Seq(Group) /\ Stored(groups[t]) \in Seq(Nat)
             /\ file.groups[t] \in Seq(Group) /\ Stored(file.groups[t]) \in Seq(Nat)
             /\ pending[t][1] \in Seq(Nat) /\ Total(t) \in Nat
             /\ logical[t] \in Seq(Nat) /\ start \in Nat
  <1> TAKE t \in Tables
  <1>1. groups[t] \in Seq(Group) /\ file.groups[t] \in Seq(Group)
    BY DEF BaseInv, Types
  <1>2. Stored(groups[t]) \in Seq(Nat) /\ Stored(file.groups[t]) \in Seq(Nat)
    BY <1>1, FirstColumn, ColumnType DEF Stored
  <1>3. pending[t][1] \in Seq(1 .. MaxRows)
    BY FirstColumn DEF BaseInv, Types, TypeOK
  <1>4. 1 .. MaxRows \subseteq Nat
    BY LiteDBAssumption
  <1>5. pending[t][1] \in Seq(Nat)
    BY <1>3, <1>4, SeqMonotonic
  <1>6. Total(t) \in Nat
    BY <1>5 DEF Total
  <1> QED
    BY <1>1, <1>2, <1>5, <1>6 DEF BaseInv, Types, TypeOK, History

\* Every step keeps the rows whole, if no write throws.
LEMMA WholeStep ==
    ASSUME BaseInv, BaseInv', BadInserts = FALSE, MaxThrows = 0, Whole, [Next]_vars
    PROVE  Whole'
  <1> SUFFICES ASSUME pc' # "down", NEW u \in Tables
               PROVE  Stored(groups'[u]) \o Unflushed(u, 1)' = logical'[u]
    BY DEF Whole
  <1>0. /\ pending \in [Tables -> [Columns -> Seq(1 .. MaxRows)]]
        /\ groups \in [Tables -> Seq(Group)] /\ logical \in History
    BY DEF BaseInv, Types, TypeOK
  <1>1. CASE \E t \in Tables : CreateTable(t) \/ DropTable(t) \/ Truncate(t)
    <2>1. PICK t \in Tables : DDL(t) /\ pending' = [pending EXCEPT ![t] = NoRows]
      BY <1>1 DEF CreateTable, DropTable, Truncate
    <2>2. Unflushed(u, 1)' = pending'[u][1] /\ Unflushed(u, 1) = pending[u][1]
      BY <2>1, AllUnflushed, AllUnflushedNext DEF DDL
    <2>3. CASE u = t
      <3>1. groups'[u] = <<>> /\ logical'[u] = <<>> /\ pending'[u][1] = <<>>
        BY <1>0, <2>1, <2>3, FirstColumn DEF DDL, NoRows, History
      <3>2. Stored(<<>>) = <<>>
        BY FirstColumn, ColumnOfNothing DEF Stored
      <3>3. <<>> \o <<>> = <<>>
        OBVIOUS
      <3> QED
        BY <2>2, <3>1, <3>2, <3>3
    <2>4. CASE u # t
      BY <1>0, <2>1, <2>2, <2>4 DEF Whole, DDL, History
    <2> QED
      BY <2>3, <2>4
  <1>2. CASE \E t \in Tables, n \in Nat, k \in Nat : Insert(t, n, k)
    <2>1. PICK t \in Tables, n \in Nat, k \in Nat : Insert(t, n, k)
      BY <1>2
    <2>2. PICK new \in Seq(1 .. MaxRows) :
             /\ new \in Seq(Nat)
             /\ pending' = [pending EXCEPT ![t] = [c \in Columns |-> pending[t][c] \o new]]
             /\ logical' = [logical EXCEPT ![t] = logical[t] \o new]
      BY <2>1, InsertEffect
    <2>3. pc = "idle" /\ pc' = pc /\ groups' = groups
      BY <2>1 DEF Insert, control
    <2>4. Unflushed(u, 1)' = pending'[u][1] /\ Unflushed(u, 1) = pending[u][1]
      BY <2>3, AllUnflushed, AllUnflushedNext
    <2>5. Stored(groups[u]) \o pending[u][1] = logical[u]
      BY <2>3, <2>4 DEF Whole
    <2>6. CASE u = t
      <3>1. pending'[u][1] = pending[u][1] \o new /\ logical'[u] = logical[u] \o new
        BY <1>0, <2>2, <2>6, FirstColumn DEF History
      <3>2. Stored(groups[u]) \o (pending[u][1] \o new) = (Stored(groups[u]) \o pending[u][1]) \o new
        <4>1. Stored(groups[u]) \in Seq(Nat) /\ pending[u][1] \in Seq(Nat) /\ new \in Seq(Nat)
          BY <2>2, RowTypes
        <4>2. \A a, b, c \in Seq(Nat) : (a \o b) \o c = a \o (b \o c)
          BY ConcatAssociative
        <4> QED
          BY <4>1, <4>2, Zenon
      <3> QED
        BY <2>3, <2>4, <2>5, <3>1, <3>2
    <2>7. CASE u # t
      BY <1>0, <2>2, <2>3, <2>4, <2>5, <2>7 DEF History
    <2> QED
      BY <2>6, <2>7
  <1>3. CASE \E t \in Tables : WriteGroup(t)
    <2>1. PICK t \in Tables : WriteGroup(t)
      BY <1>3
    <2>2. PICK g \in Group :
             /\ \A c \in Columns : g.cols[c] = Slice(t, c)
             /\ groups' = [groups EXCEPT ![t] = Append(groups[t], g)]
      BY <2>1, NewGroup
    <2>3. /\ pc = "flush" /\ pc' = pc /\ from # <<>> /\ from' = from /\ t = Head(from)
          /\ pending' = pending /\ logical' = logical /\ start' = start + kRowGroupSize
          /\ start < Total(t)
      BY <2>1 DEF WriteGroup, Flushing, history
    <2>4. Stored(groups[u]) \o Unflushed(u, 1) = logical[u]
      BY <2>3 DEF Whole
    <2>5. CASE u = t
      <3> DEFINE rest == SubSeq(pending[t][1], start + kRowGroupSize + 1, Len(pending[t][1]))
      <3>1. Stored(groups'[t]) = Stored(groups[t]) \o Slice(t, 1)
        BY <1>0, <2>2, FirstColumn, ColumnOfAppend DEF Stored
      <3>2. Unflushed(t, 1) = Slice(t, 1) \o rest
        BY <2>3, SliceAndRest DEF Unflushed
      <3>3. Unflushed(t, 1)' = rest
        BY <2>3 DEF Unflushed
      <3>4. Slice(t, 1) \in Seq(Nat) /\ Stored(groups[t]) \in Seq(Nat)
        BY <2>3, FirstColumn, SliceType, RowTypes
      <3>5. rest \in Seq(Nat)
        <4>1. pending[t][1] \in Seq(Nat) /\ start + kRowGroupSize + 1 \in Nat \ {0}
          BY RowTypes, LiteDBAssumption
        <4> QED
          BY <4>1
      <3> HIDE DEF rest
      <3>6. (Stored(groups[t]) \o Slice(t, 1)) \o rest = Stored(groups[t]) \o (Slice(t, 1) \o rest)
        <4>1. \A p, q, r \in Seq(Nat) : (p \o q) \o r = p \o (q \o r)
          BY ConcatAssociative
        <4> QED
          BY <3>4, <3>5, <4>1, Zenon
      <3> QED
        BY <2>3, <2>4, <2>5, <3>1, <3>2, <3>3, <3>6
    <2>6. CASE u # t
      <3>1. Unflushed(u, 1) = pending[u][1] /\ Unflushed(u, 1)' = pending[u][1]
        BY <2>3, <2>6 DEF Unflushed
      <3>2. groups'[u] = groups[u]
        BY <1>0, <2>2, <2>6
      <3> QED
        BY <2>3, <2>4, <3>1, <3>2
    <2> QED
      BY <2>5, <2>6
  <1>4. CASE \E t \in Tables : ClearPending(t)
    <2>1. PICK t \in Tables : ClearPending(t)
      BY <1>4
    <2>2. /\ pc = "flush" /\ pc' = "flushall" /\ from # <<>> /\ t = Head(from) /\ start >= Total(t)
          /\ groups' = groups /\ logical' = logical /\ pending' = [pending EXCEPT ![t] = NoRows]
      BY <2>1 DEF ClearPending, Flushing, history
    <2>3. Unflushed(u, 1)' = pending'[u][1]
      BY <2>2, AllUnflushedNext
    <2>4. CASE u = t
      <3>1. SubSeq(pending[t][1], start + 1, Len(pending[t][1])) = <<>>
        <4>1. Len(pending[t][1]) < start + 1 /\ Len(pending[t][1]) \in Int /\ start + 1 \in Int
          BY <2>2, RowTypes DEF Total
        <4> QED
          BY <4>1, SubSeqEmpty
      <3>2. Unflushed(t, 1) = <<>>
        BY <2>2, <3>1 DEF Unflushed
      <3>3. pending'[t][1] = <<>>
        BY <1>0, <2>2, FirstColumn DEF NoRows
      <3> QED
        BY <2>2, <2>3, <2>4, <3>2, <3>3 DEF Whole
    <2>5. CASE u # t
      <3>1. Unflushed(u, 1) = pending[u][1] /\ pending'[u] = pending[u]
        BY <1>0, <2>2, <2>5 DEF Unflushed
      <3> QED
        BY <2>2, <2>3, <3>1 DEF Whole
    <2> QED
      BY <2>4, <2>5
  <1>5. CASE Open
    <2>1. groups' = file.groups /\ logical'[u] = Stored(file.groups[u]) /\ pending'[u][1] = <<>>
      BY <1>5, FirstColumn DEF Open, Stored, NoRows
    <2>2. Unflushed(u, 1)' = <<>>
      BY <1>5, <2>1, AllUnflushedNext DEF Open
    <2>3. Stored(file.groups[u]) \o <<>> = Stored(file.groups[u])
      BY RowTypes, ConcatEmptySeq
    <2> QED
      BY <2>1, <2>2, <2>3
  <1>6. ASSUME UNCHANGED <<pending, groups, logical>>, pc # "down",
               pc # "flush" \/ start = 0, pc' # "flush" \/ start' = 0
        PROVE  Stored(groups'[u]) \o Unflushed(u, 1)' = logical'[u]
    BY <1>6, AllUnflushed, AllUnflushedNext DEF Whole
  <1>7. CASE Persist
    <2>1. start = 0 /\ start' = start /\ UNCHANGED <<pending, groups, logical>> /\ pc # "down"
      BY <1>7 DEF Persist, memory, BaseInv, Control
    <2> QED
      BY <1>6, <2>1
  <1>8. CASE (\E ts \in Seq(Tables) : BeginSelect(ts)) \/ (\E ts \in SetToSeqs(Tables) : BeginClose(ts))
    BY <1>6, <1>8 DEF BeginSelect, BeginClose, memory, history
  <1>9. CASE FlushNothing
    <2>1. start = 0 /\ start' = start /\ UNCHANGED <<pending, groups, logical>> /\ pc # "down"
      BY <1>9 DEF FlushNothing, memory, history, BaseInv, Control
    <2> QED
      BY <1>6, <2>1
  <1>10. CASE FlushAll \/ EndSelect \/ EndClose
    <2>1. start = 0 /\ start' = start /\ UNCHANGED <<pending, groups, logical>> /\ pc # "down"
      BY <1>10 DEF FlushAll, EndSelect, EndClose, memory, history, BaseInv, Control
    <2> QED
      BY <1>6, <2>1
  <1>11. CASE (\E g \in dirty : Evict(g)) \/ UNCHANGED vars
    <2>1. UNCHANGED <<pending, groups, logical, pc, from, start>>
      BY <1>11 DEF Evict, vars, memory, control, history
    <2>2. Unflushed(u, 1)' = Unflushed(u, 1)
      BY <2>1 DEF Unflushed
    <2> QED
      BY <2>1, <2>2 DEF Whole
  <1>12. ~ Throw /\ ~ Crash
    BY DEF Throw, Crash, BaseInv, Types
  <1> QED
    BY <1>1, <1>2, <1>3, <1>4, <1>5, <1>7, <1>8, <1>9, <1>10, <1>11, <1>12, StepKinds

-----------------------------------------------------------------------------
(* What a crash leaves.                                                    *)

\* The file has the tables ex, each with the first so many rows of lg.
Holds(ex, lg) == file.exists = ex /\ \A t \in ex : Begins(Stored(file.groups[t]), lg[t])

Recoverable ==
    /\ pc = "persist" /\ mode = "ddl" => Holds(prior.exists, prior.logical)
    /\ pc = "down" => Holds(exists, logical) \/ Holds(prior.exists, prior.logical)
    /\ pc # "down" /\ ~ (pc = "persist" /\ mode = "ddl") => Holds(exists, logical)

\* A concatenation begins with its first part, and with what that begins with.
LEMMA ConcatBegins ==
    ASSUME NEW s \in Seq(Nat), NEW l \in Seq(Nat), NEW r \in Seq(Nat), Begins(s, l)
    PROVE  Begins(s, l \o r)
  <1>1. Len(l \o r) = Len(l) + Len(r) /\ \A i \in 1 .. Len(l) : (l \o r)[i] = l[i]
    OBVIOUS
  <1> QED
    BY <1>1 DEF Begins

\* Every step keeps the file recoverable, if no write throws.
LEMMA RecoverableStep ==
    ASSUME BaseInv, BaseInv', BadInserts = FALSE, MaxThrows = 0, Whole, Recoverable, [Next]_vars
    PROVE  Recoverable'
  <1>0. \A s \in Seq(Nat) : Begins(s, s)
    BY DEF Begins
  <1>1. CASE \E t \in Tables : CreateTable(t) \/ DropTable(t) \/ Truncate(t)
    <2>1. PICK t \in Tables : DDL(t)
      BY <1>1 DEF CreateTable, DropTable, Truncate
    <2>2. Holds(exists, logical)
      BY <2>1 DEF Recoverable, DDL
    <2>3. Holds(prior.exists, prior.logical)'
      BY <2>1, <2>2 DEF Holds, DDL, disk
    <2> QED
      BY <2>1, <2>3 DEF Recoverable, DDL
  <1>2. CASE \E t \in Tables, n \in Nat, k \in Nat : Insert(t, n, k)
    <2>1. PICK t \in Tables, n \in Nat, k \in Nat : Insert(t, n, k)
      BY <1>2
    <2>2. PICK new \in Seq(Nat) : logical' = [logical EXCEPT ![t] = logical[t] \o new]
      BY <2>1, InsertEffect
    <2>3. pc = "idle" /\ pc' = pc /\ exists' = exists /\ file' = file
      BY <2>1 DEF Insert, control, disk
    <2>4. Holds(exists, logical)
      BY <2>3 DEF Recoverable
    <2>5. ASSUME NEW u \in exists PROVE Begins(Stored(file.groups[u]), logical'[u])
      <3>1. u \in Tables
        BY DEF BaseInv, Types, TypeOK
      <3>2. logical'[u] = IF u = t THEN logical[u] \o new ELSE logical[u]
        BY <2>2, <3>1 DEF BaseInv, Types, History
      <3>3. Begins(Stored(file.groups[u]), logical[u])
        BY <2>4 DEF Holds
      <3> QED
        BY <3>1, <3>2, <3>3, RowTypes, ConcatBegins
    <2>6. Holds(exists, logical)'
      BY <2>3, <2>4, <2>5 DEF Holds
    <2> QED
      BY <2>3, <2>6 DEF Recoverable
  <1>3. CASE Persist
    <2>1. ASSUME NEW u \in exists PROVE Begins(Stored(groups[u]), logical[u])
      <3>1. u \in Tables /\ pc # "down"
        BY <1>3 DEF BaseInv, Types, TypeOK, Persist
      <3>2. Stored(groups[u]) \o pending[u][1] = logical[u]
        BY <1>3, <3>1, AllUnflushed DEF Whole, Persist
      <3> QED
        BY <1>0, <3>1, <3>2, RowTypes, ConcatBegins
    <2>2. Holds(exists, logical)'
      BY <1>3, <2>1 DEF Holds, Persist, memory
    <2> QED
      BY <1>3, <2>2 DEF Recoverable, Persist
  <1>4. CASE Open
    <2>1. ASSUME NEW u \in file.exists PROVE Begins(Stored(file.groups[u]), logical'[u])
      <3>1. u \in Tables
        BY DEF BaseInv, Types
      <3>2. logical'[u] = Stored(file.groups[u])
        BY <1>4, <3>1 DEF Open, Stored
      <3> QED
        BY <1>0, <3>1, <3>2, RowTypes
    <2>2. Holds(exists, logical)'
      BY <1>4, <2>1 DEF Holds, Open, disk
    <2> QED
      BY <1>4, <2>2 DEF Recoverable, Open
  <1>5. ASSUME UNCHANGED <<file, exists, logical, prior>>
        PROVE  /\ Holds(exists, logical)' <=> Holds(exists, logical)
               /\ Holds(prior.exists, prior.logical)' <=> Holds(prior.exists, prior.logical)
    BY <1>5 DEF Holds
  <1>6. CASE \E t \in Tables : WriteGroup(t) \/ ClearPending(t)
    BY <1>5, <1>6 DEF Recoverable, WriteGroup, ClearPending, Flushing, disk, history
  <1>7. CASE FlushAll
    BY <1>5, <1>7 DEF Recoverable, FlushAll, memory, history, BaseInv, Control
  <1>8. CASE \/ \E ts \in Seq(Tables) : BeginSelect(ts)
             \/ \E ts \in SetToSeqs(Tables) : BeginClose(ts)
             \/ FlushNothing \/ EndSelect \/ EndClose
    BY <1>5, <1>8 DEF Recoverable, BeginSelect, BeginClose, FlushNothing, EndSelect, EndClose,
                      memory, disk, history
  <1>9. CASE (\E g \in dirty : Evict(g)) \/ UNCHANGED vars
    BY <1>5, <1>9 DEF Recoverable, Evict, memory, control, history, vars
  <1>10. CASE Crash
    BY <1>5, <1>10 DEF Recoverable, Crash, memory, history
  <1>11. ~ Throw
    BY DEF Throw, BaseInv, Types
  <1> QED
    BY <1>1, <1>2, <1>3, <1>4, <1>6, <1>7, <1>8, <1>9, <1>10, <1>11, StepKinds

\* What holds of the rows if writes do not throw.
RowsInv == BaseInv /\ Aligned /\ Whole /\ Recoverable

\* The invariant holds when a new file has been opened.
LEMMA InitRows == Init => RowsInv
  <1> SUFFICES ASSUME Init PROVE RowsInv
    OBVIOUS
  <1>1. BaseInv /\ Aligned
    BY InitBase, InitAligned
  <1>2. ASSUME NEW t \in Tables PROVE Stored(groups[t]) \o Unflushed(t, 1) = logical[t]
    <2>1. Unflushed(t, 1) = <<>>
      BY <1>1, AllUnflushed, FirstColumn DEF Init, NoRows
    <2>2. Stored(<<>>) = <<>>
      BY FirstColumn, ColumnOfNothing DEF Stored
    <2>3. <<>> \o <<>> = <<>>
      OBVIOUS
    <2> QED
      BY <2>1, <2>2, <2>3 DEF Init, Nothing
  <1>3. Whole
    BY <1>2 DEF Whole
  <1>4. Recoverable
    BY DEF Init, Recoverable, Holds
  <1> QED
    BY <1>1, <1>3, <1>4 DEF RowsInv

\* RowsInv is an inductive invariant if no write throws and no INSERT fails
\* after it has pushed a value; the process may die at any step.
THEOREM RowsInvariant ==
    ASSUME MaxThrows = 0, BadInserts = FALSE
    PROVE  Spec => []RowsInv
  <1>1. ASSUME RowsInv, BaseInv', [Next]_vars
        PROVE  RowsInv'
    <2>1. Aligned'
      BY <1>1, AlignedStep DEF RowsInv
    <2>2. Whole'
      BY <1>1, WholeStep DEF RowsInv
    <2>3. Recoverable'
      BY <1>1, RecoverableStep DEF RowsInv
    <2> QED
      BY <1>1, <2>1, <2>2, <2>3 DEF RowsInv
  <1> QED
    BY <1>1, InitRows, BaseInvariant, PTL DEF Spec

\* No statement loses, repeats or reorders a row: the row groups and the
\* buffer of a table hold its rows, in each column, for any row group size.
THEOREM RowsAreKeptExactlyOnce ==
    ASSUME MaxThrows = 0, BadInserts = FALSE
    PROVE  Spec => []RowsExactlyOnce
  <1>1. ASSUME RowsInv, pc # "down", NEW t \in exists, NEW c \in Columns
        PROVE  FlattenColumn(groups[t], c) \o Unflushed(t, c) = logical[t]
    <2>1. t \in Tables /\ groups[t] \in Seq(Group)
      BY <1>1 DEF RowsInv, BaseInv, Types, TypeOK
    <2>2. FlattenColumn(groups[t], c) = Stored(groups[t])
      BY <1>1, <2>1, StoredColumns DEF RowsInv, Aligned
    <2>3. Unflushed(t, c) = Unflushed(t, 1)
      BY <1>1, <2>1 DEF RowsInv, Aligned, Unflushed
    <2> QED
      BY <1>1, <2>1, <2>2, <2>3 DEF RowsInv, Whole
  <1>2. RowsInv => RowsExactlyOnce
    BY <1>1 DEF RowsExactlyOnce
  <1> QED
    BY <1>2, RowsInvariant, PTL

\* Wherever the process dies, the file holds the tables, each with the first
\* so many of its rows, as they were before or after the statement in progress.
THEOREM CrashRecovery ==
    ASSUME MaxThrows = 0, BadInserts = FALSE
    PROVE  Spec => []FileIsRecoverable
  <1>1. ASSUME RowsInv, NEW ex \in SUBSET Tables, NEW lg \in History, Holds(ex, lg)
        PROVE  FileHolds(ex, lg)
    <2>1. ASSUME NEW t \in ex, NEW c \in Columns
          PROVE  IsPrefix(FlattenColumn(file.groups[t], c), lg[t])
      <3>1. t \in Tables /\ file.groups[t] \in Seq(Group) /\ Stored(file.groups[t]) \in Seq(Nat)
        BY <1>1, RowTypes DEF RowsInv
      <3>2. FlattenColumn(file.groups[t], c) = Stored(file.groups[t])
        BY <1>1, <3>1, StoredColumns DEF RowsInv, Aligned
      <3>3. lg[t] \in Seq(Nat)
        BY <1>1, <3>1 DEF History
      <3> QED
        BY <1>1, <3>1, <3>2, <3>3, PrefixIsBeginning DEF Holds
    <2> QED
      BY <1>1, <2>1 DEF FileHolds, Holds
  <1>2. ASSUME RowsInv PROVE FileIsRecoverable
    <2>1. /\ exists \in SUBSET Tables /\ logical \in History
          /\ prior.exists \in SUBSET Tables /\ prior.logical \in History
      BY <1>2 DEF RowsInv, BaseInv, Types, TypeOK
    <2> QED
      BY <1>1, <1>2, <2>1 DEF RowsInv, Recoverable, FileIsRecoverable
  <1> QED
    BY <1>2, RowsInvariant, PTL

-----------------------------------------------------------------------------
(* What writes that throw leave: a row may come to be in two row groups,   *)
(* but it is somewhere.                                                    *)

\* Every row is in a row group or in the buffer, and what FlushTable has
\* passed of the buffer is in a row group.
Kept ==
    /\ pc # "down" => \A t \in Tables :
         Range(logical[t]) \subseteq Range(Stored(groups[t])) \cup Range(pending[t][1])
    /\ pc = "flush" /\ from # <<>> => \A i \in 1 .. Total(Head(from)) :
         i <= start => pending[Head(from)][1][i] \in Range(Stored(groups[Head(from)]))

\* A new row group adds its rows to those stored.
LEMMA StoredGrows ==
    ASSUME NEW gs \in Seq(Group), NEW g \in Group
    PROVE  Range(Stored(Append(gs, g))) = Range(Stored(gs)) \cup Range(g.cols[1])
  <1>1. Stored(Append(gs, g)) = Stored(gs) \o g.cols[1]
    BY FirstColumn, ColumnOfAppend DEF Stored
  <1>2. Stored(gs) \in Seq(Nat) /\ g.cols[1] \in Seq(Nat)
    BY FirstColumn, ColumnType DEF Stored, Group
  <1> QED
    BY <1>1, <1>2, ConcatRange

\* An empty sequence has no items.
LEMMA EmptyRange == Range(<<>>) = {}
  BY DEF Range

\* Every step keeps the rows, also one that throws.
LEMMA KeptStep ==
    ASSUME BaseInv, BadInserts = FALSE, Kept, [Next]_vars
    PROVE  Kept'
  <1> DEFINE Safe == pc # "down" => \A t \in Tables :
               Range(logical[t]) \subseteq Range(Stored(groups[t])) \cup Range(pending[t][1])
             Passed == pc = "flush" /\ from # <<>> => \A i \in 1 .. Total(Head(from)) :
               i <= start => pending[Head(from)][1][i] \in Range(Stored(groups[Head(from)]))
  <1>0. /\ pending \in [Tables -> [Columns -> Seq(1 .. MaxRows)]]
        /\ groups \in [Tables -> Seq(Group)] /\ logical \in History
        /\ from \in Seq(Tables) /\ start \in Nat
    BY DEF BaseInv, Types, TypeOK
  <1>1. CASE \E t \in Tables : CreateTable(t) \/ DropTable(t) \/ Truncate(t)
    <2>1. PICK t \in Tables : DDL(t) /\ pending' = [pending EXCEPT ![t] = NoRows]
      BY <1>1 DEF CreateTable, DropTable, Truncate
    <2>2. ASSUME NEW u \in Tables
          PROVE  Range(logical'[u]) \subseteq Range(Stored(groups'[u])) \cup Range(pending'[u][1])
      <3>1. CASE u = t
        <4>1. logical'[u] = <<>>
          BY <1>0, <2>1, <3>1 DEF DDL, History
        <4> QED
          BY <4>1, EmptyRange
      <3>2. CASE u # t
        <4>1. logical'[u] = logical[u] /\ groups'[u] = groups[u] /\ pending'[u] = pending[u]
          BY <1>0, <2>1, <3>2 DEF DDL, History
        <4> QED
          BY <2>1, <4>1 DEF Kept, DDL
      <3> QED
        BY <3>1, <3>2
    <2> QED
      BY <2>1, <2>2 DEF Kept, DDL
  <1>2. CASE \E t \in Tables, n \in Nat, k \in Nat : Insert(t, n, k)
    <2>1. PICK t \in Tables, n \in Nat, k \in Nat : Insert(t, n, k)
      BY <1>2
    <2>2. PICK new \in Seq(1 .. MaxRows) :
             /\ new \in Seq(Nat)
             /\ pending' = [pending EXCEPT ![t] = [c \in Columns |-> pending[t][c] \o new]]
             /\ logical' = [logical EXCEPT ![t] = logical[t] \o new]
      BY <2>1, InsertEffect
    <2>3. pc = "idle" /\ pc' = pc /\ groups' = groups
      BY <2>1 DEF Insert, control
    <2>4. ASSUME NEW u \in Tables
          PROVE  Range(logical'[u]) \subseteq Range(Stored(groups'[u])) \cup Range(pending'[u][1])
      <3>0. Range(logical[u]) \subseteq Range(Stored(groups[u])) \cup Range(pending[u][1])
        BY <2>3 DEF Kept
      <3>1. CASE u = t
        <4>1. logical'[u] = logical[u] \o new /\ pending'[u][1] = pending[u][1] \o new
          BY <1>0, <2>2, <3>1, FirstColumn DEF History
        <4>2. logical[u] \in Seq(Nat) /\ pending[u][1] \in Seq(Nat)
          BY RowTypes
        <4>a. \A a, b \in Seq(Nat) : Range(a \o b) = Range(a) \cup Range(b)
          BY ConcatRange
        <4>3. Range(logical'[u]) = Range(logical[u]) \cup Range(new)
          BY <2>2, <4>1, <4>2, <4>a, Zenon
        <4>4. Range(pending'[u][1]) = Range(pending[u][1]) \cup Range(new)
          BY <2>2, <4>1, <4>2, <4>a, Zenon
        <4> QED
          BY <2>3, <3>0, <4>3, <4>4
      <3>2. CASE u # t
        BY <1>0, <2>2, <2>3, <3>0, <3>2 DEF History
      <3> QED
        BY <3>1, <3>2
    <2> QED
      BY <2>3, <2>4 DEF Kept
  <1>3. CASE \E t \in Tables : WriteGroup(t)
    <2>1. PICK t \in Tables : WriteGroup(t)
      BY <1>3
    <2>2. PICK g \in Group :
             /\ \A c \in Columns : g.cols[c] = Slice(t, c)
             /\ groups' = [groups EXCEPT ![t] = Append(groups[t], g)]
      BY <2>1, NewGroup
    <2>3. /\ pc = "flush" /\ pc' = pc /\ from # <<>> /\ from' = from /\ t = Head(from)
          /\ pending' = pending /\ logical' = logical /\ start' = start + kRowGroupSize
          /\ start < Total(t)
      BY <2>1 DEF WriteGroup, Flushing, history
    <2>4. Range(Stored(groups'[t])) = Range(Stored(groups[t])) \cup Range(Slice(t, 1))
      <3>1. groups'[t] = Append(groups[t], g) /\ g.cols[1] = Slice(t, 1)
        BY <1>0, <2>2, FirstColumn
      <3> QED
        BY <1>0, <3>1, StoredGrows
    <2>5. \A u \in Tables : Range(Stored(groups[u])) \subseteq Range(Stored(groups'[u]))
      <3> TAKE u \in Tables
      <3>1. u # t => groups'[u] = groups[u]
        BY <1>0, <2>2
      <3> QED
        BY <2>4, <3>1
    <2>6. Safe'
      BY <2>3, <2>5 DEF Kept
    <2>7. ASSUME NEW i \in 1 .. Total(t), i <= start + kRowGroupSize
          PROVE  pending[t][1][i] \in Range(Stored(groups'[t]))
      <3>1. CASE i <= start
        BY <2>3, <2>5, <3>1 DEF Kept
      <3>2. CASE i > start
        <4> DEFINE n == IF start + kRowGroupSize < Total(t) THEN kRowGroupSize ELSE Total(t) - start
        <4>1. /\ n \in Nat /\ Total(t) \in Nat /\ Slice(t, 1) \in Seq(Nat) /\ Len(Slice(t, 1)) = n
              /\ \A j \in 1 .. n : Slice(t, 1)[j] = pending[t][1][start + j]
          BY <2>3, SliceItems
        <4>2. i - start \in 1 .. n /\ start + (i - start) = i
          BY <1>0, <2>3, <2>7, <3>2, <4>1, LiteDBAssumption
        <4> HIDE DEF n
        <4>3. Slice(t, 1)[i - start] = pending[t][1][i]
          BY <4>1, <4>2
        <4>4. i - start \in DOMAIN Slice(t, 1)
          BY <4>1, <4>2
        <4>5. pending[t][1][i] \in Range(Slice(t, 1))
          BY <4>3, <4>4 DEF Range
        <4> QED
          BY <2>4, <4>5
      <3> QED
        BY <1>0, <2>7, <3>1, <3>2, RowTypes
    <2>8. Passed'
      BY <2>3, <2>7 DEF Total
    <2> QED
      BY <2>6, <2>8 DEF Kept
  <1>4. CASE \E t \in Tables : ClearPending(t)
    <2>1. PICK t \in Tables : ClearPending(t)
      BY <1>4
    <2>2. /\ pc = "flush" /\ pc' = "flushall" /\ from # <<>> /\ t = Head(from) /\ start >= Total(t)
          /\ groups' = groups /\ logical' = logical /\ pending' = [pending EXCEPT ![t] = NoRows]
      BY <2>1 DEF ClearPending, Flushing, history
    <2>3. Range(pending[t][1]) \subseteq Range(Stored(groups[t]))
      <3>1. pending[t][1] \in Seq(Nat) /\ Total(t) \in Nat /\ Total(t) = Len(pending[t][1])
        BY RowTypes DEF Total
      <3>2. ASSUME NEW v \in Range(pending[t][1]) PROVE v \in Range(Stored(groups[t]))
        <4>1. PICK i \in 1 .. Total(t) : v = pending[t][1][i]
          BY <3>1 DEF Range
        <4>2. i <= start
          BY <1>0, <2>2, <3>1
        <4> QED
          BY <2>2, <4>1, <4>2 DEF Kept
      <3> QED
        BY <3>2
    <2>4. ASSUME NEW u \in Tables
          PROVE  Range(logical'[u]) \subseteq Range(Stored(groups'[u])) \cup Range(pending'[u][1])
      <3>1. u # t => pending'[u] = pending[u]
        BY <1>0, <2>2
      <3> QED
        BY <2>2, <2>3, <3>1 DEF Kept
    <2> QED
      BY <2>2, <2>4 DEF Kept
  <1>5. CASE Open
    <2>1. \A u \in Tables : groups'[u] = file.groups[u] /\ logical'[u] = Stored(file.groups[u])
      BY <1>5 DEF Open, Stored
    <2>2. pc' = "idle"
      BY <1>5 DEF Open
    <2> QED
      BY <2>1, <2>2 DEF Kept
  <1>6. ASSUME UNCHANGED <<pending, groups, logical>>, pc' # "down" => pc # "down",
               pc' # "flush" \/ start' = 0
        PROVE  Kept'
    <2>1. Safe'
      BY <1>6 DEF Kept
    <2>2. ASSUME pc' = "flush", from' # <<>>, NEW i \in 1 .. Total(Head(from))', i <= start'
          PROVE  FALSE
      <3>1. start' = 0 /\ i >= 1
        BY <1>6, <2>2
      <3> QED
        BY <2>2, <3>1
    <2>3. Passed'
      BY <2>2
    <2> QED
      BY <2>1, <2>3 DEF Kept
  <1>7. CASE Persist
    BY <1>6, <1>7 DEF Persist, memory, BaseInv, Control
  <1>8. CASE \/ \E ts \in Seq(Tables) : BeginSelect(ts)
             \/ \E ts \in SetToSeqs(Tables) : BeginClose(ts)
    BY <1>6, <1>8 DEF BeginSelect, BeginClose, memory, history
  <1>9. CASE FlushNothing
    BY <1>6, <1>9 DEF FlushNothing, memory, history, BaseInv, Control
  <1>10. CASE FlushAll \/ EndSelect \/ EndClose \/ Throw \/ Crash
    BY <1>6, <1>10 DEF FlushAll, EndSelect, EndClose, Throw, Crash, memory, history
  <1>11. CASE (\E g \in dirty : Evict(g)) \/ UNCHANGED vars
    <2>1. UNCHANGED <<pending, groups, logical, pc, from, start>>
      BY <1>11 DEF Evict, vars, memory, control, history
    <2> QED
      BY <2>1 DEF Kept, Total
  <1> QED
    BY <1>1, <1>2, <1>3, <1>4, <1>5, <1>7, <1>8, <1>9, <1>10, <1>11, StepKinds

\* What holds of the rows whatever writes throw.
KeptInv == BaseInv /\ Aligned /\ Kept

\* KeptInv is an inductive invariant if no INSERT fails after it has pushed a
\* value.
THEOREM KeptInvariant ==
    ASSUME BadInserts = FALSE
    PROVE  Spec => []KeptInv
  <1>1. Init => KeptInv
    <2> SUFFICES ASSUME Init PROVE KeptInv
      OBVIOUS
    <2>1. \A t \in Tables : logical[t] = <<>>
      BY DEF Init, Nothing
    <2>2. Kept
      BY <2>1, EmptyRange DEF Init, Kept
    <2> QED
      BY <2>2, InitBase, InitAligned DEF KeptInv
  <1>2. ASSUME KeptInv, BaseInv', [Next]_vars
        PROVE  KeptInv'
    BY <1>2, AlignedStep, KeptStep DEF KeptInv
  <1> QED
    BY <1>1, <1>2, BaseInvariant, PTL DEF Spec

\* Whatever writes throw and wherever the process dies, no row that the open
\* database has taken is lost: a retried statement can bring it to the file.
THEOREM RowsSurviveFailedWrites ==
    ASSUME BadInserts = FALSE
    PROVE  Spec => []RowsKept
  <1>1. ASSUME KeptInv, pc # "down", NEW t \in exists, NEW c \in Columns
        PROVE  Range(logical[t]) \subseteq Range(FlattenColumn(groups[t], c)) \cup Range(pending[t][c])
    <2>1. t \in Tables /\ groups[t] \in Seq(Group)
      BY <1>1 DEF KeptInv, BaseInv, Types, TypeOK
    <2>2. FlattenColumn(groups[t], c) = Stored(groups[t])
      BY <1>1, <2>1, StoredColumns DEF KeptInv, Aligned
    <2>3. pending[t][c] = pending[t][1]
      BY <1>1, <2>1 DEF KeptInv, Aligned
    <2> QED
      BY <1>1, <2>1, <2>2, <2>3 DEF KeptInv, Kept
  <1>2. KeptInv => RowsKept
    BY <1>1 DEF RowsKept
  <1> QED
    BY <1>2, KeptInvariant, PTL

-----------------------------------------------------------------------------
(* Close.                                                                  *)

\* A table of which Close may still have to write rows is among those it has
\* not come to; the one it has come to has been written before it persists.
Closing ==
    /\ mode = "close" /\ pc \in {"flush", "flushall", "persist"} =>
         \A t \in exists : Total(t) = 0 \/ \E i \in 1 .. Len(from) : from[i] = t
    /\ pc \in {"flushall", "persist"} /\ from # <<>> => Total(Head(from)) = 0

\* After Close the file has the tables and their rows.
Closed ==
    pc = "closed" =>
        /\ file.exists = exists
        /\ \A t \in exists : Range(logical[t]) \subseteq Range(Stored(file.groups[t]))

\* Close comes to every table.
LEMMA CloseOrderComplete ==
    ASSUME NEW ts \in SetToSeqs(Tables), NEW t \in Tables
    PROVE  \E i \in 1 .. Len(ts) : ts[i] = t
  <1> DEFINE D == 1 .. Cardinality(Tables)
  <1>1. Cardinality(Tables) \in Nat /\ IsFiniteSet(Tables)
    BY FS_CardinalityType, LiteDBAssumption
  <1>2. ts \in [D -> Tables] /\ \A i, j \in D : i # j => ts[i] # ts[j]
    BY DEF SetToSeqs
  <1>3. ts \in Injection(D, Tables)
    BY <1>2 DEF Injection, IsInjective
  <1>4. Cardinality(D) = Cardinality(Tables)
    BY <1>1, FS_Interval
  <1>5. ts \in Surjection(D, Tables)
    BY <1>1, <1>3, <1>4, FS_Injection
  <1>6. \E i \in D : ts[i] = t
    BY <1>5 DEF Surjection
  <1>7. Len(ts) = Cardinality(Tables)
    BY <1>1, <1>2, CloseOrderType
  <1> QED
    BY <1>6, <1>7

\* Passing over the first table of a list leaves the others.
LEMMA TailKeeps ==
    ASSUME NEW ts \in Seq(Tables), ts # <<>>, NEW i \in 1 .. Len(ts), ts[i] # Head(ts)
    PROVE  \E j \in 1 .. Len(Tail(ts)) : Tail(ts)[j] = ts[i]
  <1>1. i # 1
    OBVIOUS
  <1>2. i - 1 \in 1 .. Len(Tail(ts)) /\ Tail(ts)[i - 1] = ts[i]
    BY <1>1
  <1> QED
    BY <1>2

\* Every step keeps to the list.
LEMMA ClosingStep ==
    ASSUME BaseInv, Closing, [Next]_vars
    PROVE  Closing'
  <1>0. /\ pending \in [Tables -> [Columns -> Seq(1 .. MaxRows)]]
        /\ from \in Seq(Tables) /\ exists \subseteq Tables
    BY DEF BaseInv, Types, TypeOK
  <1>1. ASSUME UNCHANGED <<pending, exists>>, from # <<>>, from' = Tail(from),
               pc \in {"flush", "persist"}, pc' = "flush", mode' = mode,
               Head(from) \notin exists \/ Total(Head(from)) = 0
        PROVE  Closing'
    <2>1. ASSUME mode = "close", NEW t \in exists, Total(t) # 0
          PROVE  \E j \in 1 .. Len(Tail(from)) : Tail(from)[j] = t
      <3>1. PICK i \in 1 .. Len(from) : from[i] = t
        BY <1>1, <2>1 DEF Closing
      <3>2. from[i] # Head(from)
        BY <1>1, <2>1, <3>1
      <3> QED
        BY <1>0, <1>1, <3>1, <3>2, TailKeeps
    <2> QED
      BY <1>1, <2>1 DEF Closing, Total
  <1>2. CASE FlushNothing
    BY <1>1, <1>2 DEF FlushNothing, memory
  <1>3. CASE Persist
    <2>1. CASE from # <<>>
      BY <1>1, <1>3, <2>1 DEF Persist, memory, Closing
    <2>2. CASE from = <<>>
      BY <1>3, <2>2 DEF Persist, Closing
    <2> QED
      BY <2>1, <2>2
  <1>4. CASE \E t \in Tables : ClearPending(t)
    <2>1. PICK t \in Tables : ClearPending(t)
      BY <1>4
    <2>2. /\ pc = "flush" /\ pc' = "flushall" /\ from # <<>> /\ t = Head(from) /\ from' = from
          /\ mode' = mode /\ exists' = exists /\ pending' = [pending EXCEPT ![t] = NoRows]
      BY <2>1 DEF ClearPending, Flushing
    <2>3. Total(t)' = 0 /\ \A u \in Tables : u # t => Total(u)' = Total(u)
      BY <1>0, <2>2, FirstColumn DEF Total, NoRows
    <2>4. Total(Head(from))' = 0
      BY <2>2, <2>3 DEF Total
    <2>5. ASSUME mode = "close", NEW u \in exists, Total(u)' # 0
          PROVE  \E i \in 1 .. Len(from) : from[i] = u
      <3>1. u \in Tables /\ Total(u) # 0
        BY <1>0, <2>3, <2>5
      <3> QED
        BY <2>2, <2>5, <3>1 DEF Closing
    <2> QED
      BY <2>2, <2>4, <2>5 DEF Closing
  <1>5. CASE \E ts \in SetToSeqs(Tables) : ts \in Seq(Tables) /\ BeginClose(ts)
    <2>1. PICK ts \in SetToSeqs(Tables) : BeginClose(ts)
      BY <1>5
    <2>2. from' = ts /\ pc' = "flush" /\ exists' = exists
      BY <2>1 DEF BeginClose, memory
    <2>3. \A t \in exists : \E i \in 1 .. Len(ts) : ts[i] = t
      BY <1>0, CloseOrderComplete
    <2> QED
      BY <2>2, <2>3 DEF Closing
  <1>6. CASE \E t \in Tables : CreateTable(t) \/ DropTable(t) \/ Truncate(t)
    BY <1>6 DEF CreateTable, DropTable, Truncate, DDL, Closing
  <1>7. CASE \/ \E t \in Tables, n \in Nat, k \in Nat : Insert(t, n, k)
             \/ \E ts \in Seq(Tables) : BeginSelect(ts)
             \/ Open \/ EndSelect \/ Throw \/ Crash
    BY <1>7 DEF Insert, BeginSelect, Open, EndSelect, Throw, Crash, Closing, control
  <1>8. CASE \/ \E t \in Tables : WriteGroup(t)
             \/ FlushAll \/ EndClose
             \/ \E g \in dirty : Evict(g)
             \/ UNCHANGED vars
    <2>1. UNCHANGED <<pending, exists, mode, from>>
      BY <1>8 DEF WriteGroup, FlushAll, EndClose, Evict, vars, memory, control
    <2>2. \/ pc = "flush" /\ pc' = "flush"
          \/ pc = "flush" /\ pc' = "flushall" /\ from = <<>>
          \/ pc = "flushall" /\ pc' = "persist"
          \/ pc' = pc
      BY <1>8 DEF WriteGroup, Flushing, FlushAll, EndClose, Evict, vars, control
    <2> QED
      BY <2>1, <2>2 DEF Closing, Total
  <1> QED
    BY <1>2, <1>3, <1>4, <1>5, <1>6, <1>7, <1>8, StepKinds

\* The last Persist of Close finds every buffer empty.
LEMMA ClosedStep ==
    ASSUME BaseInv, Kept, Closing, Closed, [Next]_vars
    PROVE  Closed'
  <1>1. CASE Persist
    <2> SUFFICES ASSUME pc' = "closed" PROVE Closed'
      BY DEF Closed
    <2>1. /\ from = <<>> /\ mode = "close" /\ pc = "persist" /\ logical' = logical /\ exists' = exists
          /\ file' = [exists |-> exists, groups |-> groups]
      BY <1>1 DEF Persist, memory
    <2>2. ASSUME NEW t \in exists
          PROVE  Range(logical[t]) \subseteq Range(Stored(groups[t]))
      <3>1. t \in Tables /\ Total(t) = 0
        BY <2>1 DEF Closing, BaseInv, Types, TypeOK
      <3>2. pending[t][1] = <<>>
        BY <3>1, RowTypes DEF Total
      <3> QED
        BY <2>1, <3>1, <3>2, EmptyRange DEF Kept
    <2> QED
      BY <2>1, <2>2 DEF Closed
  <1>2. CASE UNCHANGED vars
    BY <1>2 DEF Closed, vars
  <1>3. CASE \E g \in dirty : Evict(g)
    BY <1>3 DEF Closed, Evict, control
  <1>4. CASE pc' # "closed"
    BY <1>4 DEF Closed
  <1> QED
    BY <1>1, <1>2, <1>3, <1>4, StepKinds
       DEF CreateTable, DropTable, Truncate, DDL, Insert, WriteGroup, ClearPending, Flushing, Open,
           BeginSelect, BeginClose, FlushNothing, FlushAll, EndSelect, EndClose, Throw, Crash, control

\* If the process does not die, every row group that a catalog names has its
\* pages in the pool or in the file, and in the file where Close persists.
Held ==
    /\ \A t \in Tables : \A i \in DOMAIN groups[t] : groups[t][i].id \in dirty \cup durable
    /\ \A t \in Tables : \A i \in DOMAIN file.groups[t] : file.groups[t][i].id \in dirty \cup durable
    /\ pc = "persist" /\ mode # "ddl" => Settled(groups)
    /\ pc = "closed" => Settled(file.groups)

\* Every step keeps the row groups, if the process does not die.
LEMMA HeldStep ==
    ASSUME BaseInv, MaxCrashes = 0, Held, [Next]_vars
    PROVE  Held'
  <1>0. groups \in [Tables -> Seq(Group)]
    BY DEF BaseInv, Types
  <1>1. CASE \E t \in Tables : CreateTable(t) \/ DropTable(t) \/ Truncate(t)
    <2>1. PICK t \in Tables : DDL(t)
      BY <1>1 DEF CreateTable, DropTable, Truncate
    <2>2. \A u \in Tables : \A i \in DOMAIN groups'[u] : i \in DOMAIN groups[u] /\ groups'[u][i] = groups[u][i]
      BY <1>0, <2>1 DEF DDL
    <2> QED
      BY <2>1, <2>2 DEF Held, Settled, DDL, disk
  <1>2. CASE \E t \in Tables : WriteGroup(t)
    <2>1. PICK t \in Tables : WriteGroup(t)
      BY <1>2
    <2>2. PICK g \in Group :
             /\ g.id = last_id + 1
             /\ groups' = [groups EXCEPT ![t] = Append(groups[t], g)]
      BY <2>1, NewGroup
    <2>3. \A u \in Tables : \A i \in DOMAIN groups'[u] :
            \/ i \in DOMAIN groups[u] /\ groups'[u][i] = groups[u][i]
            \/ groups'[u][i] = g
      BY <1>0, <2>2
    <2>4. dirty' = dirty \cup {last_id + 1} /\ durable' = durable /\ file' = file /\ pc' = "flush"
      BY <2>1 DEF WriteGroup, Flushing
    <2>5. \A u \in Tables : \A i \in DOMAIN groups'[u] : groups'[u][i].id \in dirty' \cup durable'
      BY <2>2, <2>3, <2>4 DEF Held
    <2> QED
      BY <2>4, <2>5 DEF Held
  <1>3. CASE FlushAll
    BY <1>3 DEF Held, Settled, FlushAll, memory
  <1>4. CASE Persist
    BY <1>4 DEF Held, Settled, Persist, memory, BaseInv, Types, TypeOK
  <1>5. CASE Open
    BY <1>5 DEF Held, Settled, Open, disk
  <1>6. CASE \E g \in dirty : Evict(g)
    BY <1>6 DEF Held, Settled, Evict, memory, control
  <1>7. CASE UNCHANGED vars
    BY <1>7 DEF Held, Settled, vars
  <1>8. ~ Crash
    BY DEF Crash, BaseInv, Types
  <1>9. CASE UNCHANGED <<groups, file, dirty, durable>> /\ pc' \notin {"persist", "closed"}
    BY <1>9 DEF Held
  <1> QED
    BY <1>1, <1>2, <1>3, <1>4, <1>5, <1>6, <1>7, <1>8, <1>9, StepKinds
       DEF Insert, ClearPending, Flushing, BeginSelect, BeginClose, FlushNothing, EndSelect, EndClose,
           Throw, memory, disk, control

\* If the process does not die, after Close the catalog in the file names
\* only row groups that are in the file, whatever writes have thrown before.
THEOREM ClosedIsDurable ==
    ASSUME MaxCrashes = 0
    PROVE  Spec => [](pc = "closed" => PersistedIsDurable)
  <1>1. Init => Held
    BY DEF Init, Held, Settled, Nothing
  <1>2. BaseInv /\ Held /\ [Next]_vars => Held'
    BY HeldStep
  <1>3. BaseInv /\ Held => (pc = "closed" => PersistedIsDurable)
    BY DEF BaseInv, Types, Held, Settled, PersistedIsDurable
  <1> QED
    BY <1>1, <1>2, <1>3, BaseInvariant, PTL DEF Spec

\* A Close that returns has brought every table and every row to the file,
\* with all their pages: after failed writes as long as the process has not
\* died, and after crashes as long as no write has thrown.
THEOREM CloseWritesEverything ==
    ASSUME BadInserts = FALSE, MaxCrashes = 0 \/ MaxThrows = 0
    PROVE  Spec => []CloseIsComplete
  <1>1. Init => Closing /\ Closed
    BY DEF Init, Closing, Closed
  <1>2. KeptInv /\ Closing /\ Closed /\ [Next]_vars => (Closing /\ Closed)'
    BY ClosingStep, ClosedStep DEF KeptInv
  <1>3. ASSUME KeptInv, Closed, pc = "closed" => PersistedIsDurable
        PROVE  CloseIsComplete
    <2> SUFFICES ASSUME pc = "closed", NEW t \in exists, NEW c \in Columns
                 PROVE  Range(logical[t]) \subseteq Range(FlattenColumn(file.groups[t], c))
      BY <1>3 DEF Closed, CloseIsComplete
    <2>1. t \in Tables /\ file.groups[t] \in Seq(Group)
      BY <1>3 DEF KeptInv, BaseInv, Types, TypeOK
    <2>2. FlattenColumn(file.groups[t], c) = Stored(file.groups[t])
      BY <1>3, <2>1, StoredColumns DEF KeptInv, Aligned
    <2> QED
      BY <1>3, <2>2 DEF Closed
  <1>4. Spec => [](KeptInv /\ Closed)
    BY <1>1, <1>2, KeptInvariant, PTL DEF Spec
  <1>5. Spec => [](pc = "closed" => PersistedIsDurable)
    <2>1. CASE MaxCrashes = 0
      BY <2>1, ClosedIsDurable, PTL
    <2>2. CASE MaxThrows = 0
      BY <2>2, CatalogNamesDurableGroups, PTL
    <2> QED
      BY <2>1, <2>2
  <1> QED
    BY <1>3, <1>4, <1>5, PTL
=============================================================================
