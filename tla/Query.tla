------------------------------- MODULE Query ---------------------------------
(***************************************************************************)
(* A statement from its text to its result (DB::Execute): the lexer, the   *)
(* parser, the planner and the plan one after the other, against what the  *)
(* text means and what SQL answers.                                        *)
(*                                                                         *)
(* The reference answer is computed from the parsed statement by nested    *)
(* loops over the tables, with the three-valued logic of SQL.              *)
(***************************************************************************)
EXTENDS Planner

vars == <<parser, planner>>

Init == ParserInit /\ PlannerInit

\* Parse throws before anything else happens.
Parse == ParserStep /\ UNCHANGED planner

\* The other statements are those of LiteDB.
Finished == pc \in {"done", "rejected", "refused", "failed"} \/ (pc = "parsed" /\ stmt.k # "select")
Done == Finished /\ UNCHANGED vars

Next == Parse \/ PlannerStep \/ Done

Spec == Init /\ [][Next]_vars

Parsed == pc \in {"parsed", "columns", "join", "scans", "sides", "zone", "filter", "aggregate", "project",
                  "run", "done", "refused", "failed"}

-----------------------------------------------------------------------------
(* What the names of a SELECT mean.                                        *)

KnownTables == Len(stmt.tables) <= 2 /\ \A i \in DOMAIN stmt.tables : stmt.tables[i].name \in Tables
TableOf(i) == Schema[stmt.tables[i].name]

\* The columns a reference can mean: the number of the table and of the column.
Meanings(ref) ==
    {m \in UNION {{i} \X DOMAIN TableOf(i) : i \in DOMAIN stmt.tables} :
       TableOf(m[1])[m[2]].name = ref.name /\ ref.alias \in {<<>>, stmt.tables[m[1]].alias}}
Known(ref) == Cardinality(Meanings(ref)) = 1
Meaning(ref) == CHOOSE m \in Meanings(ref) : TRUE
TypeOf(ref) == TableOf(Meaning(ref)[1])[Meaning(ref)[2]].type

AllColumns == FlattenSeq([i \in DOMAIN stmt.tables |->
                [c \in DOMAIN TableOf(i) |-> Col(stmt.tables[i].alias, TableOf(i)[c].name)]])
OutputExprs == IF stmt.star THEN AllColumns ELSE [i \in DOMAIN stmt.items |-> stmt.items[i].e]

\* The select items that an ORDER BY name can mean, and the sort key.
Named(item, n) == item.as = n \/ (item.as = <<>> /\ item.e.k = "col" /\ item.e.name = n)
KeyItems == {i \in DOMAIN stmt.items : Named(stmt.items[i], stmt.order_by.name)}
SortKey == IF KeyItems = {} THEN Col(<<>>, stmt.order_by.name) ELSE stmt.items[CHOOSE i \in KeyItems : TRUE].e

-----------------------------------------------------------------------------
(* What an expression is worth: a group is a sequence of combinations of   *)
(* rows, one row of each table; outside of aggregates the first one counts.*)

IsTrue(x) == x # Null /\ x.v # 0
Either(xs) == IF \E x \in xs : IsTrue(x) THEN Truth(TRUE) ELSE IF Null \in xs THEN Null ELSE Truth(FALSE)
Both(xs) == IF \E x \in xs : x # Null /\ x.v = 0 THEN Truth(FALSE) ELSE IF Null \in xs THEN Null ELSE Truth(TRUE)
Compare(op, x, y) == IF Null \in {x, y} THEN Null ELSE CompareResult(op, x, y)

RECURSIVE Worth(_, _)
Worth(e, group) ==
    CASE e.k = "lit" -> e.v
      [] e.k = "col" -> group[1][Meaning(e)[1]][Meaning(e)[2]]
      [] e.k = "not" -> LET x == Worth(e.e, group) IN IF x = Null THEN Null ELSE Truth(x.v = 0)
      [] e.k = "in" -> Either({Compare("=", Worth(e.e, group), v) : v \in ToSet(e.vs)})
      [] e.k = "agg" ->
           LET vals == SelectSeq([r \in DOMAIN group |-> Worth(e.arg, <<group[r]>>)], LAMBDA x : x # Null)
           IN  IF e.kind = "COUNT*" THEN Value("bigint", Len(group))
               ELSE IF vals = <<>> THEN (IF e.kind = "COUNT" THEN Value("bigint", 0) ELSE Null)
               ELSE Combine([kind |-> e.kind, in |-> vals[1].t], vals)
      [] e.k = "bin" ->
           LET x == Worth(e.l, group)
               y == Worth(e.r, group)
           IN  CASE e.op = "AND" -> Both({x, y})
                 [] e.op = "OR" -> Either({x, y})
                 [] e.op \in {"+", "-", "*", "/"} -> ArithResult(e.op, x, y)
                 [] e.op \in Comparisons -> Compare(e.op, x, y)

Condition(e, group) == e = NoExpr \/ IsTrue(Worth(e, group))

-----------------------------------------------------------------------------
(* The answers to a SELECT.                                                *)

RowsOf(i) == Databases[input.db][stmt.tables[i].name]
Combinations ==
    IF Len(stmt.tables) = 1 THEN [r \in DOMAIN RowsOf(1) |-> <<RowsOf(1)[r]>>]
    ELSE FlattenSeq([r \in DOMAIN RowsOf(1) |-> [q \in DOMAIN RowsOf(2) |-> <<RowsOf(1)[r], RowsOf(2)[q]>>]])
Selected == SelectSeq(Combinations, LAMBDA c : Condition(stmt.where, <<c>>))

\* The groups, in each order in which they may come: the order of rows is that
\* of the tables, the order of groups is open.
KeyOfRow(c) == [k \in DOMAIN stmt.group_by |-> Worth(stmt.group_by[k], <<c>>)]
GroupOrders ==
    CASE ~ aggregated -> {[r \in DOMAIN Selected |-> <<Selected[r]>>]}
      [] aggregated /\ stmt.group_by = <<>> -> {<<Selected>>}
      [] OTHER -> {[g \in DOMAIN keys |-> SelectSeq(Selected, LAMBDA c : KeyOfRow(c) = keys[g])] :
                     keys \in SetToSeqs({KeyOfRow(c) : c \in ToSet(Selected)})}

\* NULL keys come first in ascending order.  In descending order they may come
\* first, as the interface has it ("NULLs sort before all non-null values",
\* order_by.h:13), or last, as the code does ("last in descending",
\* order_by.cpp:40): SQL leaves the choice open.
NullsFirst == IF stmt.order_by # NoOrder /\ stmt.order_by.desc THEN BOOLEAN ELSE {TRUE}

SortsBefore(g, h, nulls_first) ==
    LET x == Worth(SortKey, g)
        y == Worth(SortKey, h)
    IN  IF Null \in {x, y} THEN x # y /\ (nulls_first <=> x = Null)
        ELSE CompareValues(x, y) = IF stmt.order_by.desc THEN "greater" ELSE "less"

Answer(groups, nulls_first) ==
    LET kept == SelectSeq(groups, LAMBDA g : ~ aggregated \/ Condition(stmt.having, g))
        less == {p \in (DOMAIN kept) \X (DOMAIN kept) : SortsBefore(kept[p[1]], kept[p[2]], nulls_first)}
        sorted == IF stmt.order_by = NoOrder THEN kept ELSE StableSort(kept, less)
        n == IF stmt.limit # NoLimit /\ stmt.limit < Len(sorted) THEN stmt.limit ELSE Len(sorted)
    IN  [r \in 1 .. n |-> [c \in DOMAIN OutputExprs |-> Worth(OutputExprs[c], sorted[r])]]

Answers == {Answer(groups, f) : groups \in GroupOrders, f \in NullsFirst}

-----------------------------------------------------------------------------
(* The queries that must be answered.                                      *)

\* The conjuncts of WHERE without the join predicate.
Conditions == SelectSeq([k \in DOMAIN conjuncts |-> <<k, conjuncts[k]>>],
                        LAMBDA x : Len(stmt.tables) = 1 \/ x[1] # FirstEquiJoin)

Aliases == {stmt.tables[i].alias : i \in DOMAIN stmt.tables}
DistinctAliases == Cardinality(Aliases) = Len(stmt.tables)
ItemRefs == UNION {Refs(stmt.items[i].e) : i \in DOMAIN stmt.items}
NamesKnown ==
    /\ KnownTables /\ DistinctAliases
    /\ \A ref \in ItemRefs \cup Refs(stmt.where) \cup Refs(stmt.having) \cup ToSet(stmt.group_by) : Known(ref)

\* The kinds of value an expression can have; none if it is not well typed.
RECURSIVE Kinds(_)
Kinds(e) ==
    CASE e.k = "lit" -> IF e.v = Null THEN {"number", "string"} ELSE IF e.v.t = "varchar" THEN {"string"} ELSE {"number"}
      [] e.k = "col" -> IF TypeOf(e) = "varchar" THEN {"string"} ELSE {"number"}
      [] e.k = "not" -> Kinds(e.e) \cap {"number"}
      [] e.k = "in" -> IF e.e.k = "col" /\ \A v \in ToSet(e.vs) : Kinds(Lit(v)) \cap Kinds(e.e) # {} THEN {"number"} ELSE {}
      [] e.k = "agg" -> IF e.kind \in {"COUNT*", "COUNT"} THEN {"number"}
                        ELSE IF e.kind \in {"SUM", "AVG"} THEN Kinds(e.arg) \cap {"number"} ELSE Kinds(e.arg)
      [] e.k = "bin" ->
           LET both == Kinds(e.l) \cap Kinds(e.r) IN
           IF e.op \in Comparisons THEN (IF both = {} THEN {} ELSE {"number"}) ELSE both \cap {"number"}
      [] OTHER -> {"number"}

WellTyped == \A e \in {stmt.where, stmt.having} \cup ToSet(OutputExprs) : Kinds(e) # {}

\* EvalPredicate compares a column with a literal without a conversion, and
\* throws if the literal does not fit; an IN list of one value is bound to such
\* a comparison.
FitsOperand(e, v) ==
    CASE e.k = "col" -> TypeOf(e) = "varchar" \/ Fits(TypeOf(e), v)
      [] e.k = "agg" -> v # Null /\ v.t = "int"
      [] OTHER -> TRUE
LiteralFits(e) ==
    /\ e.k = "bin" /\ e.op \in Comparisons /\ e.r.k = "lit" => FitsOperand(e.l, e.r.v)
    /\ e.k = "in" /\ Len(e.vs) = 1 => FitsOperand(e.e, e.vs[1])
LiteralsFit == (Len(Conditions) = 1 => LiteralFits(Conditions[1][2])) /\ LiteralFits(stmt.having)

\* A comparison with NULL is false, not unknown: the difference shows where a
\* truth value is an operand of anything but AND and OR.
IsLogic(e) == e.k \in {"not", "in"} \/ (e.k = "bin" /\ e.op \notin {"+", "-", "*", "/"})
RECURSIVE UnknownUsed(_, _)
UnknownUsed(e, group) ==
    CASE e.k = "not" -> Worth(e.e, group) = Null \/ UnknownUsed(e.e, group)
      [] e.k = "bin" ->
           \E x \in {e.l, e.r} :
             \/ UnknownUsed(x, group)
             \/ e.op \notin {"AND", "OR"} /\ IsLogic(x) /\ Worth(x, group) = Null
      [] e.k = "agg" /\ e.kind # "COUNT*" ->
           \E r \in DOMAIN group :
             UnknownUsed(e.arg, <<group[r]>>) \/ (IsLogic(e.arg) /\ Worth(e.arg, <<group[r]>>) = Null)
      [] OTHER -> FALSE
NoUnknownUsed ==
    /\ \A c \in ToSet(Combinations) : ~ UnknownUsed(stmt.where, <<c>>)
    /\ \A g \in ToSet(CHOOSE groups \in GroupOrders : TRUE) :
         ~ UnknownUsed(stmt.having, g) /\ \A e \in ToSet(OutputExprs) : ~ UnknownUsed(e, g)

\* The columns that HAVING uses outside of aggregates.
RECURSIVE BareRefs(_)
BareRefs(e) ==
    CASE e.k = "col" -> {e}
      [] e.k \in {"not", "in"} -> BareRefs(e.e)
      [] e.k = "bin" -> BareRefs(e.l) \cup BareRefs(e.r)
      [] OTHER -> {}

\* After an aggregate: columns are those of GROUP BY, known by their bare
\* names, and aggregates are known by their texts.
AllAggs == ToSet(Collect(stmt.having)) \cup UNION {ToSet(Collect(stmt.items[i].e)) : i \in DOMAIN stmt.items}
GroupNames == {stmt.group_by[k].name : k \in DOMAIN stmt.group_by}
IsGroupColumn(ref) == \E k \in DOMAIN stmt.group_by : Meaning(stmt.group_by[k]) = Meaning(ref)
Grouped ==
    /\ ~ stmt.star
    /\ Cardinality(GroupNames) = Len(stmt.group_by)
    /\ \A e \in ToSet(OutputExprs) : e.k = "agg" \/ (e.k = "col" /\ IsGroupColumn(e))
    /\ \A ref \in BareRefs(stmt.having) : ref.alias = <<>> /\ IsGroupColumn(ref)
    /\ \A a, b \in AllAggs : AggName(a) = AggName(b) => a = b
    /\ \A a \in AllAggs : Collect(a.arg) = <<>>

Plain == stmt.having = NoExpr /\ \A i \in DOMAIN stmt.items : stmt.items[i].e.k = "col"

Sortable ==
    stmt.order_by # NoOrder =>
      Cardinality(KeyItems) = 1 \/ (KeyItems = {} /\ ~ aggregated /\ Known(Col(<<>>, stmt.order_by.name)))

\* The first comparison of two columns joins the tables.
Joined ==
    Len(stmt.tables) = 2 =>
      /\ FirstEquiJoin # 0
      /\ LET c == conjuncts[FirstEquiJoin] IN
         /\ <<c.l.alias, c.r.alias>> \in {<<x, y>> \in Aliases \X Aliases : x # y}
         /\ TypeOf(c.l) = TypeOf(c.r)
JoinForward == Len(stmt.tables) = 2 => conjuncts[FirstEquiJoin].l.alias = stmt.tables[1].alias

Answerable ==
    /\ stmt.k = "select" /\ NamesKnown /\ WellTyped
    /\ IF aggregated THEN Grouped ELSE Plain
    /\ Collect(stmt.where) = <<>>
    /\ Sortable /\ Joined /\ LiteralsFit /\ NoUnknownUsed

-----------------------------------------------------------------------------
(* Properties.                                                             *)

\* The parser accepts a text exactly if it means something, and builds the
\* statement that it means: precedence and grouping of the operators, signs,
\* the bounds of BETWEEN, the clauses (sql/parser.cpp:100-335, sql/lexer.cpp:75).
ParsedAsMeant ==
    input.known =>
      /\ Parsed => stmt \in input.meant
      /\ pc = "rejected" => input.meant = {}

\* Peek (sql/parser.cpp:39) reads tokens_[pos_] without a check: whatever the
\* text, no parsing function goes on after the end token.
NeverPastEof == tokens # <<>> => pos \in 1 .. Len(tokens)

\* A query that is well formed is planned, runs without an exception and gives
\* an answer of SQL: the rows of the tables or joined rows that satisfy WHERE,
\* grouped, sorted and cut as the clauses say (planner/planner.cpp:231-588 with
\* the operators), whatever row groups the zone filter leaves out.
AnswersQuery ==
    pc \in {"done", "refused", "failed"} /\ Answerable /\ JoinForward => pc = "done" /\ rows \in Answers

\* A query that has an answer has known tables, and every name that it uses in
\* WHERE, GROUP BY or, without aggregates, in SELECT means exactly one column;
\* the join predicate and tables of the same alias are excepted
\* (planner/planner.cpp:31-46, 247-257, 320).
RefusesErrors ==
    pc = "done" =>
      /\ KnownTables
      /\ DistinctAliases =>
           \A ref \in UNION {Refs(Conditions[k][2]) : k \in DOMAIN Conditions}
                        \cup ToSet(stmt.group_by) \cup (IF aggregated THEN {} ELSE ItemRefs) : Known(ref)

\* A join returns the matched rows ("two-table equi-join returns matched rows",
\* tests/test_join.cpp:17), in any order, whichever table the predicate names
\* first.
ReturnsMatchedRows ==
    pc = "done" /\ Answerable => \E answer \in Answers : ToSet(rows) = ToSet(answer)
=============================================================================
