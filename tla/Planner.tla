------------------------------ MODULE Planner --------------------------------
(***************************************************************************)
(* PlanSelect (planner/planner.cpp): from a parsed SELECT to a plan, and   *)
(* the operators the plan is made of, as far as a query sees them.         *)
(*                                                                         *)
(* The plan is a sequence of operators, each the child of the next one.    *)
(* The scan, the join and the aggregate are used through their promises    *)
(* (ColumnScan, HashJoin, HashAggregate), and a step of the execution is   *)
(* one operator over all rows of its child.                                *)
(***************************************************************************)
EXTENDS Expression

CONSTANTS
    Schema,         \* the columns of each table, each with its name and type
    Databases       \* the rows of each table, for each database

VARIABLES
    scans,          \* scans: the tables of FROM, each with its alias and the
                    \*   col_indices that are read
    needed,         \* needed: pairs of an alias and a column name
    join_pred,      \* the position of the join predicate in WHERE, 0 for none
    plan,           \* the operators planned so far, the lowest first
    names, types,   \* the output names and types of the last of them
    rows            \* the output of the last operator that has run

planner == <<scans, needed, join_pred, plan, names, types, rows>>

PlannerInit ==
    /\ scans = <<>> /\ needed = {} /\ join_pred = 0 /\ plan = <<>>
    /\ names = <<>> /\ types = <<>> /\ rows = <<>>

\* Output names: "alias.column" of a scan, otherwise without an alias.
Name(alias, text) == [q |-> alias, c |-> text]
Bare(text) == Name(<<>>, text)

-----------------------------------------------------------------------------
(* Names.                                                                  *)

\* Mutant: an alias does not count.
ResolveAnywhere(ns, alias, col) ==
    IF \E i \in DOMAIN ns : ns[i].c = col THEN SelectInSeq(ns, LAMBDA n : n.c = col) ELSE 0

\* Resolve: the position of a name, 0 if it is unknown or ambiguous.
Resolve(ns, alias, col) ==
    LET matches == {i \in DOMAIN ns : ns[i].c = col} IN
    IF alias # <<>> THEN SelectInSeq(ns, LAMBDA n : n = Name(alias, col))
    ELSE IF Cardinality(matches) = 1 THEN CHOOSE i \in matches : TRUE ELSE 0

ValueToString(x) ==
    CASE x = Null -> <<"NULL">>
      [] x.t = "float" -> <<ToString(x.v), ".">>
      [] x.t = "varchar" -> CHOOSE s \in DOMAIN StringRank : StringRank[s] = x.v
      [] OTHER -> <<ToString(x.v)>>

\* ExprToString: the text of an aggregate's argument, without aliases.
RECURSIVE ExprToString(_)
ExprToString(e) ==
    CASE e.k = "col" -> e.name
      [] e.k = "lit" -> ValueToString(e.v)
      [] e.k = "bin" -> <<"(">> \o ExprToString(e.l) \o <<e.op>> \o ExprToString(e.r) \o <<")">>
      [] OTHER -> <<"?">>

AggName(a) == IF a.kind = "COUNT*" THEN <<"COUNT", "(", "*", ")">> ELSE <<a.kind, "(">> \o ExprToString(a.arg) \o <<")">>

\* WalkRefs: the column references of an expression.
RECURSIVE Refs(_)
Refs(e) ==
    CASE e.k = "col" -> {e}
      [] e.k \in {"not", "in"} -> Refs(e.e)
      [] e.k = "agg" -> Refs(e.arg)
      [] e.k = "bin" -> Refs(e.l) \cup Refs(e.r)
      [] OTHER -> {}

\* Flatten: the conjuncts of a WHERE.
RECURSIVE Flatten(_)
Flatten(e) ==
    CASE e = NoExpr -> <<>>
      [] e.k = "bin" /\ e.op = "AND" -> Flatten(e.l) \o Flatten(e.r)
      [] OTHER -> <<e>>

\* The aggregates of a select item or of HAVING, from left to right.
RECURSIVE Collect(_)
Collect(e) ==
    CASE e.k = "agg" -> <<e>>
      [] e.k = "not" -> Collect(e.e)
      [] e.k = "bin" -> Collect(e.l) \o Collect(e.r)
      [] OTHER -> <<>>

-----------------------------------------------------------------------------
(* Binding.                                                                *)

Bad == [k |-> "bad"]
BoundColumn(i, ts) == IF i = 0 THEN Bad ELSE [k |-> "column", i |-> i, type |-> ts[i]]
BoundBin(op, l, r) == IF Bad \in {l, r} THEN Bad ELSE Bin(op, l, r)

RECURSIVE Bind(_, _, _)
Bind(e, ns, ts) ==
    CASE e.k = "col" -> BoundColumn(Resolve(ns, e.alias, e.name), ts)
      [] e.k = "lit" -> e
      [] e.k = "not" -> LET c == Bind(e.e, ns, ts) IN IF c = Bad THEN Bad ELSE Not(c)
      [] e.k = "agg" -> BoundColumn(Resolve(ns, <<>>, AggName(e)), ts)
      [] e.k = "in" ->
           IF e.e.k # "col" THEN Bad
           ELSE LET Eq(x) == BoundBin("=", Bind(e.e, ns, ts), Lit(x))
                IN  FoldLeft(LAMBDA chain, x : BoundBin("OR", chain, Eq(x)), Eq(e.vs[1]), Tail(e.vs))
      [] e.k = "bin" -> BoundBin(e.op, Bind(e.l, ns, ts), Bind(e.r, ns, ts))
      [] OTHER -> Bad

\* InferBoundType.
RECURSIVE InferBoundType(_)
InferBoundType(e) ==
    CASE e.k = "column" -> e.type
      [] e.k = "lit" -> IF e.v = Null THEN "int" ELSE e.v.t
      [] e.k = "bin" /\ e.op \in {"+", "-", "*", "/"} ->
           IF "float" \in {InferBoundType(e.l), InferBoundType(e.r)} THEN "float" ELSE "bigint"
      [] OTHER -> "int"

AggSpec(a) ==
    LET arg == Bind(a.arg, names, types)
        in == InferBoundType(arg)
    IN  IF a.kind = "COUNT*" THEN [kind |-> a.kind, name |-> AggName(a), arg |-> Lit(Null), in |-> "int", type |-> "bigint"]
        ELSE [kind |-> a.kind, name |-> AggName(a), arg |-> arg, in |-> in,
              type |-> CASE a.kind = "COUNT" -> "bigint"
                         [] a.kind = "SUM" -> IF in = "float" THEN "float" ELSE "bigint"
                         [] a.kind = "AVG" -> "float"
                         [] OTHER -> in]

-----------------------------------------------------------------------------
(* PlanSelect, step by step.                                               *)

Tables == DOMAIN Schema
ColumnNames(table) == {Schema[table][i].name : i \in DOMAIN Schema[table]}
aggregated == (\E i \in DOMAIN stmt.items : stmt.items[i].e.k = "agg") \/ stmt.group_by # <<>>
conjuncts == Flatten(stmt.where)

\* The planner throws.
Refuse == pc' = "refused" /\ UNCHANGED <<input, tokens, pos, stmt, planner>>
Goto(label) == pc' = label /\ UNCHANGED <<input, tokens, pos, stmt>>

\* One or two tables, which the catalog knows.
FromOk == Len(stmt.tables) <= 2 /\ \A i \in DOMAIN stmt.tables : stmt.tables[i].name \in Tables

PlanFrom ==
    /\ pc = "parsed" /\ stmt.k = "select"
    /\ FromOk
    /\ scans' = [i \in DOMAIN stmt.tables |-> [table |-> stmt.tables[i].name, alias |-> stmt.tables[i].alias, cols |-> <<>>]]
    /\ Goto("columns")
    /\ UNCHANGED <<needed, join_pred, plan, names, types, rows>>

PlanFromRefuses == pc = "parsed" /\ stmt.k = "select" /\ ~ FromOk /\ Refuse

\* owning_alias, for a name without an alias: in exactly one of the tables.
Owners(name) == {i \in DOMAIN scans : name \in ColumnNames(scans[i].table)}
Owned(ref) == ref.alias # <<>> \/ Cardinality(Owners(ref.name)) = 1
Owner(ref) == IF ref.alias # <<>> THEN ref.alias ELSE scans[CHOOSE i \in Owners(ref.name) : TRUE].alias

\* The references that the query needs.
ReferencedColumns ==
    (IF stmt.star
     THEN UNION {{Col(scans[i].alias, n) : n \in ColumnNames(scans[i].table)} : i \in DOMAIN scans}
     ELSE UNION {Refs(stmt.items[i].e) : i \in DOMAIN stmt.items})
      \cup Refs(stmt.where) \cup Refs(stmt.having) \cup ToSet(stmt.group_by)

\* In a query without aggregates the sort key is a column or an alias.
OrderRefs ==
    LET key == Col(<<>>, stmt.order_by.name) IN
    IF stmt.order_by # NoOrder /\ ~ aggregated /\ Owned(key) THEN {key} ELSE {}

NeededOk == \A ref \in ReferencedColumns : Owned(ref)

PlanColumns ==
    /\ pc = "columns"
    /\ NeededOk
    /\ needed' = {<<Owner(ref), ref.name>> : ref \in ReferencedColumns \cup OrderRefs}
    /\ Goto("join")
    /\ UNCHANGED <<scans, join_pred, plan, names, types, rows>>

PlanColumnsRefuses == pc = "columns" /\ ~ NeededOk /\ Refuse

\* The first conjunct that compares two columns for equality.
FirstEquiJoin ==
    SelectInSeq(conjuncts, LAMBDA c : c.k = "bin" /\ c.op = "=" /\ c.l.k = "col" /\ c.r.k = "col")

PlanJoinPredicate ==
    /\ pc = "join"
    /\ Len(scans) = 1 \/ FirstEquiJoin # 0
    /\ join_pred' = IF Len(scans) = 2 THEN FirstEquiJoin ELSE 0
    /\ Goto("scans")
    /\ UNCHANGED <<scans, needed, plan, names, types, rows>>

PlanJoinRefuses == pc = "join" /\ Len(scans) = 2 /\ FirstEquiJoin = 0 /\ Refuse

NeededOf(s) ==
    LET set == {n \in {x[2] : x \in needed} : <<s.alias, n>> \in needed} IN
    IF set = {} THEN {Schema[s.table][1].name} ELSE set

Missing(s) == NeededOf(s) \ ColumnNames(s.table)

\* The columns read by a scan, by position.  A needed name that the table does
\* not have dereferences an empty optional: garbage holds the indices that are
\* found there.
Garbage(s) == [1 .. Cardinality(Missing(s)) -> DOMAIN Schema[s.table]]
ColumnsOf(s, garbage) ==
    LET known == {i \in DOMAIN Schema[s.table] : Schema[s.table][i].name \in NeededOf(s)}
    IN  SortSeq(SetToSeq(known) \o garbage, <)

ScanNames(s) == [k \in DOMAIN s.cols |-> Name(s.alias, Schema[s.table][s.cols[k]].name)]
ScanTypes(s) == [k \in DOMAIN s.cols |-> Schema[s.table][s.cols[k]].type]

\* GetColumn throws for an index that is not one of a column.
PlanScans ==
    /\ pc = "scans"
    /\ \E g \in [DOMAIN scans -> UNION {Garbage(scans[i]) : i \in DOMAIN scans}] :
         /\ \A i \in DOMAIN scans : g[i] \in Garbage(scans[i])
         /\ scans' = [i \in DOMAIN scans |-> [scans[i] EXCEPT !.cols = ColumnsOf(scans[i], g[i])]]
    /\ names' = FlattenSeq([i \in DOMAIN scans' |-> ScanNames(scans'[i])])
    /\ types' = FlattenSeq([i \in DOMAIN scans' |-> ScanTypes(scans'[i])])
    /\ Goto(IF Len(scans) = 2 THEN "sides" ELSE "zone")
    /\ UNCHANGED <<needed, join_pred, plan, rows>>

PlanScansRefuses == pc = "scans" /\ (\E i \in DOMAIN scans : Missing(scans[i]) # {}) /\ Refuse

\* name_to_scanpos.
ScanPos(s, name) == SelectLastInSeq(s.cols, LAMBDA i : Schema[s.table][i].name = name)

-----------------------------------------------------------------------------
(* The bottom of the plan.                                                 *)

MinBig == - kBigMax - 1
NoZone == [col |-> 0, lo |-> MinBig, hi |-> kBigMax]

\* A conjunct that bounds an integer column of the table by a literal.
Bounds(c) ==
    /\ c.k = "bin" /\ c.op \in Comparisons \ {"!="}
    /\ c.l.k = "col" /\ c.r.k = "lit"
    /\ ScanPos(scans[1], c.l.name) # 0
    /\ types[ScanPos(scans[1], c.l.name)] \in {"int", "bigint"}
    /\ IsInteger(c.r.v)

\* Mutant: a lower bound is one too high.
BoundAbove(v) == [lo |-> v + 1, hi |-> kBigMax]

BoundFrom(v) == [lo |-> v, hi |-> kBigMax]

\* v + 1 and v - 1 wrap around at the ends of int64_t.
ZoneFilter(c) ==
    LET v == c.r.v.v
        zone == CASE c.op = "=" -> [lo |-> v, hi |-> v]
                  [] c.op = ">=" -> BoundFrom(v)
                  [] c.op = ">" -> BoundFrom(IF v = kBigMax THEN MinBig ELSE v + 1)
                  [] c.op = "<=" -> [lo |-> MinBig, hi |-> v]
                  [] c.op = "<" -> [lo |-> MinBig, hi |-> IF v = MinBig THEN kBigMax ELSE v - 1]
    IN  [col |-> ScanPos(scans[1], c.l.name), lo |-> zone.lo, hi |-> zone.hi]

\* One table: a scan, with the zone filter of the first conjunct that has one.
PlanZone ==
    /\ pc = "zone"
    /\ LET k == SelectInSeq(conjuncts, Bounds)
           zone == IF k = 0 THEN NoZone ELSE ZoneFilter(conjuncts[k])
       IN  plan' = <<[op |-> "scan", zone |-> zone]>>
    /\ Goto("filter")
    /\ UNCHANGED <<scans, needed, join_pred, names, types, rows>>

\* Two tables: which scan is left, and which column of the predicate is its key.
lc == conjuncts[join_pred].l
rc == conjuncts[join_pred].r
left_scan == IF lc.alias = scans[2].alias \/ rc.alias = scans[1].alias THEN 2 ELSE 1
right_scan == 3 - left_scan
left_col == IF lc.alias = scans[left_scan].alias THEN lc ELSE rc
right_col == IF left_col = lc THEN rc ELSE lc
left_key == ScanPos(scans[left_scan], left_col.name)
right_key == ScanPos(scans[right_scan], right_col.name)

PlanJoin ==
    /\ pc = "sides"
    /\ left_key # 0 /\ right_key # 0
    /\ plan' = <<[op |-> "join", left |-> left_scan, right |-> right_scan, lkey |-> left_key, rkey |-> right_key]>>
    /\ Goto("filter")
    /\ UNCHANGED <<scans, needed, join_pred, names, types, rows>>

\* name_to_scanpos.at throws.
PlanJoinSidesRefuses == pc = "sides" /\ (left_key = 0 \/ right_key = 0) /\ Refuse

\* The conjuncts other than the join predicate.
Residual == SelectSeq([k \in DOMAIN conjuncts |-> <<k, conjuncts[k]>>], LAMBDA x : x[1] # join_pred)
ResidualPredicate ==
    LET Bound(k) == Bind(Residual[k][2], names, types)
    IN  FoldLeft(LAMBDA pred, x : BoundBin("AND", pred, Bind(x[2], names, types)), Bound(1), Tail(Residual))

\* A filter has the types of its child, which the sides of a join decide.
Filter(pred, ts) == [op |-> "filter", pred |-> pred, types |-> ts]
InputTypes ==
    IF Len(scans) = 2 THEN ScanTypes(scans[left_scan]) \o ScanTypes(scans[right_scan]) ELSE types

PlanFilter ==
    /\ pc = "filter"
    /\ Residual # <<>> => ResidualPredicate # Bad
    /\ plan' = IF Residual = <<>> THEN plan ELSE Append(plan, Filter(ResidualPredicate, InputTypes))
    /\ Goto(IF aggregated THEN "aggregate" ELSE "project")
    /\ UNCHANGED <<scans, needed, join_pred, names, types, rows>>

PlanFilterRefuses == pc = "filter" /\ Residual # <<>> /\ ResidualPredicate = Bad /\ Refuse

-----------------------------------------------------------------------------
(* Aggregates, projection, order and limit.                                *)

GroupIdx == [k \in DOMAIN stmt.group_by |-> Resolve(names, stmt.group_by[k].alias, stmt.group_by[k].name)]

\* add_agg: one specification per name.
AggSpecs ==
    LET all == FlattenSeq([i \in DOMAIN stmt.items |-> Collect(stmt.items[i].e)]) \o Collect(stmt.having)
    IN  FoldLeft(LAMBDA specs, a : IF \E k \in DOMAIN specs : specs[k].name = AggName(a) THEN specs
                                   ELSE Append(specs, AggSpec(a)), <<>>, all)

AggNames ==
    [k \in DOMAIN stmt.group_by |-> Bare(stmt.group_by[k].name)] \o [k \in DOMAIN AggSpecs |-> Bare(AggSpecs[k].name)]
AggTypes == [k \in DOMAIN GroupIdx |-> types[GroupIdx[k]]] \o [k \in DOMAIN AggSpecs |-> AggSpecs[k].type]

AggOk ==
    /\ 0 \notin ToSet(GroupIdx)
    /\ \A k \in DOMAIN AggSpecs : AggSpecs[k].arg # Bad
    /\ stmt.having # NoExpr => Bind(stmt.having, AggNames, AggTypes) # Bad

PlanAggregate ==
    /\ pc = "aggregate"
    /\ AggOk
    /\ plan' = plan \o <<[op |-> "aggregate", groups |-> GroupIdx, specs |-> AggSpecs, types |-> AggTypes]>>
                 \o IF stmt.having = NoExpr THEN <<>> ELSE <<Filter(Bind(stmt.having, AggNames, AggTypes), AggTypes)>>
    /\ names' = AggNames /\ types' = AggTypes
    /\ Goto("project")
    /\ UNCHANGED <<scans, needed, join_pred, rows>>

PlanAggregateRefuses == pc = "aggregate" /\ ~ AggOk /\ Refuse

\* The source of each output column; 0 if the item is not allowed or unknown.
\* After an aggregate the alias of a column is ignored.
ProjIdx ==
    IF stmt.star /\ ~ aggregated THEN [i \in DOMAIN names |-> i]
    ELSE [i \in DOMAIN stmt.items |->
            LET e == stmt.items[i].e IN
            CASE e.k = "agg" /\ aggregated -> Resolve(names, <<>>, AggName(e))
              [] e.k = "col" -> Resolve(names, IF aggregated THEN <<>> ELSE e.alias, e.name)
              [] OTHER -> 0]

\* A star over one table has bare names, over two tables qualified ones.
ProjNames ==
    IF stmt.star /\ ~ aggregated
    THEN [i \in DOMAIN names |-> IF Len(scans) = 1 THEN Bare(names[i].c) ELSE names[i]]
    ELSE [i \in DOMAIN stmt.items |->
            LET item == stmt.items[i] IN
            Bare(CASE item.as # <<>> -> item.as
                   [] item.as = <<>> /\ item.e.k = "agg" -> AggName(item.e)
                   [] OTHER -> item.e.name)]

\* The output column that the sort key names; otherwise the key is a column
\* that need not be in the output, and the sort comes before the projection.
SortsOutput == IF aggregated THEN Resolve(ProjNames, <<>>, stmt.order_by.name)
               ELSE SelectLastInSeq(ProjNames, LAMBDA n : n = Bare(stmt.order_by.name))
SortsInput == IF aggregated THEN 0 ELSE Resolve(names, <<>>, stmt.order_by.name)

Projection == [op |-> "project", idx |-> ProjIdx]
OrderBy(key) == [op |-> "order", key |-> key, desc |-> stmt.order_by.desc]
Limit == IF stmt.limit = NoLimit THEN <<>> ELSE <<[op |-> "limit", n |-> stmt.limit]>>

ProjectOk ==
    /\ 0 \notin ToSet(ProjIdx)
    /\ stmt.order_by # NoOrder => SortsOutput # 0 \/ SortsInput # 0

PlanProject ==
    /\ pc = "project"
    /\ ProjectOk
    /\ plan' = plan \o (CASE stmt.order_by = NoOrder -> <<Projection>>
                          [] stmt.order_by # NoOrder /\ SortsOutput # 0 -> <<Projection, OrderBy(SortsOutput)>>
                          [] OTHER -> <<OrderBy(SortsInput), Projection>>) \o Limit
    /\ names' = ProjNames
    /\ types' = [i \in DOMAIN ProjIdx |-> types[ProjIdx[i]]]
    /\ Goto("run")
    /\ UNCHANGED <<scans, needed, join_pred, rows>>

PlanProjectRefuses == pc = "project" /\ ~ ProjectOk /\ Refuse

-----------------------------------------------------------------------------
(* Running the plan: an operator takes the rows of its child.              *)

Running(op) == pc = "run" /\ plan # <<>> /\ Head(plan).op = op

Output(out) ==
    /\ rows' = out
    /\ plan' = Tail(plan)
    /\ pc' = IF Tail(plan) = <<>> THEN "done" ELSE "run"
    /\ UNCHANGED <<input, tokens, pos, stmt, scans, needed, join_pred, names, types>>

\* An exception leaves Execute.
Throws == pc' = "failed" /\ UNCHANGED <<input, tokens, pos, stmt, planner>>

ScanRows(s) ==
    LET stored == Databases[input.db][s.table] IN [r \in DOMAIN stored |-> [k \in DOMAIN s.cols |-> stored[r][s.cols[k]]]]

\* ColumnScan: the rows in order; chunks without a row in the zone may be
\* left out.
RunScan ==
    /\ Running("scan")
    /\ LET all == ScanRows(scans[1])
           zone == Head(plan).zone
           Inside(x) == x # Null /\ x.v \in zone.lo .. zone.hi
           outside == {r \in DOMAIN all : zone # NoZone /\ ~ Inside(all[r][zone.col])}
       IN  \E gone \in SUBSET outside :
             Output([k \in 1 .. Len(all) - Cardinality(gone) |-> all[SetToSortSeq(DOMAIN all \ gone, <)[k]]])

\* HashJoin: in the order of the left rows, then of the right ones; the keys
\* are equal in type and value.
RunJoin ==
    /\ Running("join")
    /\ LET op == Head(plan)
           left == ScanRows(scans[op.left])
           right == ScanRows(scans[op.right])
           Matches(l) == SelectSeq(right, LAMBDA r : l[op.lkey] # Null /\ l[op.lkey] = r[op.rkey])
       IN  Output(FlattenSeq([i \in DOMAIN left |->
                    [j \in DOMAIN Matches(left[i]) |-> left[i] \o Matches(left[i])[j]]]))

Mask(row) == EvalPredicate(Head(plan).pred, Head(plan).types, row)
Kept(rs) == SelectSeq(rs, LAMBDA row : Mask(row) = Truth(TRUE))
FirstThrow == SelectInSeq(rows, LAMBDA row : Mask(row) = Threw)

RunFilter ==
    /\ Running("filter")
    /\ FirstThrow = 0
    /\ Output(Kept(rows))

RunFilterThrows == Running("filter") /\ FirstThrow # 0 /\ Throws

\* The filter is not asked for more rows once a LIMIT has enough of them, so
\* that it may not come to the row that throws.
RunFilterStops ==
    /\ Running("filter")
    /\ FirstThrow # 0
    /\ Last(plan).op = "limit" /\ \A k \in DOMAIN plan : plan[k].op \notin {"aggregate", "order"}
    /\ LET before == Kept(SubSeq(rows, 1, FirstThrow - 1)) IN Len(before) >= Last(plan).n /\ Output(before)

\* HashAggregate, for one group.  An exception in a worker ends the process.
Extreme(values, ordering) == CHOOSE x \in values : \A y \in values : CompareValues(y, x) # ordering
Fails(spec, x) ==
    \/ x = Threw
    \/ spec.kind = "SUM" /\ spec.in # "float" /\ ~ IsInteger(x)
    \/ spec.kind \in {"SUM", "AVG"} /\ ~ IsNumber(x)

\* Of values that are not NULL; an average is rounded to tenths.
Combine(spec, vals) ==
    LET Sum(N(_)) == FoldLeft(LAMBDA n, x : n + N(x), 0, vals)
    IN  CASE spec.kind = "COUNT" -> Value("bigint", Len(vals))
          [] spec.kind = "MIN" -> Extreme(ToSet(vals), "less")
          [] spec.kind = "MAX" -> Extreme(ToSet(vals), "greater")
          [] spec.kind = "AVG" -> Value("float", Quotient(Sum(AsDouble), Len(vals)))
          [] spec.kind = "SUM" -> IF spec.in = "float" THEN Value("float", Sum(AsDouble))
                                  ELSE Value("bigint", Sum(LAMBDA x : x.v))

AggValue(spec, group) ==
    LET vals == SelectSeq([r \in DOMAIN group |-> EvalExprRow(spec.arg, group[r])], LAMBDA x : x # Null)
        fails == \E x \in ToSet(vals) : Fails(spec, x)
    IN  CASE spec.kind = "COUNT*" -> Value("bigint", Len(group))
          [] spec.kind # "COUNT*" /\ fails -> Threw
          [] spec.kind \notin {"COUNT*", "COUNT"} /\ vals = <<>> -> Null
          [] OTHER -> Combine(spec, vals)

\* The groups, in the order that the workers leave them in.
GroupKey(op, row) == [k \in DOMAIN op.groups |-> row[op.groups[k]]]
GroupKeys(op) == IF op.groups = <<>> THEN {<<>>} ELSE {GroupKey(op, rows[r]) : r \in DOMAIN rows}
GroupRow(op, key) ==
    key \o [k \in DOMAIN op.specs |-> AggValue(op.specs[k], SelectSeq(rows, LAMBDA r : GroupKey(op, r) = key))]

\* AppendValue takes a value of the type of its vector, or NULL.
Appendable(row, ts) == \A k \in DOMAIN row : row[k] = Null \/ row[k].t = ts[k]

RunAggregate ==
    /\ Running("aggregate")
    /\ \A key \in GroupKeys(Head(plan)) : Appendable(GroupRow(Head(plan), key), Head(plan).types)
    /\ \E keys \in SetToSeqs(GroupKeys(Head(plan))) :
         Output([g \in DOMAIN keys |-> GroupRow(Head(plan), keys[g])])

RunAggregateThrows ==
    /\ Running("aggregate")
    /\ \E key \in GroupKeys(Head(plan)) : ~ Appendable(GroupRow(Head(plan), key), Head(plan).types)
    /\ Throws

RunProject ==
    /\ Running("project")
    /\ LET idx == Head(plan).idx IN Output([r \in DOMAIN rows |-> [k \in DOMAIN idx |-> rows[r][idx[k]]]])

\* The comparison of OrderBy: NULLs are first when ascending, last when
\* descending.
Before(x, y, desc) ==
    IF x = Null \/ y = Null THEN x # y /\ (IF desc THEN y = Null ELSE x = Null)
    ELSE CompareValues(x, y) = (IF desc THEN "greater" ELSE "less")

\* std::stable_sort, where less holds the pairs of positions in order.
StableSort(s, less) ==
    LET Rank(i) == Cardinality({j \in DOMAIN s : <<j, i>> \in less \/ (<<i, j>> \notin less /\ j <= i)})
    IN  [k \in DOMAIN s |-> s[CHOOSE i \in DOMAIN s : Rank(i) = k]]

RunOrderBy ==
    /\ Running("order")
    /\ LET op == Head(plan)
           less == {p \in (DOMAIN rows) \X (DOMAIN rows) : Before(rows[p[1]][op.key], rows[p[2]][op.key], op.desc)}
       IN  Output(StableSort(rows, less))

RunLimit ==
    /\ Running("limit")
    /\ Output(SubSeq(rows, 1, IF Head(plan).n < Len(rows) THEN Head(plan).n ELSE Len(rows)))

PlannerStep ==
    \/ PlanFrom \/ PlanFromRefuses \/ PlanColumns \/ PlanColumnsRefuses
    \/ PlanJoinPredicate \/ PlanJoinRefuses \/ PlanScans \/ PlanScansRefuses
    \/ PlanZone \/ PlanJoin \/ PlanJoinSidesRefuses \/ PlanFilter \/ PlanFilterRefuses
    \/ PlanAggregate \/ PlanAggregateRefuses \/ PlanProject \/ PlanProjectRefuses
    \/ RunScan \/ RunJoin \/ RunFilter \/ RunFilterThrows \/ RunFilterStops \/ RunAggregate \/ RunAggregateThrows
    \/ RunProject \/ RunOrderBy \/ RunLimit
=============================================================================
