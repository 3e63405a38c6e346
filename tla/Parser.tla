------------------------------- MODULE Parser --------------------------------
(***************************************************************************)
(* Parse (sql/parser.cpp) with its syntax trees (sql/ast.h): one operator  *)
(* per parsing function of an expression or a list, one action per clause  *)
(* of SELECT and per other statement.                                      *)
(*                                                                         *)
(* A parsing function takes the position p of the next token and gives     *)
(* what it has parsed and the position after it, or the failure and the    *)
(* position where it happened.  VARCHAR values are numbered in their       *)
(* order, the empty one 0; names are sequences of symbols, <<>> for none.  *)
(***************************************************************************)
EXTENDS Lexer

CONSTANTS
    Inputs,         \* what Execute may be called with: the text, the statements
                    \*   it can mean if they are known, and the database
    StringRank,     \* the number of each VARCHAR value
    kVarcharMax     \* the largest length of a VARCHAR column

VARIABLES
    input,          \* the member of Inputs
    pc,             \* the next step of Execute
    tokens,         \* tokens_
    pos,            \* pos_, from 1
    stmt            \* the statement as far as it is parsed

parser == <<input, pc, tokens, pos, stmt>>

-----------------------------------------------------------------------------
(* Syntax trees.                                                           *)

Null == [t |-> "null", v |-> 0]
NoExpr == [k |-> "none"]
NoOrder == [name |-> <<>>, desc |-> FALSE]
NoLimit == -1
Col(alias, name) == [k |-> "col", alias |-> alias, name |-> name]
Lit(value) == [k |-> "lit", v |-> value]
Bin(op, l, r) == [k |-> "bin", op |-> op, l |-> l, r |-> r]
Not(e) == [k |-> "not", e |-> e]
In(e, values) == [k |-> "in", e |-> e, vs |-> values]
Agg(kind, arg) == [k |-> "agg", kind |-> kind, arg |-> arg]
Comparisons == {"=", "!=", "<", "<=", ">", ">="}
Aggregates == {"COUNT", "SUM", "AVG", "MIN", "MAX"}

EmptySelect ==
    [k |-> "select", star |-> FALSE, items |-> <<>>, tables |-> <<>>, where |-> NoExpr, group_by |-> <<>>,
     having |-> NoExpr, order_by |-> NoOrder, limit |-> NoLimit]

-----------------------------------------------------------------------------
(* Tokens and results.                                                     *)

\* Peek reads tokens_[pos_] without a check.
Peek(p) == IF p <= Len(tokens) THEN tokens[p] ELSE Token("beyond", <<>>, 0)
Kind(p) == Peek(p).k
Is(p, symbol) == Kind(p) \in {"kw", "punct"} /\ Peek(p).s = <<symbol>>
IsAny(p, symbols) == \E s \in symbols : Is(p, s)

Ok(e, p) == [ok |-> TRUE, e |-> e, p |-> p]
Fail(p) == [ok |-> FALSE, e |-> NoExpr, p |-> p]
With(r, e) == IF r.ok THEN Ok(e, r.p) ELSE r            \* e in place of r's result
Expect(r, symbol) ==                                    \* and then the symbol
    IF r.ok THEN (IF Is(r.p, symbol) THEN Ok(r.e, r.p + 1) ELSE Fail(r.p)) ELSE r
ExpectIdent(p) == IF Kind(p) = "id" THEN Ok(Peek(p).s, p + 1) ELSE Fail(p)

ParseLiteral(p) ==
    LET v == Peek(p).v IN
    CASE Kind(p) = "int" ->
           Ok([t |-> IF v \in - kIntMax - 1 .. kIntMax THEN "int" ELSE "bigint", v |-> v], p + 1)
      [] Kind(p) = "float" -> Ok([t |-> "float", v |-> v], p + 1)
      [] Kind(p) = "str" -> Ok([t |-> "varchar", v |-> StringRank[Peek(p).s]], p + 1)
      [] Is(p, "NULL") -> Ok(Null, p + 1)
      [] OTHER -> Fail(p)

\* ParseColumnRef: a name, or an alias, a dot and a name.
ParseColumnRef(p) ==
    LET first == ExpectIdent(p) IN
    IF first.ok /\ Is(first.p, ".")
    THEN LET second == ExpectIdent(first.p + 1) IN With(second, Col(first.e, second.e))
    ELSE With(first, Col(<<>>, first.e))

-----------------------------------------------------------------------------
(* Expressions and lists.                                                  *)

RECURSIVE Production(_, _), Operators(_, _), ParseList(_, _)

\* ParseOr, ParseAnd, ParseAddSub and ParseMulDiv: the operators of a level, and
\* the level of their operands.
OperatorsOf(level) ==
    CASE level = "or" -> {"OR"} [] level = "and" -> {"AND"} [] level = "add" -> {"+", "-"} [] level = "mul" -> {"*", "/"}
Operand(level) ==
    CASE level = "or" -> "and" [] level = "and" -> "not" [] level = "add" -> "mul" [] level = "mul" -> "primary"

ParseExpr(p) == Production("or", p)
ParseAddSub(p) == Production("add", p)

\* The while loop of a level, with the left operand l: to the left.
Operators(level, l) ==
    IF l.ok /\ IsAny(l.p, OperatorsOf(level))
    THEN LET r == Production(Operand(level), l.p + 1) IN Operators(level, With(r, Bin(Peek(l.p).s[1], l.e, r.e)))
    ELSE l

ParseNot(p) ==
    IF Is(p, "NOT") THEN LET c == Production("not", p + 1) IN With(c, Not(c.e)) ELSE Production("comparison", p)

\* Comparisons do not chain; BETWEEN becomes two of them, for a column only.
ParseComparison(p) ==
    LET l == ParseAddSub(p) IN
    CASE l.ok /\ IsAny(l.p, Comparisons) ->
           LET r == ParseAddSub(l.p + 1) IN With(r, Bin(Peek(l.p).s[1], l.e, r.e))
      [] l.ok /\ Is(l.p, "BETWEEN") ->
           LET lo == Expect(ParseAddSub(l.p + 1), "AND")
               hi == IF lo.ok THEN ParseAddSub(lo.p) ELSE lo
           IN  IF hi.ok /\ l.e.k # "col" THEN Fail(hi.p)
               ELSE With(hi, Bin("AND", Bin(">=", l.e, lo.e), Bin("<=", l.e, hi.e)))
      [] l.ok /\ Is(l.p, "IN") ->
           LET vs == IF Is(l.p + 1, "(") THEN Expect(ParseList("literal", l.p + 2), ")") ELSE Fail(l.p + 1)
           IN  With(vs, In(l.e, vs.e))
      [] OTHER -> l

ParseAggregate(p) ==
    LET fn == Peek(p).s[1]
        star == fn = "COUNT" /\ Is(p + 2, "*")
        arg == IF star THEN Ok(NoExpr, p + 3) ELSE ParseAddSub(p + 2)
    IN  IF Is(p + 1, "(")
        THEN LET all == Expect(arg, ")") IN With(all, Agg(IF star THEN "COUNT*" ELSE fn, all.e))
        ELSE Fail(p + 1)

ParsePrimary(p) ==
    CASE Is(p, "(") -> Expect(ParseExpr(p + 1), ")")
      [] IsAny(p, Aggregates) -> ParseAggregate(p)
      [] Kind(p) \in {"int", "float", "str"} \/ Is(p, "NULL") ->
           LET l == ParseLiteral(p) IN With(l, Lit(l.e))
      [] Kind(p) = "id" -> ParseColumnRef(p)
      [] OTHER -> Fail(p)

\* A select item is an aggregate or a primary, with an alias or without.
ParseSelectItem(p) ==
    LET e == Production("primary", p)
        as == IF e.ok /\ Is(e.p, "AS") THEN ExpectIdent(e.p + 1) ELSE With(e, <<>>)
    IN  With(as, [e |-> e.e, as |-> as.e])

\* AS may be left out; without an alias the table has its own name.
ParseTableRef(p) ==
    LET name == ExpectIdent(p)
        alias == CASE name.ok /\ Is(name.p, "AS") -> ExpectIdent(name.p + 1)
                   [] name.ok /\ Kind(name.p) = "id" -> ExpectIdent(name.p)
                   [] OTHER -> name
    IN  With(alias, [name |-> name.e, alias |-> alias.e])

ParseRow(p) == IF Is(p, "(") THEN Expect(ParseList("literal", p + 1), ")") ELSE Fail(p)

\* A VARCHAR has a length, which must be in range.
ParseColumnDef(p) ==
    LET name == ExpectIdent(p)
        q == name.p
        type == Peek(q).s[1]
        Def(len) == [name |-> name.e, type |-> type, len |-> len]
    IN
    CASE ~ name.ok -> name
      [] IsAny(q, {"INT", "BIGINT", "FLOAT"}) -> Ok(Def(0), q + 1)
      [] Is(q, "VARCHAR") ->
           CASE ~ Is(q + 1, "(") -> Fail(q + 1)
             [] Kind(q + 2) # "int" \/ Peek(q + 2).v <= 0 \/ Peek(q + 2).v > kVarcharMax -> Fail(q + 2)
             [] OTHER -> Expect(Ok(Def(Peek(q + 2).v), q + 3), ")")
      [] OTHER -> Fail(q)

Production(what, p) ==
    CASE what \in {"or", "and", "add", "mul"} -> Operators(what, Production(Operand(what), p))
      [] what = "not" -> ParseNot(p) [] what = "comparison" -> ParseComparison(p)
      [] what = "primary" -> ParsePrimary(p) [] what = "literal" -> ParseLiteral(p)
      [] what = "item" -> ParseSelectItem(p) [] what = "table" -> ParseTableRef(p)
      [] what = "column" -> ParseColumnRef(p)
      [] what = "row" -> ParseRow(p) [] what = "def" -> ParseColumnDef(p)

\* One or more, separated by commas.
ParseList(what, p) ==
    LET x == Production(what, p) IN
    IF x.ok /\ Is(x.p, ",")
    THEN LET rest == ParseList(what, x.p + 1) IN With(rest, <<x.e>> \o rest.e)
    ELSE With(x, <<x.e>>)

-----------------------------------------------------------------------------
(* Statements.  A step parses up to r.p and goes to next with statement s. *)

Step(r, next, s) ==
    /\ pos' = r.p
    /\ pc' = IF r.ok THEN next ELSE "rejected"
    /\ stmt' = IF r.ok THEN s ELSE stmt
    /\ UNCHANGED <<input, tokens>>

\* A clause that may be missing: its keyword, and what follows it.
Optional(keyword, r, none) == IF Is(pos, keyword) THEN r ELSE Ok(none, pos)

ParserInit ==
    /\ input \in Inputs
    /\ pc = "lex" /\ tokens = <<>> /\ pos = 1 /\ stmt = NoExpr

\* Parse calls Tokenize first.
LexText ==
    /\ pc = "lex"
    /\ tokens' = Tokenize(input.text).out
    /\ pc' = IF Tokenize(input.text).ok THEN "statement" ELSE "rejected"
    /\ UNCHANGED <<input, pos, stmt>>

StatementOf(keyword) == pc = "statement" /\ Is(pos, keyword)

ParseStatement ==
    /\ pc = "statement"
    /\ ~ IsAny(pos, {"SELECT", "INSERT", "CREATE", "DROP", "TRUNCATE"})
    /\ Step(Fail(pos), pc, stmt)

ParseItems ==
    /\ StatementOf("SELECT")
    /\ LET star == Is(pos + 1, "*")
           items == IF star THEN Ok(<<>>, pos + 2) ELSE ParseList("item", pos + 1)
       IN  Step(items, "from", [EmptySelect EXCEPT !.star = star, !.items = items.e])

ParseFrom ==
    /\ pc = "from"
    /\ LET r == IF Is(pos, "FROM") THEN ParseList("table", pos + 1) ELSE Fail(pos)
       IN  Step(r, "where", [stmt EXCEPT !.tables = r.e])

ParseWhere ==
    /\ pc = "where"
    /\ LET r == Optional("WHERE", ParseExpr(pos + 1), NoExpr) IN Step(r, "group", [stmt EXCEPT !.where = r.e])

ParseGroupBy ==
    /\ pc = "group"
    /\ LET list == IF Is(pos + 1, "BY") THEN ParseList("column", pos + 2) ELSE Fail(pos + 1)
           r == Optional("GROUP", list, <<>>)
       IN  Step(r, "having", [stmt EXCEPT !.group_by = r.e])

ParseHaving ==
    /\ pc = "having"
    /\ LET r == Optional("HAVING", ParseExpr(pos + 1), NoExpr) IN Step(r, "order", [stmt EXCEPT !.having = r.e])

\* The alias of the key is dropped.
ParseOrderBy ==
    /\ pc = "order"
    /\ LET key == IF Is(pos + 1, "BY") THEN ParseColumnRef(pos + 2) ELSE Fail(pos + 1)
           dir == IF key.ok /\ IsAny(key.p, {"ASC", "DESC"}) THEN Ok(key.e, key.p + 1) ELSE key
           r == Optional("ORDER", With(dir, [name |-> key.e.name, desc |-> Is(key.p, "DESC")]), NoOrder)
       IN  Step(r, "limit", [stmt EXCEPT !.order_by = r.e])

ParseLimit ==
    /\ pc = "limit"
    /\ LET n == IF Kind(pos + 1) = "int" /\ Peek(pos + 1).v >= 0 THEN Ok(Peek(pos + 1).v, pos + 2) ELSE Fail(pos + 1)
           r == Optional("LIMIT", n, NoLimit)
       IN  Step(r, "end", [stmt EXCEPT !.limit = r.e])

\* Mutant: the loop over the rows takes what follows without looking.
ParseInsertConsumes ==
    /\ StatementOf("INSERT")
    /\ LET name == IF Is(pos + 1, "INTO") THEN Expect(ExpectIdent(pos + 2), "VALUES") ELSE Fail(pos + 1)
           rows == IF name.ok THEN ParseList("row", name.p) ELSE name
       IN  Step([rows EXCEPT !.p = @ + 1], "end", [k |-> "insert", table |-> name.e, rows |-> rows.e])

ParseInsert ==
    /\ StatementOf("INSERT")
    /\ LET name == IF Is(pos + 1, "INTO") THEN Expect(ExpectIdent(pos + 2), "VALUES") ELSE Fail(pos + 1)
           rows == IF name.ok THEN ParseList("row", name.p) ELSE name
       IN  Step(rows, "end", [k |-> "insert", table |-> name.e, rows |-> rows.e])

ParseCreateTable ==
    /\ StatementOf("CREATE")
    /\ LET name == IF Is(pos + 1, "TABLE") THEN Expect(ExpectIdent(pos + 2), "(") ELSE Fail(pos + 1)
           defs == IF name.ok THEN Expect(ParseList("def", name.p), ")") ELSE name
       IN  Step(defs, "end", [k |-> "create", table |-> name.e, columns |-> defs.e])

ParseDropOrTruncate ==
    /\ pc = "statement" /\ IsAny(pos, {"DROP", "TRUNCATE"})
    /\ LET name == IF Is(pos + 1, "TABLE") THEN ExpectIdent(pos + 2) ELSE Fail(pos + 1)
       IN  Step(name, "end", [k |-> IF Is(pos, "DROP") THEN "drop" ELSE "truncate", table |-> name.e])

\* A semicolon, or none, and nothing after it.
ExpectEnd ==
    /\ pc = "end"
    /\ LET p == IF Is(pos, ";") THEN pos + 1 ELSE pos
       IN  Step(IF Kind(p) = "eof" THEN Ok(stmt, p) ELSE Fail(p), "parsed", stmt)

ParserStep ==
    \/ LexText \/ ParseStatement \/ ParseItems \/ ParseFrom \/ ParseWhere \/ ParseGroupBy \/ ParseHaving
    \/ ParseOrderBy \/ ParseLimit \/ ParseInsert \/ ParseCreateTable \/ ParseDropOrTruncate \/ ExpectEnd
=============================================================================
