------------------------------ MODULE MCQuery --------------------------------
(***************************************************************************)
(* Texts with their meanings: every short sequence of tokens after WHERE,  *)
(* queries built together with their syntax trees, and edits of them.      *)
(*                                                                         *)
(* A phrase is a sequence of tokens, each a sequence of symbols, and the   *)
(* tree that it means.                                                     *)
(***************************************************************************)
EXTENDS Query

Words(symbols) == [i \in DOMAIN symbols |-> <<symbols[i]>>]
Phrase(text, e) == [text |-> text, e |-> e]
OpSymbols(op) == IF op \in {"<=", ">=", "!="} THEN <<IF op = "!=" THEN "!" ELSE IF op = "<=" THEN "<" ELSE ">", "=">> ELSE <<op>>
Infix(p, op, q) == Phrase(p.text \o <<OpSymbols(op)>> \o q.text, Bin(op, p.e, q.e))
Negated(p) == Phrase(<<<<"NOT">>>> \o p.text, Not(p.e))
Paren(p) == Phrase(<<<<"(">>>> \o p.text \o <<<<")">>>>, p.e)
Between(c, p, q) ==
    Phrase(c.text \o <<<<"BETWEEN">>>> \o p.text \o <<<<"AND">>>> \o q.text,
           Bin("AND", Bin(">=", c.e, p.e), Bin("<=", c.e, q.e)))
Commas(texts) == FoldLeft(LAMBDA t, x : IF t = <<>> THEN x ELSE t \o <<<<",">>>> \o x, <<>>, texts)
AmongList(p, lits) ==
    Phrase(p.text \o Words(<<"IN", "(">>) \o Commas([i \in DOMAIN lits |-> lits[i].text]) \o Words(<<")">>),
           In(p.e, [i \in DOMAIN lits |-> lits[i].e.v]))

C(name) == Phrase(<<<<name>>>>, Col(<<>>, <<name>>))
Q(alias, name) == Phrase(Words(<<alias, ".", name>>), Col(<<alias>>, <<name>>))
L(symbols, type, v) == Phrase(<<symbols>>, Lit(Value(type, v)))
One == L(<<"1">>, "int", 1)
Two == L(<<"2">>, "int", 2)
MinusOne == L(<<"-", "1">>, "int", -1)
Big == L(<<"2", "0">>, "bigint", 20)
Float == L(<<"1", ".", "2">>, "float", 12)
X == L(<<"'", "x", "'">>, "varchar", 2)
Quote == L(<<"'", "'", "'", "x", "'">>, "varchar", 1)
NullLit == Phrase(<<<<"NULL">>>>, Lit(Null))
MCStringRank == (<<>> :> 0) @@ (<<"'", "x">> :> 1) @@ (<<"x">> :> 2)

-----------------------------------------------------------------------------
(* The language of expressions over an alphabet of tokens: for each number *)
(* of tokens the phrases at each level of precedence.                      *)

Atoms == {C("a"), One}

\* The phrases with one token more than those of the table.
Longer(A, table) ==
    LET n == Len(table) + 1
        Has(symbols) == {<<s>> : s \in symbols} \subseteq A
        Pairs(l, r, m) == UNION {table[k][l] \X table[m - k][r] : k \in 1 .. m - 1}
        Infixes(l, r, ops) == UNION {{Infix(x[1], op, x[2]) : x \in Pairs(l, r, n - 1)} : op \in {o \in ops : Has({o})}}
        lits == {p \in Atoms : p.e.k = "lit" /\ p.text[1] \in A}
        primary == (IF n = 1 THEN {p \in Atoms : p.text[1] \in A} ELSE {})
                     \cup (IF n > 2 /\ Has({"(", ")"}) THEN {Paren(p) : p \in table[n - 2].or} ELSE {})
        mul == primary \cup Infixes("mul", "primary", {"*"})
        add == mul \cup Infixes("add", "mul", {"+", "-"})
        compare == add \cup Infixes("add", "add", {"<"})
                     \cup (IF Has({"BETWEEN", "AND"}) THEN {Between(C("a"), x[1], x[2]) : x \in Pairs("add", "add", n - 3)} ELSE {})
                     \cup UNION {{AmongList(p, vs) : p \in table[n - 2 * m - 2].add, vs \in [1 .. m -> lits]} :
                                  m \in {i \in 1 .. n : n - 2 * i - 2 >= 1 /\ Has({"IN", "(", ")"} \cup IF i > 1 THEN {","} ELSE {})}}
        not == compare \cup (IF n > 1 /\ Has({"NOT"}) THEN {Negated(p) : p \in table[n - 1].not} ELSE {})
        and == not \cup Infixes("and", "not", {"AND"})
        or == and \cup Infixes("or", "and", {"OR"})
    IN  [primary |-> primary, mul |-> mul, add |-> add, not |-> not, and |-> and, or |-> or]

Phrases(A, n) ==
    LET table == FoldLeft(LAMBDA t, i : Append(t, Longer(A, t)), <<>>, [i \in 1 .. n |-> i])
    IN  UNION {table[i].or : i \in 1 .. n}

Alphabet(symbols, n, m) == [tokens |-> {<<s>> : s \in symbols}, n |-> n, m |-> m]
Alphabets == {
    Alphabet({"a", "1", "NOT", "AND", "OR", "<", "+", "-", "*", "(", ")", "?"}, 3, 5),
    Alphabet({"a", "AND", "OR", "NOT", "<"}, 4, 7), Alphabet({"a", "-", "*", "<"}, 4, 7),
    Alphabet({"a", "(", ")", "-"}, 5, 7), Alphabet({"a", "1", "BETWEEN", "AND", "NOT"}, 4, 7),
    Alphabet({"1", "IN", "(", ")", ","}, 4, 7)}

-----------------------------------------------------------------------------
(* Statements.                                                             *)

None == Phrase(<<>>, NoExpr)
Item(p) == [text |-> p.text, item |-> [e |-> p.e, as |-> <<>>]]
ItemAs(p, name) == [text |-> p.text \o Words(<<"AS", name>>), item |-> [e |-> p.e, as |-> <<name>>]]
Func(fn, p) == Phrase(Words(<<fn, "(">>) \o p.text \o Words(<<")">>), Agg(fn, p.e))
CountStar == Phrase(Words(<<"COUNT", "(", "*", ")">>), Agg("COUNT*", NoExpr))
From(name) == [text |-> <<<<name>>>>, table |-> [name |-> <<name>>, alias |-> <<name>>]]
FromAs(name, alias) == [text |-> Words(<<name, "AS", alias>>), table |-> [name |-> <<name>>, alias |-> <<alias>>]]
FromAlias(name, alias) == [text |-> Words(<<name, alias>>), table |-> [name |-> <<name>>, alias |-> <<alias>>]]
Order(name, dir) == [text |-> Words(<<"ORDER", "BY", name>> \o dir), order |-> [name |-> <<name>>, desc |-> dir = <<"DESC">>]]
Unordered == [text |-> <<>>, order |-> NoOrder]
Unlimited == [text |-> <<>>, limit |-> NoLimit]
LimitTo(s, n) == [text |-> Words(<<"LIMIT", s>>), limit |-> n]
Clause(keyword, text) == IF text = <<>> THEN <<>> ELSE <<<<keyword>>>> \o text
Texts(pieces) == Commas([i \in DOMAIN pieces |-> pieces[i].text])

\* No items stand for a star.
SelectText(items, tables, where, groups, having, order, limit) ==
    <<<<"SELECT">>>> \o (IF items = <<>> THEN <<<<"*">>>> ELSE Texts(items)) \o Clause("FROM", Texts(tables))
      \o Clause("WHERE", where.text) \o (IF groups = <<>> THEN <<>> ELSE Words(<<"GROUP", "BY">>) \o Texts(groups))
      \o Clause("HAVING", having.text) \o order.text \o limit.text
SelectTree(items, tables, where, groups, having, order, limit) ==
    [EmptySelect EXCEPT !.star = (items = <<>>), !.items = [i \in DOMAIN items |-> items[i].item],
       !.tables = [i \in DOMAIN tables |-> tables[i].table], !.where = where.e,
       !.group_by = [i \in DOMAIN groups |-> groups[i].e], !.having = having.e,
       !.order_by = order.order, !.limit = limit.limit]
Select(items, tables, where, groups, having, order, limit) ==
    Phrase(SelectText(items, tables, where, groups, having, order, limit),
           SelectTree(items, tables, where, groups, having, order, limit))
Plainly(items, tables, where) == Select(items, tables, where, <<>>, None, Unordered, Unlimited)

-----------------------------------------------------------------------------
(* Tables.                                                                 *)

Column(name, type) == [name |-> <<name>>, type |-> type]
MCSchema ==
    (<<"t">> :> <<Column("a", "int"), Column("b", "bigint"), Column("s", "varchar")>>)
      @@ (<<"u">> :> <<Column("k", "int"), Column("a", "int")>>)
Row(a, b, s) == <<a, b, s>>
I(n) == Value("int", n)
B(n) == Value("bigint", n)
S(n) == Value("varchar", n)
WithNulls ==
    (<<"t">> :> <<Row(I(2), B(20), S(2)), Row(Null, B(1), S(0)), Row(I(1), Null, S(2))>>)
      @@ (<<"u">> :> <<<<I(1), I(2)>>, <<I(2), Null>>, <<I(1), I(1)>>>>)
NoNulls ==
    (<<"t">> :> <<Row(I(2), B(1), S(2)), Row(I(1), B(2), S(1)), Row(I(2), B(2), S(2))>>)
      @@ (<<"u">> :> <<<<I(2), I(1)>>, <<I(2), I(2)>>>>)
Empty == (<<"t">> :> <<>>) @@ (<<"u">> :> <<<<I(1), I(1)>>>>)
MCDatabases == [nulls |-> WithNulls, full |-> NoNulls, empty |-> Empty]

-----------------------------------------------------------------------------
(* Queries.                                                                *)

Conditions1 == {
    None, Infix(C("a"), ">=", One), Infix(C("a"), ">", One), Infix(Q("t", "a"), "<", Two), Infix(C("a"), "=", MinusOne),
    Infix(C("b"), "<=", Big), Infix(One, "<", C("a")), Infix(C("s"), "=", X), Infix(C("s"), "<", Quote),
    Infix(Infix(C("a"), "!=", One), "AND", Infix(C("s"), "=", X)),
    Infix(Infix(Infix(C("s"), "=", X), "OR", Infix(C("a"), "=", One)), "OR", Infix(C("b"), "=", One)),
    Infix(Paren(Infix(Infix(C("a"), "=", One), "OR", Infix(C("b"), "=", One))), "AND", Infix(C("a"), "<", Big)),
    Negated(Infix(C("b"), "=", Two)), Between(C("a"), MinusOne, One), AmongList(C("a"), <<Two, NullLit, MinusOne>>),
    Infix(Infix(Infix(C("b"), "-", C("a")), "-", One), "<", Infix(C("a"), "*", Two)),
    Infix(Infix(C("b"), "/", Paren(Infix(C("a"), "-", One))), "=", One),
    Infix(Infix(C("a"), "<", Float), "AND", Infix(C("b"), "<", Big)), Infix(C("a"), "<", NullLit), C("a"),
    AmongList(C("a"), <<One>>), AmongList(C("a"), <<Float>>), AmongList(C("a"), <<NullLit>>), AmongList(C("b"), <<Big>>),
    AmongList(C("s"), <<X>>), Infix(AmongList(C("a"), <<Big>>), "OR", AmongList(C("b"), <<One>>))}

OneTable ==
    {Select(items, <<From("t")>>, w, <<>>, None, o, l) :
       items \in {<<>>, <<Item(C("a"))>>, <<ItemAs(C("b"), "a"), Item(C("s"))>>}, w \in Conditions1,
       o \in {Unordered, Order("a", <<>>), Order("b", <<"DESC">>), Order("s", <<"ASC">>)},
       l \in {Unlimited, LimitTo("0", 0), LimitTo("2", 2)}}

Joining == Infix(Q("t", "a"), "=", Q("u", "k"))
Joins ==
    {Select(items, <<From("t"), FromAs("u", "u")>>, w, <<>>, None, o, l) :
       items \in {<<>>, <<Item(Q("u", "a")), Item(C("b"))>>},
       w \in {Joining, Infix(Joining, "AND", Infix(Q("u", "a"), ">", One)), Infix(Infix(C("b"), "<=", Two), "AND", Joining)},
       o \in {Unordered, Order("k", <<"DESC">>)}, l \in {Unlimited, LimitTo("2", 2)}}
    \cup {Plainly(<<Item(Q("v", "a")), Item(Q("t", "b"))>>, <<From("t"), FromAlias("t", "v")>>, w) :
            w \in {Infix(Q("t", "a"), "=", Q("v", "a")),
                   Infix(Infix(Q("t", "a"), "=", Q("v", "a")), "AND", Infix(Q("t", "b"), "!=", Q("v", "b")))}}

AggItems == {<<Item(C("s")), Item(CountStar), ItemAs(Func("SUM", Infix(C("a"), "+", One)), "x")>>,
             <<Item(Func("MIN", C("b"))), Item(Func("MAX", Infix(C("a"), "-", One))), ItemAs(Func("COUNT", C("a")), "x")>>}
Aggregations ==
    {Select(items, <<From("t")>>, w, <<C("s")>>, h, o, l) :
       items \in AggItems, w \in {None, Infix(C("a"), ">=", One)},
       h \in {None, Infix(CountStar, ">", One), AmongList(C("s"), <<X>>), Infix(Infix(C("s"), "=", X), "AND", Infix(Func("SUM", C("a")), "<", Big))},
       o \in {Unordered, Order("x", <<"DESC">>)}, l \in {Unlimited, LimitTo("1", 1)}}
    \cup {Select(<<Item(Func("SUM", C("b"))), Item(CountStar)>>, <<From("t")>>, Infix(C("a"), ">", Two), <<>>, None, Unordered, Unlimited),
          Select(<<ItemAs(Func("MAX", Q("u", "a")), "x"), Item(Q("t", "s"))>>, <<From("t"), From("u")>>, Joining, <<Q("t", "s")>>, None,
                 Order("x", <<>>), Unlimited)}

\* Queries that are refused, that fail or that have an unexpected answer.
Odd == {
    Plainly(<<>>, <<From("z")>>, None), Plainly(<<>>, <<From("t"), From("u"), From("t")>>, Joining),
    Plainly(<<>>, <<From("t"), From("u")>>, None), Plainly(<<>>, <<From("t"), From("u")>>, Infix(C("b"), "=", C("k"))),
    Plainly(<<Item(C("z"))>>, <<From("t")>>, None), Plainly(<<Item(C("a"))>>, <<From("t"), From("u")>>, Joining),
    Plainly(<<Item(Q("t", "z"))>>, <<From("t")>>, None), Plainly(<<>>, <<From("t")>>, Infix(Q("z", "a"), "=", One)),
    Plainly(<<Item(One)>>, <<From("t")>>, None), Plainly(<<Item(C("a"))>>, <<From("t")>>, Infix(Infix(C("a"), "+", One), "<", X)),
    Plainly(<<>>, <<From("t")>>, AmongList(Infix(C("a"), "+", One), <<One>>)),
    Select(<<Item(C("a"))>>, <<From("t")>>, None, <<>>, None, Order("z", <<>>), Unlimited),
    Select(<<Item(C("a"))>>, <<From("t")>>, None, <<>>, Infix(Q("t", "z"), "=", One), Unordered, Unlimited),
    Select(<<Item(C("s"))>>, <<From("t")>>, None, <<Q("t", "z")>>, None, Unordered, Unlimited),
    Select(<<Item(C("a")), Item(Func("SUM", C("s")))>>, <<From("t")>>, None, <<C("a")>>, None, Unordered, Unlimited),
    Select(<<Item(Func("AVG", C("a")))>>, <<From("t")>>, None, <<>>, None, Unordered, Unlimited)}

Others == {
    Phrase(Words(<<"INSERT", "INTO", "t", "VALUES", "(">>) \o Commas(<<MinusOne.text, Float.text, Quote.text>>)
             \o Words(<<")", ",", "(", "NULL", ")", ";">>),
           [k |-> "insert", table |-> <<"t">>,
            rows |-> <<<<MinusOne.e.v, Float.e.v, Quote.e.v>>, <<Null>>>>]),
    Phrase(Words(<<"CREATE", "TABLE", "t", "(", "a", "INT", ",", "s", "VARCHAR", "(", "3", ")", ")">>),
           [k |-> "create", table |-> <<"t">>, columns |-> <<[name |-> <<"a">>, type |-> "INT", len |-> 0],
                                                             [name |-> <<"s">>, type |-> "VARCHAR", len |-> 3]>>]),
    Phrase(Words(<<"DROP", "TABLE", "t">>), [k |-> "drop", table |-> <<"t">>]),
    Phrase(Words(<<"TRUNCATE", "TABLE", "t", ";">>), [k |-> "truncate", table |-> <<"t">>])}

-----------------------------------------------------------------------------
(* Texts.  Spaces are put between all tokens, or only where they are       *)
(* needed: between words, and between minus signs.                         *)

IsWord(c) == IsIdentCont(c)
Apart(x, y) == (IsWord(Last(x)) /\ IsWord(Head(y))) \/ (Last(x) = "-" /\ Head(y) = "-")
Spaced(text) == FlattenSeq([i \in DOMAIN text |-> IF i > 1 THEN <<" ">> \o text[i] ELSE text[i]])
Tight(text) ==
    FlattenSeq([i \in DOMAIN text |-> IF i > 1 /\ Apart(text[i - 1], text[i]) THEN <<" ">> \o text[i] ELSE text[i]])
Commented(text) == Spaced(text) \o <<"-", "-", "'", "newline">>

Meant(text, e, db) == [text |-> text, known |-> TRUE, meant |-> {e}, db |-> db]
Meaningless(text) == [text |-> text, known |-> TRUE, meant |-> {}, db |-> "full"]
Unknown(text) == [text |-> text, known |-> FALSE, meant |-> {}, db |-> "full"]

AfterWhere(text) ==
    <<"SELECT", " ", "*", " ", "FROM", " ", "t", " ", "WHERE">>
      \o [i \in 1 .. 2 * Len(text) |-> IF i % 2 = 0 THEN text[i \div 2][1] ELSE " "]
Soups(alphabet) == UNION {[1 .. n -> alphabet.tokens] : n \in 0 .. alphabet.n}
SoupInputs ==
    UNION {LET phrases == Phrases(a.tokens, a.m) IN
             {Meant(AfterWhere(p.text), [EmptySelect EXCEPT !.star = TRUE, !.tables = <<From("t").table>>, !.where = p.e], "nulls")
                : p \in phrases}
             \cup {Meaningless(AfterWhere(s)) : s \in Soups(a) \ {p.text : p \in phrases}}
           : a \in Alphabets}

Edits(text) ==
    UNION {{SubSeq(text, 1, i - 1), SubSeq(text, 1, i - 1) \o SubSeq(text, i + 1, Len(text))}
             \cup {SubSeq(text, 1, i - 1) \o <<x>> \o SubSeq(text, i + 1, Len(text)) :
                     x \in {<<s>> : s \in {",", "(", "a", "2", "FROM", "INT", ".", "'", "*", ";"}}}
           : i \in DOMAIN text}

Edited == {
    Select(<<ItemAs(C("a"), "x"), Item(Func("SUM", C("b")))>>, <<From("t")>>, Infix(C("a"), "<", Two), <<C("a")>>,
           Infix(CountStar, ">", One), Order("x", <<"DESC">>), LimitTo("1", 1)),
    Plainly(<<Item(Q("v", "a"))>>, <<From("t"), FromAs("t", "v")>>, Infix(Q("t", "a"), "=", Q("v", "a")))} \cup Others

MCInputs ==
    SoupInputs
      \cup {Meant(Spaced(q.text), q.e, db) : q \in OneTable \cup Joins \cup Aggregations \cup Odd, db \in DOMAIN MCDatabases}
      \cup {Meant(Tight(q.text), q.e, "nulls") : q \in {Plainly(<<>>, <<From("t")>>, w) : w \in Conditions1} \cup Joins \cup Aggregations}
      \cup UNION {{Meant(Spaced(q.text), q.e, "empty"), Meant(Tight(q.text), q.e, "empty"), Meant(Commented(q.text), q.e, "empty")} : q \in Others}
      \cup {Unknown(Spaced(text)) : text \in UNION {Edits(q.text) : q \in Edited}}

\* Joins whose predicate names the second table first.
MCReversed ==
    {Meant(Spaced(q.text), q.e, "full") : q \in {Plainly(<<>>, <<From("t"), From("u")>>, Infix(Q("u", "k"), "=", Q("t", "a")))}}
=============================================================================
