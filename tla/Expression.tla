----------------------------- MODULE Expression ------------------------------
(***************************************************************************)
(* Values (common/value.cpp) and the evaluation of bound expressions       *)
(* (execution/expression.cpp).                                             *)
(*                                                                         *)
(* A value is a type and a number; floating-point numbers are counted in   *)
(* tenths, VARCHAR values are numbered in their order, the empty one 0.    *)
(* Numbers stay below the limits of their types.  Threw is an exception.   *)
(* In a bound expression a column is its position and its type.            *)
(***************************************************************************)
EXTENDS Parser

Threw == [t |-> "throw", v |-> 0]
Value(type, n) == [t |-> type, v |-> n]
Truth(b) == Value("int", IF b THEN 1 ELSE 0)
IsInteger(x) == x.t \in {"int", "bigint"}
IsNumber(x) == x.t \in {"int", "bigint", "float"}

\* ValueTruthy: not NULL, zero or empty.
ValueTruthy(x) == x.v # 0

\* AsDouble, in tenths.
AsDouble(x) == IF x.t = "float" THEN x.v ELSE 10 * x.v

\* Division of integers rounds towards zero.
Quotient(a, b) ==
    LET Abs(n) == IF n < 0 THEN - n ELSE n
        q == Abs(a) \div Abs(b)
    IN  IF (a < 0) = (b < 0) THEN q ELSE - q

\* CompareValues, of values that are not NULL: "less", "equal", "greater", or
\* "throw" for VARCHAR with a number.
CompareValues(x, y) ==
    LET a == IF IsNumber(x) THEN AsDouble(x) ELSE x.v
        b == IF IsNumber(y) THEN AsDouble(y) ELSE y.v
    IN  CASE IsNumber(x) # IsNumber(y) -> "throw"
          [] IsNumber(x) = IsNumber(y) /\ a < b -> "less"
          [] IsNumber(x) = IsNumber(y) /\ a > b -> "greater"
          [] OTHER -> "equal"

ArithResult(op, x, y) ==
    LET float == x.t = "float" \/ y.t = "float"
        a == IF float THEN AsDouble(x) ELSE x.v
        b == IF float THEN AsDouble(y) ELSE y.v
        n == CASE op = "+" -> a + b
               [] op = "-" -> a - b
               [] op = "*" -> IF float THEN Quotient(a * b, 10) ELSE a * b
               [] op = "/" -> IF float THEN Quotient(a * 10, b) ELSE Quotient(a, b)
    IN  CASE x = Null \/ y = Null -> Null
          [] x # Null /\ y # Null /\ ~ (IsNumber(x) /\ IsNumber(y)) -> Threw
          [] IsNumber(x) /\ IsNumber(y) /\ op = "/" /\ b = 0 -> Null
          [] OTHER -> Value(IF float THEN "float" ELSE "bigint", n)

Holds(op, ordering) ==
    CASE op = "=" -> ordering = "equal"
      [] op = "!=" -> ordering # "equal"
      [] op = "<" -> ordering = "less"
      [] op = "<=" -> ordering # "greater"
      [] op = ">" -> ordering = "greater"
      [] op = ">=" -> ordering # "less"

CompareResult(op, x, y) ==
    IF x = Null \/ y = Null THEN Truth(FALSE)
    ELSE IF CompareValues(x, y) = "throw" THEN Threw ELSE Truth(Holds(op, CompareValues(x, y)))

\* An exception in x is the result; otherwise y.
Then(x, y) == IF x = Threw THEN Threw ELSE y

\* AND and OR evaluate their right side only if the left one leaves it open.
RECURSIVE EvalExprRow(_, _)
EvalExprRow(e, row) ==
    CASE e.k = "column" -> row[e.i]
      [] e.k = "lit" -> e.v
      [] e.k = "not" -> LET x == EvalExprRow(e.e, row) IN Then(x, Truth(~ ValueTruthy(x)))
      [] e.k = "bin" ->
           LET x == EvalExprRow(e.l, row)
               y == EvalExprRow(e.r, row)
           IN
           CASE e.op = "AND" -> Then(x, IF ValueTruthy(x) THEN Then(y, Truth(ValueTruthy(y))) ELSE Truth(FALSE))
             [] e.op = "OR" -> Then(x, IF ValueTruthy(x) THEN Truth(TRUE) ELSE Then(y, Truth(ValueTruthy(y))))
             [] e.op \in {"+", "-", "*", "/"} -> Then(x, Then(y, ArithResult(e.op, x, y)))
             [] OTHER -> Then(x, Then(y, CompareResult(e.op, x, y)))

-----------------------------------------------------------------------------
(* EvalPredicate.                                                          *)

IsSimpleNumericCompare(e) ==
    /\ e.k = "bin" /\ e.op \in Comparisons
    /\ e.l.k = "column" /\ e.l.type # "varchar"
    /\ e.r.k = "lit"

\* The literal types that std::get finds, by the type of the column.
Fits(type, literal) ==
    CASE type = "int" -> literal.t = "int"
      [] type = "bigint" -> IsInteger(literal)
      [] type = "float" -> IsNumber(literal)

FastCompare(e, type, row) ==
    CASE ~ Fits(type, e.r.v) -> Threw
      [] Fits(type, e.r.v) /\ row[e.l.i] = Null -> Truth(FALSE)
      [] OTHER -> Truth(Holds(e.op, CompareValues(row[e.l.i], e.r.v)))

\* The mask of a row of a chunk with these types: whether it is kept, or the
\* exception.
EvalPredicate(e, ts, row) ==
    LET fast == IsSimpleNumericCompare(e) /\ ts[e.l.i] # "varchar"
        x == IF fast THEN FastCompare(e, ts[e.l.i], row) ELSE EvalExprRow(e, row)
    IN  Then(x, Truth(ValueTruthy(x)))
=============================================================================
