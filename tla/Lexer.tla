------------------------------- MODULE Lexer ---------------------------------
(***************************************************************************)
(* Tokenize (sql/lexer.cpp).                                               *)
(*                                                                         *)
(* The text is a sequence of symbols.  A symbol is a character, except     *)
(* that a run of letters that belong together ("SELECT", a column name) is *)
(* one symbol; two such runs side by side are still one word.  The code    *)
(* compares keywords in upper case: the symbol of a keyword stands for its *)
(* spellings.  Integers have the widths of the constants.                  *)
(***************************************************************************)
EXTENDS Integers, Sequences, FiniteSets, SequencesExt

CONSTANTS
    kIntMax,        \* the largest int32_t
    kBigMax         \* the largest int64_t

ASSUME LexerAssumption == kIntMax \in Nat /\ kBigMax \in Nat /\ kIntMax < kBigMax

Keywords == {"SELECT", "FROM", "WHERE", "INSERT", "INTO", "VALUES", "CREATE", "TABLE", "DROP", "TRUNCATE",
             "AND", "OR", "NOT", "ORDER", "BY", "ASC", "DESC", "LIMIT", "GROUP", "HAVING", "AS", "BETWEEN",
             "IN", "INT", "BIGINT", "FLOAT", "VARCHAR", "NULL", "COUNT", "SUM", "AVG", "MIN", "MAX", "TRUE",
             "FALSE"}

Digits == <<"0", "1", "2", "3">>        \* digits enough for the inputs
IsDigit(c) == c \in ToSet(Digits)
DigitValue(c) == SelectInSeq(Digits, LAMBDA d : d = c) - 1
Punctuation == {"(", ")", ",", ";", "*", "=", "<", ">", ".", "+", "-", "/"}
IsSpace(c) == c \in {" ", "newline"}
IsIdentStart(c) ==
    ~ IsDigit(c) /\ ~ IsSpace(c) /\ c \notin Punctuation \cup {"'", "!", "?", ""}
IsIdentCont(c) == IsIdentStart(c) \/ IsDigit(c)

Token(kind, symbols, value) == [k |-> kind, s |-> symbols, v |-> value]
EofToken == Token("eof", <<>>, 0)

\* Floating-point numbers are counted in tenths.
Whole(digits) == FoldLeft(LAMBDA n, c : 10 * n + DigitValue(c), 0, digits)
Tenths(digits) == IF digits = <<>> THEN 0 ELSE DigitValue(digits[1])

\* Mutant: a '-' before a digit always begins a negative literal.
PrevIsValueNever(out) == FALSE

\* prev_is_value: whether a '-' is a subtraction.
PrevIsValue(out) ==
    /\ out # <<>>
    /\ \/ Last(out).k \in {"id", "int", "float", "str"}
       \/ Last(out) = Token("punct", <<")">>, 0)

\* The first position from i on where the text ends or is not in run.
RunEnd(text, i, run) ==
    CHOOSE j \in i .. Len(text) + 1 : j \notin run /\ i .. j - 1 \subseteq run

DigitsOf(text) == {j \in DOMAIN text : IsDigit(text[j])}

\* What a string literal that begins before i holds, where the text goes on
\* after its closing quote, or 0 if there is none.  A doubled quote stands for
\* one.
RECURSIVE Quoted(_, _, _)
Quoted(text, i, s) ==
    CASE i > Len(text) -> [s |-> s, next |-> 0]
      [] text[i] # "'" -> Quoted(text, i + 1, Append(s, text[i]))
      [] i < Len(text) /\ text[i + 1] = "'" -> Quoted(text, i + 2, Append(s, "'"))
      [] OTHER -> [s |-> s, next |-> i + 1]

\* A number that begins at i.
Number(text, i) ==
    LET start == IF text[i] = "-" THEN i + 1 ELSE i
        point == RunEnd(text, start, DigitsOf(text))
        float == point <= Len(text) /\ text[point] = "."
        end == IF float THEN RunEnd(text, point + 1, DigitsOf(text)) ELSE point
        whole == Whole(SubSeq(text, start, point - 1))
        size == IF float THEN 10 * whole + Tenths(SubSeq(text, point + 1, end - 1)) ELSE whole
        value == IF text[i] = "-" THEN - size ELSE size
    IN  [token |-> Token(IF float THEN "float" ELSE "int", SubSeq(text, i, end - 1), value),
         ok |-> float \/ value \in - kBigMax - 1 .. kBigMax,        \* else stoll throws
         next |-> end]

\* The operators of two characters; "" for none.
Double(c, d) ==
    CASE <<c, d>> \in {<<"!", "=">>, <<"<", ">">>} -> "!="
      [] <<c, d>> = <<"<", "=">> -> "<="
      [] <<c, d>> = <<">", "=">> -> ">="
      [] OTHER -> ""

LexError == [ok |-> FALSE, out |-> <<>>]

\* The tokens from position i on, after those in out.
RECURSIVE Lex(_, _, _)
Lex(text, i, out) ==
    IF i > Len(text) THEN [ok |-> TRUE, out |-> Append(out, EofToken)]
    ELSE
    LET c == text[i]
        d == IF i < Len(text) THEN text[i + 1] ELSE ""
        comment == c = "-" /\ d = "-"
        number == IsDigit(c) \/ (c = "-" /\ IsDigit(d) /\ ~ PrevIsValue(out))
        double == Double(c, d)
    IN
    CASE IsSpace(c) -> Lex(text, i + 1, out)
      [] comment -> Lex(text, RunEnd(text, i, {j \in DOMAIN text : text[j] # "newline"}), out)
      [] c = "'" ->
           LET q == Quoted(text, i + 1, <<>>) IN
           IF q.next = 0 THEN LexError ELSE Lex(text, q.next, Append(out, Token("str", q.s, 0)))
      [] number ->
           LET n == Number(text, i) IN
           IF n.ok THEN Lex(text, n.next, Append(out, n.token)) ELSE LexError
      [] IsIdentStart(c) ->
           LET end == RunEnd(text, i, {j \in DOMAIN text : IsIdentCont(text[j])})
               word == SubSeq(text, i, end - 1)
               kind == IF Len(word) = 1 /\ c \in Keywords THEN "kw" ELSE "id"
           IN  Lex(text, end, Append(out, Token(kind, word, 0)))
      [] double # "" -> Lex(text, i + 2, Append(out, Token("punct", <<double>>, 0)))
      [] c \in Punctuation /\ ~ comment /\ ~ number /\ double = "" ->
           Lex(text, i + 1, Append(out, Token("punct", <<c>>, 0)))
      [] OTHER -> LexError

Tokenize(text) == Lex(text, 1, <<>>)
=============================================================================
