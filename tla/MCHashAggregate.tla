--------------------------- MODULE MCHashAggregate ---------------------------
(* Up to three chunks of one or two rows.                                  *)
EXTENDS HashAggregate

R(k, v) == [key |-> k, val |-> v]
A == <<97>>                         \* the string "a"

\* GROUP BY two columns: a group in one or in several chunks, NULL and the
\* empty string, a group without a value, ties of MIN and MAX.
MCChunks == {<<R(<<A, Null>>, Null)>>,
             <<R(<<A, Null>>, 5), R(<<Null, A>>, -1)>>,
             <<R(<<A, <<>>>>, 2), R(<<A, Null>>, 7)>>,
             <<R(<<Null, A>>, Null), R(<<A, <<>>>>, -3)>>}
\* No GROUP BY.
MCPlain == {<<R(<<>>, 4), R(<<>>, Null)>>, <<R(<<>>, Null)>>, <<R(<<>>, -2)>>}
MCInputs == UNION {[1 .. n -> MCChunks] \cup [1 .. n -> MCPlain] : n \in 0 .. 3}
=============================================================================
