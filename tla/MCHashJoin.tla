----------------------------- MODULE MCHashJoin ------------------------------
(* Two small tables, with repeated keys, NULLs and empty sides.            *)
EXTENDS HashJoin

Key(t, v) == [type |-> t, v |-> v]
MCIds == 1 .. 13
MCKeys == {Key("int", 1), Key("int", 2)}

\* Rows numbered from base + 1, cut into chunks after the first n.
Rows(base, keys) == [i \in 1 .. Len(keys) |-> [id |-> base + i, key |-> keys[i]]]
Cut(rows, n) ==
    CASE rows = <<>> -> <<>>
      [] n = 0 \/ n >= Len(rows) -> <<rows>>
      [] OTHER -> <<SubSeq(rows, 1, n), SubSeq(rows, n + 1, Len(rows))>>

MCLefts == {Cut(Rows(0, keys), n) : keys \in UNION {[1 .. m -> MCKeys \cup {Null}] : m \in 0 .. 3}, n \in 0 .. 2}
MCRights == {Cut(Rows(10, keys), 1) : keys \in UNION {[1 .. m -> MCKeys \cup {Null}] : m \in 0 .. 3}}
=============================================================================
