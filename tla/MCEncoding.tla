----------------------------- MODULE MCEncoding ------------------------------
(* Chunks of up to four rows, with the ends of the integer ranges.         *)
EXTENDS Encoding

Of(type, vs, m) == {[type |-> type, values |-> s] : s \in UNION {[1 .. k -> vs] : k \in 0 .. m}}

MCChunks ==
    Of("bigint", {Null, -16, -1, 0, 5, 15}, 4) \cup Of("int", {Null, -4, 0, 3}, 4)
        \cup Of("float", {Null, 0, 9}, 4) \cup Of("varchar", {Null, 1, 2, 3}, 4)
=============================================================================
