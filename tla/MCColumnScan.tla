---------------------------- MODULE MCColumnScan -----------------------------
(* Tables of up to three row groups of one or two small chunks.            *)
EXTENDS ColumnScan

MCMin == -2
MCRowGroups == {<<<<Null>>>>, <<<<MaxInt>>, <<MinInt, Null>>>>, <<<<0, 1>>>>}
MCTables == UNION {[1 .. n -> MCRowGroups] : n \in 0 .. 3}
MCPreds == [op : Ops, v : {MinInt, 0, 1, MaxInt}]
=============================================================================
