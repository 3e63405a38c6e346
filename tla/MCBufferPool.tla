---------------------------- MODULE MCBufferPool -----------------------------
(* BufferPool with small sets of clients, frames and pages; the constants  *)
(* are in MCBufferPool*.cfg.                                               *)
EXTENDS BufferPool

\* Clients differ only in their names.
ClientSymmetry == Permutations(Clients)
=============================================================================
