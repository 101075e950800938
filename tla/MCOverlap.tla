----------------------------- MODULE MCOverlap -----------------------------
(* Model-checking instance of Overlap: three chunks with boundaries in     *)
(* 0..3, a filter that lets everything through (like nano.MaxSpan over     *)
(* these timestamps), and filters that cut chunks on either side.          *)
EXTENDS Overlap, TLC

CONSTANTS c1, c2, c3

MCChunkIds == {c1, c2, c3}

MCMaxTs == 3

MCFilters == {[ts |-> -1, dur |-> 6], [ts |-> 1, dur |-> 2], [ts |-> 3, dur |-> 1]}

Symmetry == Permutations(MCChunkIds)
=============================================================================
