---------------------------- MODULE MCSortReader ----------------------------
(* Model-checking instance of SortReader: up to four records over two      *)
(* timestamps in batches of one, so that up to three spill files are      *)
(* merged with the last batch and equal timestamps meet across batches.    *)
EXTENDS SortReader
=============================================================================
