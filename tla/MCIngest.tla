------------------------------ MODULE MCIngest ------------------------------
EXTENDS Ingest, TLC

CONSTANTS x1, x2

MCTxns == {x1, x2}

(* One, two or three files: two clean files after one another, one file   *)
(* with an untimed record, and an untimed file before a two-record one.   *)
MCInputs == {<<{1}, {2}>>, <<{0, 2}>>, <<{0}, {1, 2}>>}

Symmetry == Permutations(MCTxns)

=============================================================================
