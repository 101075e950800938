------------------------------ MODULE Records ------------------------------
(***************************************************************************)
(* Records ordered by timestamp, as the spill sort and the Combiner see    *)
(* them.  A record is its position in the input (id) and its timestamp;    *)
(* the rest of a zng.Record is irrelevant to ordering.                     *)
(***************************************************************************)
EXTENDS Integers, Sequences, SequencesExt

CONSTANTS
    TsValues,   \* the timestamps records may carry
    Desc        \* the sort is in descending time order (sort -r ts)

ASSUME Desc \in BOOLEAN

Record == [id : Nat \ {0}, ts : TsValues]

(* No record in a Combiner hold slot (nil).                                *)
NoRecord == [id |-> 0, ts |-> 0]

(* Mutant: the desc flag is not applied.                                  *)
sortFnNoDesc(a, b) ==
    IF a.ts = b.ts THEN 0 ELSE IF a.ts < b.ts THEN -1 ELSE 1

(* SortReader.sortFn / zbuf.sortTsFn: -1, 0 or 1 comparing timestamps,    *)
(* negated for a descending sort.                                          *)
sortFn(a, b) ==
    LET i == IF a.ts = b.ts THEN 0 ELSE IF a.ts < b.ts THEN -1 ELSE 1
    IN  IF Desc THEN -i ELSE i

(* expr.SortStable: sort records by sortFn keeping the order of records   *)
(* that compare equal.                                                     *)
SortStable(s) ==
    LET idx == SetToSortSeq(DOMAIN s,
                 LAMBDA i, j : sortFn(s[i], s[j]) = -1
                               \/ (sortFn(s[i], s[j]) = 0 /\ i < j))
    IN  [k \in DOMAIN idx |-> s[idx[k]]]

(* Mutant: the loop takes the first live slot, without comparing.        *)
RECURSIVE CombinerScanFirst(_, _, _)
CombinerScanFirst(hol, k, idx) ==
    IF k > Len(hol) THEN idx
    ELSE CombinerScanFirst(hol, k + 1,
            IF hol[k] # NoRecord /\ idx = -1 THEN k ELSE idx)

(* The selection loop of Combiner.Read over the hold slots: the first     *)
(* live slot whose record sorts strictly before the current choice        *)
(* replaces it, so among equal records the lowest index wins; -1 when     *)
(* every slot is empty.                                                    *)
RECURSIVE CombinerScan(_, _, _)
CombinerScan(hol, k, idx) ==
    IF k > Len(hol) THEN idx
    ELSE CombinerScan(hol, k + 1,
            IF hol[k] # NoRecord /\ (idx = -1 \/ sortFn(hol[k], hol[idx]) = -1)
            THEN k ELSE idx)

CombinerIndex(hol) == CombinerScan(hol, 1, -1)

(* The hold slots of readers given as the sequences they have left.        *)
Heads(readers) ==
    [k \in DOMAIN readers |-> IF readers[k] = <<>> THEN NoRecord ELSE Head(readers[k])]

(* Time order independent of sortFn: a may precede b in the output.       *)
InOrder(a, b) == IF Desc THEN a.ts >= b.ts ELSE a.ts <= b.ts

=============================================================================
