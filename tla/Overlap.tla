------------------------------ MODULE Overlap ------------------------------
(***************************************************************************)
(* The archive overlap resolver, archive/overlap.go: mergeChunksToSpans    *)
(* walks the boundary timestamps of an unordered set of chunks in          *)
(* traversal order and emits SpanInfos.  One step of the model is one call *)
(* of the callback that boundaries() makes for a group of points with the  *)
(* same timestamp.  The chunk list, the direction and the filter are the   *)
(* inputs, chosen in Init; the order of chunks inside a SpanInfo (append   *)
(* order, ties broken by Id) is abstracted to a set.                       *)
(***************************************************************************)
EXTENDS Integers, Sequences, FiniteSets, FiniteSetsExt, Nano

CONSTANTS
    ChunkIds,   \* identifiers of the chunks that may be in the input
    MaxTs,      \* timestamps of chunk boundaries range over 0..MaxTs
    Filters     \* filter spans [ts |-> _, dur |-> _] the caller may pass

ASSUME MaxTs \in Nat /\ \A f \in Filters : f.dur >= 1

\* zbuf.Direction: DirTimeForward and DirTimeReverse.
DirTimeForward == 1
DirTimeReverse == -1

VARIABLES
    chunks,     \* the input: Id -> [first, last]
    dir,        \* the traversal direction
    filter,     \* the filter span
    todo,       \* boundary timestamps not yet handed to the callback
    siChunks,   \* chunks accumulating for the next SpanInfo
    siFirst,    \* first timestamp of the next SpanInfo
    result      \* the SpanInfos emitted so far

vars == <<chunks, dir, filter, todo, siChunks, siFirst, result>>

Ts == 0..MaxTs

(* A chunk of the archive: for forward traversal First <= Last, for        *)
(* reverse First >= Last.                                                  *)
ChunkSpans(d) ==
    {c \in [first : Ts, last : Ts] :
        IF d = DirTimeForward THEN c.first <= c.last ELSE c.first >= c.last}

Inputs(d) == UNION {[S -> ChunkSpans(d)] : S \in SUBSET ChunkIds}

-----------------------------------------------------------------------------
(* firstLastToSpan: a span that includes x and y in either order.          *)
firstLastToSpan(x, y) == SpanUnion([ts |-> x, dur |-> 1], [ts |-> y, dur |-> 1])

nextTs(ts, d) == IF d = DirTimeForward THEN ts + 1 ELSE ts - 1

prevTs(ts, d) == IF d = DirTimeForward THEN ts - 1 ELSE ts + 1

(* Mutant: the accumulation keeps the chunks that ended.                  *)
copyChunksKeepEnded(src, skip) == src

(* Mutant: the accumulation is reset when any chunk ends.                 *)
copyChunksReset(src, skip) == {}

(* copyChunks(src, skip): src without the chunks whose Id is in skip.      *)
copyChunks(src, skip) == src \ skip

-----------------------------------------------------------------------------
(* boundaries: the points sorted by timestamp in traversal order, grouped  *)
(* by equal timestamp; the next group is the first remaining timestamp.    *)
NextBoundary ==
    IF dir = DirTimeForward THEN Min(todo) ELSE Max(todo)

FirstChunks(ts) == {c \in DOMAIN chunks : chunks[c].first = ts}
LastChunks(ts)  == {c \in DOMAIN chunks : chunks[c].last = ts}

(* Mutant: the filter.Overlaps check is dropped.                          *)
EmitSpanUnchecked(res, cs, span) ==
    Append(res, [span |-> Intersect(filter, span), chunks |-> cs])

(* Append a SpanInfo for span with chunks cs, bounded by the filter, if    *)
(* the span overlaps the filter.                                           *)
EmitSpan(res, cs, span) ==
    IF Overlaps(filter, span)
    THEN Append(res, [span |-> Intersect(filter, span), chunks |-> cs])
    ELSE res

Init ==
    /\ dir \in {DirTimeForward, DirTimeReverse}
    /\ chunks \in Inputs(dir)
    /\ filter \in Filters
    /\ todo = {chunks[c].first : c \in DOMAIN chunks}
                \cup {chunks[c].last : c \in DOMAIN chunks}
    /\ siChunks = {}
    /\ siFirst = 0
    /\ result = <<>>

(* One call of the mergeChunksToSpans callback: first the chunks whose     *)
(* First is ts (closing the accumulated span just before ts), then the     *)
(* chunks whose Last is ts (closing the span at ts and dropping them).     *)
Boundary ==
    /\ todo # {}
    /\ LET ts  == NextBoundary
           fc  == FirstChunks(ts)
           lc  == LastChunks(ts)
           res1 == IF fc # {} /\ siChunks # {}
                   THEN EmitSpan(result, siChunks, firstLastToSpan(siFirst, prevTs(ts, dir)))
                   ELSE result
           acc   == IF fc # {} THEN siChunks \cup fc ELSE siChunks
           first == IF fc # {} THEN ts ELSE siFirst
       IN  /\ result' = IF lc # {}
                        THEN EmitSpan(res1, acc, firstLastToSpan(first, ts))
                        ELSE res1
           /\ siChunks' = IF lc # {} THEN copyChunks(acc, lc) ELSE acc
           /\ siFirst' = IF lc # {} THEN nextTs(ts, dir) ELSE first
           /\ todo' = todo \ {ts}
    /\ UNCHANGED <<chunks, dir, filter>>

Next == Boundary

Spec == Init /\ [][Next]_vars /\ WF_vars(Next)

Done == todo = {}

-----------------------------------------------------------------------------
(* Properties.                                                             *)

ChunkPoints(c) ==
    IF chunks[c].first <= chunks[c].last
    THEN chunks[c].first..chunks[c].last
    ELSE chunks[c].last..chunks[c].first

SpanPoints(s) == s.ts..(SpanEnd(s) - 1)

SpanInfo == [span : [ts : Int, dur : Nat \ {0}], chunks : SUBSET ChunkIds]

(* Every emitted SpanInfo has a non-empty span (Dur >= 1).                 *)
TypeOK ==
    /\ dir \in {DirTimeForward, DirTimeReverse}
    /\ todo \subseteq Ts
    /\ siChunks \subseteq DOMAIN chunks
    /\ result \in Seq(SpanInfo)

(* Every chunk a SpanInfo lists has data across the whole of its span:     *)
(* the accumulated chunk list is exactly maintained by the callback's      *)
(* append of firstChunks and copyChunks removal of lastChunks.             *)
ListedChunksCoverSpan ==
    \A i \in 1..Len(result) :
        \A c \in result[i].chunks : SpanPoints(result[i].span) \subseteq ChunkPoints(c)

(* When the walk is over, no record is missed: every timestamp of every    *)
(* chunk inside the filter lies in some emitted span that lists the chunk, *)
(* so a reader of the SpanInfos scans it.                                  *)
NoRecordMissed ==
    Done =>
      \A c \in DOMAIN chunks :
        \A t \in ChunkPoints(c) \cap SpanPoints(filter) :
          \E i \in 1..Len(result) :
             t \in SpanPoints(result[i].span) /\ c \in result[i].chunks

(* The spec (4.6): emitted spans are strictly monotone in the traversal    *)
(* direction and consecutive spans do not overlap, so no record of a chunk *)
(* is read twice.                                                          *)
SpansDisjointOrdered ==
    \A i \in 1..(Len(result) - 1) :
        IF dir = DirTimeForward
        THEN SpanEnd(result[i].span) <= result[i + 1].span.ts
        ELSE SpanEnd(result[i + 1].span) <= result[i].span.ts

=============================================================================
