------------------------------- MODULE Nano -------------------------------
(***************************************************************************)
(* pkg/nano spans: [Ts, Ts+Dur).  The package is not in this snapshot; the *)
(* operators follow its documented behaviour.                              *)
(***************************************************************************)
EXTENDS Integers

(* The zero span nano.Span{}.                                              *)
ZeroSpan == [ts |-> 0, dur |-> 0]

SpanEnd(s) == s.ts + s.dur

Overlaps(a, b) == a.ts < SpanEnd(b) /\ b.ts < SpanEnd(a)

Intersect(a, b) ==
    LET lo == IF a.ts > b.ts THEN a.ts ELSE b.ts
        hi == IF SpanEnd(a) < SpanEnd(b) THEN SpanEnd(a) ELSE SpanEnd(b)
    IN  [ts |-> lo, dur |-> hi - lo]

SpanUnion(a, b) ==
    LET lo == IF a.ts < b.ts THEN a.ts ELSE b.ts
        hi == IF SpanEnd(a) > SpanEnd(b) THEN SpanEnd(a) ELSE SpanEnd(b)
    IN  [ts |-> lo, dur |-> hi - lo]

(* NewSpanTs(start, end): the span from start up to end.                   *)
NewSpanTs(start, end) ==
    IF end < start THEN [ts |-> end, dur |-> start - end]
    ELSE [ts |-> start, dur |-> end - start]

(* ts lies in span s.                                                      *)
InSpan(ts, s) == s.ts <= ts /\ ts < SpanEnd(s)

(* Every nonzero timestamp of S lies in span s (0 means no timestamp).    *)
Covers(s, S) == \A ts \in S \ {0} : InSpan(ts, s)

=============================================================================
