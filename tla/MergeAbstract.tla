--------------------------- MODULE MergeAbstract ---------------------------
(***************************************************************************)
(* What the merge proc promises its caller (spec 4.3, Merge): it consumes  *)
(* N upstream streams and multiplexes their batches into one output in     *)
(* arrival order.  Each parent's batches come out in the order the parent  *)
(* produced them, none twice; the output ends with end of stream only once *)
(* every parent has ended cleanly and all its batches are out; the first   *)
(* error, a parent's or the context's, ends the output.  Nothing here says *)
(* how: no goroutines, no channel, no counter of open parents.             *)
(***************************************************************************)
EXTENDS Integers, Sequences, SequencesExt

CONSTANTS Parents, MaxBatches, EOS, ERR

Batches == Parents \X (1..MaxBatches)

VARIABLES
    produced,   \* batches each parent has produced
    parentEnd,  \* how each parent's stream ended: "none", "eos", "err"
    out         \* what the caller has been given, in order

vars == <<produced, parentEnd, out>>

(* Parent p's batches in the output, in order. *)
Forwarded(p) == SelectSeq(out, LAMBDA r : r \in Batches /\ r[1] = p)

(* Every batch p has produced is in the output. *)
AllForwarded(p) == Len(Forwarded(p)) = produced[p]

(* The output has ended: an error was returned. *)
Stopped == ERR \in Range(out)

Init ==
    /\ produced = [p \in Parents |-> 0]
    /\ parentEnd = [p \in Parents |-> "none"]
    /\ out = <<>>

(* A parent yields its next batch, or ends its stream cleanly or with an   *)
(* error.                                                                  *)
Produce(p) ==
    /\ parentEnd[p] = "none"
    /\ \/ /\ produced[p] < MaxBatches
          /\ produced' = [produced EXCEPT ![p] = @ + 1]
          /\ UNCHANGED parentEnd
       \/ /\ parentEnd' \in {[parentEnd EXCEPT ![p] = e] : e \in {"eos", "err"}}
          /\ UNCHANGED produced
    /\ UNCHANGED out

(* The next of p's batches not yet forwarded goes to the caller. *)
Forward(p) ==
    /\ ~Stopped
    /\ ~AllForwarded(p)
    /\ out' = Append(out, <<p, Len(Forwarded(p)) + 1>>)
    /\ UNCHANGED <<produced, parentEnd>>

(* p's error reaches the caller after all of p's batches, and ends the     *)
(* output.                                                                 *)
ForwardError(p) ==
    /\ ~Stopped
    /\ parentEnd[p] = "err"
    /\ AllForwarded(p)
    /\ out' = Append(out, ERR)
    /\ UNCHANGED <<produced, parentEnd>>

(* End of stream, once every parent ended cleanly and is fully forwarded;  *)
(* every later call returns it again.                                      *)
EndOfStream ==
    /\ ~Stopped
    /\ \A p \in Parents : parentEnd[p] = "eos" /\ AllForwarded(p)
    /\ out' = Append(out, EOS)
    /\ UNCHANGED <<produced, parentEnd>>

(* The context is cancelled before the end of stream: its error ends the   *)
(* output.                                                                 *)
Cancelled ==
    /\ ~Stopped
    /\ EOS \notin Range(out)
    /\ out' = Append(out, ERR)
    /\ UNCHANGED <<produced, parentEnd>>

Next ==
    \/ \E p \in Parents : Produce(p) \/ Forward(p) \/ ForwardError(p)
    \/ EndOfStream
    \/ Cancelled

Spec == Init /\ [][Next]_vars

=============================================================================
