------------------------------- MODULE Merge -------------------------------
(***************************************************************************)
(* The merge proc, proc/merge/merge.go.  Pull starts one runner goroutine  *)
(* per parent (once) and then receives from an unbuffered channel shared   *)
(* by the runners until every parent has sent its end of stream.  Done     *)
(* closes doneCh, which a runner blocked on its send observes; the query   *)
(* context may be cancelled at any time.  The unbuffered send of a runner  *)
(* and the receive of Pull are one step (a rendezvous).  The downstream    *)
(* caller is a single goroutine that calls Pull and Done.                  *)
(***************************************************************************)
EXTENDS Integers, Sequences, SequencesExt, FiniteSets

CONSTANTS
    Parents,        \* the upstream procs
    MaxBatches,     \* batches a parent may produce before its end of stream
    MaxResults,     \* bound on the results the caller pulls
    MaxDoneCalls,   \* how many times the caller may call Done
    EOS, ERR        \* model values: (nil, nil) and (nil, err)

ASSUME MaxBatches \in Nat /\ MaxResults \in Nat \ {0} /\ MaxDoneCalls \in Nat

Batches == Parents \X (1..MaxBatches)

VARIABLES
    pc,             \* runner goroutine: "init", "pull", "send", "exit"
    res,            \* the result a runner got from parent.Pull
    produced,       \* batches each parent has returned from Pull
    parentEnd,      \* how each parent's stream ended: "none", "eos", "err"
    parentDone,     \* parents whose Done a runner called
    nparents,       \* Proc.nparents
    started,        \* Proc.once has run
    cpc,            \* caller: "idle", "pull" (blocked in Pull), "stopped"
    out,            \* results Pull returned to the caller, in order
    doneCalls,      \* calls of Done so far
    doneClosed,     \* doneCh is closed
    ctxDone,        \* pctx is cancelled
    panicked        \* a goroutine panicked

vars == <<pc, res, produced, parentEnd, parentDone, nparents, started, cpc,
          out, doneCalls, doneClosed, ctxDone, panicked>>

(* proc.EOS: a result ends a stream when its batch is nil or its error is  *)
(* non-nil.                                                                *)
IsEOS(r) == r \in {EOS, ERR}

(* New: one runner per parent sharing ch and doneCh.                       *)
Init ==
    /\ pc = [p \in Parents |-> "init"]
    /\ res = [p \in Parents |-> EOS]
    /\ produced = [p \in Parents |-> 0]
    /\ parentEnd = [p \in Parents |-> "none"]
    /\ parentDone = {}
    /\ nparents = Cardinality(Parents)
    /\ started = FALSE
    /\ cpc = "idle"
    /\ out = <<>>
    /\ doneCalls = 0
    /\ doneClosed = FALSE
    /\ ctxDone = FALSE
    /\ panicked = FALSE

-----------------------------------------------------------------------------
(* Runner goroutine (runnerProc.run).                                      *)

(* batch, err := r.parent.Pull(): the next batch, or the end of the        *)
(* parent's stream, or an error.                                           *)
RunnerPull(p) ==
    /\ pc[p] = "pull"
    /\ \/ /\ produced[p] < MaxBatches
          /\ produced' = [produced EXCEPT ![p] = @ + 1]
          /\ res' = [res EXCEPT ![p] = <<p, produced[p] + 1>>]
          /\ UNCHANGED parentEnd
       \/ /\ res' = [res EXCEPT ![p] = EOS]
          /\ parentEnd' = [parentEnd EXCEPT ![p] = "eos"]
          /\ UNCHANGED produced
       \/ /\ res' = [res EXCEPT ![p] = ERR]
          /\ parentEnd' = [parentEnd EXCEPT ![p] = "err"]
          /\ UNCHANGED produced
    /\ pc' = [pc EXCEPT ![p] = "send"]
    /\ UNCHANGED <<parentDone, nparents, started, cpc, out, doneCalls,
                   doneClosed, ctxDone, panicked>>

(* Mutant: Pull counts an error result as a parent's end of stream.      *)
DeliverErrEnds(p) ==
    /\ pc[p] = "send"
    /\ cpc = "pull"
    /\ nparents # 0
    /\ pc' = [pc EXCEPT ![p] = IF IsEOS(res[p]) THEN "exit" ELSE "pull"]
    /\ IF IsEOS(res[p])
       THEN /\ nparents' = nparents - 1
            /\ UNCHANGED <<cpc, out>>
       ELSE /\ out' = Append(out, res[p])
            /\ cpc' = "idle"
            /\ UNCHANGED nparents
    /\ UNCHANGED <<res, produced, parentEnd, parentDone, started, doneCalls,
                   doneClosed, ctxDone, panicked>>

(* case r.ch <- Result{batch, err}, received by Pull's case res := <-p.ch. *)
(* A batch or an error is returned to the caller; an end of stream         *)
(* decrements nparents and Pull loops.  The runner returns after sending   *)
(* an end of stream.                                                       *)
Deliver(p) ==
    /\ pc[p] = "send"
    /\ cpc = "pull"
    /\ nparents # 0
    /\ pc' = [pc EXCEPT ![p] = IF IsEOS(res[p]) THEN "exit" ELSE "pull"]
    /\ IF res[p] = EOS
       THEN /\ nparents' = nparents - 1
            /\ UNCHANGED <<cpc, out>>
       ELSE /\ out' = Append(out, res[p])
            /\ cpc' = IF res[p] = ERR THEN "stopped" ELSE "idle"
            /\ UNCHANGED nparents
    /\ UNCHANGED <<res, produced, parentEnd, parentDone, started, doneCalls,
                   doneClosed, ctxDone, panicked>>

(* Mutant: the runner's select does not watch doneCh.                    *)
RunnerIgnoresDone(p) == FALSE

(* case <-r.doneCh: r.parent.Done(); return.                               *)
RunnerOnDone(p) ==
    /\ pc[p] = "send"
    /\ doneClosed
    /\ parentDone' = parentDone \cup {p}
    /\ pc' = [pc EXCEPT ![p] = "exit"]
    /\ UNCHANGED <<res, produced, parentEnd, nparents, started, cpc, out,
                   doneCalls, doneClosed, ctxDone, panicked>>

(* case <-r.pctx.Done(): return.                                           *)
RunnerOnCancel(p) ==
    /\ pc[p] = "send"
    /\ ctxDone
    /\ pc' = [pc EXCEPT ![p] = "exit"]
    /\ UNCHANGED <<res, produced, parentEnd, parentDone, nparents, started,
                   cpc, out, doneCalls, doneClosed, ctxDone, panicked>>

-----------------------------------------------------------------------------
(* Proc.Pull and Proc.Done, called by the downstream caller.               *)

(* Pull: p.once.Do starts every runner; then the receive loop.             *)
CallPull ==
    /\ cpc = "idle"
    /\ doneCalls = 0
    /\ Len(out) < MaxResults
    /\ cpc' = "pull"
    /\ started' = TRUE
    /\ pc' = IF started THEN pc ELSE [p \in Parents |-> "pull"]
    /\ UNCHANGED <<res, produced, parentEnd, parentDone, nparents, out,
                   doneCalls, doneClosed, ctxDone, panicked>>

(* if p.nparents == 0 { return nil, nil }                                  *)
PullEOS ==
    /\ cpc = "pull"
    /\ nparents = 0
    /\ out' = Append(out, EOS)
    /\ cpc' = "idle"
    /\ UNCHANGED <<pc, res, produced, parentEnd, parentDone, nparents, started,
                   doneCalls, doneClosed, ctxDone, panicked>>

(* Mutant: Pull's select does not watch the context.                     *)
PullIgnoresCancel == FALSE

(* case <-p.pctx.Done(): return nil, p.pctx.Err()                          *)
PullCancel ==
    /\ cpc = "pull"
    /\ nparents # 0
    /\ ctxDone
    /\ out' = Append(out, ERR)
    /\ cpc' = "stopped"
    /\ UNCHANGED <<pc, res, produced, parentEnd, parentDone, nparents, started,
                   doneCalls, doneClosed, ctxDone, panicked>>

(* Done: close(m.doneCh); closing it a second time panics.                 *)
Done ==
    /\ cpc # "pull"
    /\ doneCalls < MaxDoneCalls
    /\ doneCalls' = doneCalls + 1
    /\ IF doneClosed THEN panicked' = TRUE ELSE UNCHANGED panicked
    /\ doneClosed' = TRUE
    /\ UNCHANGED <<pc, res, produced, parentEnd, parentDone, nparents, started,
                   cpc, out, ctxDone>>

(* The query context is cancelled.                                         *)
Cancel ==
    /\ ~ctxDone
    /\ ctxDone' = TRUE
    /\ UNCHANGED <<pc, res, produced, parentEnd, parentDone, nparents, started,
                   cpc, out, doneCalls, doneClosed, panicked>>

Next ==
    \/ \E p \in Parents :
          RunnerPull(p) \/ Deliver(p) \/ RunnerOnDone(p) \/ RunnerOnCancel(p)
    \/ CallPull \/ PullEOS \/ PullCancel \/ Done \/ Cancel

(* Go schedules every runnable goroutine eventually, and a parent's Pull   *)
(* returns; the caller and the context owner are not obliged to act.      *)
Fairness ==
    /\ \A p \in Parents :
          /\ WF_vars(RunnerPull(p))
          /\ WF_vars(Deliver(p))
          /\ WF_vars(RunnerOnDone(p))
          /\ WF_vars(RunnerOnCancel(p))
    /\ WF_vars(PullEOS)
    /\ WF_vars(PullCancel)

Spec == Init /\ [][Next]_vars /\ Fairness

-----------------------------------------------------------------------------
(* Properties.                                                             *)

AllRunnersExited == \A p \in Parents : pc[p] \in {"init", "exit"}

(* The refinement mapping: the abstract merge sees the parents' streams   *)
(* and the caller's results; the runners, the channel and nparents are     *)
(* hidden.                                                                 *)
Abstract == INSTANCE MergeAbstract
                WITH produced <- produced, parentEnd <- parentEnd, out <- out

(* The merge proc implements the abstract merge: each parent's batches     *)
(* reach the caller in the order the parent produced them and none twice;  *)
(* end of stream is returned only once every parent ended cleanly and all  *)
(* its batches were returned; nothing follows an error.  It depends on     *)
(* nparents counting exactly the end-of-stream results of runners that     *)
(* interleave arbitrarily on the shared channel, and on each runner        *)
(* sending its results one at a time.                                      *)
ImplementsAbstractMerge == Abstract!Spec

(* The spec (4.3): Done is idempotent.  Done closes doneCh unconditionally *)
(* (merge.go), so a second call panics.                                    *)
NoPanic == ~panicked

(* A caller blocked in Pull is eventually answered: by a batch, an error,  *)
(* end of stream or the context's error, whatever the runners do.          *)
PullReturns == cpc = "pull" ~> cpc # "pull"

(* After Done or cancellation no runner goroutine is left blocked: each    *)
(* one observes doneCh or the context in its select and returns.           *)
NoRunnerLeak == (doneClosed \/ ctxDone) ~> AllRunnersExited

=============================================================================
