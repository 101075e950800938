----------------------------- MODULE SortReader -----------------------------
(***************************************************************************)
(* The spill-to-disk time sort, zio/zngio/sort.go.  The first Read starts  *)
(* the run goroutine, which reads batches of at most BatchSize records,    *)
(* sorts each one stably, writes every batch but the last to a temporary   *)
(* file, and at end of input merges the last batch with the spill files    *)
(* through a zbuf.Combiner, sending each record on the unbuffered channel  *)
(* s.ch.  The consumer is zbuf.CopyWithContext (as in ZngStorage.WriteTo). *)
(* A send on s.ch and the consumer's receive are one step.                 *)
(***************************************************************************)
EXTENDS Records, FiniteSets, TLC

CONSTANTS
    MaxRecords,     \* the input has at most this many records
    BatchSize,      \* records per batch (SortMemMaxBytes in records)
    IOErrors,       \* TempFile, the spill write and Open may fail
    TmpDirErrors,   \* ioutil.TempDir in createTmpDir may fail
    Cancellation,   \* the query context may be cancelled
    EOS, ERR, NONE  \* model values: end of stream, an error, no result

ASSUME /\ MaxRecords \in Nat /\ BatchSize \in Nat \ {0}
       /\ IOErrors \in BOOLEAN /\ TmpDirErrors \in BOOLEAN
       /\ Cancellation \in BOOLEAN

VARIABLES
    input,      \* the records the upstream reader returns, in order
    pos,        \* records the peeker has handed out
    gpc,        \* run goroutine: "init", "loop", "flush", "finish", "send",
                \* "sending", "cleanup", "exit"
    batch,      \* the current sorted batch
    spills,     \* the spill files in s.tmpDir, in creation order
    hasTmp,     \* s.tmpDir != ""
    readers,    \* the record sequences the final merge reads
    lastFrom,   \* the reader the Combiner took its last record from (0: none)
    pending,    \* the result the goroutine is blocked sending on s.ch
    cpc,        \* consumer: "idle", "reading" (blocked in Read), "stopped"
    out,        \* results the consumer received
    ctxDone     \* s.ctx is cancelled

vars == <<input, pos, gpc, batch, spills, hasTmp, readers, lastFrom, pending,
          cpc, out, ctxDone>>

Inputs == UNION {[1..n -> TsValues] : n \in 0..MaxRecords}

Init ==
    /\ \E tss \in Inputs : input = [i \in DOMAIN tss |-> [id |-> i, ts |-> tss[i]]]
    /\ pos = 0
    /\ gpc = "init"
    /\ batch = <<>>
    /\ spills = <<>>
    /\ hasTmp = FALSE
    /\ readers = <<>>
    /\ lastFrom = 0
    /\ pending = NONE
    /\ cpc = "idle"
    /\ out = <<>>
    /\ ctxDone = FALSE

-----------------------------------------------------------------------------
(* The run goroutine.                                                      *)

(* Loop head: stop when the context is cancelled; else ReadBatchSize, sort *)
(* the batch stably and peek: at end of input go to finish, else flush.    *)
ReadBatch ==
    /\ gpc = "loop"
    /\ IF ctxDone
       THEN /\ gpc' = "finish"
            /\ UNCHANGED <<pos, batch>>
       ELSE LET n == IF Len(input) - pos < BatchSize THEN Len(input) - pos ELSE BatchSize
            IN  /\ batch' = SortStable(SubSeq(input, pos + 1, pos + n))
                /\ pos' = pos + n
                /\ gpc' = IF pos + n = Len(input) THEN "finish" ELSE "flush"
    /\ UNCHANGED <<input, spills, hasTmp, readers, lastFrom, pending, cpc, out, ctxDone>>

(* flushBatch: createTmpDir, whose error is ignored, then a temp file in   *)
(* s.tmpDir.  While s.tmpDir is still "" the file goes to the system temp  *)
(* directory, outside the spills.  A TempFile or write error, or the       *)
(* context's error from CopyWithContext, is sent on s.ch and run returns.  *)
Flush ==
    /\ gpc = "flush"
    /\ \E tmpOk \in IF TmpDirErrors THEN BOOLEAN ELSE {TRUE} :
          LET inTmp == hasTmp \/ tmpOk
          IN  /\ hasTmp' = inTmp
              /\ \/ /\ ~ctxDone
                    /\ spills' = IF inTmp THEN Append(spills, batch) ELSE spills
                    /\ gpc' = "loop"
                    /\ UNCHANGED pending
                 \/ /\ ctxDone \/ IOErrors
                    /\ pending' = ERR
                    /\ gpc' = "sending"
                    /\ UNCHANGED spills
    /\ UNCHANGED <<input, pos, batch, readers, lastFrom, cpc, out, ctxDone>>

(* Glob returns the spill files sorted by their random names.              *)
GlobOrders ==
    {[i \in DOMAIN spills |-> spills[f[i]]] : f \in Permutations(DOMAIN spills)}

(* Mutant: the final merge reads only the spill files.                    *)
FinishNoBatch ==
    /\ gpc = "finish"
    /\ \/ /\ ~hasTmp
          /\ readers' = <<batch>>
          /\ gpc' = "send"
       \/ /\ hasTmp
          /\ \E files \in GlobOrders : readers' = files
          /\ gpc' = "send"
       \/ /\ hasTmp /\ IOErrors
          /\ gpc' = "cleanup"
          /\ UNCHANGED readers
    /\ UNCHANGED <<input, pos, batch, spills, hasTmp, lastFrom, pending, cpc, out, ctxDone>>

(* finish: without a temp dir, stream the batch; else open the spill files *)
(* after the batch and merge them.  An Open error returns from finish and  *)
(* run ignores it.                                                         *)
Finish ==
    /\ gpc = "finish"
    /\ \/ /\ ~hasTmp
          /\ readers' = <<batch>>
          /\ gpc' = "send"
       \/ /\ hasTmp
          /\ \E files \in GlobOrders : readers' = <<batch>> \o files
          /\ gpc' = "send"
       \/ /\ hasTmp /\ IOErrors
          /\ gpc' = "cleanup"
          /\ UNCHANGED readers
    /\ UNCHANGED <<input, pos, batch, spills, hasTmp, lastFrom, pending, cpc, out, ctxDone>>

(* send: while the context is live, read the next record of the merge (the *)
(* Combiner picks the first least hold slot) and block sending it.         *)
NextRecord(rs) ==
    LET k == CombinerIndex(Heads(rs))
    IN  IF k = -1 THEN [res |-> EOS, rest |-> rs, from |-> 0]
        ELSE [res |-> Head(rs[k]), rest |-> [rs EXCEPT ![k] = Tail(@)], from |-> k]

(* Combiner.Read reads a spill file's reader when its hold slot is empty:  *)
(* on the first call every reader, later only the one the last record came *)
(* from.  Reading a spill file may fail; the error is returned (and sent). *)
SpillReadMayFail ==
    /\ IOErrors
    /\ \/ lastFrom = 0 /\ Len(readers) > 1
       \/ lastFrom > 1

SendNext ==
    /\ gpc = "send"
    /\ \/ /\ ctxDone
          /\ gpc' = "cleanup"
          /\ UNCHANGED <<readers, lastFrom, pending>>
       \/ /\ ~ctxDone
          /\ pending' = NextRecord(readers).res
          /\ readers' = NextRecord(readers).rest
          /\ lastFrom' = NextRecord(readers).from
          /\ gpc' = "sending"
       \/ /\ ~ctxDone
          /\ SpillReadMayFail
          /\ pending' = ERR
          /\ gpc' = "sending"
          /\ UNCHANGED <<readers, lastFrom>>
    /\ UNCHANGED <<input, pos, batch, spills, hasTmp, cpc, out, ctxDone>>

(* Mutant: run returns without the deferred cleanup.                      *)
CleanupKeep ==
    /\ gpc = "cleanup"
    /\ gpc' = "exit"
    /\ UNCHANGED <<input, pos, batch, spills, hasTmp, readers, lastFrom, pending, cpc, out, ctxDone>>

(* The deferred cleanup: os.RemoveAll(s.tmpDir).                           *)
Cleanup ==
    /\ gpc = "cleanup"
    /\ hasTmp' = FALSE
    /\ spills' = <<>>
    /\ gpc' = "exit"
    /\ UNCHANGED <<input, pos, batch, readers, lastFrom, pending, cpc, out, ctxDone>>

-----------------------------------------------------------------------------
(* The consumer, CopyWithContext over SortReader.Read.                     *)

(* Read: s.once.Do(go s.run()), then select on ctx.Done and s.ch.          *)
ConsumerRead ==
    /\ cpc = "idle"
    /\ ~ctxDone
    /\ cpc' = "reading"
    /\ gpc' = IF gpc = "init" THEN "loop" ELSE gpc
    /\ UNCHANGED <<input, pos, batch, spills, hasTmp, readers, lastFrom, pending, out, ctxDone>>

(* case res := <-s.ch; the goroutine continues after its send: with the   *)
(* next record, or to cleanup after end of stream or an error.            *)
Receive ==
    /\ cpc = "reading"
    /\ gpc = "sending"
    /\ out' = Append(out, pending)
    /\ cpc' = IF pending \in Record THEN "idle" ELSE "stopped"
    /\ gpc' = IF pending \in Record THEN "send" ELSE "cleanup"
    /\ pending' = NONE
    /\ UNCHANGED <<input, pos, batch, spills, hasTmp, readers, lastFrom, ctxDone>>

(* case <-s.ctx.Done() in Read, or the ctx.Err() test of CopyWithContext. *)
ConsumerCancelled ==
    /\ cpc \in {"idle", "reading"}
    /\ ctxDone
    /\ cpc' = "stopped"
    /\ UNCHANGED <<input, pos, gpc, batch, spills, hasTmp, readers, lastFrom, pending, out, ctxDone>>

Cancel ==
    /\ Cancellation
    /\ ~ctxDone
    /\ ctxDone' = TRUE
    /\ UNCHANGED <<input, pos, gpc, batch, spills, hasTmp, readers, lastFrom, pending, cpc, out>>

Next ==
    \/ ReadBatch \/ Flush \/ Finish \/ SendNext \/ Cleanup
    \/ ConsumerRead \/ Receive \/ ConsumerCancelled \/ Cancel

(* The goroutine and the consumer are scheduled fairly; CopyWithContext    *)
(* keeps calling Read until end of stream, an error or cancellation.       *)
Fairness ==
    /\ WF_vars(ReadBatch) /\ WF_vars(Flush) /\ WF_vars(Finish)
    /\ WF_vars(SendNext) /\ WF_vars(Cleanup)
    /\ WF_vars(ConsumerRead) /\ WF_vars(Receive) /\ WF_vars(ConsumerCancelled)

Spec == Init /\ [][Next]_vars /\ Fairness

-----------------------------------------------------------------------------
(* Properties.                                                             *)

(* The records the consumer received, in order.                            *)
OutRecords == SelectSeq(out, LAMBDA r : r \in Record)

(* Whatever the batching, the spills, the order Glob lists them in and the *)
(* failures, the consumer receives records in time order: each batch is   *)
(* sorted before it is spilled and the Combiner always takes the least    *)
(* hold slot.                                                              *)
OutputSorted ==
    \A i \in 1..(Len(OutRecords) - 1) : InOrder(OutRecords[i], OutRecords[i + 1])

(* When the consumer sees end of stream it has received every input record *)
(* exactly once: none is left in a spill file the merge did not open, none *)
(* is lost with a batch, none comes twice.                                 *)
OutputComplete ==
    EOS \in Range(out) =>
        /\ Len(OutRecords) = Len(input)
        /\ {r.id : r \in Range(OutRecords)} = 1..Len(input)

(* The spec (4.4, 8): the sort is stable, records with equal timestamps    *)
(* leave in input order.                                                   *)
StableOutput ==
    \A i, j \in 1..Len(OutRecords) :
        i < j /\ OutRecords[i].ts = OutRecords[j].ts => OutRecords[i].id < OutRecords[j].id

(* The spec (4.4, 5): temporary files are removed on every exit path: the  *)
(* run goroutine eventually returns and its deferred cleanup removes the   *)
(* temp dir.                                                               *)
TempDirRemoved == <>[](gpc = "exit" /\ ~hasTmp)

(* The spec (4.4, 5), for the spill files themselves: once the sort has   *)
(* created its temp dir and spilled into it, the dir is eventually removed, *)
(* whether the query ends by end of stream, an error or cancellation.      *)
SpillDirRemoved == hasTmp ~> ~hasTmp

(* The same, for a query whose context is never cancelled: through write   *)
(* and Open errors the goroutine still reaches its deferred cleanup.       *)
TempDirRemovedUnlessCancelled == [](~ctxDone) => TempDirRemoved

(* The spec (7): a spill I/O error is fatal to the query and propagated    *)
(* through Read; a consumer blocked in Read is eventually answered.        *)
ReadReturns == cpc = "reading" ~> cpc # "reading"

=============================================================================
