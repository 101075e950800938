----------------------------- MODULE FileStore -----------------------------
(***************************************************************************)
(* The single-file space storage, zqd/storage/filestore/filestore.go.      *)
(* Concurrent HTTP handlers (Clients) call Rewrite, Clear and Summary on   *)
(* one Storage.  Rewrite and Clear hold the weighted semaphore wsem        *)
(* (TryAcquire and a blocking Acquire); Summary takes no lock.  The data   *)
(* of all.zng is the set of record timestamps it holds, 0 for a record     *)
(* without one.  The process may crash at any step and is restarted by     *)
(* Load, which rebuilds the cached span from info.json.                    *)
(***************************************************************************)
EXTENDS Integers, Sequences, FiniteSets, FiniteSetsExt, Nano

CONSTANTS
    Clients,        \* handlers calling into the Storage concurrently
    MaxTs,          \* record timestamps range over 0..MaxTs
    IOErrors,       \* file system operations (and the driver) may fail
    MaxCrashes,     \* bound on process crashes
    NONE, NoInfo    \* model values: no holder, no info.json

ASSUME MaxTs \in Nat \ {0} /\ IOErrors \in BOOLEAN /\ MaxCrashes \in Nat

Ts == 0..MaxTs

VARIABLES
    data,       \* timestamps of the records in all.zng ({} when absent)
    info,       \* info.json: [min_time, max_time], or NoInfo when absent
    span,       \* Storage.span, the cached span
    holder,     \* the client holding wsem, or NONE
    waiters,    \* clients blocked in wsem.Acquire, in FIFO order
    pc,         \* each client's place in its call
    input,      \* the timestamps a Rewrite is writing
    sumData,    \* what a Summary in progress found in all.zng
    sumTs,      \* the span.Ts a Summary in progress has read
    crashes     \* crashes so far

vars == <<data, info, span, holder, waiters, pc, input, sumData, sumTs, crashes>>

-----------------------------------------------------------------------------
(* golang.org/x/sync/semaphore.Weighted of size 1: TryAcquire and Acquire *)
(* succeed at once only when it is free and nobody waits; Release hands it *)
(* straight to the first waiter.                                           *)
SemFree == holder = NONE /\ waiters = <<>>

(* The deferred wsem.Release(1) as client t returns.                       *)
Release(t) ==
    /\ input' = [input EXCEPT ![t] = {}]
    /\ IF waiters = <<>>
       THEN /\ holder' = NONE
            /\ pc' = [pc EXCEPT ![t] = "idle"]
            /\ UNCHANGED waiters
       ELSE /\ holder' = Head(waiters)
            /\ waiters' = Tail(waiters)
            /\ pc' = [pc EXCEPT ![t] = "idle", ![Head(waiters)] = "cl_remove"]

-----------------------------------------------------------------------------
(* spanWriter: the span of the records with a timestamp.                   *)
RecordSpan(S) ==
    LET nz == S \ {0}
    IN  [ts |-> Min(nz), dur |-> Max(nz) - Min(nz) + 1]

(* Mutant: the cached span is never widened after the first write.       *)
extendSpanKeep(cur, s) == IF cur = ZeroSpan THEN s ELSE cur

(* extendSpan: the first span is taken as is, later ones are unioned in.   *)
extendSpan(cur, s) == IF cur = ZeroSpan THEN s ELSE SpanUnion(cur, s)

(* readInfoFile: nano.NewSpanTs(MinTime, MaxTime), or the zero span when   *)
(* info.json does not exist.                                               *)
readInfoFile(i) ==
    IF i = NoInfo THEN ZeroSpan ELSE NewSpanTs(i.min_time, i.max_time)

(* Mutant: info.json records the last timestamp rather than span.End().  *)
syncInfoFileLast(s) ==
    IF s.dur = 0 THEN NoInfo ELSE [min_time |-> s.ts, max_time |-> SpanEnd(s) - 1]

(* syncInfoFile: remove info.json for a zero-length span, else write       *)
(* {span.Ts, span.End()}.                                                  *)
syncInfoFile(s) ==
    IF s.dur = 0 THEN NoInfo ELSE [min_time |-> s.ts, max_time |-> SpanEnd(s)]

Init ==
    /\ data = {}
    /\ info = NoInfo
    /\ span = readInfoFile(NoInfo)
    /\ holder = NONE
    /\ waiters = <<>>
    /\ pc = [t \in Clients |-> "idle"]
    /\ input = [t \in Clients |-> {}]
    /\ sumData = [t \in Clients |-> {}]
    /\ sumTs = [t \in Clients |-> 0]
    /\ crashes = 0

-----------------------------------------------------------------------------
(* Rewrite.                                                                *)

(* TryAcquire; on failure Rewrite returns a Conflict and nothing changes.  *)
RewriteStart(t, new) ==
    /\ pc[t] = "idle"
    /\ SemFree
    /\ holder' = t
    /\ input' = [input EXCEPT ![t] = new]
    /\ pc' = [pc EXCEPT ![t] = "rw_replace"]
    /\ UNCHANGED <<data, info, span, waiters, sumData, sumTs, crashes>>

(* Mutant: the early return for input without timestamps skips the        *)
(* release of wsem.                                                        *)
RewriteReplaceKeepSem(t) ==
    /\ pc[t] = "rw_replace"
    /\ \/ /\ data' = input[t]
          /\ IF input[t] \ {0} # {}
             THEN /\ pc' = [pc EXCEPT ![t] = "rw_extend"]
                  /\ UNCHANGED <<holder, waiters, input>>
             ELSE /\ pc' = [pc EXCEPT ![t] = "idle"]
                  /\ UNCHANGED <<holder, waiters, input>>
       \/ /\ IOErrors
          /\ Release(t)
          /\ UNCHANGED data
    /\ UNCHANGED <<info, span, sumData, sumTs, crashes>>

(* fs.ReplaceFile writes the sorted records to a temp file and renames it  *)
(* over all.zng, or fails leaving all.zng as it was.  Without a record     *)
(* that has a timestamp Rewrite returns here.                              *)
RewriteReplace(t) ==
    /\ pc[t] = "rw_replace"
    /\ \/ /\ data' = input[t]
          /\ IF input[t] \ {0} # {}
             THEN /\ pc' = [pc EXCEPT ![t] = "rw_extend"]
                  /\ UNCHANGED <<holder, waiters, input>>
             ELSE Release(t)
       \/ /\ IOErrors
          /\ Release(t)
          /\ UNCHANGED data
    /\ UNCHANGED <<info, span, sumData, sumTs, crashes>>

(* extendSpan's update of s.span.                                          *)
RewriteExtend(t) ==
    /\ pc[t] = "rw_extend"
    /\ span' = extendSpan(span, RecordSpan(input[t]))
    /\ pc' = [pc EXCEPT ![t] = "sync"]
    /\ UNCHANGED <<data, info, holder, waiters, input, sumData, sumTs, crashes>>

-----------------------------------------------------------------------------
(* Clear.                                                                  *)

(* wsem.Acquire: take the semaphore or queue for it.                       *)
ClearStart(t) ==
    /\ pc[t] = "idle"
    /\ IF SemFree
       THEN /\ holder' = t
            /\ pc' = [pc EXCEPT ![t] = "cl_remove"]
            /\ UNCHANGED waiters
       ELSE /\ waiters' = Append(waiters, t)
            /\ pc' = [pc EXCEPT ![t] = "cl_wait"]
            /\ UNCHANGED holder
    /\ UNCHANGED <<data, info, span, input, sumData, sumTs, crashes>>

(* The request's context is cancelled while Clear waits in Acquire: the   *)
(* waiter leaves the queue and Clear returns the context's error.          *)
ClearCancel(t) ==
    /\ pc[t] = "cl_wait"
    /\ waiters' = SelectSeq(waiters, LAMBDA w : w # t)
    /\ pc' = [pc EXCEPT ![t] = "idle"]
    /\ UNCHANGED <<data, info, span, holder, input, sumData, sumTs, crashes>>

(* os.Remove(all.zng); an error other than not-exist is returned.          *)
ClearRemove(t) ==
    /\ pc[t] = "cl_remove"
    /\ \/ /\ data' = {}
          /\ pc' = [pc EXCEPT ![t] = "cl_setspan"]
          /\ UNCHANGED <<holder, waiters, input>>
       \/ /\ IOErrors
          /\ Release(t)
          /\ UNCHANGED data
    /\ UNCHANGED <<info, span, sumData, sumTs, crashes>>

(* SetSpan(nano.Span{}).                                                   *)
ClearSetSpan(t) ==
    /\ pc[t] = "cl_setspan"
    /\ span' = ZeroSpan
    /\ pc' = [pc EXCEPT ![t] = "sync"]
    /\ UNCHANGED <<data, info, holder, waiters, input, sumData, sumTs, crashes>>

(* syncInfoFile at the end of extendSpan and SetSpan, then the deferred    *)
(* Release.  Writing or removing info.json may fail.                       *)
SyncInfo(t) ==
    /\ pc[t] = "sync"
    /\ \/ info' = syncInfoFile(span)
       \/ IOErrors /\ UNCHANGED info
    /\ Release(t)
    /\ UNCHANGED <<data, span, sumData, sumTs, crashes>>

-----------------------------------------------------------------------------
(* Summary: os.Stat(all.zng) (an error returns at once and changes        *)
(* nothing), then the unlocked read of s.span, whose two words may be read *)
(* either side of a concurrent write.                                      *)
SummaryStat(t) ==
    /\ pc[t] = "idle"
    /\ sumData' = [sumData EXCEPT ![t] = data]
    /\ pc' = [pc EXCEPT ![t] = "sum_ts"]
    /\ UNCHANGED <<data, info, span, holder, waiters, input, sumTs, crashes>>

SummaryReadTs(t) ==
    /\ pc[t] = "sum_ts"
    /\ sumTs' = [sumTs EXCEPT ![t] = span.ts]
    /\ pc' = [pc EXCEPT ![t] = "sum_dur"]
    /\ UNCHANGED <<data, info, span, holder, waiters, input, sumData, crashes>>

SummaryReadDur(t) ==
    /\ pc[t] = "sum_dur"
    /\ pc' = [pc EXCEPT ![t] = "idle"]
    /\ sumData' = [sumData EXCEPT ![t] = {}]
    /\ sumTs' = [sumTs EXCEPT ![t] = 0]
    /\ UNCHANGED <<data, info, span, holder, waiters, input, crashes>>

-----------------------------------------------------------------------------
(* The process crashes and is restarted: every call in flight is lost, the *)
(* semaphore is new, and Load reads info.json into the cached span.        *)
CrashRestart ==
    /\ crashes < MaxCrashes
    /\ crashes' = crashes + 1
    /\ span' = readInfoFile(info)
    /\ holder' = NONE
    /\ waiters' = <<>>
    /\ pc' = [t \in Clients |-> "idle"]
    /\ input' = [t \in Clients |-> {}]
    /\ sumData' = [t \in Clients |-> {}]
    /\ sumTs' = [t \in Clients |-> 0]
    /\ UNCHANGED <<data, info>>

Next ==
    \/ \E t \in Clients :
          \/ \E new \in SUBSET Ts : RewriteStart(t, new)
          \/ RewriteReplace(t) \/ RewriteExtend(t)
          \/ ClearStart(t) \/ ClearCancel(t) \/ ClearRemove(t) \/ ClearSetSpan(t)
          \/ SyncInfo(t)
          \/ SummaryStat(t) \/ SummaryReadTs(t) \/ SummaryReadDur(t)
    \/ CrashRestart

(* A call in progress runs to completion: its goroutine is scheduled       *)
(* fairly.  Starting a call is up to the clients.                          *)
Fairness ==
    \A t \in Clients :
        /\ WF_vars(RewriteReplace(t)) /\ WF_vars(RewriteExtend(t))
        /\ WF_vars(ClearRemove(t)) /\ WF_vars(ClearSetSpan(t))
        /\ WF_vars(SyncInfo(t))
        /\ WF_vars(SummaryReadTs(t)) /\ WF_vars(SummaryReadDur(t))

Spec == Init /\ [][Next]_vars /\ Fairness

-----------------------------------------------------------------------------
(* Properties.                                                             *)

(* Every record of S that has a timestamp lies in span s.                  *)

(* Once no Rewrite or Clear holds the semaphore, the cached span covers    *)
(* every timestamped record in all.zng: queries and Summary bound the      *)
(* space by it.  Rewrite replaces all.zng before it extends the span, and  *)
(* a restarted process takes the span from info.json.                      *)
CacheCoversData == holder = NONE => Covers(span, data)

(* Once no Rewrite or Clear holds the semaphore, info.json holds the       *)
(* cached span (and is absent for the zero span), so a restart by Load     *)
(* recovers the same span: syncInfoFile's encoding and readInfoFile's      *)
(* decoding agree, and every path that changes the span syncs it.          *)
InfoMatchesCache == holder = NONE => readInfoFile(info) = span

(* A Summary describes one state of the storage: the span it returns       *)
(* covers the records of the all.zng it measured.  Summary reads s.span    *)
(* with no lock while Rewrite updates it (the XXX comments).  In state     *)
(* sum_dur the span it would return is sumTs with the current span.Dur.    *)
SummaryCoversData ==
    \A t \in Clients :
        pc[t] = "sum_dur" => Covers([ts |-> sumTs[t], dur |-> span.dur], sumData[t])

(* A Clear blocked in wsem.Acquire eventually returns even if its request *)
(* is never cancelled: every holder releases on every path, Release hands  *)
(* over to and wakes the first waiter, and TryAcquire never overtakes a    *)
(* waiter.                                                                 *)
ClearCompletes == \A t \in Clients : pc[t] = "cl_wait" ~> pc[t] = "idle"

=============================================================================
