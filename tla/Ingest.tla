------------------------------- MODULE Ingest -------------------------------
(***************************************************************************)
(* Log ingest into a ZngStorage space: zqd/ingest/log.go and               *)
(* zqd/storage/zng.go.  NewLogTransaction opens the files, keeps their     *)
(* open-time warnings and starts the start goroutine, which drains those   *)
(* warnings into the buffered warningCh, then runs ZngStorage.WriteTo over *)
(* a MultiReader of WarningReaders, one per file, and closes doneCh.  A    *)
(* file's read error becomes a warning and the end of that file, and the   *)
(* MultiReader goes on with the next file.  WriteTo guards      *)
(* itself with a CAS on s.writing, copies the time-sorted records into     *)
(* all.zng.tmp, renames it over all.zng and extends the cached span.  The  *)
(* consumer of a transaction reads its warnings.  A record is its          *)
(* timestamp (0 for none); the spill sort is modelled in SortReader.tla:   *)
(* here it reads all of its input before it returns the first record, and  *)
(* then delivers the records or fails.                                     *)
(***************************************************************************)
EXTENDS Integers, Sequences, FiniteSets, FiniteSetsExt, Nano

CONSTANTS
    Txns,           \* ingest transactions (NewLogTransaction calls)
    Inputs,         \* the files a transaction may read: sequences of sets of
                    \* timestamps, one set per file
    MaxTs,          \* record timestamps range over 0..MaxTs
    MaxOpenWarns,   \* open-time warnings a transaction may carry
    WarnCap,        \* capacity of warningCh (5 in the code)
    IOErrors,       \* file system operations and the copy may fail
    NoFile          \* model value: all.zng.tmp does not exist

ASSUME Inputs \subseteq Seq(SUBSET (0..MaxTs))
ASSUME MaxTs \in Nat /\ MaxOpenWarns \in Nat /\ WarnCap \in Nat \ {0}
       /\ IOErrors \in BOOLEAN

Ts == 0..MaxTs

VARIABLES
    data,       \* timestamps of the records in all.zng
    tmp,        \* all.zng.tmp: the timestamps written so far, or NoFile
    span,       \* ZngStorage.span
    writing,    \* ZngStorage.writing (0 or 1)
    tpc,        \* each transaction's start goroutine
    input,      \* the records of each of a transaction's files, in order
    failing,    \* the files of a transaction whose read fails part way
    cur,        \* the file the MultiReader reads next
    rest,       \* records the sort holds that the copy has still to write
    openWarns,  \* open-time warnings still to drain
    warnCh,     \* warnings buffered in a transaction's warningCh
    result      \* p.err: "none", "ok", "conflict" or "error"

vars == <<data, tmp, span, writing, tpc, input, failing, cur, rest, openWarns,
          warnCh, result>>

storage == <<data, tmp, span, writing>>

(* Mutant: spanWriter keeps the span of the first record only.            *)
RecordSpanFirst(S) ==
    LET nz == S \ {0}
    IN  IF nz = {} THEN ZeroSpan ELSE [ts |-> Max(nz), dur |-> 1]

(* spanWriter: the span of the records with a timestamp, or the zero span. *)
RecordSpan(S) ==
    LET nz == S \ {0}
    IN  IF nz = {} THEN ZeroSpan
        ELSE [ts |-> Min(nz), dur |-> Max(nz) - Min(nz) + 1]

(* ZngStorage.SetSpan: the first span is taken, later ones are unioned.    *)
SetSpan(old, s) == IF old = ZeroSpan THEN s ELSE SpanUnion(old, s)

Init ==
    /\ data = {}
    /\ tmp = NoFile
    /\ span = ZeroSpan
    /\ writing = 0
    /\ tpc = [x \in Txns |-> "none"]
    /\ input = [x \in Txns |-> <<>>]
    /\ failing = [x \in Txns |-> {}]
    /\ cur = [x \in Txns |-> 1]
    /\ rest = [x \in Txns |-> {}]
    /\ openWarns = [x \in Txns |-> 0]
    /\ warnCh = [x \in Txns |-> 0]
    /\ result = [x \in Txns |-> "none"]

(* The records of all of transaction x's files. *)
Records(x) == UNION {input[x][i] : i \in DOMAIN input[x]}

(* Transaction x returns from WriteTo with result r (s.writing is reset by *)
(* the deferred store) and closes doneCh.                                  *)
Finish(x, r) ==
    /\ writing' = 0
    /\ result' = [result EXCEPT ![x] = r]
    /\ tpc' = [tpc EXCEPT ![x] = "done"]

-----------------------------------------------------------------------------
(* NewLogTransaction: openFile for every path (a file the detector cannot  *)
(* read becomes an open-time warning and is closed; the others become      *)
(* WarningReaders, some of which will fail part way), then go p.start.     *)
NewLogTransaction(x, in, fl, ow) ==
    /\ tpc[x] = "none"
    /\ tpc' = [tpc EXCEPT ![x] = "drain"]
    /\ input' = [input EXCEPT ![x] = in]
    /\ failing' = [failing EXCEPT ![x] = fl]
    /\ openWarns' = [openWarns EXCEPT ![x] = ow]
    /\ UNCHANGED <<storage, cur, rest, warnCh, result>>

(* Mutant: the send does not wait for room in warningCh.                   *)
DrainWarningNoBlock(x) ==
    /\ tpc[x] = "drain"
    /\ openWarns[x] > 0
    /\ openWarns' = [openWarns EXCEPT ![x] = @ - 1]
    /\ warnCh' = [warnCh EXCEPT ![x] = @ + 1]
    /\ UNCHANGED <<storage, tpc, input, failing, cur, rest, result>>

(* start: p.warningCh <- warning, blocking while the channel is full.      *)
DrainWarning(x) ==
    /\ tpc[x] = "drain"
    /\ openWarns[x] > 0
    /\ warnCh[x] < WarnCap
    /\ openWarns' = [openWarns EXCEPT ![x] = @ - 1]
    /\ warnCh' = [warnCh EXCEPT ![x] = @ + 1]
    /\ UNCHANGED <<storage, tpc, input, failing, cur, rest, result>>

(* Mutant: WriteTo without its CAS on s.writing.                           *)
WriteToNoCAS(x) ==
    /\ tpc[x] = "drain"
    /\ openWarns[x] = 0
    /\ writing' = 1
    /\ tpc' = [tpc EXCEPT ![x] = "create"]
    /\ UNCHANGED <<data, tmp, span, input, failing, cur, rest, openWarns, warnCh, result>>

(* WriteTo: CompareAndSwap(&s.writing, 0, 1), or a Conflict error.         *)
WriteToCAS(x) ==
    /\ tpc[x] = "drain"
    /\ openWarns[x] = 0
    /\ IF writing = 0
       THEN /\ writing' = 1
            /\ tpc' = [tpc EXCEPT ![x] = "create"]
            /\ UNCHANGED result
       ELSE /\ result' = [result EXCEPT ![x] = "conflict"]
            /\ tpc' = [tpc EXCEPT ![x] = "done"]
            /\ UNCHANGED writing
    /\ UNCHANGED <<data, tmp, span, input, failing, cur, rest, openWarns, warnCh>>

(* Mutant: all.zng.tmp is opened without truncating it.                    *)
CreateTmpNoTrunc(x) ==
    /\ tpc[x] = "create"
    /\ tmp' = IF tmp = NoFile THEN {} ELSE tmp
    /\ tpc' = [tpc EXCEPT ![x] = "read"]
    /\ UNCHANGED <<data, span, writing, input, failing, cur, rest, openWarns, warnCh, result>>

(* os.Create(all.zng.tmp) truncates it, or fails.                          *)
CreateTmp(x) ==
    /\ tpc[x] = "create"
    /\ \/ /\ tmp' = {}
          /\ tpc' = [tpc EXCEPT ![x] = "read"]
          /\ UNCHANGED <<writing, result>>
       \/ /\ IOErrors
          /\ Finish(x, "error")
          /\ UNCHANGED tmp
    /\ UNCHANGED <<data, span, input, failing, cur, rest, openWarns, warnCh>>

(* Mutant: the MultiReader ends its stream at the end of its first reader. *)
ReadFileStops(x) ==
    /\ tpc[x] = "read"
    /\ cur[x] \in DOMAIN input[x] \ failing[x]
    /\ rest' = [rest EXCEPT ![x] = @ \cup input[x][cur[x]]]
    /\ cur' = [cur EXCEPT ![x] = Len(input[x]) + 1]
    /\ UNCHANGED <<storage, tpc, input, failing, openWarns, warnCh, result>>

(* The sort reads the MultiReader: the current file's records up to its   *)
(* end of stream (nil, nil), on which the MultiReader drops that reader    *)
(* and reads the next.                                                     *)
ReadFile(x) ==
    /\ tpc[x] = "read"
    /\ cur[x] \in DOMAIN input[x] \ failing[x]
    /\ rest' = [rest EXCEPT ![x] = @ \cup input[x][cur[x]]]
    /\ cur' = [cur EXCEPT ![x] = @ + 1]
    /\ UNCHANGED <<storage, tpc, input, failing, openWarns, warnCh, result>>

(* Mutant: after sending the warning the MultiReader reads the failing     *)
(* file again instead of moving on.                                        *)
ReadWarningRetry(x) ==
    /\ tpc[x] = "read"
    /\ cur[x] \in failing[x]
    /\ warnCh[x] < WarnCap
    /\ warnCh' = [warnCh EXCEPT ![x] = @ + 1]
    /\ \E kept \in SUBSET input[x][cur[x]] : rest' = [rest EXCEPT ![x] = @ \cup kept]
    /\ UNCHANGED <<storage, tpc, input, failing, cur, openWarns, result>>

(* WarningReader.Read: a file's read error is sent on warningCh (blocking  *)
(* while full) and (nil, nil) is returned, so the MultiReader moves to the *)
(* next file; the records the file had left never reach the sort.          *)
ReadWarning(x) ==
    /\ tpc[x] = "read"
    /\ cur[x] \in failing[x]
    /\ warnCh[x] < WarnCap
    /\ warnCh' = [warnCh EXCEPT ![x] = @ + 1]
    /\ \E kept \in SUBSET input[x][cur[x]] : rest' = [rest EXCEPT ![x] = @ \cup kept]
    /\ cur' = [cur EXCEPT ![x] = @ + 1]
    /\ UNCHANGED <<storage, tpc, input, failing, openWarns, result>>

(* multiReader.Read with no readers left returns (nil, nil): the sort has  *)
(* read all its input and begins to return records.                        *)
EndOfInput(x) ==
    /\ tpc[x] = "read"
    /\ cur[x] > Len(input[x])
    /\ tpc' = [tpc EXCEPT ![x] = "copy"]
    /\ UNCHANGED <<storage, input, failing, cur, rest, openWarns, warnCh, result>>

(* CopyWithContext writes the next record of the descending sort to the    *)
(* file and the spanWriter.                                                *)
CopyRecord(x) ==
    /\ tpc[x] = "copy"
    /\ rest[x] # {}
    /\ tmp' = tmp \cup {Max(rest[x])}
    /\ rest' = [rest EXCEPT ![x] = @ \ {Max(rest[x])}]
    /\ UNCHANGED <<data, span, writing, tpc, input, failing, cur, openWarns, warnCh, result>>

(* CopyWithContext fails (the context, the sort, the write): close the     *)
(* file, os.RemoveAll(tmppath) and return the error.                       *)
CopyFail(x) ==
    /\ tpc[x] \in {"read", "copy"}
    /\ IOErrors
    /\ tmp' = NoFile
    /\ Finish(x, "error")
    /\ UNCHANGED <<data, span, input, failing, cur, rest, openWarns, warnCh>>

(* End of the copy: zngfile.Close(), which may fail and remove the file,   *)
(* then os.Rename(tmppath, all.zng), which may fail leaving it.            *)
CloseAndRename(x) ==
    /\ tpc[x] = "copy"
    /\ rest[x] = {}
    /\ \/ /\ data' = tmp
          /\ tmp' = NoFile
          /\ tpc' = [tpc EXCEPT ![x] = "setspan"]
          /\ UNCHANGED <<writing, result>>
       \/ /\ IOErrors
          /\ tmp' = NoFile
          /\ Finish(x, "error")
          /\ UNCHANGED data
       \/ /\ IOErrors
          /\ Finish(x, "error")
          /\ UNCHANGED <<data, tmp>>
    /\ UNCHANGED <<span, input, failing, cur, rest, openWarns, warnCh>>

(* s.SetSpan(spanWriter.span), return nil; close(p.doneCh).               *)
SetSpanStep(x) ==
    /\ tpc[x] = "setspan"
    /\ span' = SetSpan(span, RecordSpan(data))
    /\ Finish(x, "ok")
    /\ UNCHANGED <<data, tmp, input, failing, cur, rest, openWarns, warnCh>>

(* The consumer receives a warning from Warning().                         *)
ConsumeWarning(x) ==
    /\ warnCh[x] > 0
    /\ warnCh' = [warnCh EXCEPT ![x] = @ - 1]
    /\ UNCHANGED <<storage, tpc, input, failing, cur, rest, openWarns, result>>

Next ==
    \E x \in Txns :
        \/ \E in \in Inputs, ow \in 0..MaxOpenWarns :
              \E fl \in SUBSET DOMAIN in : NewLogTransaction(x, in, fl, ow)
        \/ DrainWarning(x) \/ WriteToCAS(x) \/ CreateTmp(x)
        \/ ReadFile(x) \/ ReadWarning(x) \/ EndOfInput(x)
        \/ CopyRecord(x) \/ CopyFail(x)
        \/ CloseAndRename(x) \/ SetSpanStep(x) \/ ConsumeWarning(x)

(* The start goroutine and the consumer are scheduled fairly.             *)
Fairness ==
    \A x \in Txns :
        /\ WF_vars(DrainWarning(x)) /\ WF_vars(WriteToCAS(x))
        /\ WF_vars(CreateTmp(x)) /\ WF_vars(ReadFile(x))
        /\ WF_vars(ReadWarning(x)) /\ WF_vars(EndOfInput(x))
        /\ WF_vars(CopyRecord(x)) /\ WF_vars(CloseAndRename(x))
        /\ WF_vars(SetSpanStep(x)) /\ WF_vars(ConsumeWarning(x))

Spec == Init /\ [][Next]_vars /\ Fairness

-----------------------------------------------------------------------------
(* Properties.                                                             *)

TypeOK ==
    /\ data \subseteq Ts /\ tmp \in SUBSET Ts \cup {NoFile}
    /\ writing \in {0, 1}
    /\ tpc \in [Txns -> {"none", "drain", "create", "read", "copy", "setspan", "done"}]
    /\ input \in [Txns -> Inputs \cup {<<>>}] /\ rest \in [Txns -> SUBSET Ts]
    /\ \A x \in Txns : failing[x] \subseteq DOMAIN input[x] /\ cur[x] \in 1..Len(input[x]) + 1
    /\ openWarns \in [Txns -> 0..MaxOpenWarns]
    /\ warnCh \in [Txns -> 0..WarnCap]
    /\ result \in [Txns -> {"none", "ok", "conflict", "error"}]

(* A query reading all.zng only ever sees the records of one WriteTo that  *)
(* got past its copy: never a mix of two ingests, never what a failed      *)
(* rename left in all.zng.tmp.  The CAS, the truncating Create and the     *)
(* rename together keep this.                                              *)
DataFromOneWrite ==
    data = {} \/ \E x \in Txns : tpc[x] \in {"setspan", "done"} /\ data \subseteq Records(x)

(* Every file that reads cleanly reaches all.zng: when a WriteTo gets to   *)
(* SetSpan, all.zng holds every record of each of its files that did not   *)
(* fail, whichever files before or after it failed.  It rests on the       *)
(* WarningReader turning a read error into an end of stream, on the        *)
(* MultiReader going on to the next reader after one ends, and on the      *)
(* copy, the Close and the Rename all being of the same transaction.       *)
CleanFilesIngested ==
    \A x \in Txns :
        tpc[x] = "setspan" =>
            \A i \in DOMAIN input[x] \ failing[x] : input[x][i] \subseteq data

(* Once no WriteTo runs, Span() covers every record in all.zng.            *)
SpanCoversData == writing = 0 => Covers(span, data)

(* Every transaction that NewLogTransaction started eventually closes      *)
(* doneCh, so Error() returns.  start blocks on warningCh (capacity 5)     *)
(* while it drains the open-time warnings and again each time a file      *)
(* fails; it gets through because the handler keeps reading Warning(),    *)
(* every failing file ends in a single warning, and every path of WriteTo *)
(* returns.                                                                *)
TxnCompletes == \A x \in Txns : tpc[x] # "none" ~> tpc[x] = "done"

(* WriteTo overwrites the underlying data (zng.go:90), so once no WriteTo  *)
(* runs, Span() is the span of the records in all.zng.                     *)
SpanTight == writing = 0 => span = RecordSpan(data)

=============================================================================
