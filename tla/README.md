# TLA+ models of zq

This directory holds TLA+ models of the concurrent, stateful and algorithmic
parts of zq (the sources under `src/`). Next to them are the TLC
configurations that check them and `PROJECT.json`.

PROJECT.json records:
- which module models which code lines (`map`);
- every run;
- the mutants that show each checked property can fail;
- the findings and the hazards;
- the status of every part of the code (`components`).

Run everything from this directory:

    tlasany Overlap.tla
    tlc -workers 2 -config MCOverlap.cfg MCOverlap

## 1. The system and its parts

| Part | Source | What it does | Concurrency or failure |
|---|---|---|---|
| Overlap resolver | `archive/overlap.go` | Turns an unordered set of chunks `{Id, First, Last}` into an ordered list of SpanInfos, each listing the chunks that hold data in its span | none: a pure algorithm driven by a callback |
| Merge proc | `proc/merge/merge.go` | One runner goroutine per parent, multiplexed through one unbuffered channel; `Done` closes `doneCh` | N runners, the caller, cancellation |
| Spill sort | `zio/zngio/sort.go` | Sorts batches stably, spills all but the last to temp files, merges them with a `zbuf.Combiner`, sends each record over an unbuffered channel | run goroutine, consumer, cancellation, I/O errors |
| Combiner | `zbuf/combiner.go` | k-way merge: refills empty hold slots, returns the least record | used by the spill sort |
| File store | `zqd/storage/filestore/filestore.go` | Single-file space storage: `Rewrite` (`TryAcquire`), `Clear` (blocking `Acquire`), `Summary` (no lock), the cached span and `info.json` | concurrent handlers, I/O errors, crash and restart |
| Zng storage | `zqd/storage/zng.go` | `WriteTo`: CAS on `writing`, copy into `all.zng.tmp`, rename, `SetSpan` | concurrent ingests, I/O errors |
| Log ingest | `zqd/ingest/log.go`, `zbuf/warning.go` | Opens the files, drains open-time warnings into a 5-slot channel, runs `WriteTo`, closes `doneCh` | ingest goroutine and the status consumer |
| Filter comparisons | `zx/compare.go`, `zng/value.go` | Compiles `field <op> literal` into a predicate for each literal type | none: pure |
| Space manager | `zqd/space/manager.go` | `spaces` and `names` maps under `spacesMu`; `Delete` does `Get`, unlocks, and locks again | concurrent handlers |
| Tzng writer | `zio/tzngio/writer.go` | Writes aliases, then a typedef numbered by `w.tracker`, then `N:value`; every write may fail | write errors, under the copy loop `zbuf.CopyWithContext` |

How they interact:
- An ingest (`ingest/log.go`) calls `ZngStorage.WriteTo`.
- `WriteTo` runs the spill sort over the log files and copies its output into
  `all.zng.tmp` with `CopyWithContext`.
- The spill sort's final merge is a `Combiner`.
- Queries over an archive use the overlap resolver to plan which chunks to
  scan.
- Every compiled filter uses the comparison predicates.
- The merge proc runs inside every query with parallel branches.
- The tzng writer is one of the outputs `CopyWithContext` drives.
- The space manager owns the spaces whose storage is a file store or a zng
  storage.

`Nano.tla` holds the `nano.Span` operations (`Union`, `Contains`, `Overlaps`,
`Intersect`). `pkg/nano` is not in this snapshot, so these are written from
its contract. `Records.tla` holds the record order and the Combiner's
selection, shared by `SortReader.tla`.

## 2. What is modelled

### Overlap.tla (archive/overlap.go)

- **State.**
  - `Init` chooses the input `chunks` (Id to `[first, last]`), `dir` and
    `filter`.
  - `todo` is the set of boundary timestamps `boundaries()` has still to
    visit.
  - `siChunks`, `siFirst` and `result` are the function's local variables.
- **`Boundary`** is one call of the callback for one group of
  equal-timestamp points, in traversal order. In the order the code has it,
  it does:
  1. the firstChunks half: it closes the accumulated span at `prevTs(ts)` and
     appends the new chunks;
  2. the lastChunks half: it closes the span at `ts`, drops the ended chunks
     with `copyChunks` and sets `siFirst = nextTs(ts)`.
- Chunk order inside a SpanInfo is abstracted to a set.

### Merge.tla (proc/merge/merge.go)

- `pc[p]` is runner p's place in `runnerProc.run`; `RunnerPull` is
  `parent.Pull()`.
- The three `select` cases are three actions:
  - `Deliver` is the unbuffered send together with Pull's receive.
  - `RunnerOnDone` calls `parent.Done`.
  - `RunnerOnCancel` returns.
- The caller's `Pull` is three actions: `CallPull` (`once.Do`), `PullEOS` and
  `PullCancel`.
- `Done` closes `doneCh`; closing it twice sets `panicked`.

### MergeAbstract.tla (what the merge proc promises, spec 4.3)

- **State.** Only what the caller can see: each parent's `produced` batches,
  how each parent's stream ended (`parentEnd`), and the caller's results
  `out`. There are no goroutines, no channel and no `nparents`.
- **Actions.**
  - `Produce`: a parent yields a batch, or ends cleanly or with an error.
  - `Forward`: the next batch of a parent that is not yet out is returned.
  - `ForwardError`: a parent's error is returned after all its batches.
  - `EndOfStream`: returned once every parent has ended cleanly and all its
    batches are out, and again on every later call.
  - `Cancelled`: the context's error, before the end of stream.
  Nothing is returned after an error.
- **Refinement.** `Merge.tla` defines
  `Abstract == INSTANCE MergeAbstract WITH produced <- produced, ...`. The
  mapping keeps the three visible variables and hides the runners, the
  channel and the counter. `ImplementsAbstractMerge == Abstract!Spec` is
  checked as a PROPERTY, so every step of the goroutines is a step of the
  abstract merge or leaves its state unchanged.

### Records.tla and SortReader.tla (zio/zngio/sort.go, zbuf/combiner.go)

- **Data.** A record is `[id, ts]`. `sortFn` is `SortReader.sortFn`.
  `CombinerScan` is `Combiner.Read`'s selection loop, as a RECURSIVE
  operator.
- **The run goroutine**, with `gpc` as its place:
  - `ReadBatch` is the loop head.
  - `Flush` is `flushBatch`. `createTmpDir` may fail, and that error is
    ignored. `TempFile` and the write may fail.
  - `Finish` is `finish`. Glob's order is any permutation of the spills, and
    an `Open` error drops to cleanup.
  - `SendNext` is `send`. The Combiner's read of a spill file may fail
    (`SpillReadMayFail`): on its first call it reads every reader, later
    only the one it took the last record from (`lastFrom`). The error is
    sent to the consumer.
  - `Cleanup` is the deferred `cleanup`.
- **The consumer** is `CopyWithContext` over `Read`:
  - `ConsumerRead` is `once.Do` and the select.
  - `Receive` is the receive.
  - `ConsumerCancelled` is the `ctx.Done` case.
- **Fault switches.** `IOErrors` switches the TempFile, write and Open
  failures. `TmpDirErrors` switches `ioutil.TempDir`'s failure.
  `Cancellation` switches the context.

### FileStore.tla (zqd/storage/filestore/filestore.go)

- **Data.** `data` is the set of timestamps in all.zng (0 for a record
  without one), `info` is `info.json`, and `span` is the cached span.
  `holder` and `waiters` are the weighted semaphore.
- **Rewrite** is three steps:
  1. `RewriteStart`: `TryAcquire` and the write of the temp file.
  2. `RewriteReplace`: `ReplaceFile`.
  3. `RewriteExtend`: `extendSpan` and its `syncInfoFile`.
- **Clear** is `ClearStart` (`Acquire`, which a cancelled context ends in
  `ClearCancel`), then `ClearRemove`, then `ClearSetSpan`.
- **Summary** reads without the lock, in three steps.
- **Crashes.** `CrashRestart` loses the calls in flight and runs `Load`
  again from the files.

### Ingest.tla (zqd/ingest/log.go, zqd/storage/zng.go, zbuf/warning.go, zbuf/zng.go)

- A transaction `x` is:
  1. `NewLogTransaction`: its files, taken from `Inputs` (a sequence of
     sets of timestamps, one set per file). It also picks the files whose
     read fails part way (`failing`) and the open-time warnings.
  2. `DrainWarning`: the `warningCh <-` loop, blocking when the channel is
     full.
  3. `WriteToCAS`: the CAS on `s.writing`. A loser ends with "conflict".
  4. `CreateTmp`.
  5. The sort reads the `MultiReader`, file `cur[x]` at a time:
     - `ReadFile` reads a clean file to its end, and the MultiReader moves
       to the next file.
     - `ReadWarning` is the WarningReader of a failing file. It sends the
       warning (blocking when the channel is full), keeps any subset of the
       file's records, and ends that file.
     - `EndOfInput` is the MultiReader's `(nil, nil)` with no readers left.
  6. `CopyRecord` writes the sort's records in descending time order.
     `CopyFail` can happen while reading or copying. Then `CloseAndRename`,
     which has three outcomes: success, a failed close, and a failed rename
     that leaves the temp file.
  7. `SetSpanStep`.
- `ConsumeWarning` is the HTTP handler reading `Warning()`.
- The spill sort is abstracted: it reads all of its input before it returns
  the first record, then delivers the records in time order or the copy
  fails. SortReader.tla models the sort itself.

### Compare.tla (zx/compare.go)

- Each predicate constructor (`CompareBool`, `CompareInt64`,
  `CompareFloat64`, `CompareSubnet`, and so on) is an operator of
  `(op, pattern, value)`. Each follows the code's comparator table and
  coercions.
- `Contains` is the `in` operator.
- Widths are kept where they matter:
  - the count cast is `ToInt64`;
  - the time pattern is multiplied by `Scale` and wrapped to `Width` bits.
- A regexp is modelled as the language it accepts.
- `Init` enumerates every compilable `(op, literal, value)` over small
  domains. The spec is `Init /\ [][FALSE]_vars`, so every predicate is one
  state.
- `Reference` is the order each operator is meant to decide.

### Spaces.tla (zqd/space/manager.go)

- **State.** `spaces` is the domain of `m.spaces`, and `names` is `m.names`.
  `spaceName[id]` is the name a space object holds; it keeps that name after
  the space is deleted.
- **One step each.** `Create`, `UpdateSpace` and `Get` run entirely under
  the lock.
- **Delete** is two steps:
  - `DeleteGet` is `m.Get`.
  - `DeleteLocked` is the second locked section. It reads `space.Name()`,
    calls `space.delete`, then deletes from both maps.
- **Not in this snapshot**, so modelled from their use:
  - `validateName`.
  - `space.update`: it fails once the directory is gone.
  - `space.delete`: `RemoveAll` succeeds on a missing directory.
  - The handlers that call `Get` before `UpdateSpace` and before
    `CreateSubspace` (`UpdateGet`, `SubspaceGet`).
  - `archiveSpace.CreateSubspace`: like `space.update`, it writes below the
    parent's directory, so it fails once that directory is gone.
- **CreateSubspace** is one locked step: `validateName`, an error unless the
  parent is an archive space (`archives`, chosen by `Create`'s storage
  kind), then both maps get the new space.
- **Disk and restart.** `disk` is the set of ids whose directory holds a
  config. It outlives the process, as do `spaceName` (the name in each
  config) and `archives`.
  - `Create` ends one of three ways (`CreateOutcomes`). It succeeds. Or
    `MkdirAll`/`writeConfig` fails and the directory is removed. Or
    `loadSpaces` fails after the config is written, and Create returns the
    error with the directory left on disk and its name not in `m.names`.
  - `Restart` is a restart of zqd. The handlers in flight are gone, and
    `NewManagerWithContext` rebuilds both maps from the configs on disk.
    With `IOErrors`, any of them may be skipped because `loadConfig` could
    not read it (manager.go:45-51).
  - `LoadedNames` is the loop's effect on `m.names`: a later directory
    overwrites an earlier one of the same name, and ReadDir lists the
    random ids in any order.
  - A start that fails because `loadSpaces` errs changes nothing; starting
    zqd again is a later `Restart`.

### Tzng.tla (zio/tzngio/writer.go)

- **`Write(f)`** is the whole call, where `f` is the write that fails (0 for
  none). Its writes, in order, are:
  1. the new aliases (`writeAliases`);
  2. the typedef numbered `len(w.tracker)`;
  3. `N:`;
  4. the value;
  5. the newline.
- **Marking before writing.** Aliases and the tracker entry are marked
  before their writes.
- **Errors.** A failed `N:` write returns nil; every other failure returns
  the error.
- **`Copy`** is the loop of `CopyWithContext`, which stops at the first
  error.
- **Abstraction.** A value's text (`writeContainer`, `writeUnion`,
  `writeValue`) is one abstract piece, and a failed write adds nothing.

## 3. Runs

| Run | Checks | Result | What it shows |
|---|---|---|---|
| `MCOverlap.cfg` | TypeOK, ListedChunksCoverSpan, NoRecordMissed | pass (6564 states) | Each SpanInfo lists only chunks covering its span. No record inside the filter is missed. Covers every input of up to 3 chunks over timestamps 0..3, both directions, and 3 filters. |
| `MCOverlap_disjoint.cfg` | SpansDisjointOrdered | violation | Consecutive spans can overlap (overlap.go:24), so a chunk is read twice. |
| `MCMerge.cfg` | ImplementsAbstractMerge, PullReturns, NoRunnerLeak | pass (6501) | The merge proc implements MergeAbstract: per-parent order, EOS only after every parent's batches, nothing after an error. Pull always returns. Done or cancellation ends every runner. |
| `MCSortReader.cfg` | OutputSorted, OutputComplete, TempDirRemovedUnlessCancelled | pass (14709) | With write, Open and spill-read errors and cancellation: records come out in time order, EOS means every record came out exactly once, and without cancellation the temp dir is removed. |
| `MCSortReader_cancel.cfg` | SpillDirRemoved | violation | The context is cancelled while `flushBatch` writes a spill. The temp dir already exists. `run` blocks for good sending the context's error on `s.ch` (sort.go:70), because the consumer has returned. The deferred cleanup never removes the dir. The sends at sort.go:60 and 122 are unguarded in the same way. |
| `MCFileStore.cfg` | InfoMatchesCache, ClearCompletes | pass (37586) | Two clients and one crash. `info.json` agrees with the cached span whenever no writer holds the semaphore. A blocked Clear always proceeds. |
| `MCFileStore_faults.cfg` | CacheCoversData | pass (34248) | With failing file operations and no crash, the cached span covers all.zng's data whenever no writer holds the semaphore. |
| `MCFileStore_crash.cfg` | CacheCoversData | violation | A crash between `ReplaceFile` and `syncInfoFile` (filestore.go:117) restarts with a span that misses data. |
| `MCIngest.cfg` | TypeOK, DataFromOneWrite, SpanCoversData, CleanFilesIngested, TxnCompletes | pass (267581) | Two concurrent ingests of one to three files, any of which may fail part way, with failures at every file step. all.zng only ever holds one WriteTo's records, and every cleanly read file reaches it. Span() covers them when no WriteTo runs. Every transaction closes `doneCh`, though `start` blocks on the one-slot `warningCh` both while it drains open-time warnings and when a file fails. |
| `MCCompare.cfg` | PredicateMatchesReference | violation | Bool `lte` is wrong (compare.go:49): `false <= true` is false. |
| `MCSpaces.cfg` | UniqueNames | violation | Two Deletes of one space plus a Create of the same name (manager.go:183) leave two live spaces with one name. |
| `MCTzng.cfg` | NoSilentRecordLoss | violation | A failed `N:` write makes Write return nil (writer.go:56): the copy succeeds and the record is missing. |

**Mutants.** Every property of a passing run has a mutant in PROJECT.json: a
plausible bug in the translated code, defined just before the definition it
replaces, which makes the property fail under the run's cfg. Examples:
- `copyChunksReset` drops the whole accumulation.
- `DeliverErrEnds` counts an error as end of stream, which takes the merge
  outside MergeAbstract.
- `ReadFileStops` ends the MultiReader at its first reader's end.
- `RewriteReplaceKeepSem` returns early, for input without timestamps, without
  releasing `wsem`, so a queued Clear waits for ever.
- `ReadWarningRetry` reads a failing file again after its warning.
- `FinishNoBatch` leaves the in-memory batch out of the merge.
- `syncInfoFileLast` writes the previous span.
- `CreateTmpNoTrunc` appends to an old temp file.

**Properties stated but in no run.** Each can be reproduced by adding it to
a cfg of its module.

| Property | What it shows when added to a cfg |
|---|---|
| `Merge!NoPanic` | A second `Done` panics (merge.go:89). Needs MaxDoneCalls 2. |
| `SortReader!StableOutput` | Equal timestamps leave out of input order once a spill happens (sort.go:100, combiner.go:49). |
| `SortReader!ReadReturns` | An Open error in `finish` is dropped (sort.go:74), so Read never returns. |
| `SortReader` with `TmpDirErrors = TRUE` | Violates OutputComplete: the spilled records are lost (sort.go:78). |
| `FileStore!SummaryCoversData` | `Summary`'s unlocked reads can pair a new file with an old span. |
| `Ingest!SpanTight` | Violated: `SetSpan` only grows, so a smaller second ingest leaves a span wider than its data (zng.go:128). |
| `Spaces!NamesIndexSpaces` | The same race as `MCSpaces.cfg`, seen one step earlier. |

`MCCompare.cfg` stops at the first disagreement. Patching the bool table
brings out three more:
- subnet `eql`/`neql` ignore the mask, and both compare `a.IP == b.IP`
  (compare.go:345);
- a count above 2^63 wraps through `int64()` (compare.go:117);
- `pattern * 1e9` overflows for time literals (compare.go:133).

## 4. Bounds and why they are enough

- **Overlap:** 3 chunks over timestamps 0..3 give every relative placement of
  three intervals: nested, adjacent, equal endpoints and disjoint. The
  filters contain everything, cut the middle, or cover one point. Chunk ids
  are symmetric.
- **Merge:** 2 parents with 2 batches each is the least that interleaves two
  runners with several batches per parent. MaxResults 4 lets the caller pull
  through every batch.
- **Sort:** 4 records in batches of 1 give 3 spill files and 3! Glob orders,
  with equal and distinct timestamps.
- **FileStore:** 2 clients is the least for Rewrite against Clear and
  Summary. Timestamps 0..2 include a record without a timestamp (0) and two
  distinct ones. One crash reaches every point between two file writes.
- **Ingest:** 2 transactions is the least for the CAS race. MaxOpenWarns 2
  with WarnCap 1 fills the warning channel, so `DrainWarning` blocks. The
  three inputs give:
  - two clean files one after the other, so a MultiReader that stopped
    early would lose the second;
  - a file with an untimed record;
  - two files, the second with two timestamps.
  With `failing` any subset of the files, a failing file sits before,
  after or between clean ones. Symmetry is not used because the run checks
  liveness.
- **Compare:**
  - 3-bit integers with Scale 2 reach overflow.
  - 2-bit addresses reach a masked subnet.
  - Strings of length 2 over 2 bytes give prefixes, substrings and ties.
- **Spaces:** the race needs 2 handlers, 3 ids (the deleted space, then two
  creations) and 1 name. 2 names allow renames. The run keeps `IOErrors`
  FALSE so that TLC reports the Delete race. With `IOErrors = TRUE` and one
  handler, the same invariant fails across `Restart` in four states. One
  way: two `Create`s of one name both fail in `loadSpaces`, and the restart
  loads both configs. The other: a restart that cannot read a config frees
  its name for a new space, and the next restart loads both.
- **Tzng:** 3 records of 2 types, one with an alias. That gives a new type
  with an alias, a new type without one, and a repeat. One failed write is
  enough: the copy loop stops at the first returned error.

## 5. Fairness

Go schedules every runnable goroutine, so each goroutine's steps are weakly
fair:
- the runners and Pull's receive in Merge;
- the run goroutine and CopyWithContext's loop in SortReader;
- a call already in progress in FileStore;
- the ingest goroutine and the warning consumer in Ingest.

Ingest's liveness property, `TxnCompletes`, rests on this fairness. It
also rests on the consumer reading `Warning()`, which the HTTP handler does
while the ingest runs.

Starting an operation (`CallPull`, `Done`, `RewriteStart`, `ClearStart`,
`NewLogTransaction`), cancelling a context and crashing carry no fairness.
Nobody is obliged to do them. A liveness failure is therefore a real hang,
not a lazy caller. Spaces and Tzng check only safety and have no fairness.

## 6. Not modelled

`components` in PROJECT.json gives the status of every part and the reason.
The parts left out:
- the escape decoders;
- the zng value and type code outside what compare.go uses;
- the zql parser's AST constructors;
- the reducers;
- zdx and microindex;
- the emitter;
- the S3 and mock I/O sources;
- the API unpacking;
- the CLI commands;
- the Python binding;
- ztest.

They hold no state that interleaves, and what they compute is encoding or
formatting. The one known defect among them is `parseBstringEscape`, which
accepts `\xHH` when either digit is hex (escape.go:60). It is listed as a
hazard.

## 7. Plan

1. `parseBstringEscape` and `UnescapeBstring` as RECURSIVE operators, checked
   against a reference decoder.
2. Byte accounting in the ingest (`Status`, `Write`). The bytes the
   detector reads from a file it rejects count in `bytesRead` but not in
   `bytesTotal` (log.go:72). This is listed as a hazard; checking it needs
   byte counters in Ingest.tla.
