CONSTANTS
    EOS = EOS
    ERR = ERR
    NONE = NONE
    TsValues = {1, 2}
    Desc = TRUE
    MaxRecords = 4
    BatchSize = 1
    IOErrors = TRUE
    TmpDirErrors = FALSE
    Cancellation = TRUE
SPECIFICATION Spec
INVARIANT OutputSorted
INVARIANT OutputComplete
PROPERTY TempDirRemovedUnlessCancelled
\* The sort ends: the goroutine returns and the consumer stops reading.
CHECK_DEADLOCK FALSE
