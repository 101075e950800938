CONSTANTS
    EOS = EOS
    ERR = ERR
    NONE = NONE
    TsValues = {1, 2}
    Desc = TRUE
    MaxRecords = 4
    BatchSize = 1
    IOErrors = FALSE
    TmpDirErrors = FALSE
    Cancellation = TRUE
SPECIFICATION Spec
PROPERTY SpillDirRemoved
\* The sort ends: the goroutine returns and the consumer stops reading.
CHECK_DEADLOCK FALSE
