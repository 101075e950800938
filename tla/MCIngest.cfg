CONSTANTS
    Txns <- MCTxns
    Inputs <- MCInputs
    x1 = x1
    x2 = x2
    MaxTs = 2
    MaxOpenWarns = 2
    WarnCap = 1
    IOErrors = TRUE
    NoFile = NoFile
SPECIFICATION Spec
INVARIANT TypeOK
INVARIANT DataFromOneWrite
INVARIANT SpanCoversData
INVARIANT CleanFilesIngested
PROPERTY TxnCompletes
CHECK_DEADLOCK FALSE
