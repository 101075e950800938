CONSTANTS
    p1 = p1
    p2 = p2
    EOS = EOS
    ERR = ERR
    Parents <- MCParents
    MaxBatches = 2
    MaxResults = 4
    MaxDoneCalls = 1
SPECIFICATION Spec
PROPERTY ImplementsAbstractMerge
PROPERTY PullReturns
PROPERTY NoRunnerLeak
\* The query ends: the caller stops pulling and every goroutine returns.
CHECK_DEADLOCK FALSE
