CONSTANTS
    t1 = t1
    t2 = t2
    a1 = a1
    Types <- MCTypes
    Aliases <- MCAliases
    TypeAliases <- MCTypeAliases
    MaxRecords = 3
    WriteErrors = TRUE
    MaxErrors = 1
SPECIFICATION Spec
INVARIANT NoSilentRecordLoss
\* The copy loop returns after its last record or its first error.
CHECK_DEADLOCK FALSE
