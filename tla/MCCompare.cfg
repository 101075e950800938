CONSTANTS
    Width = 3
    Scale = 2
    AddrBits = 2
    MaxPort = 3
    Bytes = {1, 2}
    MaxStrLen = 2
    MaxElems = 2
SPECIFICATION Spec
INVARIANT PredicateMatchesReference
\* A comparison is evaluated once per value: there is no next step.
CHECK_DEADLOCK FALSE
