CONSTANTS
    c1 = c1
    c2 = c2
    s1 = s1
    s2 = s2
    s3 = s3
    n1 = n1
    n2 = n2
    NONE = NONE
    Clients <- MCClients
    Ids <- MCIds
    Names <- MCNames
    InitSpaces = 1
    IOErrors = FALSE
SPECIFICATION Spec
INVARIANT UniqueNames
