CONSTANTS
    s1 = s1
    s2 = s2
    c1 = c1
    c2 = c2
    server = server
    client = client
    echo = echo
    stdin = stdin
    null = null
    none = none
    Session <- MCSession
    Ctx <- MCCtx
    File <- MCFile
    FD <- MCFD
    Apps <- MCApps
    kFixFdArraySize = 1
SPECIFICATION Spec
INVARIANTS
    SlotsConserved
    OwnSocket
    CloseSucceeds
PROPERTIES
    SessionsEnd
