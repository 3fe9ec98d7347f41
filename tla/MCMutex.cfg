CONSTANTS
    c1 = c1
    c2 = c2
    c3 = c3
    x1 = x1
    x2 = x2
    nullptr = nullptr
    nolocked = nolocked
    Coro <- MCCoro
    Context <- MCContext
    home <- MCHome
SPECIFICATION FairSpec
INVARIANTS
    TypeOK
    MutualExclusion
    UnlockAssertions
    WaitTaskCount
    FreeIffUnowned
    ListsHoldWaiters
PROPERTIES
    SuspendedGetsLock
    ImplementsFifoLock
