CONSTANTS
    w1 = w1
    w2 = w2
    w3 = w3
    n1 = n1
    n2 = n2
    x1 = x1
    x2 = x2
    nullptr = nullptr
    set = set
    no_latch = no_latch
    MaxCount = 2
    Waiter <- MCWaiter
    Notifier <- MCNotifier
    Context <- MCContext
    home <- MCHome
SPECIFICATION FairSpec
INVARIANTS
    WaitTaskCount
    
    PassesOnlyWhenSet
    OnlyWalkLoses
PROPERTIES
    EveryoneReleased
