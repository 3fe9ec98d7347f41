CONSTANTS
    w1 = w1
    w2 = w2
    w3 = w3
    w4 = w4
    n1 = n1
    n2 = n2
    n3 = n3
    x1 = x1
    x2 = x2
    nullptr = nullptr
    Waiter <- OneWaiter
    Notifier <- OneRound
    Context <- MCContext
    home <- MCHome
    Later = {}
SPECIFICATION WgSpec
INVARIANTS
    AllReleased
