CONSTANTS
    a = a
    b = b
    c = c
    d = d
    e = e
    main = main
    none = none
    m_ctx_cnt = 3
    Task <- MCTasks
    Apps <- MCApps
SPECIFICATION FairSpec
INVARIANTS
    SubmitAssertion
    TokenAccounting
    OneHandlePerTask
    SleeperIsWoken
    BatchIsQueued
    StopOnlyWhenDone

    
