CONSTANTS
    a = a
    b = b
    c = c
    d = d
    e = e
    main = main
    none = none
    m_ctx_cnt = 2
    Task <- MCTask
    Apps <- DerivedApp
SPECIFICATION Spec
INVARIANTS
    LoopRunsEverything
