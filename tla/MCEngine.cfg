CONSTANTS
    a = a
    b = b
    c = c
    d = d
    worker = worker
    outside = outside
    none = none
    Task <- MCTask
    Apps <- MCApps
    kMaxRecursiveDepth = 1
    task_flag = 8
    CqeSpan = 8
    EfdMax = 30
SPECIFICATION Spec
INVARIANTS
    EngineTypeOK
    IoAccounting
    IoResumesOnce
    
    EngineSleeperIsWoken
    ExceptionsReachCallers
PROPERTIES
    TasksEnd
