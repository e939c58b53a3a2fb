SPECIFICATION Spec
CONSTANTS
    t1 = t1
    t2 = t2
    Threads <- MCThreads
    Workload <- MCWorkload
INVARIANTS
    TypeOK
    NothingDropped
PROPERTIES
    IsRemoteCall
    CallReturns
