\* TERM or INT in the middle of the start or later, while a thread of the
\* program may stop the worker as well.
CONSTANTS
    N = 2
    PoolSize = 2
    Callers = {"signal", "thread"}
    MaxStops = 2
    MaxTasks = 3
SPECIFICATION MCFairSpec
INVARIANTS
    TypeOK
    EndIsDrained
    StoppedIsDrained
PROPERTIES
    NoPollAfterStop
    StopEnds
    StartEnds
