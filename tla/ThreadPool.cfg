\* Two threads, two clients as in the NOTE of thread_pool.rb, and more jobs than
\* threads, so that clients block and the queue backs up.  The pool stops for
\* good once it is shut down.
CONSTANTS
    Threads = {t1, t2}
    Clients = {c1, c2}
    Jobs = {j1, j2, j3, j4}
    Exit = exit
SPECIFICATION FairSpec
CHECK_DEADLOCK FALSE
INVARIANTS
    TypeOK
    CounterIsExact
    BacklogBound
    SomeoneAwake
    DrainedAtShutdown
PROPERTIES
    NoStartAfterExit
    JobsRun
    ShutdownReturns
    BlockedIsAdmitted
