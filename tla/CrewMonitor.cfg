\* Three workers that start, end and die in any order, and two signals.
\* The parent ends, and children that outlive it rest.
CONSTANTS
    crew_size = 3
    MaxSignals = 2
SPECIFICATION FairSpec
CHECK_DEADLOCK FALSE
INVARIANTS
    TypeOK
    FinishedMeansGone
    NoneForgotten
PROPERTIES
    MonitorEnds
