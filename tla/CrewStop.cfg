\* A signal while the crew is being dispatched.
CONSTANTS
    crew_size = 2
    MaxSignals = 1
SPECIFICATION FairSpec
CHECK_DEADLOCK FALSE
PROPERTIES
    StopStopsWorkers
