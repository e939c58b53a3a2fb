\* Every program of three phrases; one signal, one lost or timed-out task.
\* Code may wait for a timer it has canceled, and then rests for good.
CONSTANTS
    Slots <- MCSlots
    MaxEventId = 40
    SideEffectValues = {1, 2}
    Programs <- SmallPrograms
    Upgrades = {}
    Reports = {"ActivityTaskCompleted", "ActivityTaskFailed"}
    MaxSignals = 1
    MaxFailures = 1
    MAX_FAILED_ATTEMPTS = 2
SPECIFICATION MCSpec
CHECK_DEADLOCK FALSE
INVARIANTS
    TypeOK
    ReplayNeverFails
    ReplayReproduces
    PredictedIds
    NoFiberStranded
PROPERTIES
    IsDurable
