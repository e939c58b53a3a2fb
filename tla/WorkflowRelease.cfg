\* A release is deployed at any moment of a running workflow; sagas are rolled
\* back.
CONSTANTS
    Slots <- MCSlots
    MaxEventId = 60
    SideEffectValues = {1, 2}
    Programs <- ReleasedPrograms
    Upgrades <- ReleaseUpgrades
    Reports = {"ActivityTaskCompleted", "ActivityTaskFailed"}
    MaxSignals = 0
    MaxFailures = 2
    MAX_FAILED_ATTEMPTS = 2
SPECIFICATION MCSpec
INVARIANTS
    ReplayNeverFails
    ReleaseConsistent
    SagaUndone
