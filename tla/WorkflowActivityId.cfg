\* An activity with an id of its own.
CONSTANTS
    CustomId = billing
    Slots <- MCSlots
    MaxEventId = 30
    SideEffectValues = {1, 2}
    Programs <- NamedActivityOnly
    Upgrades = {}
    Reports = {"ActivityTaskCompleted", "ActivityTaskFailed"}
    MaxSignals = 0
    MaxFailures = 1
    MAX_FAILED_ATTEMPTS = 2
SPECIFICATION MCSpec
CHECK_DEADLOCK FALSE
INVARIANTS
    ReplayNeverFails
