\* examples/workflows/cancelling_timer_workflow.rb, with nothing lost.
CONSTANTS
    Slots <- MCSlots
    MaxEventId = 30
    SideEffectValues = {1, 2}
    Programs <- CancellingTimerOnly
    Upgrades = {}
    Reports = {"ActivityTaskCompleted", "ActivityTaskFailed"}
    MaxSignals = 0
    MaxFailures = 1
    MAX_FAILED_ATTEMPTS = 2
SPECIFICATION MCSpec
CHECK_DEADLOCK FALSE
INVARIANTS
    NeverAborts
