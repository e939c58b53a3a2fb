\* Code that waits for all it starts; two failed, lost or timed-out
\* tasks, of which the second may be one the worker gives up on.
CONSTANTS
    Slots <- MCSlots
    MaxEventId = 30
    SideEffectValues = {1, 2}
    Programs <- LivePrograms
    Upgrades = {}
    Reports = {"ActivityTaskCompleted", "ActivityTaskFailed",
               "ChildWorkflowExecutionCompleted"}
    MaxSignals = 0
    MaxFailures = 2
    MAX_FAILED_ATTEMPTS = 1
SPECIFICATION FairSpec
CHECK_DEADLOCK FALSE
PROPERTIES
    WorkflowCloses
