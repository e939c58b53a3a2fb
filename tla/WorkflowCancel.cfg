\* Programs that cancel, start children and close in their own way, and all
\* that the service can report of a child.
\* Code may wait for what it has canceled or what was terminated, and then
\* rests for good.
CONSTANTS
    Slots <- MCSlots
    MaxEventId = 30
    SideEffectValues = {1, 2}
    Programs <- CancelingPrograms
    Upgrades = {}
    Reports = {"ActivityTaskCompleted", "ActivityTaskFailed", "ActivityTaskTimedOut", "ActivityTaskCanceled",
               "StartChildWorkflowExecutionFailed", "ChildWorkflowExecutionStarted",
               "ChildWorkflowExecutionCompleted", "ChildWorkflowExecutionFailed",
               "ChildWorkflowExecutionCanceled", "ChildWorkflowExecutionTimedOut",
               "ChildWorkflowExecutionTerminated", "WorkflowExecutionCancelRequested"}
    MaxSignals = 1
    MaxFailures = 1
    MAX_FAILED_ATTEMPTS = 1
SPECIFICATION MCSpec
CHECK_DEADLOCK FALSE
INVARIANTS
    ReplayNeverFails
    SettledOnce
    CloseIsLast
    FuturesAgree
