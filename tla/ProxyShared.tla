---------------------------- MODULE ProxyShared -----------------------------
(***************************************************************************)
(* The messages the proxy knows: the structs of proxy/gen/shared/shared.go *)
(* that a call of the WorkflowService can carry, each with its ToWire and  *)
(* FromWire.  Both go by one table: a field has an id and a Thrift type    *)
(* (an enum travels as an i32); ToWire writes the fields that are set, and *)
(* FromWire keeps a field whose id and type it knows and steps over any    *)
(* other.  Exceptions are structs whose fields are required, which the     *)
(* service sees to.  Comparison, printing and getters are left out.        *)
(***************************************************************************)
EXTENDS ThriftTypes

ActivityTaskCancelRequestedEventAttributes ==
    [activityId |-> String(10), decisionTaskCompletedEventId |-> I64(20)]
ActivityTaskCanceledEventAttributes ==
    [details |-> Binary(10), latestCancelRequestedEventId |-> I64(20),
     scheduledEventId |-> I64(30), startedEventId |-> I64(40), identity |-> String(50)]
ActivityTaskCompletedEventAttributes ==
    [result |-> Binary(10), scheduledEventId |-> I64(20), startedEventId |-> I64(30),
     identity |-> String(40)]
ActivityTaskFailedEventAttributes ==
    [reason |-> String(10), details |-> Binary(20), scheduledEventId |-> I64(30),
     startedEventId |-> I64(40), identity |-> String(50)]
ActivityTaskScheduledEventAttributes ==
    [activityId |-> String(10), activityType |-> Struct(20, "ActivityType"),
     domain |-> String(25), taskList |-> Struct(30, "TaskList"), input |-> Binary(40),
     scheduleToCloseTimeoutSeconds |-> I32(45), scheduleToStartTimeoutSeconds |-> I32(50),
     startToCloseTimeoutSeconds |-> I32(55), heartbeatTimeoutSeconds |-> I32(60),
     decisionTaskCompletedEventId |-> I64(90), retryPolicy |-> Struct(110, "RetryPolicy"),
     header |-> Struct(120, "Header")]
ActivityTaskStartedEventAttributes ==
    [scheduledEventId |-> I64(10), identity |-> String(20), requestId |-> String(30),
     attempt |-> I32(40)]
ActivityTaskTimedOutEventAttributes ==
    [details |-> Binary(5), scheduledEventId |-> I64(10), startedEventId |-> I64(20),
     timeoutType |-> I32(30)]
ActivityType == [name |-> String(10)]
BadBinaries == [binaries |-> Map(10, "BadBinaryInfo")]
BadBinaryInfo == [reason |-> String(10), operator |-> String(20), createdTimeNano |-> I64(30)]
BadRequestError == [message |-> String(1)]
CancelTimerDecisionAttributes == [timerId |-> String(10)]
CancelTimerFailedEventAttributes ==
    [timerId |-> String(10), cause |-> String(20), decisionTaskCompletedEventId |-> I64(30),
     identity |-> String(40)]
CancelWorkflowExecutionDecisionAttributes == [details |-> Binary(10)]
CancellationAlreadyRequestedError == [message |-> String(1)]
ChildWorkflowExecutionCanceledEventAttributes ==
    [details |-> Binary(10), domain |-> String(20),
     workflowExecution |-> Struct(30, "WorkflowExecution"),
     workflowType |-> Struct(40, "WorkflowType"), initiatedEventId |-> I64(50),
     startedEventId |-> I64(60)]
ChildWorkflowExecutionCompletedEventAttributes ==
    [result |-> Binary(10), domain |-> String(20),
     workflowExecution |-> Struct(30, "WorkflowExecution"),
     workflowType |-> Struct(40, "WorkflowType"), initiatedEventId |-> I64(50),
     startedEventId |-> I64(60)]
ChildWorkflowExecutionFailedEventAttributes ==
    [reason |-> String(10), details |-> Binary(20), domain |-> String(30),
     workflowExecution |-> Struct(40, "WorkflowExecution"),
     workflowType |-> Struct(50, "WorkflowType"), initiatedEventId |-> I64(60),
     startedEventId |-> I64(70)]
ChildWorkflowExecutionStartedEventAttributes ==
    [domain |-> String(10), initiatedEventId |-> I64(20),
     workflowExecution |-> Struct(30, "WorkflowExecution"),
     workflowType |-> Struct(40, "WorkflowType"), header |-> Struct(50, "Header")]
ChildWorkflowExecutionTerminatedEventAttributes ==
    [domain |-> String(10), workflowExecution |-> Struct(20, "WorkflowExecution"),
     workflowType |-> Struct(30, "WorkflowType"), initiatedEventId |-> I64(40),
     startedEventId |-> I64(50)]
ChildWorkflowExecutionTimedOutEventAttributes ==
    [timeoutType |-> I32(10), domain |-> String(20),
     workflowExecution |-> Struct(30, "WorkflowExecution"),
     workflowType |-> Struct(40, "WorkflowType"), initiatedEventId |-> I64(50),
     startedEventId |-> I64(60)]
ClientVersionNotSupportedError ==
    [featureVersion |-> String(1), clientImpl |-> String(2), supportedVersions |-> String(3)]
ClusterReplicationConfiguration == [clusterName |-> String(10)]
CompleteWorkflowExecutionDecisionAttributes == [result |-> Binary(10)]
ContinueAsNewWorkflowExecutionDecisionAttributes ==
    [workflowType |-> Struct(10, "WorkflowType"), taskList |-> Struct(20, "TaskList"),
     input |-> Binary(30), executionStartToCloseTimeoutSeconds |-> I32(40),
     taskStartToCloseTimeoutSeconds |-> I32(50), backoffStartIntervalInSeconds |-> I32(60),
     retryPolicy |-> Struct(70, "RetryPolicy"), initiator |-> I32(80),
     failureReason |-> String(90), failureDetails |-> Binary(100),
     lastCompletionResult |-> Binary(110), cronSchedule |-> String(120),
     header |-> Struct(130, "Header"), memo |-> Struct(140, "Memo"),
     searchAttributes |-> Struct(150, "SearchAttributes")]
CountWorkflowExecutionsRequest == [domain |-> String(10), query |-> String(20)]
CountWorkflowExecutionsResponse == [count |-> I64(10)]
Decision ==
    [decisionType |-> I32(10),
     scheduleActivityTaskDecisionAttributes |-> Struct(20, "ScheduleActivityTaskDecisionAttributes"),
     startTimerDecisionAttributes |-> Struct(25, "StartTimerDecisionAttributes"),
     completeWorkflowExecutionDecisionAttributes |-> Struct(30, "CompleteWorkflowExecutionDecisionAttributes"),
     failWorkflowExecutionDecisionAttributes |-> Struct(35, "FailWorkflowExecutionDecisionAttributes"),
     requestCancelActivityTaskDecisionAttributes |-> Struct(40, "RequestCancelActivityTaskDecisionAttributes"),
     cancelTimerDecisionAttributes |-> Struct(50, "CancelTimerDecisionAttributes"),
     cancelWorkflowExecutionDecisionAttributes |-> Struct(60, "CancelWorkflowExecutionDecisionAttributes"),
     requestCancelExternalWorkflowExecutionDecisionAttributes |-> Struct(70, "RequestCancelExternalWorkflowExecutionDecisionAttributes"),
     recordMarkerDecisionAttributes |-> Struct(80, "RecordMarkerDecisionAttributes"),
     continueAsNewWorkflowExecutionDecisionAttributes |-> Struct(90, "ContinueAsNewWorkflowExecutionDecisionAttributes"),
     startChildWorkflowExecutionDecisionAttributes |-> Struct(100, "StartChildWorkflowExecutionDecisionAttributes"),
     signalExternalWorkflowExecutionDecisionAttributes |-> Struct(110, "SignalExternalWorkflowExecutionDecisionAttributes"),
     upsertWorkflowSearchAttributesDecisionAttributes |-> Struct(120, "UpsertWorkflowSearchAttributesDecisionAttributes")]
DecisionTaskCompletedEventAttributes ==
    [executionContext |-> Binary(10), scheduledEventId |-> I64(20), startedEventId |-> I64(30),
     identity |-> String(40), binaryChecksum |-> String(50)]
DecisionTaskFailedEventAttributes ==
    [scheduledEventId |-> I64(10), startedEventId |-> I64(20), cause |-> I32(30),
     details |-> Binary(35), identity |-> String(40), reason |-> String(50),
     baseRunId |-> String(60), newRunId |-> String(70), forkEventVersion |-> I64(80)]
DecisionTaskScheduledEventAttributes ==
    [taskList |-> Struct(10, "TaskList"), startToCloseTimeoutSeconds |-> I32(20),
     attempt |-> I64(30)]
DecisionTaskStartedEventAttributes ==
    [scheduledEventId |-> I64(10), identity |-> String(20), requestId |-> String(30)]
DecisionTaskTimedOutEventAttributes ==
    [scheduledEventId |-> I64(10), startedEventId |-> I64(20), timeoutType |-> I32(30)]
DeprecateDomainRequest == [name |-> String(10), securityToken |-> String(20)]
DescribeDomainRequest == [name |-> String(10), uuid |-> String(20)]
DescribeDomainResponse ==
    [domainInfo |-> Struct(10, "DomainInfo"),
     configuration |-> Struct(20, "DomainConfiguration"),
     replicationConfiguration |-> Struct(30, "DomainReplicationConfiguration"),
     failoverVersion |-> I64(40), isGlobalDomain |-> Bool(50)]
DescribeTaskListRequest ==
    [domain |-> String(10), taskList |-> Struct(20, "TaskList"), taskListType |-> I32(30),
     includeTaskListStatus |-> Bool(40)]
DescribeTaskListResponse ==
    [pollers |-> List(10, "PollerInfo"), taskListStatus |-> Struct(20, "TaskListStatus")]
DescribeWorkflowExecutionRequest ==
    [domain |-> String(10), execution |-> Struct(20, "WorkflowExecution")]
DescribeWorkflowExecutionResponse ==
    [executionConfiguration |-> Struct(10, "WorkflowExecutionConfiguration"),
     workflowExecutionInfo |-> Struct(20, "WorkflowExecutionInfo"),
     pendingActivities |-> List(30, "PendingActivityInfo"),
     pendingChildren |-> List(40, "PendingChildExecutionInfo")]
DomainAlreadyExistsError == [message |-> String(1)]
DomainConfiguration ==
    [workflowExecutionRetentionPeriodInDays |-> I32(10), emitMetric |-> Bool(20),
     badBinaries |-> Struct(70, "BadBinaries"), historyArchivalStatus |-> I32(80),
     historyArchivalURI |-> String(90), visibilityArchivalStatus |-> I32(100),
     visibilityArchivalURI |-> String(110)]
DomainInfo ==
    [name |-> String(10), status |-> I32(20), description |-> String(30),
     ownerEmail |-> String(40), data |-> Map(50, "string"), uuid |-> String(60)]
DomainNotActiveError ==
    [message |-> String(1), domainName |-> String(2), currentCluster |-> String(3),
     activeCluster |-> String(4)]
DomainReplicationConfiguration ==
    [activeClusterName |-> String(10), clusters |-> List(20, "ClusterReplicationConfiguration")]
EntityNotExistsError == [message |-> String(1)]
ExternalWorkflowExecutionCancelRequestedEventAttributes ==
    [initiatedEventId |-> I64(10), domain |-> String(20),
     workflowExecution |-> Struct(30, "WorkflowExecution")]
ExternalWorkflowExecutionSignaledEventAttributes ==
    [initiatedEventId |-> I64(10), domain |-> String(20),
     workflowExecution |-> Struct(30, "WorkflowExecution"), control |-> Binary(40)]
FailWorkflowExecutionDecisionAttributes == [reason |-> String(10), details |-> Binary(20)]
GetSearchAttributesResponse == [keys |-> Map(10, "i32")]
GetWorkflowExecutionHistoryRequest ==
    [domain |-> String(10), execution |-> Struct(20, "WorkflowExecution"),
     maximumPageSize |-> I32(30), nextPageToken |-> Binary(40), waitForNewEvent |-> Bool(50),
     HistoryEventFilterType |-> I32(60)]
GetWorkflowExecutionHistoryResponse ==
    [history |-> Struct(10, "History"), nextPageToken |-> Binary(20), archived |-> Bool(30)]

Header_Renumbered == [fields |-> Map(20, "binary")]

Header == [fields |-> Map(10, "binary")]

History == [events |-> List(10, "HistoryEvent")]
HistoryEvent ==
    [eventId |-> I64(10), timestamp |-> I64(20), eventType |-> I32(30), version |-> I64(35),
     taskId |-> I64(36),
     workflowExecutionStartedEventAttributes |-> Struct(40, "WorkflowExecutionStartedEventAttributes"),
     workflowExecutionCompletedEventAttributes |-> Struct(50, "WorkflowExecutionCompletedEventAttributes"),
     workflowExecutionFailedEventAttributes |-> Struct(60, "WorkflowExecutionFailedEventAttributes"),
     workflowExecutionTimedOutEventAttributes |-> Struct(70, "WorkflowExecutionTimedOutEventAttributes"),
     decisionTaskScheduledEventAttributes |-> Struct(80, "DecisionTaskScheduledEventAttributes"),
     decisionTaskStartedEventAttributes |-> Struct(90, "DecisionTaskStartedEventAttributes"),
     decisionTaskCompletedEventAttributes |-> Struct(100, "DecisionTaskCompletedEventAttributes"),
     decisionTaskTimedOutEventAttributes |-> Struct(110, "DecisionTaskTimedOutEventAttributes"),
     decisionTaskFailedEventAttributes |-> Struct(120, "DecisionTaskFailedEventAttributes"),
     activityTaskScheduledEventAttributes |-> Struct(130, "ActivityTaskScheduledEventAttributes"),
     activityTaskStartedEventAttributes |-> Struct(140, "ActivityTaskStartedEventAttributes"),
     activityTaskCompletedEventAttributes |-> Struct(150, "ActivityTaskCompletedEventAttributes"),
     activityTaskFailedEventAttributes |-> Struct(160, "ActivityTaskFailedEventAttributes"),
     activityTaskTimedOutEventAttributes |-> Struct(170, "ActivityTaskTimedOutEventAttributes"),
     timerStartedEventAttributes |-> Struct(180, "TimerStartedEventAttributes"),
     timerFiredEventAttributes |-> Struct(190, "TimerFiredEventAttributes"),
     activityTaskCancelRequestedEventAttributes |-> Struct(200, "ActivityTaskCancelRequestedEventAttributes"),
     requestCancelActivityTaskFailedEventAttributes |-> Struct(210, "RequestCancelActivityTaskFailedEventAttributes"),
     activityTaskCanceledEventAttributes |-> Struct(220, "ActivityTaskCanceledEventAttributes"),
     timerCanceledEventAttributes |-> Struct(230, "TimerCanceledEventAttributes"),
     cancelTimerFailedEventAttributes |-> Struct(240, "CancelTimerFailedEventAttributes"),
     markerRecordedEventAttributes |-> Struct(250, "MarkerRecordedEventAttributes"),
     workflowExecutionSignaledEventAttributes |-> Struct(260, "WorkflowExecutionSignaledEventAttributes"),
     workflowExecutionTerminatedEventAttributes |-> Struct(270, "WorkflowExecutionTerminatedEventAttributes"),
     workflowExecutionCancelRequestedEventAttributes |-> Struct(280, "WorkflowExecutionCancelRequestedEventAttributes"),
     workflowExecutionCanceledEventAttributes |-> Struct(290, "WorkflowExecutionCanceledEventAttributes"),
     requestCancelExternalWorkflowExecutionInitiatedEventAttributes |-> Struct(300, "RequestCancelExternalWorkflowExecutionInitiatedEventAttributes"),
     requestCancelExternalWorkflowExecutionFailedEventAttributes |-> Struct(310, "RequestCancelExternalWorkflowExecutionFailedEventAttributes"),
     externalWorkflowExecutionCancelRequestedEventAttributes |-> Struct(320, "ExternalWorkflowExecutionCancelRequestedEventAttributes"),
     workflowExecutionContinuedAsNewEventAttributes |-> Struct(330, "WorkflowExecutionContinuedAsNewEventAttributes"),
     startChildWorkflowExecutionInitiatedEventAttributes |-> Struct(340, "StartChildWorkflowExecutionInitiatedEventAttributes"),
     startChildWorkflowExecutionFailedEventAttributes |-> Struct(350, "StartChildWorkflowExecutionFailedEventAttributes"),
     childWorkflowExecutionStartedEventAttributes |-> Struct(360, "ChildWorkflowExecutionStartedEventAttributes"),
     childWorkflowExecutionCompletedEventAttributes |-> Struct(370, "ChildWorkflowExecutionCompletedEventAttributes"),
     childWorkflowExecutionFailedEventAttributes |-> Struct(380, "ChildWorkflowExecutionFailedEventAttributes"),
     childWorkflowExecutionCanceledEventAttributes |-> Struct(390, "ChildWorkflowExecutionCanceledEventAttributes"),
     childWorkflowExecutionTimedOutEventAttributes |-> Struct(400, "ChildWorkflowExecutionTimedOutEventAttributes"),
     childWorkflowExecutionTerminatedEventAttributes |-> Struct(410, "ChildWorkflowExecutionTerminatedEventAttributes"),
     signalExternalWorkflowExecutionInitiatedEventAttributes |-> Struct(420, "SignalExternalWorkflowExecutionInitiatedEventAttributes"),
     signalExternalWorkflowExecutionFailedEventAttributes |-> Struct(430, "SignalExternalWorkflowExecutionFailedEventAttributes"),
     externalWorkflowExecutionSignaledEventAttributes |-> Struct(440, "ExternalWorkflowExecutionSignaledEventAttributes"),
     upsertWorkflowSearchAttributesEventAttributes |-> Struct(450, "UpsertWorkflowSearchAttributesEventAttributes")]
InternalServiceError == [message |-> String(1)]
LimitExceededError == [message |-> String(1)]
ListArchivedWorkflowExecutionsRequest ==
    [domain |-> String(10), pageSize |-> I32(20), nextPageToken |-> Binary(30),
     query |-> String(40)]
ListArchivedWorkflowExecutionsResponse ==
    [executions |-> List(10, "WorkflowExecutionInfo"), nextPageToken |-> Binary(20)]
ListClosedWorkflowExecutionsRequest ==
    [domain |-> String(10), maximumPageSize |-> I32(20), nextPageToken |-> Binary(30),
     StartTimeFilter |-> Struct(40, "StartTimeFilter"),
     executionFilter |-> Struct(50, "WorkflowExecutionFilter"),
     typeFilter |-> Struct(60, "WorkflowTypeFilter"), statusFilter |-> I32(70)]
ListClosedWorkflowExecutionsResponse ==
    [executions |-> List(10, "WorkflowExecutionInfo"), nextPageToken |-> Binary(20)]
ListDomainsRequest == [pageSize |-> I32(10), nextPageToken |-> Binary(20)]
ListDomainsResponse ==
    [domains |-> List(10, "DescribeDomainResponse"), nextPageToken |-> Binary(20)]
ListOpenWorkflowExecutionsRequest ==
    [domain |-> String(10), maximumPageSize |-> I32(20), nextPageToken |-> Binary(30),
     StartTimeFilter |-> Struct(40, "StartTimeFilter"),
     executionFilter |-> Struct(50, "WorkflowExecutionFilter"),
     typeFilter |-> Struct(60, "WorkflowTypeFilter")]
ListOpenWorkflowExecutionsResponse ==
    [executions |-> List(10, "WorkflowExecutionInfo"), nextPageToken |-> Binary(20)]
ListWorkflowExecutionsRequest ==
    [domain |-> String(10), pageSize |-> I32(20), nextPageToken |-> Binary(30),
     query |-> String(40)]
ListWorkflowExecutionsResponse ==
    [executions |-> List(10, "WorkflowExecutionInfo"), nextPageToken |-> Binary(20)]
MarkerRecordedEventAttributes ==
    [markerName |-> String(10), details |-> Binary(20),
     decisionTaskCompletedEventId |-> I64(30), header |-> Struct(40, "Header")]
Memo == [fields |-> Map(10, "binary")]
PendingActivityInfo ==
    [activityID |-> String(10), activityType |-> Struct(20, "ActivityType"), state |-> I32(30),
     heartbeatDetails |-> Binary(40), lastHeartbeatTimestamp |-> I64(50),
     lastStartedTimestamp |-> I64(60), attempt |-> I32(70), maximumAttempts |-> I32(80),
     scheduledTimestamp |-> I64(90), expirationTimestamp |-> I64(100),
     lastFailureReason |-> String(110), lastWorkerIdentity |-> String(120),
     lastFailureDetails |-> Binary(130)]
PendingChildExecutionInfo ==
    [workflowID |-> String(10), runID |-> String(20), workflowTypName |-> String(30),
     initiatedID |-> I64(40), parentClosePolicy |-> I32(50)]
PollForActivityTaskRequest ==
    [domain |-> String(10), taskList |-> Struct(20, "TaskList"), identity |-> String(30),
     taskListMetadata |-> Struct(40, "TaskListMetadata")]
PollForActivityTaskResponse ==
    [taskToken |-> Binary(10), workflowExecution |-> Struct(20, "WorkflowExecution"),
     activityId |-> String(30), activityType |-> Struct(40, "ActivityType"),
     input |-> Binary(50), scheduledTimestamp |-> I64(70),
     scheduleToCloseTimeoutSeconds |-> I32(80), startedTimestamp |-> I64(90),
     startToCloseTimeoutSeconds |-> I32(100), heartbeatTimeoutSeconds |-> I32(110),
     attempt |-> I32(120), scheduledTimestampOfThisAttempt |-> I64(130),
     heartbeatDetails |-> Binary(140), workflowType |-> Struct(150, "WorkflowType"),
     workflowDomain |-> String(160), header |-> Struct(170, "Header")]
PollForDecisionTaskRequest ==
    [domain |-> String(10), taskList |-> Struct(20, "TaskList"), identity |-> String(30),
     binaryChecksum |-> String(40)]
PollForDecisionTaskResponse ==
    [taskToken |-> Binary(10), workflowExecution |-> Struct(20, "WorkflowExecution"),
     workflowType |-> Struct(30, "WorkflowType"), previousStartedEventId |-> I64(40),
     startedEventId |-> I64(50), attempt |-> I64(51), backlogCountHint |-> I64(54),
     history |-> Struct(60, "History"), nextPageToken |-> Binary(70),
     query |-> Struct(80, "WorkflowQuery"),
     WorkflowExecutionTaskList |-> Struct(90, "TaskList"), scheduledTimestamp |-> I64(100),
     startedTimestamp |-> I64(110), queries |-> List(120, "WorkflowQuery")]
PollerInfo ==
    [lastAccessTime |-> I64(10), identity |-> String(20), ratePerSecond |-> Double(30)]
QueryFailedError == [message |-> String(1)]
QueryRejected == [closeStatus |-> I32(10)]
QueryWorkflowRequest ==
    [domain |-> String(10), execution |-> Struct(20, "WorkflowExecution"),
     query |-> Struct(30, "WorkflowQuery"), queryRejectCondition |-> I32(40)]
QueryWorkflowResponse ==
    [queryResult |-> Binary(10), queryRejected |-> Struct(20, "QueryRejected")]
RecordActivityTaskHeartbeatByIDRequest ==
    [domain |-> String(10), workflowID |-> String(20), runID |-> String(30),
     activityID |-> String(40), details |-> Binary(50), identity |-> String(60)]
RecordActivityTaskHeartbeatRequest ==
    [taskToken |-> Binary(10), details |-> Binary(20), identity |-> String(30)]
RecordActivityTaskHeartbeatResponse == [cancelRequested |-> Bool(10)]
RecordMarkerDecisionAttributes ==
    [markerName |-> String(10), details |-> Binary(20), header |-> Struct(30, "Header")]
RegisterDomainRequest ==
    [name |-> String(10), description |-> String(20), ownerEmail |-> String(30),
     workflowExecutionRetentionPeriodInDays |-> I32(40), emitMetric |-> Bool(50),
     clusters |-> List(60, "ClusterReplicationConfiguration"), activeClusterName |-> String(70),
     data |-> Map(80, "string"), securityToken |-> String(90), isGlobalDomain |-> Bool(120),
     historyArchivalStatus |-> I32(130), historyArchivalURI |-> String(140),
     visibilityArchivalStatus |-> I32(150), visibilityArchivalURI |-> String(160)]
RequestCancelActivityTaskDecisionAttributes == [activityId |-> String(10)]
RequestCancelActivityTaskFailedEventAttributes ==
    [activityId |-> String(10), cause |-> String(20), decisionTaskCompletedEventId |-> I64(30)]
RequestCancelExternalWorkflowExecutionDecisionAttributes ==
    [domain |-> String(10), workflowId |-> String(20), runId |-> String(30),
     control |-> Binary(40), childWorkflowOnly |-> Bool(50)]
RequestCancelExternalWorkflowExecutionFailedEventAttributes ==
    [cause |-> I32(10), decisionTaskCompletedEventId |-> I64(20), domain |-> String(30),
     workflowExecution |-> Struct(40, "WorkflowExecution"), initiatedEventId |-> I64(50),
     control |-> Binary(60)]
RequestCancelExternalWorkflowExecutionInitiatedEventAttributes ==
    [decisionTaskCompletedEventId |-> I64(10), domain |-> String(20),
     workflowExecution |-> Struct(30, "WorkflowExecution"), control |-> Binary(40),
     childWorkflowOnly |-> Bool(50)]
RequestCancelWorkflowExecutionRequest ==
    [domain |-> String(10), workflowExecution |-> Struct(20, "WorkflowExecution"),
     identity |-> String(30), requestId |-> String(40)]
ResetPointInfo ==
    [binaryChecksum |-> String(10), runId |-> String(20), firstDecisionCompletedId |-> I64(30),
     createdTimeNano |-> I64(40), expiringTimeNano |-> I64(50), resettable |-> Bool(60)]
ResetPoints == [points |-> List(10, "ResetPointInfo")]
ResetStickyTaskListRequest ==
    [domain |-> String(10), execution |-> Struct(20, "WorkflowExecution")]
ResetStickyTaskListResponse == <<>>
ResetWorkflowExecutionRequest ==
    [domain |-> String(10), workflowExecution |-> Struct(20, "WorkflowExecution"),
     reason |-> String(30), decisionFinishEventId |-> I64(40), requestId |-> String(50)]
ResetWorkflowExecutionResponse == [runId |-> String(10)]
RespondActivityTaskCanceledByIDRequest ==
    [domain |-> String(10), workflowID |-> String(20), runID |-> String(30),
     activityID |-> String(40), details |-> Binary(50), identity |-> String(60)]
RespondActivityTaskCanceledRequest ==
    [taskToken |-> Binary(10), details |-> Binary(20), identity |-> String(30)]
RespondActivityTaskCompletedByIDRequest ==
    [domain |-> String(10), workflowID |-> String(20), runID |-> String(30),
     activityID |-> String(40), result |-> Binary(50), identity |-> String(60)]
RespondActivityTaskCompletedRequest ==
    [taskToken |-> Binary(10), result |-> Binary(20), identity |-> String(30)]
RespondActivityTaskFailedByIDRequest ==
    [domain |-> String(10), workflowID |-> String(20), runID |-> String(30),
     activityID |-> String(40), reason |-> String(50), details |-> Binary(60),
     identity |-> String(70)]
RespondActivityTaskFailedRequest ==
    [taskToken |-> Binary(10), reason |-> String(20), details |-> Binary(30),
     identity |-> String(40)]
RespondDecisionTaskCompletedRequest ==
    [taskToken |-> Binary(10), decisions |-> List(20, "Decision"),
     executionContext |-> Binary(30), identity |-> String(40),
     stickyAttributes |-> Struct(50, "StickyExecutionAttributes"),
     returnNewDecisionTask |-> Bool(60), forceCreateNewDecisionTask |-> Bool(70),
     binaryChecksum |-> String(80), queryResults |-> List(90, "WorkflowQueryResult")]
RespondDecisionTaskCompletedResponse ==
    [decisionTask |-> Struct(10, "PollForDecisionTaskResponse")]
RespondDecisionTaskFailedRequest ==
    [taskToken |-> Binary(10), cause |-> I32(20), details |-> Binary(30),
     identity |-> String(40)]
RespondQueryTaskCompletedRequest ==
    [taskToken |-> Binary(10), completedType |-> I32(20), queryResult |-> Binary(30),
     errorMessage |-> String(40)]
RetryPolicy ==
    [initialIntervalInSeconds |-> I32(10), backoffCoefficient |-> Double(20),
     maximumIntervalInSeconds |-> I32(30), maximumAttempts |-> I32(40),
     nonRetriableErrorReasons |-> List(50, "string"), expirationIntervalInSeconds |-> I32(60)]
ScheduleActivityTaskDecisionAttributes ==
    [activityId |-> String(10), activityType |-> Struct(20, "ActivityType"),
     domain |-> String(25), taskList |-> Struct(30, "TaskList"), input |-> Binary(40),
     scheduleToCloseTimeoutSeconds |-> I32(45), scheduleToStartTimeoutSeconds |-> I32(50),
     startToCloseTimeoutSeconds |-> I32(55), heartbeatTimeoutSeconds |-> I32(60),
     retryPolicy |-> Struct(70, "RetryPolicy"), header |-> Struct(80, "Header")]
SearchAttributes == [indexedFields |-> Map(10, "binary")]
ServiceBusyError == [message |-> String(1)]
SignalExternalWorkflowExecutionDecisionAttributes ==
    [domain |-> String(10), execution |-> Struct(20, "WorkflowExecution"),
     signalName |-> String(30), input |-> Binary(40), control |-> Binary(50),
     childWorkflowOnly |-> Bool(60)]
SignalExternalWorkflowExecutionFailedEventAttributes ==
    [cause |-> I32(10), decisionTaskCompletedEventId |-> I64(20), domain |-> String(30),
     workflowExecution |-> Struct(40, "WorkflowExecution"), initiatedEventId |-> I64(50),
     control |-> Binary(60)]
SignalExternalWorkflowExecutionInitiatedEventAttributes ==
    [decisionTaskCompletedEventId |-> I64(10), domain |-> String(20),
     workflowExecution |-> Struct(30, "WorkflowExecution"), signalName |-> String(40),
     input |-> Binary(50), control |-> Binary(60), childWorkflowOnly |-> Bool(70)]
SignalWithStartWorkflowExecutionRequest ==
    [domain |-> String(10), workflowId |-> String(20),
     workflowType |-> Struct(30, "WorkflowType"), taskList |-> Struct(40, "TaskList"),
     input |-> Binary(50), executionStartToCloseTimeoutSeconds |-> I32(60),
     taskStartToCloseTimeoutSeconds |-> I32(70), identity |-> String(80),
     requestId |-> String(90), workflowIdReusePolicy |-> I32(100), signalName |-> String(110),
     signalInput |-> Binary(120), control |-> Binary(130),
     retryPolicy |-> Struct(140, "RetryPolicy"), cronSchedule |-> String(150),
     memo |-> Struct(160, "Memo"), searchAttributes |-> Struct(161, "SearchAttributes"),
     header |-> Struct(170, "Header")]
SignalWorkflowExecutionRequest ==
    [domain |-> String(10), workflowExecution |-> Struct(20, "WorkflowExecution"),
     signalName |-> String(30), input |-> Binary(40), identity |-> String(50),
     requestId |-> String(60), control |-> Binary(70)]
StartChildWorkflowExecutionDecisionAttributes ==
    [domain |-> String(10), workflowId |-> String(20),
     workflowType |-> Struct(30, "WorkflowType"), taskList |-> Struct(40, "TaskList"),
     input |-> Binary(50), executionStartToCloseTimeoutSeconds |-> I32(60),
     taskStartToCloseTimeoutSeconds |-> I32(70), parentClosePolicy |-> I32(81),
     control |-> Binary(90), workflowIdReusePolicy |-> I32(100),
     retryPolicy |-> Struct(110, "RetryPolicy"), cronSchedule |-> String(120),
     header |-> Struct(130, "Header"), memo |-> Struct(140, "Memo"),
     searchAttributes |-> Struct(150, "SearchAttributes")]
StartChildWorkflowExecutionFailedEventAttributes ==
    [domain |-> String(10), workflowId |-> String(20),
     workflowType |-> Struct(30, "WorkflowType"), cause |-> I32(40), control |-> Binary(50),
     initiatedEventId |-> I64(60), decisionTaskCompletedEventId |-> I64(70)]
StartChildWorkflowExecutionInitiatedEventAttributes ==
    [domain |-> String(10), workflowId |-> String(20),
     workflowType |-> Struct(30, "WorkflowType"), taskList |-> Struct(40, "TaskList"),
     input |-> Binary(50), executionStartToCloseTimeoutSeconds |-> I32(60),
     taskStartToCloseTimeoutSeconds |-> I32(70), parentClosePolicy |-> I32(81),
     control |-> Binary(90), decisionTaskCompletedEventId |-> I64(100),
     workflowIdReusePolicy |-> I32(110), retryPolicy |-> Struct(120, "RetryPolicy"),
     cronSchedule |-> String(130), header |-> Struct(140, "Header"),
     memo |-> Struct(150, "Memo"), searchAttributes |-> Struct(160, "SearchAttributes")]
StartTimeFilter == [earliestTime |-> I64(10), latestTime |-> I64(20)]
StartTimerDecisionAttributes == [timerId |-> String(10), startToFireTimeoutSeconds |-> I64(20)]
StartWorkflowExecutionRequest ==
    [domain |-> String(10), workflowId |-> String(20),
     workflowType |-> Struct(30, "WorkflowType"), taskList |-> Struct(40, "TaskList"),
     input |-> Binary(50), executionStartToCloseTimeoutSeconds |-> I32(60),
     taskStartToCloseTimeoutSeconds |-> I32(70), identity |-> String(80),
     requestId |-> String(90), workflowIdReusePolicy |-> I32(100),
     retryPolicy |-> Struct(120, "RetryPolicy"), cronSchedule |-> String(130),
     memo |-> Struct(140, "Memo"), searchAttributes |-> Struct(141, "SearchAttributes"),
     header |-> Struct(150, "Header")]
StartWorkflowExecutionResponse == [runId |-> String(10)]
StickyExecutionAttributes ==
    [workerTaskList |-> Struct(10, "TaskList"), scheduleToStartTimeoutSeconds |-> I32(20)]
TaskIDBlock == [startID |-> I64(10), endID |-> I64(20)]
TaskList == [name |-> String(10), kind |-> I32(20)]
TaskListMetadata == [maxTasksPerSecond |-> Double(10)]
TaskListStatus ==
    [backlogCountHint |-> I64(10), readLevel |-> I64(20), ackLevel |-> I64(30),
     ratePerSecond |-> Double(35), taskIDBlock |-> Struct(40, "TaskIDBlock")]
TerminateWorkflowExecutionRequest ==
    [domain |-> String(10), workflowExecution |-> Struct(20, "WorkflowExecution"),
     reason |-> String(30), details |-> Binary(40), identity |-> String(50)]
TimerCanceledEventAttributes ==
    [timerId |-> String(10), startedEventId |-> I64(20),
     decisionTaskCompletedEventId |-> I64(30), identity |-> String(40)]
TimerFiredEventAttributes == [timerId |-> String(10), startedEventId |-> I64(20)]
TimerStartedEventAttributes ==
    [timerId |-> String(10), startToFireTimeoutSeconds |-> I64(20),
     decisionTaskCompletedEventId |-> I64(30)]
UpdateDomainInfo ==
    [description |-> String(10), ownerEmail |-> String(20), data |-> Map(30, "string")]
UpdateDomainRequest ==
    [name |-> String(10), updatedInfo |-> Struct(20, "UpdateDomainInfo"),
     configuration |-> Struct(30, "DomainConfiguration"),
     replicationConfiguration |-> Struct(40, "DomainReplicationConfiguration"),
     securityToken |-> String(50), deleteBadBinary |-> String(60)]
UpdateDomainResponse ==
    [domainInfo |-> Struct(10, "DomainInfo"),
     configuration |-> Struct(20, "DomainConfiguration"),
     replicationConfiguration |-> Struct(30, "DomainReplicationConfiguration"),
     failoverVersion |-> I64(40), isGlobalDomain |-> Bool(50)]
UpsertWorkflowSearchAttributesDecisionAttributes ==
    [searchAttributes |-> Struct(10, "SearchAttributes")]
UpsertWorkflowSearchAttributesEventAttributes ==
    [decisionTaskCompletedEventId |-> I64(10),
     searchAttributes |-> Struct(20, "SearchAttributes")]
WorkflowExecution == [workflowId |-> String(10), runId |-> String(20)]
WorkflowExecutionAlreadyStartedError ==
    [message |-> String(10), startRequestId |-> String(20), runId |-> String(30)]
WorkflowExecutionCancelRequestedEventAttributes ==
    [cause |-> String(10), externalInitiatedEventId |-> I64(20),
     externalWorkflowExecution |-> Struct(30, "WorkflowExecution"), identity |-> String(40)]
WorkflowExecutionCanceledEventAttributes ==
    [decisionTaskCompletedEventId |-> I64(10), details |-> Binary(20)]
WorkflowExecutionCompletedEventAttributes ==
    [result |-> Binary(10), decisionTaskCompletedEventId |-> I64(20)]
WorkflowExecutionConfiguration ==
    [taskList |-> Struct(10, "TaskList"), executionStartToCloseTimeoutSeconds |-> I32(20),
     taskStartToCloseTimeoutSeconds |-> I32(30)]
WorkflowExecutionContinuedAsNewEventAttributes ==
    [newExecutionRunId |-> String(10), workflowType |-> Struct(20, "WorkflowType"),
     taskList |-> Struct(30, "TaskList"), input |-> Binary(40),
     executionStartToCloseTimeoutSeconds |-> I32(50),
     taskStartToCloseTimeoutSeconds |-> I32(60), decisionTaskCompletedEventId |-> I64(70),
     backoffStartIntervalInSeconds |-> I32(80), initiator |-> I32(90),
     failureReason |-> String(100), failureDetails |-> Binary(110),
     lastCompletionResult |-> Binary(120), header |-> Struct(130, "Header"),
     memo |-> Struct(140, "Memo"), searchAttributes |-> Struct(150, "SearchAttributes")]
WorkflowExecutionFailedEventAttributes ==
    [reason |-> String(10), details |-> Binary(20), decisionTaskCompletedEventId |-> I64(30)]
WorkflowExecutionFilter == [workflowId |-> String(10), runId |-> String(20)]
WorkflowExecutionInfo ==
    [execution |-> Struct(10, "WorkflowExecution"), type |-> Struct(20, "WorkflowType"),
     startTime |-> I64(30), closeTime |-> I64(40), closeStatus |-> I32(50),
     historyLength |-> I64(60), parentDomainId |-> String(70),
     parentExecution |-> Struct(80, "WorkflowExecution"), executionTime |-> I64(90),
     memo |-> Struct(100, "Memo"), searchAttributes |-> Struct(101, "SearchAttributes"),
     autoResetPoints |-> Struct(110, "ResetPoints")]
WorkflowExecutionSignaledEventAttributes ==
    [signalName |-> String(10), input |-> Binary(20), identity |-> String(30)]
WorkflowExecutionStartedEventAttributes ==
    [workflowType |-> Struct(10, "WorkflowType"), parentWorkflowDomain |-> String(12),
     parentWorkflowExecution |-> Struct(14, "WorkflowExecution"),
     parentInitiatedEventId |-> I64(16), taskList |-> Struct(20, "TaskList"),
     input |-> Binary(30), executionStartToCloseTimeoutSeconds |-> I32(40),
     taskStartToCloseTimeoutSeconds |-> I32(50), continuedExecutionRunId |-> String(54),
     initiator |-> I32(55), continuedFailureReason |-> String(56),
     continuedFailureDetails |-> Binary(57), lastCompletionResult |-> Binary(58),
     originalExecutionRunId |-> String(59), identity |-> String(60),
     firstExecutionRunId |-> String(61), retryPolicy |-> Struct(70, "RetryPolicy"),
     attempt |-> I32(80), expirationTimestamp |-> I64(90), cronSchedule |-> String(100),
     firstDecisionTaskBackoffSeconds |-> I32(110), memo |-> Struct(120, "Memo"),
     searchAttributes |-> Struct(121, "SearchAttributes"),
     prevAutoResetPoints |-> Struct(130, "ResetPoints"), header |-> Struct(140, "Header")]
WorkflowExecutionTerminatedEventAttributes ==
    [reason |-> String(10), details |-> Binary(20), identity |-> String(30)]
WorkflowExecutionTimedOutEventAttributes == [timeoutType |-> I32(10)]
WorkflowQuery == [queryType |-> String(10), queryArgs |-> Binary(20)]
WorkflowQueryResult ==
    [resultType |-> I32(10), answer |-> Binary(20), errorReason |-> String(30),
     errorDetails |-> Binary(40)]
WorkflowType == [name |-> String(10)]
WorkflowTypeFilter == [name |-> String(10)]

\* The structs by name.
Structs ==
    [ActivityTaskCancelRequestedEventAttributes |-> ActivityTaskCancelRequestedEventAttributes,
     ActivityTaskCanceledEventAttributes |-> ActivityTaskCanceledEventAttributes,
     ActivityTaskCompletedEventAttributes |-> ActivityTaskCompletedEventAttributes,
     ActivityTaskFailedEventAttributes |-> ActivityTaskFailedEventAttributes,
     ActivityTaskScheduledEventAttributes |-> ActivityTaskScheduledEventAttributes,
     ActivityTaskStartedEventAttributes |-> ActivityTaskStartedEventAttributes,
     ActivityTaskTimedOutEventAttributes |-> ActivityTaskTimedOutEventAttributes,
     ActivityType |-> ActivityType, BadBinaries |-> BadBinaries,
     BadBinaryInfo |-> BadBinaryInfo, BadRequestError |-> BadRequestError,
     CancelTimerDecisionAttributes |-> CancelTimerDecisionAttributes,
     CancelTimerFailedEventAttributes |-> CancelTimerFailedEventAttributes,
     CancelWorkflowExecutionDecisionAttributes |-> CancelWorkflowExecutionDecisionAttributes,
     CancellationAlreadyRequestedError |-> CancellationAlreadyRequestedError,
     ChildWorkflowExecutionCanceledEventAttributes |-> ChildWorkflowExecutionCanceledEventAttributes,
     ChildWorkflowExecutionCompletedEventAttributes |-> ChildWorkflowExecutionCompletedEventAttributes,
     ChildWorkflowExecutionFailedEventAttributes |-> ChildWorkflowExecutionFailedEventAttributes,
     ChildWorkflowExecutionStartedEventAttributes |-> ChildWorkflowExecutionStartedEventAttributes,
     ChildWorkflowExecutionTerminatedEventAttributes |-> ChildWorkflowExecutionTerminatedEventAttributes,
     ChildWorkflowExecutionTimedOutEventAttributes |-> ChildWorkflowExecutionTimedOutEventAttributes,
     ClientVersionNotSupportedError |-> ClientVersionNotSupportedError,
     ClusterReplicationConfiguration |-> ClusterReplicationConfiguration,
     CompleteWorkflowExecutionDecisionAttributes |-> CompleteWorkflowExecutionDecisionAttributes,
     ContinueAsNewWorkflowExecutionDecisionAttributes |-> ContinueAsNewWorkflowExecutionDecisionAttributes,
     CountWorkflowExecutionsRequest |-> CountWorkflowExecutionsRequest,
     CountWorkflowExecutionsResponse |-> CountWorkflowExecutionsResponse, Decision |-> Decision,
     DecisionTaskCompletedEventAttributes |-> DecisionTaskCompletedEventAttributes,
     DecisionTaskFailedEventAttributes |-> DecisionTaskFailedEventAttributes,
     DecisionTaskScheduledEventAttributes |-> DecisionTaskScheduledEventAttributes,
     DecisionTaskStartedEventAttributes |-> DecisionTaskStartedEventAttributes,
     DecisionTaskTimedOutEventAttributes |-> DecisionTaskTimedOutEventAttributes,
     DeprecateDomainRequest |-> DeprecateDomainRequest,
     DescribeDomainRequest |-> DescribeDomainRequest,
     DescribeDomainResponse |-> DescribeDomainResponse,
     DescribeTaskListRequest |-> DescribeTaskListRequest,
     DescribeTaskListResponse |-> DescribeTaskListResponse,
     DescribeWorkflowExecutionRequest |-> DescribeWorkflowExecutionRequest,
     DescribeWorkflowExecutionResponse |-> DescribeWorkflowExecutionResponse,
     DomainAlreadyExistsError |-> DomainAlreadyExistsError,
     DomainConfiguration |-> DomainConfiguration, DomainInfo |-> DomainInfo,
     DomainNotActiveError |-> DomainNotActiveError,
     DomainReplicationConfiguration |-> DomainReplicationConfiguration,
     EntityNotExistsError |-> EntityNotExistsError,
     ExternalWorkflowExecutionCancelRequestedEventAttributes |-> ExternalWorkflowExecutionCancelRequestedEventAttributes,
     ExternalWorkflowExecutionSignaledEventAttributes |-> ExternalWorkflowExecutionSignaledEventAttributes,
     FailWorkflowExecutionDecisionAttributes |-> FailWorkflowExecutionDecisionAttributes,
     GetSearchAttributesResponse |-> GetSearchAttributesResponse,
     GetWorkflowExecutionHistoryRequest |-> GetWorkflowExecutionHistoryRequest,
     GetWorkflowExecutionHistoryResponse |-> GetWorkflowExecutionHistoryResponse,
     Header |-> Header, History |-> History, HistoryEvent |-> HistoryEvent,
     InternalServiceError |-> InternalServiceError, LimitExceededError |-> LimitExceededError,
     ListArchivedWorkflowExecutionsRequest |-> ListArchivedWorkflowExecutionsRequest,
     ListArchivedWorkflowExecutionsResponse |-> ListArchivedWorkflowExecutionsResponse,
     ListClosedWorkflowExecutionsRequest |-> ListClosedWorkflowExecutionsRequest,
     ListClosedWorkflowExecutionsResponse |-> ListClosedWorkflowExecutionsResponse,
     ListDomainsRequest |-> ListDomainsRequest, ListDomainsResponse |-> ListDomainsResponse,
     ListOpenWorkflowExecutionsRequest |-> ListOpenWorkflowExecutionsRequest,
     ListOpenWorkflowExecutionsResponse |-> ListOpenWorkflowExecutionsResponse,
     ListWorkflowExecutionsRequest |-> ListWorkflowExecutionsRequest,
     ListWorkflowExecutionsResponse |-> ListWorkflowExecutionsResponse,
     MarkerRecordedEventAttributes |-> MarkerRecordedEventAttributes, Memo |-> Memo,
     PendingActivityInfo |-> PendingActivityInfo,
     PendingChildExecutionInfo |-> PendingChildExecutionInfo,
     PollForActivityTaskRequest |-> PollForActivityTaskRequest,
     PollForActivityTaskResponse |-> PollForActivityTaskResponse,
     PollForDecisionTaskRequest |-> PollForDecisionTaskRequest,
     PollForDecisionTaskResponse |-> PollForDecisionTaskResponse, PollerInfo |-> PollerInfo,
     QueryFailedError |-> QueryFailedError, QueryRejected |-> QueryRejected,
     QueryWorkflowRequest |-> QueryWorkflowRequest,
     QueryWorkflowResponse |-> QueryWorkflowResponse,
     RecordActivityTaskHeartbeatByIDRequest |-> RecordActivityTaskHeartbeatByIDRequest,
     RecordActivityTaskHeartbeatRequest |-> RecordActivityTaskHeartbeatRequest,
     RecordActivityTaskHeartbeatResponse |-> RecordActivityTaskHeartbeatResponse,
     RecordMarkerDecisionAttributes |-> RecordMarkerDecisionAttributes,
     RegisterDomainRequest |-> RegisterDomainRequest,
     RequestCancelActivityTaskDecisionAttributes |-> RequestCancelActivityTaskDecisionAttributes,
     RequestCancelActivityTaskFailedEventAttributes |-> RequestCancelActivityTaskFailedEventAttributes,
     RequestCancelExternalWorkflowExecutionDecisionAttributes |-> RequestCancelExternalWorkflowExecutionDecisionAttributes,
     RequestCancelExternalWorkflowExecutionFailedEventAttributes |-> RequestCancelExternalWorkflowExecutionFailedEventAttributes,
     RequestCancelExternalWorkflowExecutionInitiatedEventAttributes |-> RequestCancelExternalWorkflowExecutionInitiatedEventAttributes,
     RequestCancelWorkflowExecutionRequest |-> RequestCancelWorkflowExecutionRequest,
     ResetPointInfo |-> ResetPointInfo, ResetPoints |-> ResetPoints,
     ResetStickyTaskListRequest |-> ResetStickyTaskListRequest,
     ResetStickyTaskListResponse |-> ResetStickyTaskListResponse,
     ResetWorkflowExecutionRequest |-> ResetWorkflowExecutionRequest,
     ResetWorkflowExecutionResponse |-> ResetWorkflowExecutionResponse,
     RespondActivityTaskCanceledByIDRequest |-> RespondActivityTaskCanceledByIDRequest,
     RespondActivityTaskCanceledRequest |-> RespondActivityTaskCanceledRequest,
     RespondActivityTaskCompletedByIDRequest |-> RespondActivityTaskCompletedByIDRequest,
     RespondActivityTaskCompletedRequest |-> RespondActivityTaskCompletedRequest,
     RespondActivityTaskFailedByIDRequest |-> RespondActivityTaskFailedByIDRequest,
     RespondActivityTaskFailedRequest |-> RespondActivityTaskFailedRequest,
     RespondDecisionTaskCompletedRequest |-> RespondDecisionTaskCompletedRequest,
     RespondDecisionTaskCompletedResponse |-> RespondDecisionTaskCompletedResponse,
     RespondDecisionTaskFailedRequest |-> RespondDecisionTaskFailedRequest,
     RespondQueryTaskCompletedRequest |-> RespondQueryTaskCompletedRequest,
     RetryPolicy |-> RetryPolicy,
     ScheduleActivityTaskDecisionAttributes |-> ScheduleActivityTaskDecisionAttributes,
     SearchAttributes |-> SearchAttributes, ServiceBusyError |-> ServiceBusyError,
     SignalExternalWorkflowExecutionDecisionAttributes |-> SignalExternalWorkflowExecutionDecisionAttributes,
     SignalExternalWorkflowExecutionFailedEventAttributes |-> SignalExternalWorkflowExecutionFailedEventAttributes,
     SignalExternalWorkflowExecutionInitiatedEventAttributes |-> SignalExternalWorkflowExecutionInitiatedEventAttributes,
     SignalWithStartWorkflowExecutionRequest |-> SignalWithStartWorkflowExecutionRequest,
     SignalWorkflowExecutionRequest |-> SignalWorkflowExecutionRequest,
     StartChildWorkflowExecutionDecisionAttributes |-> StartChildWorkflowExecutionDecisionAttributes,
     StartChildWorkflowExecutionFailedEventAttributes |-> StartChildWorkflowExecutionFailedEventAttributes,
     StartChildWorkflowExecutionInitiatedEventAttributes |-> StartChildWorkflowExecutionInitiatedEventAttributes,
     StartTimeFilter |-> StartTimeFilter,
     StartTimerDecisionAttributes |-> StartTimerDecisionAttributes,
     StartWorkflowExecutionRequest |-> StartWorkflowExecutionRequest,
     StartWorkflowExecutionResponse |-> StartWorkflowExecutionResponse,
     StickyExecutionAttributes |-> StickyExecutionAttributes, TaskIDBlock |-> TaskIDBlock,
     TaskList |-> TaskList, TaskListMetadata |-> TaskListMetadata,
     TaskListStatus |-> TaskListStatus,
     TerminateWorkflowExecutionRequest |-> TerminateWorkflowExecutionRequest,
     TimerCanceledEventAttributes |-> TimerCanceledEventAttributes,
     TimerFiredEventAttributes |-> TimerFiredEventAttributes,
     TimerStartedEventAttributes |-> TimerStartedEventAttributes,
     UpdateDomainInfo |-> UpdateDomainInfo, UpdateDomainRequest |-> UpdateDomainRequest,
     UpdateDomainResponse |-> UpdateDomainResponse,
     UpsertWorkflowSearchAttributesDecisionAttributes |-> UpsertWorkflowSearchAttributesDecisionAttributes,
     UpsertWorkflowSearchAttributesEventAttributes |-> UpsertWorkflowSearchAttributesEventAttributes,
     WorkflowExecution |-> WorkflowExecution,
     WorkflowExecutionAlreadyStartedError |-> WorkflowExecutionAlreadyStartedError,
     WorkflowExecutionCancelRequestedEventAttributes |-> WorkflowExecutionCancelRequestedEventAttributes,
     WorkflowExecutionCanceledEventAttributes |-> WorkflowExecutionCanceledEventAttributes,
     WorkflowExecutionCompletedEventAttributes |-> WorkflowExecutionCompletedEventAttributes,
     WorkflowExecutionConfiguration |-> WorkflowExecutionConfiguration,
     WorkflowExecutionContinuedAsNewEventAttributes |-> WorkflowExecutionContinuedAsNewEventAttributes,
     WorkflowExecutionFailedEventAttributes |-> WorkflowExecutionFailedEventAttributes,
     WorkflowExecutionFilter |-> WorkflowExecutionFilter,
     WorkflowExecutionInfo |-> WorkflowExecutionInfo,
     WorkflowExecutionSignaledEventAttributes |-> WorkflowExecutionSignaledEventAttributes,
     WorkflowExecutionStartedEventAttributes |-> WorkflowExecutionStartedEventAttributes,
     WorkflowExecutionTerminatedEventAttributes |-> WorkflowExecutionTerminatedEventAttributes,
     WorkflowExecutionTimedOutEventAttributes |-> WorkflowExecutionTimedOutEventAttributes,
     WorkflowQuery |-> WorkflowQuery, WorkflowQueryResult |-> WorkflowQueryResult,
     WorkflowType |-> WorkflowType, WorkflowTypeFilter |-> WorkflowTypeFilter]
=============================================================================
