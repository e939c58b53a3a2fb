----------------------------- MODULE RubyThrift -----------------------------
(***************************************************************************)
(* The same messages and calls as the Ruby library knows them: the FIELDS  *)
(* of the classes in lib/gen/thrift (shared_types.rb, workflow_service.rb).*)
(* The proxy's code and these classes were generated by different tools,   *)
(* each when somebody thought of it, from the IDL in thrift/.              *)
(***************************************************************************)
EXTENDS ThriftTypes, TLC

\* The classes for exceptions.
RubyErrors == [
    BadRequestError |-> [message |-> String(1)],
    InternalServiceError |-> [message |-> String(1)],
    DomainAlreadyExistsError |-> [message |-> String(1)],
    WorkflowExecutionAlreadyStartedError |->
        [message |-> String(10), startRequestId |-> String(20), runId |-> String(30)],
    EntityNotExistsError |-> [message |-> String(1)],
    ServiceBusyError |-> [message |-> String(1)],
    CancellationAlreadyRequestedError |-> [message |-> String(1)],
    QueryFailedError |-> [message |-> String(1)],
    DomainNotActiveError |->
        [message |-> String(1), domainName |-> String(2), currentCluster |-> String(3),
         activeCluster |-> String(4)],
    LimitExceededError |-> [message |-> String(1)],
    ClientVersionNotSupportedError |->
        [featureVersion |-> String(1), clientImpl |-> String(2),
         supportedVersions |-> String(3)] ]

\* The classes for what many messages hold.
RubyTypes == [
    Header |-> [fields |-> Map(10, "binary")],
    WorkflowType |-> [name |-> String(10)],
    ActivityType |-> [name |-> String(10)],
    TaskList |-> [name |-> String(10), kind |-> I32(20)],
    TaskListMetadata |-> [maxTasksPerSecond |-> Double(10)],
    WorkflowExecution |-> [workflowId |-> String(10), runId |-> String(20)],
    Memo |-> [fields |-> Map(10, "binary")],
    SearchAttributes |-> [indexedFields |-> Map(10, "binary")],
    WorkflowExecutionInfo |->
        [execution |-> Struct(10, "WorkflowExecution"), type |-> Struct(20, "WorkflowType"),
         startTime |-> I64(30), closeTime |-> I64(40), closeStatus |-> I32(50),
         historyLength |-> I64(60), parentDomainId |-> String(70),
         parentExecution |-> Struct(80, "WorkflowExecution"), executionTime |-> I64(90),
         memo |-> Struct(100, "Memo"), searchAttributes |-> Struct(101, "SearchAttributes"),
         autoResetPoints |-> Struct(110, "ResetPoints")],
    WorkflowExecutionConfiguration |->
        [taskList |-> Struct(10, "TaskList"), executionStartToCloseTimeoutSeconds |-> I32(20),
         taskStartToCloseTimeoutSeconds |-> I32(30)] ]

\* The classes for decisions.
RubyDecisions == [
    ScheduleActivityTaskDecisionAttributes |->
        [activityId |-> String(10), activityType |-> Struct(20, "ActivityType"),
         domain |-> String(25), taskList |-> Struct(30, "TaskList"), input |-> Binary(40),
         scheduleToCloseTimeoutSeconds |-> I32(45), scheduleToStartTimeoutSeconds |-> I32(50),
         startToCloseTimeoutSeconds |-> I32(55), heartbeatTimeoutSeconds |-> I32(60),
         retryPolicy |-> Struct(70, "RetryPolicy"), header |-> Struct(80, "Header")],
    RequestCancelActivityTaskDecisionAttributes |-> [activityId |-> String(10)],
    StartTimerDecisionAttributes |->
        [timerId |-> String(10), startToFireTimeoutSeconds |-> I64(20)],
    CompleteWorkflowExecutionDecisionAttributes |-> [result |-> Binary(10)],
    FailWorkflowExecutionDecisionAttributes |-> [reason |-> String(10), details |-> Binary(20)],
    CancelTimerDecisionAttributes |-> [timerId |-> String(10)],
    CancelWorkflowExecutionDecisionAttributes |-> [details |-> Binary(10)],
    RequestCancelExternalWorkflowExecutionDecisionAttributes |->
        [domain |-> String(10), workflowId |-> String(20), runId |-> String(30),
         control |-> Binary(40), childWorkflowOnly |-> Bool(50)],
    SignalExternalWorkflowExecutionDecisionAttributes |->
        [domain |-> String(10), execution |-> Struct(20, "WorkflowExecution"),
         signalName |-> String(30), input |-> Binary(40), control |-> Binary(50),
         childWorkflowOnly |-> Bool(60)],
    UpsertWorkflowSearchAttributesDecisionAttributes |->
        [searchAttributes |-> Struct(10, "SearchAttributes")],
    RecordMarkerDecisionAttributes |->
        [markerName |-> String(10), details |-> Binary(20), header |-> Struct(30, "Header")],
    ContinueAsNewWorkflowExecutionDecisionAttributes |->
        [workflowType |-> Struct(10, "WorkflowType"), taskList |-> Struct(20, "TaskList"),
         input |-> Binary(30), executionStartToCloseTimeoutSeconds |-> I32(40),
         taskStartToCloseTimeoutSeconds |-> I32(50), backoffStartIntervalInSeconds |-> I32(60),
         retryPolicy |-> Struct(70, "RetryPolicy"), initiator |-> I32(80),
         failureReason |-> String(90), failureDetails |-> Binary(100),
         lastCompletionResult |-> Binary(110), cronSchedule |-> String(120),
         header |-> Struct(130, "Header"), memo |-> Struct(140, "Memo"),
         searchAttributes |-> Struct(150, "SearchAttributes")],
    StartChildWorkflowExecutionDecisionAttributes |->
        [domain |-> String(10), workflowId |-> String(20),
         workflowType |-> Struct(30, "WorkflowType"), taskList |-> Struct(40, "TaskList"),
         input |-> Binary(50), executionStartToCloseTimeoutSeconds |-> I32(60),
         taskStartToCloseTimeoutSeconds |-> I32(70), parentClosePolicy |-> I32(81),
         control |-> Binary(90), workflowIdReusePolicy |-> I32(100),
         retryPolicy |-> Struct(110, "RetryPolicy"), cronSchedule |-> String(120),
         header |-> Struct(130, "Header"), memo |-> Struct(140, "Memo"),
         searchAttributes |-> Struct(150, "SearchAttributes")],
    Decision |->
        [decisionType |-> I32(10),
         scheduleActivityTaskDecisionAttributes |-> Struct(20, "ScheduleActivityTaskDecisionAttributes"),
         startTimerDecisionAttributes |-> Struct(25, "StartTimerDecisionAttributes"),
         completeWorkflowExecutionDecisionAttributes |-> Struct(30, "CompleteWorkflowExecutionDecisionAttributes"),
         failWorkflowExecutionDecisionAttributes |-> Struct(35, "FailWorkflowExecutionDecisionAttributes"),
         requestCancelActivityTaskDecisionAttributes |-> Struct(40, "RequestCancelActivityTaskDecisionAttributes"),
         cancelTimerDecisionAttributes |-> Struct(50, "CancelTimerDecisionAttributes"),
         cancelWorkflowExecutionDecisionAttributes |-> Struct(60, "CancelWorkflowExecutionDecisionAttributes"),
         requestCancelExternalWorkflowExecutionDecisionAttributes |-> Struct(70, "RequestCancelExternalWorkflowExecutionDecisionAttributes"),
         recordMarkerDecisionAttributes |-> Struct(80, "RecordMarkerDecisionAttributes"),
         continueAsNewWorkflowExecutionDecisionAttributes |-> Struct(90, "ContinueAsNewWorkflowExecutionDecisionAttributes"),
         startChildWorkflowExecutionDecisionAttributes |-> Struct(100, "StartChildWorkflowExecutionDecisionAttributes"),
         signalExternalWorkflowExecutionDecisionAttributes |-> Struct(110, "SignalExternalWorkflowExecutionDecisionAttributes"),
         upsertWorkflowSearchAttributesDecisionAttributes |-> Struct(120, "UpsertWorkflowSearchAttributesDecisionAttributes")] ]

\* The classes for the attributes of events.
RubyEvents == [
    WorkflowExecutionStartedEventAttributes |->
        [workflowType |-> Struct(10, "WorkflowType"), parentWorkflowDomain |-> String(12),
         parentWorkflowExecution |-> Struct(14, "WorkflowExecution"),
         parentInitiatedEventId |-> I64(16), taskList |-> Struct(20, "TaskList"),
         input |-> Binary(30), executionStartToCloseTimeoutSeconds |-> I32(40),
         taskStartToCloseTimeoutSeconds |-> I32(50), continuedExecutionRunId |-> String(54),
         initiator |-> I32(55), continuedFailureReason |-> String(56),
         continuedFailureDetails |-> Binary(57), lastCompletionResult |-> Binary(58),
         originalExecutionRunId |-> String(59), identity |-> String(60),
         firstExecutionRunId |-> String(61), retryPolicy |-> Struct(70, "RetryPolicy"),
         attempt |-> I32(80), expirationTimestamp |-> I64(90), cronSchedule |-> String(100),
         firstDecisionTaskBackoffSeconds |-> I32(110), memo |-> Struct(120, "Memo"),
         searchAttributes |-> Struct(121, "SearchAttributes"),
         prevAutoResetPoints |-> Struct(130, "ResetPoints"), header |-> Struct(140, "Header")],
    ResetPoints |-> [points |-> List(10, "ResetPointInfo")],
    ResetPointInfo |->
        [binaryChecksum |-> String(10), runId |-> String(20),
         firstDecisionCompletedId |-> I64(30), createdTimeNano |-> I64(40),
         expiringTimeNano |-> I64(50), resettable |-> Bool(60)],
    WorkflowExecutionCompletedEventAttributes |->
        [result |-> Binary(10), decisionTaskCompletedEventId |-> I64(20)],
    WorkflowExecutionFailedEventAttributes |->
        [reason |-> String(10), details |-> Binary(20),
         decisionTaskCompletedEventId |-> I64(30)],
    WorkflowExecutionTimedOutEventAttributes |-> [timeoutType |-> I32(10)],
    WorkflowExecutionContinuedAsNewEventAttributes |->
        [newExecutionRunId |-> String(10), workflowType |-> Struct(20, "WorkflowType"),
         taskList |-> Struct(30, "TaskList"), input |-> Binary(40),
         executionStartToCloseTimeoutSeconds |-> I32(50),
         taskStartToCloseTimeoutSeconds |-> I32(60), decisionTaskCompletedEventId |-> I64(70),
         backoffStartIntervalInSeconds |-> I32(80), initiator |-> I32(90),
         failureReason |-> String(100), failureDetails |-> Binary(110),
         lastCompletionResult |-> Binary(120), header |-> Struct(130, "Header"),
         memo |-> Struct(140, "Memo"), searchAttributes |-> Struct(150, "SearchAttributes")],
    DecisionTaskScheduledEventAttributes |->
        [taskList |-> Struct(10, "TaskList"), startToCloseTimeoutSeconds |-> I32(20),
         attempt |-> I64(30)],
    DecisionTaskStartedEventAttributes |->
        [scheduledEventId |-> I64(10), identity |-> String(20), requestId |-> String(30)],
    DecisionTaskCompletedEventAttributes |->
        [executionContext |-> Binary(10), scheduledEventId |-> I64(20),
         startedEventId |-> I64(30), identity |-> String(40), binaryChecksum |-> String(50)],
    DecisionTaskTimedOutEventAttributes |->
        [scheduledEventId |-> I64(10), startedEventId |-> I64(20), timeoutType |-> I32(30)],
    DecisionTaskFailedEventAttributes |->
        [scheduledEventId |-> I64(10), startedEventId |-> I64(20), cause |-> I32(30),
         details |-> Binary(35), identity |-> String(40), reason |-> String(50),
         baseRunId |-> String(60), newRunId |-> String(70), forkEventVersion |-> I64(80)],
    ActivityTaskScheduledEventAttributes |->
        [activityId |-> String(10), activityType |-> Struct(20, "ActivityType"),
         domain |-> String(25), taskList |-> Struct(30, "TaskList"), input |-> Binary(40),
         scheduleToCloseTimeoutSeconds |-> I32(45), scheduleToStartTimeoutSeconds |-> I32(50),
         startToCloseTimeoutSeconds |-> I32(55), heartbeatTimeoutSeconds |-> I32(60),
         decisionTaskCompletedEventId |-> I64(90), retryPolicy |-> Struct(110, "RetryPolicy"),
         header |-> Struct(120, "Header")],
    ActivityTaskStartedEventAttributes |->
        [scheduledEventId |-> I64(10), identity |-> String(20), requestId |-> String(30),
         attempt |-> I32(40)],
    ActivityTaskCompletedEventAttributes |->
        [result |-> Binary(10), scheduledEventId |-> I64(20), startedEventId |-> I64(30),
         identity |-> String(40)],
    ActivityTaskFailedEventAttributes |->
        [reason |-> String(10), details |-> Binary(20), scheduledEventId |-> I64(30),
         startedEventId |-> I64(40), identity |-> String(50)],
    ActivityTaskTimedOutEventAttributes |->
        [details |-> Binary(5), scheduledEventId |-> I64(10), startedEventId |-> I64(20),
         timeoutType |-> I32(30)],
    ActivityTaskCancelRequestedEventAttributes |->
        [activityId |-> String(10), decisionTaskCompletedEventId |-> I64(20)],
    RequestCancelActivityTaskFailedEventAttributes |->
        [activityId |-> String(10), cause |-> String(20),
         decisionTaskCompletedEventId |-> I64(30)],
    ActivityTaskCanceledEventAttributes |->
        [details |-> Binary(10), latestCancelRequestedEventId |-> I64(20),
         scheduledEventId |-> I64(30), startedEventId |-> I64(40), identity |-> String(50)],
    TimerStartedEventAttributes |->
        [timerId |-> String(10), startToFireTimeoutSeconds |-> I64(20),
         decisionTaskCompletedEventId |-> I64(30)],
    TimerFiredEventAttributes |-> [timerId |-> String(10), startedEventId |-> I64(20)],
    TimerCanceledEventAttributes |->
        [timerId |-> String(10), startedEventId |-> I64(20),
         decisionTaskCompletedEventId |-> I64(30), identity |-> String(40)],
    CancelTimerFailedEventAttributes |->
        [timerId |-> String(10), cause |-> String(20), decisionTaskCompletedEventId |-> I64(30),
         identity |-> String(40)],
    WorkflowExecutionCancelRequestedEventAttributes |->
        [cause |-> String(10), externalInitiatedEventId |-> I64(20),
         externalWorkflowExecution |-> Struct(30, "WorkflowExecution"), identity |-> String(40)],
    WorkflowExecutionCanceledEventAttributes |->
        [decisionTaskCompletedEventId |-> I64(10), details |-> Binary(20)],
    MarkerRecordedEventAttributes |->
        [markerName |-> String(10), details |-> Binary(20),
         decisionTaskCompletedEventId |-> I64(30), header |-> Struct(40, "Header")],
    WorkflowExecutionSignaledEventAttributes |->
        [signalName |-> String(10), input |-> Binary(20), identity |-> String(30)],
    WorkflowExecutionTerminatedEventAttributes |->
        [reason |-> String(10), details |-> Binary(20), identity |-> String(30)],
    RequestCancelExternalWorkflowExecutionInitiatedEventAttributes |->
        [decisionTaskCompletedEventId |-> I64(10), domain |-> String(20),
         workflowExecution |-> Struct(30, "WorkflowExecution"), control |-> Binary(40),
         childWorkflowOnly |-> Bool(50)],
    RequestCancelExternalWorkflowExecutionFailedEventAttributes |->
        [cause |-> I32(10), decisionTaskCompletedEventId |-> I64(20), domain |-> String(30),
         workflowExecution |-> Struct(40, "WorkflowExecution"), initiatedEventId |-> I64(50),
         control |-> Binary(60)],
    ExternalWorkflowExecutionCancelRequestedEventAttributes |->
        [initiatedEventId |-> I64(10), domain |-> String(20),
         workflowExecution |-> Struct(30, "WorkflowExecution")],
    SignalExternalWorkflowExecutionInitiatedEventAttributes |->
        [decisionTaskCompletedEventId |-> I64(10), domain |-> String(20),
         workflowExecution |-> Struct(30, "WorkflowExecution"), signalName |-> String(40),
         input |-> Binary(50), control |-> Binary(60), childWorkflowOnly |-> Bool(70)],
    SignalExternalWorkflowExecutionFailedEventAttributes |->
        [cause |-> I32(10), decisionTaskCompletedEventId |-> I64(20), domain |-> String(30),
         workflowExecution |-> Struct(40, "WorkflowExecution"), initiatedEventId |-> I64(50),
         control |-> Binary(60)],
    ExternalWorkflowExecutionSignaledEventAttributes |->
        [initiatedEventId |-> I64(10), domain |-> String(20),
         workflowExecution |-> Struct(30, "WorkflowExecution"), control |-> Binary(40)],
    UpsertWorkflowSearchAttributesEventAttributes |->
        [decisionTaskCompletedEventId |-> I64(10),
         searchAttributes |-> Struct(20, "SearchAttributes")],
    StartChildWorkflowExecutionInitiatedEventAttributes |->
        [domain |-> String(10), workflowId |-> String(20),
         workflowType |-> Struct(30, "WorkflowType"), taskList |-> Struct(40, "TaskList"),
         input |-> Binary(50), executionStartToCloseTimeoutSeconds |-> I32(60),
         taskStartToCloseTimeoutSeconds |-> I32(70), parentClosePolicy |-> I32(81),
         control |-> Binary(90), decisionTaskCompletedEventId |-> I64(100),
         workflowIdReusePolicy |-> I32(110), retryPolicy |-> Struct(120, "RetryPolicy"),
         cronSchedule |-> String(130), header |-> Struct(140, "Header"),
         memo |-> Struct(150, "Memo"), searchAttributes |-> Struct(160, "SearchAttributes")],
    StartChildWorkflowExecutionFailedEventAttributes |->
        [domain |-> String(10), workflowId |-> String(20),
         workflowType |-> Struct(30, "WorkflowType"), cause |-> I32(40), control |-> Binary(50),
         initiatedEventId |-> I64(60), decisionTaskCompletedEventId |-> I64(70)],
    ChildWorkflowExecutionStartedEventAttributes |->
        [domain |-> String(10), initiatedEventId |-> I64(20),
         workflowExecution |-> Struct(30, "WorkflowExecution"),
         workflowType |-> Struct(40, "WorkflowType"), header |-> Struct(50, "Header")],
    ChildWorkflowExecutionCompletedEventAttributes |->
        [result |-> Binary(10), domain |-> String(20),
         workflowExecution |-> Struct(30, "WorkflowExecution"),
         workflowType |-> Struct(40, "WorkflowType"), initiatedEventId |-> I64(50),
         startedEventId |-> I64(60)],
    ChildWorkflowExecutionFailedEventAttributes |->
        [reason |-> String(10), details |-> Binary(20), domain |-> String(30),
         workflowExecution |-> Struct(40, "WorkflowExecution"),
         workflowType |-> Struct(50, "WorkflowType"), initiatedEventId |-> I64(60),
         startedEventId |-> I64(70)],
    ChildWorkflowExecutionCanceledEventAttributes |->
        [details |-> Binary(10), domain |-> String(20),
         workflowExecution |-> Struct(30, "WorkflowExecution"),
         workflowType |-> Struct(40, "WorkflowType"), initiatedEventId |-> I64(50),
         startedEventId |-> I64(60)],
    ChildWorkflowExecutionTimedOutEventAttributes |->
        [timeoutType |-> I32(10), domain |-> String(20),
         workflowExecution |-> Struct(30, "WorkflowExecution"),
         workflowType |-> Struct(40, "WorkflowType"), initiatedEventId |-> I64(50),
         startedEventId |-> I64(60)],
    ChildWorkflowExecutionTerminatedEventAttributes |->
        [domain |-> String(10), workflowExecution |-> Struct(20, "WorkflowExecution"),
         workflowType |-> Struct(30, "WorkflowType"), initiatedEventId |-> I64(40),
         startedEventId |-> I64(50)] ]

\* The classes for histories.
RubyHistory == [
    HistoryEvent |->
        [eventId |-> I64(10), timestamp |-> I64(20), eventType |-> I32(30), version |-> I64(35),
         taskId |-> I64(36),
         workflowExecutionStartedEventAttributes |-> Struct(40, "WorkflowExecutionStartedEventAttributes"),
         workflowExecutionCompletedEventAttributes |-> Struct(50, "WorkflowExecutionCompletedEventAttributes"),
         workflowExecutionFailedEventAttributes |-> Struct(60, "WorkflowExecutionFailedEventAttributes"),
         workflowExecutionTimedOutEventAttributes |-> Struct(70, "WorkflowExecutionTimedOutEventAttributes"),
         decisionTaskScheduledEventAttributes |-> Struct(80, "DecisionTaskScheduledEventAttributes"),
         decisionTaskStartedEventAttributes |-> Struct(90, "DecisionTaskStartedEventAttributes"),
         decisionTaskCompletedEventAttributes |-> Struct(100, "DecisionTaskCompletedEventAttributes"),
         decisionTaskTimedOutEventAttributes |-> Struct(110, "DecisionTaskTimedOutEventAttributes"),
         decisionTaskFailedEventAttributes |-> Struct(120, "DecisionTaskFailedEventAttributes"),
         activityTaskScheduledEventAttributes |-> Struct(130, "ActivityTaskScheduledEventAttributes"),
         activityTaskStartedEventAttributes |-> Struct(140, "ActivityTaskStartedEventAttributes"),
         activityTaskCompletedEventAttributes |-> Struct(150, "ActivityTaskCompletedEventAttributes"),
         activityTaskFailedEventAttributes |-> Struct(160, "ActivityTaskFailedEventAttributes"),
         activityTaskTimedOutEventAttributes |-> Struct(170, "ActivityTaskTimedOutEventAttributes"),
         timerStartedEventAttributes |-> Struct(180, "TimerStartedEventAttributes"),
         timerFiredEventAttributes |-> Struct(190, "TimerFiredEventAttributes"),
         activityTaskCancelRequestedEventAttributes |-> Struct(200, "ActivityTaskCancelRequestedEventAttributes"),
         requestCancelActivityTaskFailedEventAttributes |-> Struct(210, "RequestCancelActivityTaskFailedEventAttributes"),
         activityTaskCanceledEventAttributes |-> Struct(220, "ActivityTaskCanceledEventAttributes"),
         timerCanceledEventAttributes |-> Struct(230, "TimerCanceledEventAttributes"),
         cancelTimerFailedEventAttributes |-> Struct(240, "CancelTimerFailedEventAttributes"),
         markerRecordedEventAttributes |-> Struct(250, "MarkerRecordedEventAttributes"),
         workflowExecutionSignaledEventAttributes |-> Struct(260, "WorkflowExecutionSignaledEventAttributes"),
         workflowExecutionTerminatedEventAttributes |-> Struct(270, "WorkflowExecutionTerminatedEventAttributes"),
         workflowExecutionCancelRequestedEventAttributes |-> Struct(280, "WorkflowExecutionCancelRequestedEventAttributes"),
         workflowExecutionCanceledEventAttributes |-> Struct(290, "WorkflowExecutionCanceledEventAttributes"),
         requestCancelExternalWorkflowExecutionInitiatedEventAttributes |-> Struct(300, "RequestCancelExternalWorkflowExecutionInitiatedEventAttributes"),
         requestCancelExternalWorkflowExecutionFailedEventAttributes |-> Struct(310, "RequestCancelExternalWorkflowExecutionFailedEventAttributes"),
         externalWorkflowExecutionCancelRequestedEventAttributes |-> Struct(320, "ExternalWorkflowExecutionCancelRequestedEventAttributes"),
         workflowExecutionContinuedAsNewEventAttributes |-> Struct(330, "WorkflowExecutionContinuedAsNewEventAttributes"),
         startChildWorkflowExecutionInitiatedEventAttributes |-> Struct(340, "StartChildWorkflowExecutionInitiatedEventAttributes"),
         startChildWorkflowExecutionFailedEventAttributes |-> Struct(350, "StartChildWorkflowExecutionFailedEventAttributes"),
         childWorkflowExecutionStartedEventAttributes |-> Struct(360, "ChildWorkflowExecutionStartedEventAttributes"),
         childWorkflowExecutionCompletedEventAttributes |-> Struct(370, "ChildWorkflowExecutionCompletedEventAttributes"),
         childWorkflowExecutionFailedEventAttributes |-> Struct(380, "ChildWorkflowExecutionFailedEventAttributes"),
         childWorkflowExecutionCanceledEventAttributes |-> Struct(390, "ChildWorkflowExecutionCanceledEventAttributes"),
         childWorkflowExecutionTimedOutEventAttributes |-> Struct(400, "ChildWorkflowExecutionTimedOutEventAttributes"),
         childWorkflowExecutionTerminatedEventAttributes |-> Struct(410, "ChildWorkflowExecutionTerminatedEventAttributes"),
         signalExternalWorkflowExecutionInitiatedEventAttributes |-> Struct(420, "SignalExternalWorkflowExecutionInitiatedEventAttributes"),
         signalExternalWorkflowExecutionFailedEventAttributes |-> Struct(430, "SignalExternalWorkflowExecutionFailedEventAttributes"),
         externalWorkflowExecutionSignaledEventAttributes |-> Struct(440, "ExternalWorkflowExecutionSignaledEventAttributes"),
         upsertWorkflowSearchAttributesEventAttributes |-> Struct(450, "UpsertWorkflowSearchAttributesEventAttributes")],
    History |-> [events |-> List(10, "HistoryEvent")],
    WorkflowExecutionFilter |-> [workflowId |-> String(10), runId |-> String(20)],
    WorkflowTypeFilter |-> [name |-> String(10)],
    StartTimeFilter |-> [earliestTime |-> I64(10), latestTime |-> I64(20)] ]

\* The classes for domains.
RubyDomains == [
    DomainInfo |->
        [name |-> String(10), status |-> I32(20), description |-> String(30),
         ownerEmail |-> String(40), data |-> Map(50, "string"), uuid |-> String(60)],
    DomainConfiguration |->
        [workflowExecutionRetentionPeriodInDays |-> I32(10), emitMetric |-> Bool(20),
         badBinaries |-> Struct(70, "BadBinaries"), historyArchivalStatus |-> I32(80),
         historyArchivalURI |-> String(90), visibilityArchivalStatus |-> I32(100),
         visibilityArchivalURI |-> String(110)],
    BadBinaries |-> [binaries |-> Map(10, "BadBinaryInfo")],
    BadBinaryInfo |->
        [reason |-> String(10), operator |-> String(20), createdTimeNano |-> I64(30)],
    UpdateDomainInfo |->
        [description |-> String(10), ownerEmail |-> String(20), data |-> Map(30, "string")],
    ClusterReplicationConfiguration |-> [clusterName |-> String(10)],
    DomainReplicationConfiguration |->
        [activeClusterName |-> String(10),
         clusters |-> List(20, "ClusterReplicationConfiguration")],
    RegisterDomainRequest |->
        [name |-> String(10), description |-> String(20), ownerEmail |-> String(30),
         workflowExecutionRetentionPeriodInDays |-> I32(40), emitMetric |-> Bool(50),
         clusters |-> List(60, "ClusterReplicationConfiguration"),
         activeClusterName |-> String(70), data |-> Map(80, "string"),
         securityToken |-> String(90), isGlobalDomain |-> Bool(120),
         historyArchivalStatus |-> I32(130), historyArchivalURI |-> String(140),
         visibilityArchivalStatus |-> I32(150), visibilityArchivalURI |-> String(160)],
    ListDomainsRequest |-> [pageSize |-> I32(10), nextPageToken |-> Binary(20)],
    ListDomainsResponse |->
        [domains |-> List(10, "DescribeDomainResponse"), nextPageToken |-> Binary(20)],
    DescribeDomainRequest |-> [name |-> String(10), uuid |-> String(20)],
    DescribeDomainResponse |->
        [domainInfo |-> Struct(10, "DomainInfo"),
         configuration |-> Struct(20, "DomainConfiguration"),
         replicationConfiguration |-> Struct(30, "DomainReplicationConfiguration"),
         failoverVersion |-> I64(40), isGlobalDomain |-> Bool(50)],
    UpdateDomainRequest |->
        [name |-> String(10), updatedInfo |-> Struct(20, "UpdateDomainInfo"),
         configuration |-> Struct(30, "DomainConfiguration"),
         replicationConfiguration |-> Struct(40, "DomainReplicationConfiguration"),
         securityToken |-> String(50), deleteBadBinary |-> String(60)],
    UpdateDomainResponse |->
        [domainInfo |-> Struct(10, "DomainInfo"),
         configuration |-> Struct(20, "DomainConfiguration"),
         replicationConfiguration |-> Struct(30, "DomainReplicationConfiguration"),
         failoverVersion |-> I64(40), isGlobalDomain |-> Bool(50)],
    DeprecateDomainRequest |-> [name |-> String(10), securityToken |-> String(20)] ]

\* The classes for starting workflows, tasks and their answers.
RubyTasks == [
    StartWorkflowExecutionRequest |->
        [domain |-> String(10), workflowId |-> String(20),
         workflowType |-> Struct(30, "WorkflowType"), taskList |-> Struct(40, "TaskList"),
         input |-> Binary(50), executionStartToCloseTimeoutSeconds |-> I32(60),
         taskStartToCloseTimeoutSeconds |-> I32(70), identity |-> String(80),
         requestId |-> String(90), workflowIdReusePolicy |-> I32(100),
         retryPolicy |-> Struct(120, "RetryPolicy"), cronSchedule |-> String(130),
         memo |-> Struct(140, "Memo"), searchAttributes |-> Struct(141, "SearchAttributes"),
         header |-> Struct(150, "Header")],
    StartWorkflowExecutionResponse |-> [runId |-> String(10)],
    PollForDecisionTaskRequest |->
        [domain |-> String(10), taskList |-> Struct(20, "TaskList"), identity |-> String(30),
         binaryChecksum |-> String(40)],
    PollForDecisionTaskResponse |->
        [taskToken |-> Binary(10), workflowExecution |-> Struct(20, "WorkflowExecution"),
         workflowType |-> Struct(30, "WorkflowType"), previousStartedEventId |-> I64(40),
         startedEventId |-> I64(50), attempt |-> I64(51), backlogCountHint |-> I64(54),
         history |-> Struct(60, "History"), nextPageToken |-> Binary(70),
         query |-> Struct(80, "WorkflowQuery"),
         WorkflowExecutionTaskList |-> Struct(90, "TaskList"), scheduledTimestamp |-> I64(100),
         startedTimestamp |-> I64(110), queries |-> List(120, "WorkflowQuery")],
    StickyExecutionAttributes |->
        [workerTaskList |-> Struct(10, "TaskList"), scheduleToStartTimeoutSeconds |-> I32(20)],
    RespondDecisionTaskCompletedRequest |->
        [taskToken |-> Binary(10), decisions |-> List(20, "Decision"),
         executionContext |-> Binary(30), identity |-> String(40),
         stickyAttributes |-> Struct(50, "StickyExecutionAttributes"),
         returnNewDecisionTask |-> Bool(60), forceCreateNewDecisionTask |-> Bool(70),
         binaryChecksum |-> String(80), queryResults |-> List(90, "WorkflowQueryResult")],
    RespondDecisionTaskCompletedResponse |->
        [decisionTask |-> Struct(10, "PollForDecisionTaskResponse")],
    RespondDecisionTaskFailedRequest |->
        [taskToken |-> Binary(10), cause |-> I32(20), details |-> Binary(30),
         identity |-> String(40)],
    PollForActivityTaskRequest |->
        [domain |-> String(10), taskList |-> Struct(20, "TaskList"), identity |-> String(30),
         taskListMetadata |-> Struct(40, "TaskListMetadata")],
    PollForActivityTaskResponse |->
        [taskToken |-> Binary(10), workflowExecution |-> Struct(20, "WorkflowExecution"),
         activityId |-> String(30), activityType |-> Struct(40, "ActivityType"),
         input |-> Binary(50), scheduledTimestamp |-> I64(70),
         scheduleToCloseTimeoutSeconds |-> I32(80), startedTimestamp |-> I64(90),
         startToCloseTimeoutSeconds |-> I32(100), heartbeatTimeoutSeconds |-> I32(110),
         attempt |-> I32(120), scheduledTimestampOfThisAttempt |-> I64(130),
         heartbeatDetails |-> Binary(140), workflowType |-> Struct(150, "WorkflowType"),
         workflowDomain |-> String(160), header |-> Struct(170, "Header")],
    RecordActivityTaskHeartbeatRequest |->
        [taskToken |-> Binary(10), details |-> Binary(20), identity |-> String(30)],
    RecordActivityTaskHeartbeatByIDRequest |->
        [domain |-> String(10), workflowID |-> String(20), runID |-> String(30),
         activityID |-> String(40), details |-> Binary(50), identity |-> String(60)],
    RecordActivityTaskHeartbeatResponse |-> [cancelRequested |-> Bool(10)],
    RespondActivityTaskCompletedRequest |->
        [taskToken |-> Binary(10), result |-> Binary(20), identity |-> String(30)],
    RespondActivityTaskFailedRequest |->
        [taskToken |-> Binary(10), reason |-> String(20), details |-> Binary(30),
         identity |-> String(40)],
    RespondActivityTaskCanceledRequest |->
        [taskToken |-> Binary(10), details |-> Binary(20), identity |-> String(30)],
    RespondActivityTaskCompletedByIDRequest |->
        [domain |-> String(10), workflowID |-> String(20), runID |-> String(30),
         activityID |-> String(40), result |-> Binary(50), identity |-> String(60)],
    RespondActivityTaskFailedByIDRequest |->
        [domain |-> String(10), workflowID |-> String(20), runID |-> String(30),
         activityID |-> String(40), reason |-> String(50), details |-> Binary(60),
         identity |-> String(70)],
    RespondActivityTaskCanceledByIDRequest |->
        [domain |-> String(10), workflowID |-> String(20), runID |-> String(30),
         activityID |-> String(40), details |-> Binary(50), identity |-> String(60)] ]

\* The classes for reaching one execution.
RubyExecutions == [
    RequestCancelWorkflowExecutionRequest |->
        [domain |-> String(10), workflowExecution |-> Struct(20, "WorkflowExecution"),
         identity |-> String(30), requestId |-> String(40)],
    GetWorkflowExecutionHistoryRequest |->
        [domain |-> String(10), execution |-> Struct(20, "WorkflowExecution"),
         maximumPageSize |-> I32(30), nextPageToken |-> Binary(40),
         waitForNewEvent |-> Bool(50), HistoryEventFilterType |-> I32(60)],
    GetWorkflowExecutionHistoryResponse |->
        [history |-> Struct(10, "History"), nextPageToken |-> Binary(20), archived |-> Bool(30)],
    SignalWorkflowExecutionRequest |->
        [domain |-> String(10), workflowExecution |-> Struct(20, "WorkflowExecution"),
         signalName |-> String(30), input |-> Binary(40), identity |-> String(50),
         requestId |-> String(60), control |-> Binary(70)],
    SignalWithStartWorkflowExecutionRequest |->
        [domain |-> String(10), workflowId |-> String(20),
         workflowType |-> Struct(30, "WorkflowType"), taskList |-> Struct(40, "TaskList"),
         input |-> Binary(50), executionStartToCloseTimeoutSeconds |-> I32(60),
         taskStartToCloseTimeoutSeconds |-> I32(70), identity |-> String(80),
         requestId |-> String(90), workflowIdReusePolicy |-> I32(100),
         signalName |-> String(110), signalInput |-> Binary(120), control |-> Binary(130),
         retryPolicy |-> Struct(140, "RetryPolicy"), cronSchedule |-> String(150),
         memo |-> Struct(160, "Memo"), searchAttributes |-> Struct(161, "SearchAttributes"),
         header |-> Struct(170, "Header")],
    TerminateWorkflowExecutionRequest |->
        [domain |-> String(10), workflowExecution |-> Struct(20, "WorkflowExecution"),
         reason |-> String(30), details |-> Binary(40), identity |-> String(50)],
    ResetWorkflowExecutionRequest |->
        [domain |-> String(10), workflowExecution |-> Struct(20, "WorkflowExecution"),
         reason |-> String(30), decisionFinishEventId |-> I64(40), requestId |-> String(50)],
    ResetWorkflowExecutionResponse |-> [runId |-> String(10)] ]

\* The classes for lists, queries and descriptions.
RubyQueries == [
    ListOpenWorkflowExecutionsRequest |->
        [domain |-> String(10), maximumPageSize |-> I32(20), nextPageToken |-> Binary(30),
         StartTimeFilter |-> Struct(40, "StartTimeFilter"),
         executionFilter |-> Struct(50, "WorkflowExecutionFilter"),
         typeFilter |-> Struct(60, "WorkflowTypeFilter")],
    ListOpenWorkflowExecutionsResponse |->
        [executions |-> List(10, "WorkflowExecutionInfo"), nextPageToken |-> Binary(20)],
    ListClosedWorkflowExecutionsRequest |->
        [domain |-> String(10), maximumPageSize |-> I32(20), nextPageToken |-> Binary(30),
         StartTimeFilter |-> Struct(40, "StartTimeFilter"),
         executionFilter |-> Struct(50, "WorkflowExecutionFilter"),
         typeFilter |-> Struct(60, "WorkflowTypeFilter"), statusFilter |-> I32(70)],
    ListClosedWorkflowExecutionsResponse |->
        [executions |-> List(10, "WorkflowExecutionInfo"), nextPageToken |-> Binary(20)],
    ListWorkflowExecutionsRequest |->
        [domain |-> String(10), pageSize |-> I32(20), nextPageToken |-> Binary(30),
         query |-> String(40)],
    ListWorkflowExecutionsResponse |->
        [executions |-> List(10, "WorkflowExecutionInfo"), nextPageToken |-> Binary(20)],
    ListArchivedWorkflowExecutionsRequest |->
        [domain |-> String(10), pageSize |-> I32(20), nextPageToken |-> Binary(30),
         query |-> String(40)],
    ListArchivedWorkflowExecutionsResponse |->
        [executions |-> List(10, "WorkflowExecutionInfo"), nextPageToken |-> Binary(20)],
    CountWorkflowExecutionsRequest |-> [domain |-> String(10), query |-> String(20)],
    CountWorkflowExecutionsResponse |-> [count |-> I64(10)],
    GetSearchAttributesResponse |-> [keys |-> Map(10, "i32")],
    QueryWorkflowRequest |->
        [domain |-> String(10), execution |-> Struct(20, "WorkflowExecution"),
         query |-> Struct(30, "WorkflowQuery"), queryRejectCondition |-> I32(40)],
    QueryRejected |-> [closeStatus |-> I32(10)],
    QueryWorkflowResponse |->
        [queryResult |-> Binary(10), queryRejected |-> Struct(20, "QueryRejected")],
    WorkflowQuery |-> [queryType |-> String(10), queryArgs |-> Binary(20)],
    ResetStickyTaskListRequest |->
        [domain |-> String(10), execution |-> Struct(20, "WorkflowExecution")],
    ResetStickyTaskListResponse |-> <<>>,
    RespondQueryTaskCompletedRequest |->
        [taskToken |-> Binary(10), completedType |-> I32(20), queryResult |-> Binary(30),
         errorMessage |-> String(40)],
    WorkflowQueryResult |->
        [resultType |-> I32(10), answer |-> Binary(20), errorReason |-> String(30),
         errorDetails |-> Binary(40)],
    DescribeWorkflowExecutionRequest |->
        [domain |-> String(10), execution |-> Struct(20, "WorkflowExecution")],
    PendingActivityInfo |->
        [activityID |-> String(10), activityType |-> Struct(20, "ActivityType"),
         state |-> I32(30), heartbeatDetails |-> Binary(40), lastHeartbeatTimestamp |-> I64(50),
         lastStartedTimestamp |-> I64(60), attempt |-> I32(70), maximumAttempts |-> I32(80),
         scheduledTimestamp |-> I64(90), expirationTimestamp |-> I64(100),
         lastFailureReason |-> String(110), lastWorkerIdentity |-> String(120),
         lastFailureDetails |-> Binary(130)],
    PendingChildExecutionInfo |->
        [workflowID |-> String(10), runID |-> String(20), workflowTypName |-> String(30),
         initiatedID |-> I64(40), parentClosePolicy |-> I32(50)],
    DescribeWorkflowExecutionResponse |->
        [executionConfiguration |-> Struct(10, "WorkflowExecutionConfiguration"),
         workflowExecutionInfo |-> Struct(20, "WorkflowExecutionInfo"),
         pendingActivities |-> List(30, "PendingActivityInfo"),
         pendingChildren |-> List(40, "PendingChildExecutionInfo")],
    DescribeTaskListRequest |->
        [domain |-> String(10), taskList |-> Struct(20, "TaskList"), taskListType |-> I32(30),
         includeTaskListStatus |-> Bool(40)],
    DescribeTaskListResponse |->
        [pollers |-> List(10, "PollerInfo"), taskListStatus |-> Struct(20, "TaskListStatus")],
    TaskListStatus |->
        [backlogCountHint |-> I64(10), readLevel |-> I64(20), ackLevel |-> I64(30),
         ratePerSecond |-> Double(35), taskIDBlock |-> Struct(40, "TaskIDBlock")],
    TaskIDBlock |-> [startID |-> I64(10), endID |-> I64(20)],
    PollerInfo |->
        [lastAccessTime |-> I64(10), identity |-> String(20), ratePerSecond |-> Double(30)],
    RetryPolicy |->
        [initialIntervalInSeconds |-> I32(10), backoffCoefficient |-> Double(20),
         maximumIntervalInSeconds |-> I32(30), maximumAttempts |-> I32(40),
         nonRetriableErrorReasons |-> List(50, "string"),
         expirationIntervalInSeconds |-> I32(60)] ]

\* The arguments of the calls.
RubyArgs == [
    CountWorkflowExecutions |-> [countRequest |-> Struct(1, "CountWorkflowExecutionsRequest")],
    DeprecateDomain |-> [deprecateRequest |-> Struct(1, "DeprecateDomainRequest")],
    DescribeDomain |-> [describeRequest |-> Struct(1, "DescribeDomainRequest")],
    DescribeTaskList |-> [request |-> Struct(1, "DescribeTaskListRequest")],
    DescribeWorkflowExecution |->
        [describeRequest |-> Struct(1, "DescribeWorkflowExecutionRequest")],
    GetSearchAttributes |-> <<>>,
    GetWorkflowExecutionHistory |->
        [getRequest |-> Struct(1, "GetWorkflowExecutionHistoryRequest")],
    ListArchivedWorkflowExecutions |->
        [listRequest |-> Struct(1, "ListArchivedWorkflowExecutionsRequest")],
    ListClosedWorkflowExecutions |->
        [listRequest |-> Struct(1, "ListClosedWorkflowExecutionsRequest")],
    ListDomains |-> [listRequest |-> Struct(1, "ListDomainsRequest")],
    ListOpenWorkflowExecutions |->
        [listRequest |-> Struct(1, "ListOpenWorkflowExecutionsRequest")],
    ListWorkflowExecutions |-> [listRequest |-> Struct(1, "ListWorkflowExecutionsRequest")],
    PollForActivityTask |-> [pollRequest |-> Struct(1, "PollForActivityTaskRequest")],
    PollForDecisionTask |-> [pollRequest |-> Struct(1, "PollForDecisionTaskRequest")],
    QueryWorkflow |-> [queryRequest |-> Struct(1, "QueryWorkflowRequest")],
    RecordActivityTaskHeartbeat |->
        [heartbeatRequest |-> Struct(1, "RecordActivityTaskHeartbeatRequest")],
    RecordActivityTaskHeartbeatByID |->
        [heartbeatRequest |-> Struct(1, "RecordActivityTaskHeartbeatByIDRequest")],
    RegisterDomain |-> [registerRequest |-> Struct(1, "RegisterDomainRequest")],
    RequestCancelWorkflowExecution |->
        [cancelRequest |-> Struct(1, "RequestCancelWorkflowExecutionRequest")],
    ResetStickyTaskList |-> [resetRequest |-> Struct(1, "ResetStickyTaskListRequest")],
    ResetWorkflowExecution |-> [resetRequest |-> Struct(1, "ResetWorkflowExecutionRequest")],
    RespondActivityTaskCanceled |->
        [canceledRequest |-> Struct(1, "RespondActivityTaskCanceledRequest")],
    RespondActivityTaskCanceledByID |->
        [canceledRequest |-> Struct(1, "RespondActivityTaskCanceledByIDRequest")],
    RespondActivityTaskCompleted |->
        [completeRequest |-> Struct(1, "RespondActivityTaskCompletedRequest")],
    RespondActivityTaskCompletedByID |->
        [completeRequest |-> Struct(1, "RespondActivityTaskCompletedByIDRequest")],
    RespondActivityTaskFailed |->
        [failRequest |-> Struct(1, "RespondActivityTaskFailedRequest")],
    RespondActivityTaskFailedByID |->
        [failRequest |-> Struct(1, "RespondActivityTaskFailedByIDRequest")],
    RespondDecisionTaskCompleted |->
        [completeRequest |-> Struct(1, "RespondDecisionTaskCompletedRequest")],
    RespondDecisionTaskFailed |->
        [failedRequest |-> Struct(1, "RespondDecisionTaskFailedRequest")],
    RespondQueryTaskCompleted |->
        [completeRequest |-> Struct(1, "RespondQueryTaskCompletedRequest")],
    ScanWorkflowExecutions |-> [listRequest |-> Struct(1, "ListWorkflowExecutionsRequest")],
    SignalWithStartWorkflowExecution |->
        [signalWithStartRequest |-> Struct(1, "SignalWithStartWorkflowExecutionRequest")],
    SignalWorkflowExecution |-> [signalRequest |-> Struct(1, "SignalWorkflowExecutionRequest")],
    StartWorkflowExecution |-> [startRequest |-> Struct(1, "StartWorkflowExecutionRequest")],
    TerminateWorkflowExecution |->
        [terminateRequest |-> Struct(1, "TerminateWorkflowExecutionRequest")],
    UpdateDomain |-> [updateRequest |-> Struct(1, "UpdateDomainRequest")] ]

\* The outcomes of the calls.
RubyResults == [
    CountWorkflowExecutions |->
        [success |-> Struct(0, "CountWorkflowExecutionsResponse"),
         badRequestError |-> Struct(1, "BadRequestError"),
         internalServiceError |-> Struct(2, "InternalServiceError"),
         entityNotExistError |-> Struct(3, "EntityNotExistsError"),
         serviceBusyError |-> Struct(4, "ServiceBusyError"),
         clientVersionNotSupportedError |-> Struct(5, "ClientVersionNotSupportedError")],
    DeprecateDomain |->
        [badRequestError |-> Struct(1, "BadRequestError"),
         internalServiceError |-> Struct(2, "InternalServiceError"),
         entityNotExistError |-> Struct(3, "EntityNotExistsError"),
         serviceBusyError |-> Struct(4, "ServiceBusyError"),
         domainNotActiveError |-> Struct(5, "DomainNotActiveError"),
         clientVersionNotSupportedError |-> Struct(6, "ClientVersionNotSupportedError")],
    DescribeDomain |->
        [success |-> Struct(0, "DescribeDomainResponse"),
         badRequestError |-> Struct(1, "BadRequestError"),
         internalServiceError |-> Struct(2, "InternalServiceError"),
         entityNotExistError |-> Struct(3, "EntityNotExistsError"),
         serviceBusyError |-> Struct(4, "ServiceBusyError"),
         clientVersionNotSupportedError |-> Struct(5, "ClientVersionNotSupportedError")],
    DescribeTaskList |->
        [success |-> Struct(0, "DescribeTaskListResponse"),
         badRequestError |-> Struct(1, "BadRequestError"),
         internalServiceError |-> Struct(2, "InternalServiceError"),
         entityNotExistError |-> Struct(3, "EntityNotExistsError"),
         limitExceededError |-> Struct(4, "LimitExceededError"),
         serviceBusyError |-> Struct(5, "ServiceBusyError"),
         clientVersionNotSupportedError |-> Struct(6, "ClientVersionNotSupportedError")],
    DescribeWorkflowExecution |->
        [success |-> Struct(0, "DescribeWorkflowExecutionResponse"),
         badRequestError |-> Struct(1, "BadRequestError"),
         internalServiceError |-> Struct(2, "InternalServiceError"),
         entityNotExistError |-> Struct(3, "EntityNotExistsError"),
         limitExceededError |-> Struct(4, "LimitExceededError"),
         serviceBusyError |-> Struct(5, "ServiceBusyError"),
         clientVersionNotSupportedError |-> Struct(6, "ClientVersionNotSupportedError")],
    GetSearchAttributes |->
        [success |-> Struct(0, "GetSearchAttributesResponse"),
         internalServiceError |-> Struct(1, "InternalServiceError"),
         serviceBusyError |-> Struct(2, "ServiceBusyError"),
         clientVersionNotSupportedError |-> Struct(3, "ClientVersionNotSupportedError")],
    GetWorkflowExecutionHistory |->
        [success |-> Struct(0, "GetWorkflowExecutionHistoryResponse"),
         badRequestError |-> Struct(1, "BadRequestError"),
         internalServiceError |-> Struct(2, "InternalServiceError"),
         entityNotExistError |-> Struct(3, "EntityNotExistsError"),
         serviceBusyError |-> Struct(4, "ServiceBusyError"),
         clientVersionNotSupportedError |-> Struct(5, "ClientVersionNotSupportedError")],
    ListArchivedWorkflowExecutions |->
        [success |-> Struct(0, "ListArchivedWorkflowExecutionsResponse"),
         badRequestError |-> Struct(1, "BadRequestError"),
         internalServiceError |-> Struct(2, "InternalServiceError"),
         entityNotExistError |-> Struct(3, "EntityNotExistsError"),
         serviceBusyError |-> Struct(4, "ServiceBusyError"),
         clientVersionNotSupportedError |-> Struct(5, "ClientVersionNotSupportedError")],
    ListClosedWorkflowExecutions |->
        [success |-> Struct(0, "ListClosedWorkflowExecutionsResponse"),
         badRequestError |-> Struct(1, "BadRequestError"),
         internalServiceError |-> Struct(2, "InternalServiceError"),
         entityNotExistError |-> Struct(3, "EntityNotExistsError"),
         serviceBusyError |-> Struct(4, "ServiceBusyError"),
         clientVersionNotSupportedError |-> Struct(5, "ClientVersionNotSupportedError")],
    ListDomains |->
        [success |-> Struct(0, "ListDomainsResponse"),
         badRequestError |-> Struct(1, "BadRequestError"),
         internalServiceError |-> Struct(2, "InternalServiceError"),
         entityNotExistError |-> Struct(3, "EntityNotExistsError"),
         serviceBusyError |-> Struct(4, "ServiceBusyError"),
         clientVersionNotSupportedError |-> Struct(5, "ClientVersionNotSupportedError")],
    ListOpenWorkflowExecutions |->
        [success |-> Struct(0, "ListOpenWorkflowExecutionsResponse"),
         badRequestError |-> Struct(1, "BadRequestError"),
         internalServiceError |-> Struct(2, "InternalServiceError"),
         entityNotExistError |-> Struct(3, "EntityNotExistsError"),
         serviceBusyError |-> Struct(4, "ServiceBusyError"),
         limitExceededError |-> Struct(5, "LimitExceededError"),
         clientVersionNotSupportedError |-> Struct(6, "ClientVersionNotSupportedError")],
    ListWorkflowExecutions |->
        [success |-> Struct(0, "ListWorkflowExecutionsResponse"),
         badRequestError |-> Struct(1, "BadRequestError"),
         internalServiceError |-> Struct(2, "InternalServiceError"),
         entityNotExistError |-> Struct(3, "EntityNotExistsError"),
         serviceBusyError |-> Struct(4, "ServiceBusyError"),
         clientVersionNotSupportedError |-> Struct(5, "ClientVersionNotSupportedError")],
    PollForActivityTask |->
        [success |-> Struct(0, "PollForActivityTaskResponse"),
         badRequestError |-> Struct(1, "BadRequestError"),
         internalServiceError |-> Struct(2, "InternalServiceError"),
         serviceBusyError |-> Struct(3, "ServiceBusyError"),
         limitExceededError |-> Struct(4, "LimitExceededError"),
         entityNotExistError |-> Struct(5, "EntityNotExistsError"),
         domainNotActiveError |-> Struct(6, "DomainNotActiveError"),
         clientVersionNotSupportedError |-> Struct(7, "ClientVersionNotSupportedError")],
    PollForDecisionTask |->
        [success |-> Struct(0, "PollForDecisionTaskResponse"),
         badRequestError |-> Struct(1, "BadRequestError"),
         internalServiceError |-> Struct(2, "InternalServiceError"),
         serviceBusyError |-> Struct(3, "ServiceBusyError"),
         limitExceededError |-> Struct(4, "LimitExceededError"),
         entityNotExistError |-> Struct(5, "EntityNotExistsError"),
         domainNotActiveError |-> Struct(6, "DomainNotActiveError"),
         clientVersionNotSupportedError |-> Struct(7, "ClientVersionNotSupportedError")],
    QueryWorkflow |->
        [success |-> Struct(0, "QueryWorkflowResponse"),
         badRequestError |-> Struct(1, "BadRequestError"),
         internalServiceError |-> Struct(2, "InternalServiceError"),
         entityNotExistError |-> Struct(3, "EntityNotExistsError"),
         queryFailedError |-> Struct(4, "QueryFailedError"),
         limitExceededError |-> Struct(5, "LimitExceededError"),
         serviceBusyError |-> Struct(6, "ServiceBusyError"),
         clientVersionNotSupportedError |-> Struct(7, "ClientVersionNotSupportedError")],
    RecordActivityTaskHeartbeat |->
        [success |-> Struct(0, "RecordActivityTaskHeartbeatResponse"),
         badRequestError |-> Struct(1, "BadRequestError"),
         internalServiceError |-> Struct(2, "InternalServiceError"),
         entityNotExistError |-> Struct(3, "EntityNotExistsError"),
         domainNotActiveError |-> Struct(4, "DomainNotActiveError"),
         limitExceededError |-> Struct(5, "LimitExceededError"),
         serviceBusyError |-> Struct(6, "ServiceBusyError"),
         clientVersionNotSupportedError |-> Struct(7, "ClientVersionNotSupportedError")],
    RecordActivityTaskHeartbeatByID |->
        [success |-> Struct(0, "RecordActivityTaskHeartbeatResponse"),
         badRequestError |-> Struct(1, "BadRequestError"),
         internalServiceError |-> Struct(2, "InternalServiceError"),
         entityNotExistError |-> Struct(3, "EntityNotExistsError"),
         domainNotActiveError |-> Struct(4, "DomainNotActiveError"),
         limitExceededError |-> Struct(5, "LimitExceededError"),
         serviceBusyError |-> Struct(6, "ServiceBusyError"),
         clientVersionNotSupportedError |-> Struct(7, "ClientVersionNotSupportedError")],
    RegisterDomain |->
        [badRequestError |-> Struct(1, "BadRequestError"),
         internalServiceError |-> Struct(2, "InternalServiceError"),
         domainExistsError |-> Struct(3, "DomainAlreadyExistsError"),
         serviceBusyError |-> Struct(4, "ServiceBusyError"),
         clientVersionNotSupportedError |-> Struct(5, "ClientVersionNotSupportedError")],
    RequestCancelWorkflowExecution |->
        [badRequestError |-> Struct(1, "BadRequestError"),
         internalServiceError |-> Struct(2, "InternalServiceError"),
         entityNotExistError |-> Struct(3, "EntityNotExistsError"),
         cancellationAlreadyRequestedError |-> Struct(4, "CancellationAlreadyRequestedError"),
         serviceBusyError |-> Struct(5, "ServiceBusyError"),
         domainNotActiveError |-> Struct(6, "DomainNotActiveError"),
         limitExceededError |-> Struct(7, "LimitExceededError"),
         clientVersionNotSupportedError |-> Struct(8, "ClientVersionNotSupportedError")],
    ResetStickyTaskList |->
        [success |-> Struct(0, "ResetStickyTaskListResponse"),
         badRequestError |-> Struct(1, "BadRequestError"),
         internalServiceError |-> Struct(2, "InternalServiceError"),
         entityNotExistError |-> Struct(3, "EntityNotExistsError"),
         limitExceededError |-> Struct(4, "LimitExceededError"),
         serviceBusyError |-> Struct(5, "ServiceBusyError"),
         domainNotActiveError |-> Struct(6, "DomainNotActiveError"),
         clientVersionNotSupportedError |-> Struct(7, "ClientVersionNotSupportedError")],
    ResetWorkflowExecution |->
        [success |-> Struct(0, "ResetWorkflowExecutionResponse"),
         badRequestError |-> Struct(1, "BadRequestError"),
         internalServiceError |-> Struct(2, "InternalServiceError"),
         entityNotExistError |-> Struct(3, "EntityNotExistsError"),
         serviceBusyError |-> Struct(4, "ServiceBusyError"),
         domainNotActiveError |-> Struct(5, "DomainNotActiveError"),
         limitExceededError |-> Struct(6, "LimitExceededError"),
         clientVersionNotSupportedError |-> Struct(7, "ClientVersionNotSupportedError")],
    RespondActivityTaskCanceled |->
        [badRequestError |-> Struct(1, "BadRequestError"),
         internalServiceError |-> Struct(2, "InternalServiceError"),
         entityNotExistError |-> Struct(3, "EntityNotExistsError"),
         domainNotActiveError |-> Struct(4, "DomainNotActiveError"),
         limitExceededError |-> Struct(5, "LimitExceededError"),
         serviceBusyError |-> Struct(6, "ServiceBusyError"),
         clientVersionNotSupportedError |-> Struct(7, "ClientVersionNotSupportedError")],
    RespondActivityTaskCanceledByID |->
        [badRequestError |-> Struct(1, "BadRequestError"),
         internalServiceError |-> Struct(2, "InternalServiceError"),
         entityNotExistError |-> Struct(3, "EntityNotExistsError"),
         domainNotActiveError |-> Struct(4, "DomainNotActiveError"),
         limitExceededError |-> Struct(5, "LimitExceededError"),
         serviceBusyError |-> Struct(6, "ServiceBusyError"),
         clientVersionNotSupportedError |-> Struct(7, "ClientVersionNotSupportedError")],
    RespondActivityTaskCompleted |->
        [badRequestError |-> Struct(1, "BadRequestError"),
         internalServiceError |-> Struct(2, "InternalServiceError"),
         entityNotExistError |-> Struct(3, "EntityNotExistsError"),
         domainNotActiveError |-> Struct(4, "DomainNotActiveError"),
         limitExceededError |-> Struct(5, "LimitExceededError"),
         serviceBusyError |-> Struct(6, "ServiceBusyError"),
         clientVersionNotSupportedError |-> Struct(7, "ClientVersionNotSupportedError")],
    RespondActivityTaskCompletedByID |->
        [badRequestError |-> Struct(1, "BadRequestError"),
         internalServiceError |-> Struct(2, "InternalServiceError"),
         entityNotExistError |-> Struct(3, "EntityNotExistsError"),
         domainNotActiveError |-> Struct(4, "DomainNotActiveError"),
         limitExceededError |-> Struct(5, "LimitExceededError"),
         serviceBusyError |-> Struct(6, "ServiceBusyError"),
         clientVersionNotSupportedError |-> Struct(7, "ClientVersionNotSupportedError")],
    RespondActivityTaskFailed |->
        [badRequestError |-> Struct(1, "BadRequestError"),
         internalServiceError |-> Struct(2, "InternalServiceError"),
         entityNotExistError |-> Struct(3, "EntityNotExistsError"),
         domainNotActiveError |-> Struct(4, "DomainNotActiveError"),
         limitExceededError |-> Struct(5, "LimitExceededError"),
         serviceBusyError |-> Struct(6, "ServiceBusyError"),
         clientVersionNotSupportedError |-> Struct(7, "ClientVersionNotSupportedError")],
    RespondActivityTaskFailedByID |->
        [badRequestError |-> Struct(1, "BadRequestError"),
         internalServiceError |-> Struct(2, "InternalServiceError"),
         entityNotExistError |-> Struct(3, "EntityNotExistsError"),
         domainNotActiveError |-> Struct(4, "DomainNotActiveError"),
         limitExceededError |-> Struct(5, "LimitExceededError"),
         serviceBusyError |-> Struct(6, "ServiceBusyError"),
         clientVersionNotSupportedError |-> Struct(7, "ClientVersionNotSupportedError")],
    RespondDecisionTaskCompleted |->
        [success |-> Struct(0, "RespondDecisionTaskCompletedResponse"),
         badRequestError |-> Struct(1, "BadRequestError"),
         internalServiceError |-> Struct(2, "InternalServiceError"),
         entityNotExistError |-> Struct(3, "EntityNotExistsError"),
         domainNotActiveError |-> Struct(4, "DomainNotActiveError"),
         limitExceededError |-> Struct(5, "LimitExceededError"),
         serviceBusyError |-> Struct(6, "ServiceBusyError"),
         clientVersionNotSupportedError |-> Struct(7, "ClientVersionNotSupportedError")],
    RespondDecisionTaskFailed |->
        [badRequestError |-> Struct(1, "BadRequestError"),
         internalServiceError |-> Struct(2, "InternalServiceError"),
         entityNotExistError |-> Struct(3, "EntityNotExistsError"),
         domainNotActiveError |-> Struct(4, "DomainNotActiveError"),
         limitExceededError |-> Struct(5, "LimitExceededError"),
         serviceBusyError |-> Struct(6, "ServiceBusyError"),
         clientVersionNotSupportedError |-> Struct(7, "ClientVersionNotSupportedError")],
    RespondQueryTaskCompleted |->
        [badRequestError |-> Struct(1, "BadRequestError"),
         internalServiceError |-> Struct(2, "InternalServiceError"),
         entityNotExistError |-> Struct(3, "EntityNotExistsError"),
         limitExceededError |-> Struct(4, "LimitExceededError"),
         serviceBusyError |-> Struct(5, "ServiceBusyError"),
         domainNotActiveError |-> Struct(6, "DomainNotActiveError"),
         clientVersionNotSupportedError |-> Struct(7, "ClientVersionNotSupportedError")],
    ScanWorkflowExecutions |->
        [success |-> Struct(0, "ListWorkflowExecutionsResponse"),
         badRequestError |-> Struct(1, "BadRequestError"),
         internalServiceError |-> Struct(2, "InternalServiceError"),
         entityNotExistError |-> Struct(3, "EntityNotExistsError"),
         serviceBusyError |-> Struct(4, "ServiceBusyError"),
         clientVersionNotSupportedError |-> Struct(5, "ClientVersionNotSupportedError")],
    SignalWithStartWorkflowExecution |->
        [success |-> Struct(0, "StartWorkflowExecutionResponse"),
         badRequestError |-> Struct(1, "BadRequestError"),
         internalServiceError |-> Struct(2, "InternalServiceError"),
         entityNotExistError |-> Struct(3, "EntityNotExistsError"),
         serviceBusyError |-> Struct(4, "ServiceBusyError"),
         domainNotActiveError |-> Struct(5, "DomainNotActiveError"),
         limitExceededError |-> Struct(6, "LimitExceededError"),
         workflowAlreadyStartedError |-> Struct(7, "WorkflowExecutionAlreadyStartedError"),
         clientVersionNotSupportedError |-> Struct(8, "ClientVersionNotSupportedError")],
    SignalWorkflowExecution |->
        [badRequestError |-> Struct(1, "BadRequestError"),
         internalServiceError |-> Struct(2, "InternalServiceError"),
         entityNotExistError |-> Struct(3, "EntityNotExistsError"),
         serviceBusyError |-> Struct(4, "ServiceBusyError"),
         domainNotActiveError |-> Struct(5, "DomainNotActiveError"),
         limitExceededError |-> Struct(6, "LimitExceededError"),
         clientVersionNotSupportedError |-> Struct(7, "ClientVersionNotSupportedError")],
    StartWorkflowExecution |->
        [success |-> Struct(0, "StartWorkflowExecutionResponse"),
         badRequestError |-> Struct(1, "BadRequestError"),
         internalServiceError |-> Struct(2, "InternalServiceError"),
         sessionAlreadyExistError |-> Struct(3, "WorkflowExecutionAlreadyStartedError"),
         serviceBusyError |-> Struct(4, "ServiceBusyError"),
         domainNotActiveError |-> Struct(5, "DomainNotActiveError"),
         limitExceededError |-> Struct(6, "LimitExceededError"),
         entityNotExistError |-> Struct(7, "EntityNotExistsError"),
         clientVersionNotSupportedError |-> Struct(8, "ClientVersionNotSupportedError")],
    TerminateWorkflowExecution |->
        [badRequestError |-> Struct(1, "BadRequestError"),
         internalServiceError |-> Struct(2, "InternalServiceError"),
         entityNotExistError |-> Struct(3, "EntityNotExistsError"),
         serviceBusyError |-> Struct(4, "ServiceBusyError"),
         domainNotActiveError |-> Struct(5, "DomainNotActiveError"),
         limitExceededError |-> Struct(6, "LimitExceededError"),
         clientVersionNotSupportedError |-> Struct(7, "ClientVersionNotSupportedError")],
    UpdateDomain |->
        [success |-> Struct(0, "UpdateDomainResponse"),
         badRequestError |-> Struct(1, "BadRequestError"),
         internalServiceError |-> Struct(2, "InternalServiceError"),
         entityNotExistError |-> Struct(3, "EntityNotExistsError"),
         serviceBusyError |-> Struct(4, "ServiceBusyError"),
         domainNotActiveError |-> Struct(5, "DomainNotActiveError"),
         clientVersionNotSupportedError |-> Struct(6, "ClientVersionNotSupportedError")] ]

RubyStructs ==
    RubyErrors @@ RubyTypes @@ RubyDecisions @@ RubyEvents @@ RubyHistory @@ RubyDomains
      @@ RubyTasks @@ RubyExecutions @@ RubyQueries
=============================================================================
