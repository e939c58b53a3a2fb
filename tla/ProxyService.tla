---------------------------- MODULE ProxyService ----------------------------
(***************************************************************************)
(* The calls the proxy knows (proxy/gen/cadence/cadence.go).  Of a call    *)
(* M(request), M_Args is the struct its argument travels in, M_Result the  *)
(* struct its outcome travels in (a field for the response, unless the     *)
(* call is void, and one for each exception), and M_Helper what            *)
(* WrapResponse and UnwrapResponse go by: the type of each exception the   *)
(* call may throw, and the field of M_Result it is put in.                 *)
(***************************************************************************)
EXTENDS ProxyShared

CountWorkflowExecutions_Args == [countRequest |-> Struct(1, "CountWorkflowExecutionsRequest")]
CountWorkflowExecutions_Helper ==
    [BadRequestError |-> "badRequestError", InternalServiceError |-> "internalServiceError",
     EntityNotExistsError |-> "entityNotExistError", ServiceBusyError |-> "serviceBusyError",
     ClientVersionNotSupportedError |-> "clientVersionNotSupportedError"]
CountWorkflowExecutions_Result ==
    [success |-> Struct(0, "CountWorkflowExecutionsResponse"),
     badRequestError |-> Struct(1, "BadRequestError"),
     internalServiceError |-> Struct(2, "InternalServiceError"),
     entityNotExistError |-> Struct(3, "EntityNotExistsError"),
     serviceBusyError |-> Struct(4, "ServiceBusyError"),
     clientVersionNotSupportedError |-> Struct(5, "ClientVersionNotSupportedError")]

DeprecateDomain_Args == [deprecateRequest |-> Struct(1, "DeprecateDomainRequest")]
DeprecateDomain_Helper ==
    [BadRequestError |-> "badRequestError", InternalServiceError |-> "internalServiceError",
     EntityNotExistsError |-> "entityNotExistError", ServiceBusyError |-> "serviceBusyError",
     DomainNotActiveError |-> "domainNotActiveError",
     ClientVersionNotSupportedError |-> "clientVersionNotSupportedError"]
DeprecateDomain_Result ==
    [badRequestError |-> Struct(1, "BadRequestError"),
     internalServiceError |-> Struct(2, "InternalServiceError"),
     entityNotExistError |-> Struct(3, "EntityNotExistsError"),
     serviceBusyError |-> Struct(4, "ServiceBusyError"),
     domainNotActiveError |-> Struct(5, "DomainNotActiveError"),
     clientVersionNotSupportedError |-> Struct(6, "ClientVersionNotSupportedError")]

DescribeDomain_Args == [describeRequest |-> Struct(1, "DescribeDomainRequest")]
DescribeDomain_Helper ==
    [BadRequestError |-> "badRequestError", InternalServiceError |-> "internalServiceError",
     EntityNotExistsError |-> "entityNotExistError", ServiceBusyError |-> "serviceBusyError",
     ClientVersionNotSupportedError |-> "clientVersionNotSupportedError"]
DescribeDomain_Result ==
    [success |-> Struct(0, "DescribeDomainResponse"),
     badRequestError |-> Struct(1, "BadRequestError"),
     internalServiceError |-> Struct(2, "InternalServiceError"),
     entityNotExistError |-> Struct(3, "EntityNotExistsError"),
     serviceBusyError |-> Struct(4, "ServiceBusyError"),
     clientVersionNotSupportedError |-> Struct(5, "ClientVersionNotSupportedError")]

DescribeTaskList_Args == [request |-> Struct(1, "DescribeTaskListRequest")]
DescribeTaskList_Helper ==
    [BadRequestError |-> "badRequestError", InternalServiceError |-> "internalServiceError",
     EntityNotExistsError |-> "entityNotExistError",
     LimitExceededError |-> "limitExceededError", ServiceBusyError |-> "serviceBusyError",
     ClientVersionNotSupportedError |-> "clientVersionNotSupportedError"]
DescribeTaskList_Result ==
    [success |-> Struct(0, "DescribeTaskListResponse"),
     badRequestError |-> Struct(1, "BadRequestError"),
     internalServiceError |-> Struct(2, "InternalServiceError"),
     entityNotExistError |-> Struct(3, "EntityNotExistsError"),
     limitExceededError |-> Struct(4, "LimitExceededError"),
     serviceBusyError |-> Struct(5, "ServiceBusyError"),
     clientVersionNotSupportedError |-> Struct(6, "ClientVersionNotSupportedError")]

DescribeWorkflowExecution_Args ==
    [describeRequest |-> Struct(1, "DescribeWorkflowExecutionRequest")]
DescribeWorkflowExecution_Helper ==
    [BadRequestError |-> "badRequestError", InternalServiceError |-> "internalServiceError",
     EntityNotExistsError |-> "entityNotExistError",
     LimitExceededError |-> "limitExceededError", ServiceBusyError |-> "serviceBusyError",
     ClientVersionNotSupportedError |-> "clientVersionNotSupportedError"]
DescribeWorkflowExecution_Result ==
    [success |-> Struct(0, "DescribeWorkflowExecutionResponse"),
     badRequestError |-> Struct(1, "BadRequestError"),
     internalServiceError |-> Struct(2, "InternalServiceError"),
     entityNotExistError |-> Struct(3, "EntityNotExistsError"),
     limitExceededError |-> Struct(4, "LimitExceededError"),
     serviceBusyError |-> Struct(5, "ServiceBusyError"),
     clientVersionNotSupportedError |-> Struct(6, "ClientVersionNotSupportedError")]

GetSearchAttributes_Args == <<>>
GetSearchAttributes_Helper ==
    [InternalServiceError |-> "internalServiceError", ServiceBusyError |-> "serviceBusyError",
     ClientVersionNotSupportedError |-> "clientVersionNotSupportedError"]
GetSearchAttributes_Result ==
    [success |-> Struct(0, "GetSearchAttributesResponse"),
     internalServiceError |-> Struct(1, "InternalServiceError"),
     serviceBusyError |-> Struct(2, "ServiceBusyError"),
     clientVersionNotSupportedError |-> Struct(3, "ClientVersionNotSupportedError")]

GetWorkflowExecutionHistory_Args ==
    [getRequest |-> Struct(1, "GetWorkflowExecutionHistoryRequest")]
GetWorkflowExecutionHistory_Helper ==
    [BadRequestError |-> "badRequestError", InternalServiceError |-> "internalServiceError",
     EntityNotExistsError |-> "entityNotExistError", ServiceBusyError |-> "serviceBusyError",
     ClientVersionNotSupportedError |-> "clientVersionNotSupportedError"]
GetWorkflowExecutionHistory_Result ==
    [success |-> Struct(0, "GetWorkflowExecutionHistoryResponse"),
     badRequestError |-> Struct(1, "BadRequestError"),
     internalServiceError |-> Struct(2, "InternalServiceError"),
     entityNotExistError |-> Struct(3, "EntityNotExistsError"),
     serviceBusyError |-> Struct(4, "ServiceBusyError"),
     clientVersionNotSupportedError |-> Struct(5, "ClientVersionNotSupportedError")]

ListArchivedWorkflowExecutions_Args ==
    [listRequest |-> Struct(1, "ListArchivedWorkflowExecutionsRequest")]
ListArchivedWorkflowExecutions_Helper ==
    [BadRequestError |-> "badRequestError", InternalServiceError |-> "internalServiceError",
     EntityNotExistsError |-> "entityNotExistError", ServiceBusyError |-> "serviceBusyError",
     ClientVersionNotSupportedError |-> "clientVersionNotSupportedError"]
ListArchivedWorkflowExecutions_Result ==
    [success |-> Struct(0, "ListArchivedWorkflowExecutionsResponse"),
     badRequestError |-> Struct(1, "BadRequestError"),
     internalServiceError |-> Struct(2, "InternalServiceError"),
     entityNotExistError |-> Struct(3, "EntityNotExistsError"),
     serviceBusyError |-> Struct(4, "ServiceBusyError"),
     clientVersionNotSupportedError |-> Struct(5, "ClientVersionNotSupportedError")]

ListClosedWorkflowExecutions_Args ==
    [listRequest |-> Struct(1, "ListClosedWorkflowExecutionsRequest")]
ListClosedWorkflowExecutions_Helper ==
    [BadRequestError |-> "badRequestError", InternalServiceError |-> "internalServiceError",
     EntityNotExistsError |-> "entityNotExistError", ServiceBusyError |-> "serviceBusyError",
     ClientVersionNotSupportedError |-> "clientVersionNotSupportedError"]
ListClosedWorkflowExecutions_Result ==
    [success |-> Struct(0, "ListClosedWorkflowExecutionsResponse"),
     badRequestError |-> Struct(1, "BadRequestError"),
     internalServiceError |-> Struct(2, "InternalServiceError"),
     entityNotExistError |-> Struct(3, "EntityNotExistsError"),
     serviceBusyError |-> Struct(4, "ServiceBusyError"),
     clientVersionNotSupportedError |-> Struct(5, "ClientVersionNotSupportedError")]

ListDomains_Args == [listRequest |-> Struct(1, "ListDomainsRequest")]
ListDomains_Helper ==
    [BadRequestError |-> "badRequestError", InternalServiceError |-> "internalServiceError",
     EntityNotExistsError |-> "entityNotExistError", ServiceBusyError |-> "serviceBusyError",
     ClientVersionNotSupportedError |-> "clientVersionNotSupportedError"]
ListDomains_Result ==
    [success |-> Struct(0, "ListDomainsResponse"),
     badRequestError |-> Struct(1, "BadRequestError"),
     internalServiceError |-> Struct(2, "InternalServiceError"),
     entityNotExistError |-> Struct(3, "EntityNotExistsError"),
     serviceBusyError |-> Struct(4, "ServiceBusyError"),
     clientVersionNotSupportedError |-> Struct(5, "ClientVersionNotSupportedError")]

ListOpenWorkflowExecutions_Args ==
    [listRequest |-> Struct(1, "ListOpenWorkflowExecutionsRequest")]
ListOpenWorkflowExecutions_Helper ==
    [BadRequestError |-> "badRequestError", InternalServiceError |-> "internalServiceError",
     EntityNotExistsError |-> "entityNotExistError", ServiceBusyError |-> "serviceBusyError",
     LimitExceededError |-> "limitExceededError",
     ClientVersionNotSupportedError |-> "clientVersionNotSupportedError"]
ListOpenWorkflowExecutions_Result ==
    [success |-> Struct(0, "ListOpenWorkflowExecutionsResponse"),
     badRequestError |-> Struct(1, "BadRequestError"),
     internalServiceError |-> Struct(2, "InternalServiceError"),
     entityNotExistError |-> Struct(3, "EntityNotExistsError"),
     serviceBusyError |-> Struct(4, "ServiceBusyError"),
     limitExceededError |-> Struct(5, "LimitExceededError"),
     clientVersionNotSupportedError |-> Struct(6, "ClientVersionNotSupportedError")]

ListWorkflowExecutions_Args == [listRequest |-> Struct(1, "ListWorkflowExecutionsRequest")]
ListWorkflowExecutions_Helper ==
    [BadRequestError |-> "badRequestError", InternalServiceError |-> "internalServiceError",
     EntityNotExistsError |-> "entityNotExistError", ServiceBusyError |-> "serviceBusyError",
     ClientVersionNotSupportedError |-> "clientVersionNotSupportedError"]
ListWorkflowExecutions_Result ==
    [success |-> Struct(0, "ListWorkflowExecutionsResponse"),
     badRequestError |-> Struct(1, "BadRequestError"),
     internalServiceError |-> Struct(2, "InternalServiceError"),
     entityNotExistError |-> Struct(3, "EntityNotExistsError"),
     serviceBusyError |-> Struct(4, "ServiceBusyError"),
     clientVersionNotSupportedError |-> Struct(5, "ClientVersionNotSupportedError")]

PollForActivityTask_Args == [pollRequest |-> Struct(1, "PollForActivityTaskRequest")]
PollForActivityTask_Helper ==
    [BadRequestError |-> "badRequestError", InternalServiceError |-> "internalServiceError",
     ServiceBusyError |-> "serviceBusyError", LimitExceededError |-> "limitExceededError",
     EntityNotExistsError |-> "entityNotExistError",
     DomainNotActiveError |-> "domainNotActiveError",
     ClientVersionNotSupportedError |-> "clientVersionNotSupportedError"]
PollForActivityTask_Result ==
    [success |-> Struct(0, "PollForActivityTaskResponse"),
     badRequestError |-> Struct(1, "BadRequestError"),
     internalServiceError |-> Struct(2, "InternalServiceError"),
     serviceBusyError |-> Struct(3, "ServiceBusyError"),
     limitExceededError |-> Struct(4, "LimitExceededError"),
     entityNotExistError |-> Struct(5, "EntityNotExistsError"),
     domainNotActiveError |-> Struct(6, "DomainNotActiveError"),
     clientVersionNotSupportedError |-> Struct(7, "ClientVersionNotSupportedError")]

PollForDecisionTask_Args == [pollRequest |-> Struct(1, "PollForDecisionTaskRequest")]
PollForDecisionTask_Helper ==
    [BadRequestError |-> "badRequestError", InternalServiceError |-> "internalServiceError",
     ServiceBusyError |-> "serviceBusyError", LimitExceededError |-> "limitExceededError",
     EntityNotExistsError |-> "entityNotExistError",
     DomainNotActiveError |-> "domainNotActiveError",
     ClientVersionNotSupportedError |-> "clientVersionNotSupportedError"]
PollForDecisionTask_Result ==
    [success |-> Struct(0, "PollForDecisionTaskResponse"),
     badRequestError |-> Struct(1, "BadRequestError"),
     internalServiceError |-> Struct(2, "InternalServiceError"),
     serviceBusyError |-> Struct(3, "ServiceBusyError"),
     limitExceededError |-> Struct(4, "LimitExceededError"),
     entityNotExistError |-> Struct(5, "EntityNotExistsError"),
     domainNotActiveError |-> Struct(6, "DomainNotActiveError"),
     clientVersionNotSupportedError |-> Struct(7, "ClientVersionNotSupportedError")]

QueryWorkflow_Args == [queryRequest |-> Struct(1, "QueryWorkflowRequest")]
QueryWorkflow_Helper ==
    [BadRequestError |-> "badRequestError", InternalServiceError |-> "internalServiceError",
     EntityNotExistsError |-> "entityNotExistError", QueryFailedError |-> "queryFailedError",
     LimitExceededError |-> "limitExceededError", ServiceBusyError |-> "serviceBusyError",
     ClientVersionNotSupportedError |-> "clientVersionNotSupportedError"]
QueryWorkflow_Result ==
    [success |-> Struct(0, "QueryWorkflowResponse"),
     badRequestError |-> Struct(1, "BadRequestError"),
     internalServiceError |-> Struct(2, "InternalServiceError"),
     entityNotExistError |-> Struct(3, "EntityNotExistsError"),
     queryFailedError |-> Struct(4, "QueryFailedError"),
     limitExceededError |-> Struct(5, "LimitExceededError"),
     serviceBusyError |-> Struct(6, "ServiceBusyError"),
     clientVersionNotSupportedError |-> Struct(7, "ClientVersionNotSupportedError")]

RecordActivityTaskHeartbeat_Args ==
    [heartbeatRequest |-> Struct(1, "RecordActivityTaskHeartbeatRequest")]
RecordActivityTaskHeartbeat_Helper ==
    [BadRequestError |-> "badRequestError", InternalServiceError |-> "internalServiceError",
     EntityNotExistsError |-> "entityNotExistError",
     DomainNotActiveError |-> "domainNotActiveError",
     LimitExceededError |-> "limitExceededError", ServiceBusyError |-> "serviceBusyError",
     ClientVersionNotSupportedError |-> "clientVersionNotSupportedError"]
RecordActivityTaskHeartbeat_Result ==
    [success |-> Struct(0, "RecordActivityTaskHeartbeatResponse"),
     badRequestError |-> Struct(1, "BadRequestError"),
     internalServiceError |-> Struct(2, "InternalServiceError"),
     entityNotExistError |-> Struct(3, "EntityNotExistsError"),
     domainNotActiveError |-> Struct(4, "DomainNotActiveError"),
     limitExceededError |-> Struct(5, "LimitExceededError"),
     serviceBusyError |-> Struct(6, "ServiceBusyError"),
     clientVersionNotSupportedError |-> Struct(7, "ClientVersionNotSupportedError")]

RecordActivityTaskHeartbeatByID_Args ==
    [heartbeatRequest |-> Struct(1, "RecordActivityTaskHeartbeatByIDRequest")]
RecordActivityTaskHeartbeatByID_Helper ==
    [BadRequestError |-> "badRequestError", InternalServiceError |-> "internalServiceError",
     EntityNotExistsError |-> "entityNotExistError",
     DomainNotActiveError |-> "domainNotActiveError",
     LimitExceededError |-> "limitExceededError", ServiceBusyError |-> "serviceBusyError",
     ClientVersionNotSupportedError |-> "clientVersionNotSupportedError"]
RecordActivityTaskHeartbeatByID_Result ==
    [success |-> Struct(0, "RecordActivityTaskHeartbeatResponse"),
     badRequestError |-> Struct(1, "BadRequestError"),
     internalServiceError |-> Struct(2, "InternalServiceError"),
     entityNotExistError |-> Struct(3, "EntityNotExistsError"),
     domainNotActiveError |-> Struct(4, "DomainNotActiveError"),
     limitExceededError |-> Struct(5, "LimitExceededError"),
     serviceBusyError |-> Struct(6, "ServiceBusyError"),
     clientVersionNotSupportedError |-> Struct(7, "ClientVersionNotSupportedError")]

RegisterDomain_Args == [registerRequest |-> Struct(1, "RegisterDomainRequest")]
RegisterDomain_Helper ==
    [BadRequestError |-> "badRequestError", InternalServiceError |-> "internalServiceError",
     DomainAlreadyExistsError |-> "domainExistsError", ServiceBusyError |-> "serviceBusyError",
     ClientVersionNotSupportedError |-> "clientVersionNotSupportedError"]
RegisterDomain_Result ==
    [badRequestError |-> Struct(1, "BadRequestError"),
     internalServiceError |-> Struct(2, "InternalServiceError"),
     domainExistsError |-> Struct(3, "DomainAlreadyExistsError"),
     serviceBusyError |-> Struct(4, "ServiceBusyError"),
     clientVersionNotSupportedError |-> Struct(5, "ClientVersionNotSupportedError")]

RequestCancelWorkflowExecution_Args ==
    [cancelRequest |-> Struct(1, "RequestCancelWorkflowExecutionRequest")]
RequestCancelWorkflowExecution_Helper ==
    [BadRequestError |-> "badRequestError", InternalServiceError |-> "internalServiceError",
     EntityNotExistsError |-> "entityNotExistError",
     CancellationAlreadyRequestedError |-> "cancellationAlreadyRequestedError",
     ServiceBusyError |-> "serviceBusyError", DomainNotActiveError |-> "domainNotActiveError",
     LimitExceededError |-> "limitExceededError",
     ClientVersionNotSupportedError |-> "clientVersionNotSupportedError"]
RequestCancelWorkflowExecution_Result ==
    [badRequestError |-> Struct(1, "BadRequestError"),
     internalServiceError |-> Struct(2, "InternalServiceError"),
     entityNotExistError |-> Struct(3, "EntityNotExistsError"),
     cancellationAlreadyRequestedError |-> Struct(4, "CancellationAlreadyRequestedError"),
     serviceBusyError |-> Struct(5, "ServiceBusyError"),
     domainNotActiveError |-> Struct(6, "DomainNotActiveError"),
     limitExceededError |-> Struct(7, "LimitExceededError"),
     clientVersionNotSupportedError |-> Struct(8, "ClientVersionNotSupportedError")]

ResetStickyTaskList_Args == [resetRequest |-> Struct(1, "ResetStickyTaskListRequest")]
ResetStickyTaskList_Helper ==
    [BadRequestError |-> "badRequestError", InternalServiceError |-> "internalServiceError",
     EntityNotExistsError |-> "entityNotExistError",
     LimitExceededError |-> "limitExceededError", ServiceBusyError |-> "serviceBusyError",
     DomainNotActiveError |-> "domainNotActiveError",
     ClientVersionNotSupportedError |-> "clientVersionNotSupportedError"]
ResetStickyTaskList_Result ==
    [success |-> Struct(0, "ResetStickyTaskListResponse"),
     badRequestError |-> Struct(1, "BadRequestError"),
     internalServiceError |-> Struct(2, "InternalServiceError"),
     entityNotExistError |-> Struct(3, "EntityNotExistsError"),
     limitExceededError |-> Struct(4, "LimitExceededError"),
     serviceBusyError |-> Struct(5, "ServiceBusyError"),
     domainNotActiveError |-> Struct(6, "DomainNotActiveError"),
     clientVersionNotSupportedError |-> Struct(7, "ClientVersionNotSupportedError")]

ResetWorkflowExecution_Args == [resetRequest |-> Struct(1, "ResetWorkflowExecutionRequest")]
ResetWorkflowExecution_Helper ==
    [BadRequestError |-> "badRequestError", InternalServiceError |-> "internalServiceError",
     EntityNotExistsError |-> "entityNotExistError", ServiceBusyError |-> "serviceBusyError",
     DomainNotActiveError |-> "domainNotActiveError",
     LimitExceededError |-> "limitExceededError",
     ClientVersionNotSupportedError |-> "clientVersionNotSupportedError"]
ResetWorkflowExecution_Result ==
    [success |-> Struct(0, "ResetWorkflowExecutionResponse"),
     badRequestError |-> Struct(1, "BadRequestError"),
     internalServiceError |-> Struct(2, "InternalServiceError"),
     entityNotExistError |-> Struct(3, "EntityNotExistsError"),
     serviceBusyError |-> Struct(4, "ServiceBusyError"),
     domainNotActiveError |-> Struct(5, "DomainNotActiveError"),
     limitExceededError |-> Struct(6, "LimitExceededError"),
     clientVersionNotSupportedError |-> Struct(7, "ClientVersionNotSupportedError")]

RespondActivityTaskCanceled_Args ==
    [canceledRequest |-> Struct(1, "RespondActivityTaskCanceledRequest")]
RespondActivityTaskCanceled_Helper ==
    [BadRequestError |-> "badRequestError", InternalServiceError |-> "internalServiceError",
     EntityNotExistsError |-> "entityNotExistError",
     DomainNotActiveError |-> "domainNotActiveError",
     LimitExceededError |-> "limitExceededError", ServiceBusyError |-> "serviceBusyError",
     ClientVersionNotSupportedError |-> "clientVersionNotSupportedError"]
RespondActivityTaskCanceled_Result ==
    [badRequestError |-> Struct(1, "BadRequestError"),
     internalServiceError |-> Struct(2, "InternalServiceError"),
     entityNotExistError |-> Struct(3, "EntityNotExistsError"),
     domainNotActiveError |-> Struct(4, "DomainNotActiveError"),
     limitExceededError |-> Struct(5, "LimitExceededError"),
     serviceBusyError |-> Struct(6, "ServiceBusyError"),
     clientVersionNotSupportedError |-> Struct(7, "ClientVersionNotSupportedError")]

RespondActivityTaskCanceledByID_Args ==
    [canceledRequest |-> Struct(1, "RespondActivityTaskCanceledByIDRequest")]
RespondActivityTaskCanceledByID_Helper ==
    [BadRequestError |-> "badRequestError", InternalServiceError |-> "internalServiceError",
     EntityNotExistsError |-> "entityNotExistError",
     DomainNotActiveError |-> "domainNotActiveError",
     LimitExceededError |-> "limitExceededError", ServiceBusyError |-> "serviceBusyError",
     ClientVersionNotSupportedError |-> "clientVersionNotSupportedError"]
RespondActivityTaskCanceledByID_Result ==
    [badRequestError |-> Struct(1, "BadRequestError"),
     internalServiceError |-> Struct(2, "InternalServiceError"),
     entityNotExistError |-> Struct(3, "EntityNotExistsError"),
     domainNotActiveError |-> Struct(4, "DomainNotActiveError"),
     limitExceededError |-> Struct(5, "LimitExceededError"),
     serviceBusyError |-> Struct(6, "ServiceBusyError"),
     clientVersionNotSupportedError |-> Struct(7, "ClientVersionNotSupportedError")]

RespondActivityTaskCompleted_Args ==
    [completeRequest |-> Struct(1, "RespondActivityTaskCompletedRequest")]
RespondActivityTaskCompleted_Helper ==
    [BadRequestError |-> "badRequestError", InternalServiceError |-> "internalServiceError",
     EntityNotExistsError |-> "entityNotExistError",
     DomainNotActiveError |-> "domainNotActiveError",
     LimitExceededError |-> "limitExceededError", ServiceBusyError |-> "serviceBusyError",
     ClientVersionNotSupportedError |-> "clientVersionNotSupportedError"]
RespondActivityTaskCompleted_Result ==
    [badRequestError |-> Struct(1, "BadRequestError"),
     internalServiceError |-> Struct(2, "InternalServiceError"),
     entityNotExistError |-> Struct(3, "EntityNotExistsError"),
     domainNotActiveError |-> Struct(4, "DomainNotActiveError"),
     limitExceededError |-> Struct(5, "LimitExceededError"),
     serviceBusyError |-> Struct(6, "ServiceBusyError"),
     clientVersionNotSupportedError |-> Struct(7, "ClientVersionNotSupportedError")]

RespondActivityTaskCompletedByID_Args ==
    [completeRequest |-> Struct(1, "RespondActivityTaskCompletedByIDRequest")]
RespondActivityTaskCompletedByID_Helper ==
    [BadRequestError |-> "badRequestError", InternalServiceError |-> "internalServiceError",
     EntityNotExistsError |-> "entityNotExistError",
     DomainNotActiveError |-> "domainNotActiveError",
     LimitExceededError |-> "limitExceededError", ServiceBusyError |-> "serviceBusyError",
     ClientVersionNotSupportedError |-> "clientVersionNotSupportedError"]
RespondActivityTaskCompletedByID_Result ==
    [badRequestError |-> Struct(1, "BadRequestError"),
     internalServiceError |-> Struct(2, "InternalServiceError"),
     entityNotExistError |-> Struct(3, "EntityNotExistsError"),
     domainNotActiveError |-> Struct(4, "DomainNotActiveError"),
     limitExceededError |-> Struct(5, "LimitExceededError"),
     serviceBusyError |-> Struct(6, "ServiceBusyError"),
     clientVersionNotSupportedError |-> Struct(7, "ClientVersionNotSupportedError")]

RespondActivityTaskFailed_Args ==
    [failRequest |-> Struct(1, "RespondActivityTaskFailedRequest")]
RespondActivityTaskFailed_Helper ==
    [BadRequestError |-> "badRequestError", InternalServiceError |-> "internalServiceError",
     EntityNotExistsError |-> "entityNotExistError",
     DomainNotActiveError |-> "domainNotActiveError",
     LimitExceededError |-> "limitExceededError", ServiceBusyError |-> "serviceBusyError",
     ClientVersionNotSupportedError |-> "clientVersionNotSupportedError"]
RespondActivityTaskFailed_Result ==
    [badRequestError |-> Struct(1, "BadRequestError"),
     internalServiceError |-> Struct(2, "InternalServiceError"),
     entityNotExistError |-> Struct(3, "EntityNotExistsError"),
     domainNotActiveError |-> Struct(4, "DomainNotActiveError"),
     limitExceededError |-> Struct(5, "LimitExceededError"),
     serviceBusyError |-> Struct(6, "ServiceBusyError"),
     clientVersionNotSupportedError |-> Struct(7, "ClientVersionNotSupportedError")]

RespondActivityTaskFailedByID_Args ==
    [failRequest |-> Struct(1, "RespondActivityTaskFailedByIDRequest")]
RespondActivityTaskFailedByID_Helper ==
    [BadRequestError |-> "badRequestError", InternalServiceError |-> "internalServiceError",
     EntityNotExistsError |-> "entityNotExistError",
     DomainNotActiveError |-> "domainNotActiveError",
     LimitExceededError |-> "limitExceededError", ServiceBusyError |-> "serviceBusyError",
     ClientVersionNotSupportedError |-> "clientVersionNotSupportedError"]
RespondActivityTaskFailedByID_Result ==
    [badRequestError |-> Struct(1, "BadRequestError"),
     internalServiceError |-> Struct(2, "InternalServiceError"),
     entityNotExistError |-> Struct(3, "EntityNotExistsError"),
     domainNotActiveError |-> Struct(4, "DomainNotActiveError"),
     limitExceededError |-> Struct(5, "LimitExceededError"),
     serviceBusyError |-> Struct(6, "ServiceBusyError"),
     clientVersionNotSupportedError |-> Struct(7, "ClientVersionNotSupportedError")]

RespondDecisionTaskCompleted_Args ==
    [completeRequest |-> Struct(1, "RespondDecisionTaskCompletedRequest")]
RespondDecisionTaskCompleted_Helper ==
    [BadRequestError |-> "badRequestError", InternalServiceError |-> "internalServiceError",
     EntityNotExistsError |-> "entityNotExistError",
     DomainNotActiveError |-> "domainNotActiveError",
     LimitExceededError |-> "limitExceededError", ServiceBusyError |-> "serviceBusyError",
     ClientVersionNotSupportedError |-> "clientVersionNotSupportedError"]
RespondDecisionTaskCompleted_Result ==
    [success |-> Struct(0, "RespondDecisionTaskCompletedResponse"),
     badRequestError |-> Struct(1, "BadRequestError"),
     internalServiceError |-> Struct(2, "InternalServiceError"),
     entityNotExistError |-> Struct(3, "EntityNotExistsError"),
     domainNotActiveError |-> Struct(4, "DomainNotActiveError"),
     limitExceededError |-> Struct(5, "LimitExceededError"),
     serviceBusyError |-> Struct(6, "ServiceBusyError"),
     clientVersionNotSupportedError |-> Struct(7, "ClientVersionNotSupportedError")]

RespondDecisionTaskFailed_Args ==
    [failedRequest |-> Struct(1, "RespondDecisionTaskFailedRequest")]
RespondDecisionTaskFailed_Helper ==
    [BadRequestError |-> "badRequestError", InternalServiceError |-> "internalServiceError",
     EntityNotExistsError |-> "entityNotExistError",
     DomainNotActiveError |-> "domainNotActiveError",
     LimitExceededError |-> "limitExceededError", ServiceBusyError |-> "serviceBusyError",
     ClientVersionNotSupportedError |-> "clientVersionNotSupportedError"]
RespondDecisionTaskFailed_Result ==
    [badRequestError |-> Struct(1, "BadRequestError"),
     internalServiceError |-> Struct(2, "InternalServiceError"),
     entityNotExistError |-> Struct(3, "EntityNotExistsError"),
     domainNotActiveError |-> Struct(4, "DomainNotActiveError"),
     limitExceededError |-> Struct(5, "LimitExceededError"),
     serviceBusyError |-> Struct(6, "ServiceBusyError"),
     clientVersionNotSupportedError |-> Struct(7, "ClientVersionNotSupportedError")]

RespondQueryTaskCompleted_Args ==
    [completeRequest |-> Struct(1, "RespondQueryTaskCompletedRequest")]
RespondQueryTaskCompleted_Helper ==
    [BadRequestError |-> "badRequestError", InternalServiceError |-> "internalServiceError",
     EntityNotExistsError |-> "entityNotExistError",
     LimitExceededError |-> "limitExceededError", ServiceBusyError |-> "serviceBusyError",
     DomainNotActiveError |-> "domainNotActiveError",
     ClientVersionNotSupportedError |-> "clientVersionNotSupportedError"]
RespondQueryTaskCompleted_Result ==
    [badRequestError |-> Struct(1, "BadRequestError"),
     internalServiceError |-> Struct(2, "InternalServiceError"),
     entityNotExistError |-> Struct(3, "EntityNotExistsError"),
     limitExceededError |-> Struct(4, "LimitExceededError"),
     serviceBusyError |-> Struct(5, "ServiceBusyError"),
     domainNotActiveError |-> Struct(6, "DomainNotActiveError"),
     clientVersionNotSupportedError |-> Struct(7, "ClientVersionNotSupportedError")]

ScanWorkflowExecutions_Args == [listRequest |-> Struct(1, "ListWorkflowExecutionsRequest")]
ScanWorkflowExecutions_Helper ==
    [BadRequestError |-> "badRequestError", InternalServiceError |-> "internalServiceError",
     EntityNotExistsError |-> "entityNotExistError", ServiceBusyError |-> "serviceBusyError",
     ClientVersionNotSupportedError |-> "clientVersionNotSupportedError"]
ScanWorkflowExecutions_Result ==
    [success |-> Struct(0, "ListWorkflowExecutionsResponse"),
     badRequestError |-> Struct(1, "BadRequestError"),
     internalServiceError |-> Struct(2, "InternalServiceError"),
     entityNotExistError |-> Struct(3, "EntityNotExistsError"),
     serviceBusyError |-> Struct(4, "ServiceBusyError"),
     clientVersionNotSupportedError |-> Struct(5, "ClientVersionNotSupportedError")]

SignalWithStartWorkflowExecution_Args ==
    [signalWithStartRequest |-> Struct(1, "SignalWithStartWorkflowExecutionRequest")]
SignalWithStartWorkflowExecution_Helper ==
    [BadRequestError |-> "badRequestError", InternalServiceError |-> "internalServiceError",
     EntityNotExistsError |-> "entityNotExistError", ServiceBusyError |-> "serviceBusyError",
     DomainNotActiveError |-> "domainNotActiveError",
     LimitExceededError |-> "limitExceededError",
     WorkflowExecutionAlreadyStartedError |-> "workflowAlreadyStartedError",
     ClientVersionNotSupportedError |-> "clientVersionNotSupportedError"]
SignalWithStartWorkflowExecution_Result ==
    [success |-> Struct(0, "StartWorkflowExecutionResponse"),
     badRequestError |-> Struct(1, "BadRequestError"),
     internalServiceError |-> Struct(2, "InternalServiceError"),
     entityNotExistError |-> Struct(3, "EntityNotExistsError"),
     serviceBusyError |-> Struct(4, "ServiceBusyError"),
     domainNotActiveError |-> Struct(5, "DomainNotActiveError"),
     limitExceededError |-> Struct(6, "LimitExceededError"),
     workflowAlreadyStartedError |-> Struct(7, "WorkflowExecutionAlreadyStartedError"),
     clientVersionNotSupportedError |-> Struct(8, "ClientVersionNotSupportedError")]

SignalWorkflowExecution_Args == [signalRequest |-> Struct(1, "SignalWorkflowExecutionRequest")]
SignalWorkflowExecution_Helper ==
    [BadRequestError |-> "badRequestError", InternalServiceError |-> "internalServiceError",
     EntityNotExistsError |-> "entityNotExistError", ServiceBusyError |-> "serviceBusyError",
     DomainNotActiveError |-> "domainNotActiveError",
     LimitExceededError |-> "limitExceededError",
     ClientVersionNotSupportedError |-> "clientVersionNotSupportedError"]
SignalWorkflowExecution_Result ==
    [badRequestError |-> Struct(1, "BadRequestError"),
     internalServiceError |-> Struct(2, "InternalServiceError"),
     entityNotExistError |-> Struct(3, "EntityNotExistsError"),
     serviceBusyError |-> Struct(4, "ServiceBusyError"),
     domainNotActiveError |-> Struct(5, "DomainNotActiveError"),
     limitExceededError |-> Struct(6, "LimitExceededError"),
     clientVersionNotSupportedError |-> Struct(7, "ClientVersionNotSupportedError")]

StartWorkflowExecution_Args == [startRequest |-> Struct(1, "StartWorkflowExecutionRequest")]
StartWorkflowExecution_Helper ==
    [BadRequestError |-> "badRequestError", InternalServiceError |-> "internalServiceError",
     WorkflowExecutionAlreadyStartedError |-> "sessionAlreadyExistError",
     ServiceBusyError |-> "serviceBusyError", DomainNotActiveError |-> "domainNotActiveError",
     LimitExceededError |-> "limitExceededError",
     EntityNotExistsError |-> "entityNotExistError",
     ClientVersionNotSupportedError |-> "clientVersionNotSupportedError"]
StartWorkflowExecution_Result ==
    [success |-> Struct(0, "StartWorkflowExecutionResponse"),
     badRequestError |-> Struct(1, "BadRequestError"),
     internalServiceError |-> Struct(2, "InternalServiceError"),
     sessionAlreadyExistError |-> Struct(3, "WorkflowExecutionAlreadyStartedError"),
     serviceBusyError |-> Struct(4, "ServiceBusyError"),
     domainNotActiveError |-> Struct(5, "DomainNotActiveError"),
     limitExceededError |-> Struct(6, "LimitExceededError"),
     entityNotExistError |-> Struct(7, "EntityNotExistsError"),
     clientVersionNotSupportedError |-> Struct(8, "ClientVersionNotSupportedError")]

TerminateWorkflowExecution_Args ==
    [terminateRequest |-> Struct(1, "TerminateWorkflowExecutionRequest")]
TerminateWorkflowExecution_Helper ==
    [BadRequestError |-> "badRequestError", InternalServiceError |-> "internalServiceError",
     EntityNotExistsError |-> "entityNotExistError", ServiceBusyError |-> "serviceBusyError",
     DomainNotActiveError |-> "domainNotActiveError",
     LimitExceededError |-> "limitExceededError",
     ClientVersionNotSupportedError |-> "clientVersionNotSupportedError"]
TerminateWorkflowExecution_Result ==
    [badRequestError |-> Struct(1, "BadRequestError"),
     internalServiceError |-> Struct(2, "InternalServiceError"),
     entityNotExistError |-> Struct(3, "EntityNotExistsError"),
     serviceBusyError |-> Struct(4, "ServiceBusyError"),
     domainNotActiveError |-> Struct(5, "DomainNotActiveError"),
     limitExceededError |-> Struct(6, "LimitExceededError"),
     clientVersionNotSupportedError |-> Struct(7, "ClientVersionNotSupportedError")]

UpdateDomain_Args == [updateRequest |-> Struct(1, "UpdateDomainRequest")]
UpdateDomain_Helper ==
    [BadRequestError |-> "badRequestError", InternalServiceError |-> "internalServiceError",
     EntityNotExistsError |-> "entityNotExistError", ServiceBusyError |-> "serviceBusyError",
     DomainNotActiveError |-> "domainNotActiveError",
     ClientVersionNotSupportedError |-> "clientVersionNotSupportedError"]
UpdateDomain_Result ==
    [success |-> Struct(0, "UpdateDomainResponse"),
     badRequestError |-> Struct(1, "BadRequestError"),
     internalServiceError |-> Struct(2, "InternalServiceError"),
     entityNotExistError |-> Struct(3, "EntityNotExistsError"),
     serviceBusyError |-> Struct(4, "ServiceBusyError"),
     domainNotActiveError |-> Struct(5, "DomainNotActiveError"),
     clientVersionNotSupportedError |-> Struct(6, "ClientVersionNotSupportedError")]

\* The tables by call.
Args ==
    [CountWorkflowExecutions |-> CountWorkflowExecutions_Args,
     DeprecateDomain |-> DeprecateDomain_Args, DescribeDomain |-> DescribeDomain_Args,
     DescribeTaskList |-> DescribeTaskList_Args,
     DescribeWorkflowExecution |-> DescribeWorkflowExecution_Args,
     GetSearchAttributes |-> GetSearchAttributes_Args,
     GetWorkflowExecutionHistory |-> GetWorkflowExecutionHistory_Args,
     ListArchivedWorkflowExecutions |-> ListArchivedWorkflowExecutions_Args,
     ListClosedWorkflowExecutions |-> ListClosedWorkflowExecutions_Args,
     ListDomains |-> ListDomains_Args,
     ListOpenWorkflowExecutions |-> ListOpenWorkflowExecutions_Args,
     ListWorkflowExecutions |-> ListWorkflowExecutions_Args,
     PollForActivityTask |-> PollForActivityTask_Args,
     PollForDecisionTask |-> PollForDecisionTask_Args, QueryWorkflow |-> QueryWorkflow_Args,
     RecordActivityTaskHeartbeat |-> RecordActivityTaskHeartbeat_Args,
     RecordActivityTaskHeartbeatByID |-> RecordActivityTaskHeartbeatByID_Args,
     RegisterDomain |-> RegisterDomain_Args,
     RequestCancelWorkflowExecution |-> RequestCancelWorkflowExecution_Args,
     ResetStickyTaskList |-> ResetStickyTaskList_Args,
     ResetWorkflowExecution |-> ResetWorkflowExecution_Args,
     RespondActivityTaskCanceled |-> RespondActivityTaskCanceled_Args,
     RespondActivityTaskCanceledByID |-> RespondActivityTaskCanceledByID_Args,
     RespondActivityTaskCompleted |-> RespondActivityTaskCompleted_Args,
     RespondActivityTaskCompletedByID |-> RespondActivityTaskCompletedByID_Args,
     RespondActivityTaskFailed |-> RespondActivityTaskFailed_Args,
     RespondActivityTaskFailedByID |-> RespondActivityTaskFailedByID_Args,
     RespondDecisionTaskCompleted |-> RespondDecisionTaskCompleted_Args,
     RespondDecisionTaskFailed |-> RespondDecisionTaskFailed_Args,
     RespondQueryTaskCompleted |-> RespondQueryTaskCompleted_Args,
     ScanWorkflowExecutions |-> ScanWorkflowExecutions_Args,
     SignalWithStartWorkflowExecution |-> SignalWithStartWorkflowExecution_Args,
     SignalWorkflowExecution |-> SignalWorkflowExecution_Args,
     StartWorkflowExecution |-> StartWorkflowExecution_Args,
     TerminateWorkflowExecution |-> TerminateWorkflowExecution_Args,
     UpdateDomain |-> UpdateDomain_Args]
Helpers ==
    [CountWorkflowExecutions |-> CountWorkflowExecutions_Helper,
     DeprecateDomain |-> DeprecateDomain_Helper, DescribeDomain |-> DescribeDomain_Helper,
     DescribeTaskList |-> DescribeTaskList_Helper,
     DescribeWorkflowExecution |-> DescribeWorkflowExecution_Helper,
     GetSearchAttributes |-> GetSearchAttributes_Helper,
     GetWorkflowExecutionHistory |-> GetWorkflowExecutionHistory_Helper,
     ListArchivedWorkflowExecutions |-> ListArchivedWorkflowExecutions_Helper,
     ListClosedWorkflowExecutions |-> ListClosedWorkflowExecutions_Helper,
     ListDomains |-> ListDomains_Helper,
     ListOpenWorkflowExecutions |-> ListOpenWorkflowExecutions_Helper,
     ListWorkflowExecutions |-> ListWorkflowExecutions_Helper,
     PollForActivityTask |-> PollForActivityTask_Helper,
     PollForDecisionTask |-> PollForDecisionTask_Helper, QueryWorkflow |-> QueryWorkflow_Helper,
     RecordActivityTaskHeartbeat |-> RecordActivityTaskHeartbeat_Helper,
     RecordActivityTaskHeartbeatByID |-> RecordActivityTaskHeartbeatByID_Helper,
     RegisterDomain |-> RegisterDomain_Helper,
     RequestCancelWorkflowExecution |-> RequestCancelWorkflowExecution_Helper,
     ResetStickyTaskList |-> ResetStickyTaskList_Helper,
     ResetWorkflowExecution |-> ResetWorkflowExecution_Helper,
     RespondActivityTaskCanceled |-> RespondActivityTaskCanceled_Helper,
     RespondActivityTaskCanceledByID |-> RespondActivityTaskCanceledByID_Helper,
     RespondActivityTaskCompleted |-> RespondActivityTaskCompleted_Helper,
     RespondActivityTaskCompletedByID |-> RespondActivityTaskCompletedByID_Helper,
     RespondActivityTaskFailed |-> RespondActivityTaskFailed_Helper,
     RespondActivityTaskFailedByID |-> RespondActivityTaskFailedByID_Helper,
     RespondDecisionTaskCompleted |-> RespondDecisionTaskCompleted_Helper,
     RespondDecisionTaskFailed |-> RespondDecisionTaskFailed_Helper,
     RespondQueryTaskCompleted |-> RespondQueryTaskCompleted_Helper,
     ScanWorkflowExecutions |-> ScanWorkflowExecutions_Helper,
     SignalWithStartWorkflowExecution |-> SignalWithStartWorkflowExecution_Helper,
     SignalWorkflowExecution |-> SignalWorkflowExecution_Helper,
     StartWorkflowExecution |-> StartWorkflowExecution_Helper,
     TerminateWorkflowExecution |-> TerminateWorkflowExecution_Helper,
     UpdateDomain |-> UpdateDomain_Helper]
Results ==
    [CountWorkflowExecutions |-> CountWorkflowExecutions_Result,
     DeprecateDomain |-> DeprecateDomain_Result, DescribeDomain |-> DescribeDomain_Result,
     DescribeTaskList |-> DescribeTaskList_Result,
     DescribeWorkflowExecution |-> DescribeWorkflowExecution_Result,
     GetSearchAttributes |-> GetSearchAttributes_Result,
     GetWorkflowExecutionHistory |-> GetWorkflowExecutionHistory_Result,
     ListArchivedWorkflowExecutions |-> ListArchivedWorkflowExecutions_Result,
     ListClosedWorkflowExecutions |-> ListClosedWorkflowExecutions_Result,
     ListDomains |-> ListDomains_Result,
     ListOpenWorkflowExecutions |-> ListOpenWorkflowExecutions_Result,
     ListWorkflowExecutions |-> ListWorkflowExecutions_Result,
     PollForActivityTask |-> PollForActivityTask_Result,
     PollForDecisionTask |-> PollForDecisionTask_Result, QueryWorkflow |-> QueryWorkflow_Result,
     RecordActivityTaskHeartbeat |-> RecordActivityTaskHeartbeat_Result,
     RecordActivityTaskHeartbeatByID |-> RecordActivityTaskHeartbeatByID_Result,
     RegisterDomain |-> RegisterDomain_Result,
     RequestCancelWorkflowExecution |-> RequestCancelWorkflowExecution_Result,
     ResetStickyTaskList |-> ResetStickyTaskList_Result,
     ResetWorkflowExecution |-> ResetWorkflowExecution_Result,
     RespondActivityTaskCanceled |-> RespondActivityTaskCanceled_Result,
     RespondActivityTaskCanceledByID |-> RespondActivityTaskCanceledByID_Result,
     RespondActivityTaskCompleted |-> RespondActivityTaskCompleted_Result,
     RespondActivityTaskCompletedByID |-> RespondActivityTaskCompletedByID_Result,
     RespondActivityTaskFailed |-> RespondActivityTaskFailed_Result,
     RespondActivityTaskFailedByID |-> RespondActivityTaskFailedByID_Result,
     RespondDecisionTaskCompleted |-> RespondDecisionTaskCompleted_Result,
     RespondDecisionTaskFailed |-> RespondDecisionTaskFailed_Result,
     RespondQueryTaskCompleted |-> RespondQueryTaskCompleted_Result,
     ScanWorkflowExecutions |-> ScanWorkflowExecutions_Result,
     SignalWithStartWorkflowExecution |-> SignalWithStartWorkflowExecution_Result,
     SignalWorkflowExecution |-> SignalWorkflowExecution_Result,
     StartWorkflowExecution |-> StartWorkflowExecution_Result,
     TerminateWorkflowExecution |-> TerminateWorkflowExecution_Result,
     UpdateDomain |-> UpdateDomain_Result]
=============================================================================
