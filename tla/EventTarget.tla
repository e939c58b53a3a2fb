----------------------------- MODULE EventTarget -----------------------------
(***************************************************************************)
(* History::Event#decision_id and History::EventTarget                     *)
(* (lib/cadence/workflow/history/event.rb, event_target.rb): which decision *)
(* an event of the service belongs to.  A target is the pair of a decision *)
(* id and a target type; two targets are the same when both agree.         *)
(*                                                                         *)
(* EVENT_TARGET_TYPES is searched by prefix in its own order, so an event  *)
(* type is written here as the parts its name is made of, cut where some   *)
(* key of that table ends.                                                 *)
(***************************************************************************)
EXTENDS Naturals, Sequences, FiniteSets, SequencesExt

\* The event types StateManager#apply_event knows.
Segments == [
    WorkflowExecutionStarted         |-> <<"WorkflowExecution", "Started">>,
    WorkflowExecutionCompleted       |-> <<"WorkflowExecution", "Completed">>,
    WorkflowExecutionFailed          |-> <<"WorkflowExecution", "Failed">>,
    WorkflowExecutionTimedOut        |-> <<"WorkflowExecution", "TimedOut">>,
    WorkflowExecutionCancelRequested |-> <<"WorkflowExecution", "Cancel", "Requested">>,
    WorkflowExecutionCanceled        |-> <<"WorkflowExecution", "Cancel", "ed">>,
    WorkflowExecutionSignaled        |-> <<"WorkflowExecution", "Signaled">>,
    WorkflowExecutionTerminated      |-> <<"WorkflowExecution", "Terminated">>,
    WorkflowExecutionContinuedAsNew  |-> <<"WorkflowExecution", "ContinuedAsNew">>,
    ActivityTaskScheduled            |-> <<"ActivityTask", "Scheduled">>,
    ActivityTaskStarted              |-> <<"ActivityTask", "Started">>,
    ActivityTaskCompleted            |-> <<"ActivityTask", "Completed">>,
    ActivityTaskFailed               |-> <<"ActivityTask", "Failed">>,
    ActivityTaskTimedOut             |-> <<"ActivityTask", "TimedOut">>,
    ActivityTaskCancelRequested      |-> <<"ActivityTask", "Cancel", "Requested">>,
    ActivityTaskCanceled             |-> <<"ActivityTask", "Cancel", "ed">>,
    RequestCancelActivityTaskFailed  |-> <<"RequestCancelActivityTask", "Failed">>,
    TimerStarted                     |-> <<"Timer", "Started">>,
    TimerFired                       |-> <<"Timer", "Fired">>,
    TimerCanceled                    |-> <<"Timer", "Canceled">>,
    CancelTimerFailed                |-> <<"CancelTimer", "Failed">>,
    MarkerRecorded                   |-> <<"Marker", "Recorded">>,
    StartChildWorkflowExecutionInitiated |-> <<"StartChildWorkflowExecution", "Initiated">>,
    StartChildWorkflowExecutionFailed    |-> <<"StartChildWorkflowExecution", "Failed">>,
    ChildWorkflowExecutionStarted    |-> <<"ChildWorkflowExecution", "Started">>,
    ChildWorkflowExecutionCompleted  |-> <<"ChildWorkflowExecution", "Completed">>,
    ChildWorkflowExecutionFailed     |-> <<"ChildWorkflowExecution", "Failed">>,
    ChildWorkflowExecutionCanceled   |-> <<"ChildWorkflowExecution", "Canceled">>,
    ChildWorkflowExecutionTimedOut   |-> <<"ChildWorkflowExecution", "TimedOut">>,
    ChildWorkflowExecutionTerminated |-> <<"ChildWorkflowExecution", "Terminated">>,
    RequestCancelExternalWorkflowExecutionInitiated |->
        <<"RequestCancelExternalWorkflowExecution", "Initiated">>,
    RequestCancelExternalWorkflowExecutionFailed |->
        <<"RequestCancelExternalWorkflowExecution", "Failed">>,
    ExternalWorkflowExecutionCancelRequested |->
        <<"ExternalWorkflowExecution", "Cancel", "Requested">>,
    ExternalWorkflowExecutionSignaled |-> <<"ExternalWorkflowExecution", "Signaled">>,
    SignalExternalWorkflowExecutionInitiated |->
        <<"SignalExternalWorkflowExecution", "Initiated">>,
    SignalExternalWorkflowExecutionFailed |->
        <<"SignalExternalWorkflowExecution", "Failed">>,
    UpsertWorkflowSearchAttributes   |-> <<"UpsertWorkflowSearchAttributes">> ]

EventTypes == DOMAIN Segments

\* The table in the order of the source.
EVENT_TARGET_TYPES == <<
    <<<<"ActivityTask", "Cancel">>,                 "cancel_activity_request">>,
    <<<<"ActivityTask">>,                           "activity">>,
    <<<<"RequestCancelActivityTask">>,              "cancel_activity_request">>,
    <<<<"Timer", "Canceled">>,                      "cancel_timer_request">>,
    <<<<"Timer">>,                                  "timer">>,
    <<<<"CancelTimer">>,                            "cancel_timer_request">>,
    <<<<"ChildWorkflowExecution">>,                 "child_workflow">>,
    <<<<"StartChildWorkflowExecution">>,            "child_workflow">>,
    <<<<"Marker">>,                                 "marker">>,
    <<<<"ExternalWorkflowExecution">>,              "external_workflow">>,
    <<<<"SignalExternalWorkflowExecution">>,        "external_workflow">>,
    <<<<"ExternalWorkflowExecution", "Cancel">>,    "cancel_external_workflow_request">>,
    <<<<"RequestCancelExternalWorkflowExecution">>, "cancel_external_workflow_request">>,
    <<<<"UpsertWorkflowSearchAttributes">>,         "workflow">>,
    <<<<"WorkflowExecution", "Cancel">>,            "cancel_workflow_request">>,
    <<<<"WorkflowExecution">>,                      "workflow">> >>

Matches(type) ==
    {i \in 1..Len(EVENT_TARGET_TYPES) : IsPrefix(EVENT_TARGET_TYPES[i][1], Segments[type])}

FirstMatch_Last(type) == CHOOSE i \in Matches(type) : \A j \in Matches(type) : i >= j

\* EVENT_TARGET_TYPES.find: the first key that is a prefix.
FirstMatch(type) == CHOOSE i \in Matches(type) : \A j \in Matches(type) : i <= j

EventTargetType == [type \in EventTypes |-> EVENT_TARGET_TYPES[FirstMatch(type)][2]]

DECISION_TARGET_TYPES == [
    ScheduleActivity            |-> "activity",
    RequestActivityCancellation |-> "cancel_activity_request",
    RecordMarker                |-> "marker",
    StartTimer                  |-> "timer",
    CancelTimer                 |-> "cancel_timer_request",
    CompleteWorkflow            |-> "workflow",
    FailWorkflow                |-> "workflow",
    StartChildWorkflow          |-> "child_workflow" ]

DecisionTypes == DOMAIN DECISION_TARGET_TYPES

\* Events that name the event that scheduled or started what they report on.
EVENT_TYPES ==
    { "ActivityTaskStarted", "ActivityTaskCompleted", "ActivityTaskFailed",
      "ActivityTaskTimedOut", "ActivityTaskCanceled", "TimerFired",
      "RequestCancelExternalWorkflowExecutionFailed", "WorkflowExecutionSignaled",
      "WorkflowExecutionTerminated", "SignalExternalWorkflowExecutionFailed",
      "ExternalWorkflowExecutionCancelRequested", "ExternalWorkflowExecutionSignaled",
      "UpsertWorkflowSearchAttributes" }

CHILD_WORKFLOW_EVENTS_NoTimeout ==
    { "StartChildWorkflowExecutionFailed", "ChildWorkflowExecutionStarted",
      "ChildWorkflowExecutionCompleted", "ChildWorkflowExecutionFailed",
      "ChildWorkflowExecutionCanceled", "ChildWorkflowExecutionTerminated" }

\* Events that name the event that initiated a child workflow.
CHILD_WORKFLOW_EVENTS ==
    { "StartChildWorkflowExecutionFailed", "ChildWorkflowExecutionStarted",
      "ChildWorkflowExecutionCompleted", "ChildWorkflowExecutionFailed",
      "ChildWorkflowExecutionCanceled", "ChildWorkflowExecutionTimedOut",
      "ChildWorkflowExecutionTerminated" }

decision_id_TimerItself(e) ==
    IF e.type = "WorkflowExecutionSignaled" THEN 1
    ELSE IF e.type \in (EVENT_TYPES \cup CHILD_WORKFLOW_EVENTS) \ {"TimerFired"} THEN e.ref
    ELSE e.id

\* An event is a record [id, type, ref, key, what]: its id, its type, the event
\* it names (0: none), the activity or timer id as the service keeps it, and
\* the rest of its payload.
decision_id(e) ==
    IF e.type = "WorkflowExecutionSignaled" THEN 1
    ELSE IF e.type \in EVENT_TYPES \cup CHILD_WORKFLOW_EVENTS THEN e.ref
    ELSE e.id

Target(id, type) == [id |-> id, type |-> type]

WorkflowTarget == Target(1, "workflow")

from_event(e) == Target(decision_id(e), EventTargetType[e.type])

\* A decision is a record [id, type, key, what].
from_decision(d) == Target(d.id, DECISION_TARGET_TYPES[d.type])

\* What String#to_i makes of an id: a number written as a string is that
\* number, and any other string is 0.
to_i(key) == IF key \in Nat THEN key ELSE 0

NoAttributes == <<>>

\* Only activities are compared by more than their id and type.
event_target_attributes(e) ==
    IF e.type = "ActivityTaskScheduled" THEN <<to_i(e.key), e.what>> ELSE NoAttributes

decision_target_attributes(d) ==
    IF d.type = "ScheduleActivity" THEN <<d.key, d.what>> ELSE NoAttributes
=============================================================================
