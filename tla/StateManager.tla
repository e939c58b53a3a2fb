---------------------------- MODULE StateManager ----------------------------
(***************************************************************************)
(* Workflow::StateManager (lib/cadence/workflow/state_manager.rb): the     *)
(* decisions a run has taken and not yet found in the history, the markers *)
(* of the history, and the id the next decision will have.  One record     *)
(* holds the instance variables; its operations are operators on it, used  *)
(* by the actions of WorkflowExecutor.                                     *)
(***************************************************************************)
EXTENDS WorkflowHistory

CONSTANT MaxEventId   \* bound: no history grows beyond this many events
ASSUME MaxEventIdAssumption == MaxEventId \in Nat \ {0}

\* Ids a decision or an event can have.
Ids == 1..MaxEventId

\* DecisionStateMachine's states.  They are written and hardly ever read: only
\* schedule asks whether a decision is still new.
TrackerStates == {"new", "requested", "scheduled", "started", "completed",
                  "canceled", "failed", "timed_out"}

\* The state apply_event leaves in the machine of an event's decision, for the
\* types whose branch sets one.
TrackedState == [
    WorkflowExecutionStarted |-> "started",
    ActivityTaskScheduled |-> "scheduled",      ActivityTaskStarted |-> "started",
    ActivityTaskCompleted |-> "completed",      ActivityTaskFailed |-> "failed",
    ActivityTaskTimedOut |-> "timed_out",       ActivityTaskCancelRequested |-> "requested",
    RequestCancelActivityTaskFailed |-> "failed", ActivityTaskCanceled |-> "canceled",
    TimerStarted |-> "started",                 TimerFired |-> "completed",
    TimerCanceled |-> "canceled",               MarkerRecorded |-> "completed",
    StartChildWorkflowExecutionInitiated |-> "scheduled",
    StartChildWorkflowExecutionFailed |-> "failed",
    ChildWorkflowExecutionStarted |-> "started",
    ChildWorkflowExecutionCompleted |-> "completed",
    ChildWorkflowExecutionFailed |-> "failed",
    ChildWorkflowExecutionCanceled |-> "canceled",
    ChildWorkflowExecutionTimedOut |-> "timed_out" ]

\* The event types that take the first pending decision off the list.
DiscardingTypes ==
    { "ActivityTaskScheduled", "ActivityTaskCancelRequested",
      "RequestCancelActivityTaskFailed", "TimerStarted", "TimerCanceled",
      "StartChildWorkflowExecutionInitiated" }

\* The name under which an event is dispatched, for the types that are.
DispatchedAs == [
    WorkflowExecutionStarted |-> "started",     WorkflowExecutionSignaled |-> "signaled",
    ActivityTaskCompleted |-> "completed",      ActivityTaskFailed |-> "failed",
    ActivityTaskTimedOut |-> "failed",          ActivityTaskCanceled |-> "failed",
    RequestCancelActivityTaskFailed |-> "failed",
    TimerFired |-> "fired",                     TimerCanceled |-> "canceled",
    StartChildWorkflowExecutionFailed |-> "failed",
    ChildWorkflowExecutionCompleted |-> "completed",
    ChildWorkflowExecutionFailed |-> "failed",  ChildWorkflowExecutionCanceled |-> "failed",
    ChildWorkflowExecutionTimedOut |-> "failed" ]

\* StateManager.new
NewStateManager ==
    [ decisions |-> <<>>, marker_ids |-> {}, releases |-> <<>>, side_effects |-> <<>>,
      tracker |-> [id \in Ids |-> "new"], last_event_id |-> 0, local_time |-> Nil,
      replay |-> FALSE ]

\* The head of apply: what a window sets before its events are applied.
OpenWindow(sm, window) ==
    [sm EXCEPT !.replay = window.replay,
               !.local_time = window.local_time,
               !.last_event_id = window.last_event_id]

NextDecisionId_CountMarkers(sm) == sm.last_event_id + 1

\* next_event_id, again while the id belongs to a marker of the history: the
\* release check that recorded it may be gone from the code.
NextDecisionId(sm) ==
    Min((sm.last_event_id + 1 .. sm.last_event_id + 1 + Cardinality(sm.marker_ids))
          \ sm.marker_ids)

Closing(d) == d.type \in {"CompleteWorkflow", "FailWorkflow"}

CanAppend_Always(sm) == TRUE

\* validate_append_decision does not raise.
CanAppend(sm) == sm.decisions # <<>> => ~Closing(Last(sm.decisions))

\* A decision without a key of its own takes its id for one.
Keyed(d, id) ==
    [d EXCEPT !.id = id,
              !.key = IF d.type \in {"ScheduleActivity", "StartChildWorkflow", "StartTimer"}
                           /\ d.key = Nil
                        THEN id ELSE d.key]

\* schedule, up to where it may raise: the id is used up and its state machine
\* has moved, also for a decision that is then refused.
Reserve(sm) ==
    LET id == NextDecisionId(sm)
    IN  [sm EXCEPT !.last_event_id = id,
                   !.tracker[id] = IF @ = "new" THEN "requested" ELSE @]

\* schedule, when it does not raise.
schedule(sm, d) ==
    [Reserve(sm) EXCEPT !.decisions = Append(@, Keyed(d, NextDecisionId(sm)))]

Decision(type, key, what) == [id |-> Nil, type |-> type, key |-> key, what |-> what]

Answered(sm, release) == release \in DOMAIN sm.releases

\* releases[release] = answer
RememberRelease(sm, release, answer) ==
    [sm EXCEPT !.releases = [r \in DOMAIN @ \cup {release} |->
                               IF r = release THEN answer ELSE @[r]]]

track_release_replay_Forgets(sm, release) == sm

\* track_release during a replay, and live (where it also schedules a marker; the
\* answer stands also when the marker is refused).
track_release_replay(sm, release) == RememberRelease(sm, release, FALSE)

track_release_live(sm, release) ==
    schedule(RememberRelease(sm, release, TRUE),
             Decision("RecordMarker", Nil, [name |-> "RELEASE", details |-> release]))

track_release_refused(sm, release) == Reserve(RememberRelease(sm, release, TRUE))

\* handle_marker
handle_marker(sm, e) ==
    LET noted == [sm EXCEPT !.marker_ids = @ \cup {e.id}]
    IN  IF e.what.name = "SIDE_EFFECT"
          THEN [noted EXCEPT !.side_effects = Append(@, e.what.details)]
          ELSE RememberRelease(noted, e.what.details, TRUE)

\* The branch of an event moves the state machine of its decision.
track(sm, e) ==
    IF e.type \in DOMAIN TrackedState
      THEN [sm EXCEPT !.tracker[decision_id(e)] = TrackedState[e.type]]
      ELSE sm

\* discard_decision finds the decision the event stands for at the head of the
\* list; otherwise it raises NonDeterministicWorkflowError.
DiscardMatches(sm, e) ==
    /\ sm.decisions # <<>>
    /\ from_decision(Head(sm.decisions)) = from_event(e)
    /\ decision_target_attributes(Head(sm.decisions)) = event_target_attributes(e)

\* apply_event up to its call of dispatch, when nothing is raised.
apply_event(sm, e) ==
    LET tracked == track(sm, e)
    IN  IF e.type \in DiscardingTypes
          THEN [tracked EXCEPT !.decisions = Tail(@)]
          ELSE IF e.type = "MarkerRecorded" THEN handle_marker(tracked, e) ELSE tracked

\* The error apply_event raises, if any.  The branch of CancelTimerFailed calls
\* a method DecisionStateMachine does not have.
ApplyError(sm, e) ==
    IF e.type = "CancelTimerFailed" THEN "no_method"
    ELSE IF e.type \in DiscardingTypes /\ ~DiscardMatches(sm, e) THEN "non_deterministic"
    ELSE "none"
=============================================================================
