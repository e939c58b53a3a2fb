--------------------------- MODULE WorkflowHistory ---------------------------
(***************************************************************************)
(* History#next_window and History::Window                                 *)
(* (lib/cadence/workflow/history.rb, history/window.rb): how the events of *)
(* a workflow are cut into the windows in which they are replayed.  A      *)
(* window ends with the first DecisionTaskCompleted that follows and the   *)
(* commands recorded right behind it.                                      *)
(*                                                                         *)
(* The time stamp of an event is abstracted to its id: both only grow, and *)
(* the code compares neither.                                              *)
(***************************************************************************)
EXTENDS EventTarget, FiniteSetsExt

DecisionTaskTypes ==
    { "DecisionTaskScheduled", "DecisionTaskStarted", "DecisionTaskCompleted",
      "DecisionTaskFailed", "DecisionTaskTimedOut" }

COMMAND_EVENT_TYPES ==
    { "ActivityTaskScheduled", "ActivityTaskCancelRequested", "TimerStarted",
      "CancelTimerFailed", "TimerCanceled", "WorkflowExecutionCancelRequested",
      "StartChildWorkflowExecutionInitiated", "SignalExternalWorkflowExecutionInitiated",
      "RequestCancelActivityTaskFailed", "RequestCancelExternalWorkflowExecutionInitiated",
      "MarkerRecorded" }

command(e) == e.type \in COMMAND_EVENT_TYPES

\* The value of a time or an id that is not set (nil).
Nil == 0

\* The elements of a sequence at the given positions, in order.
Nth(positions, k) ==
    CHOOSE i \in positions : Cardinality({j \in positions : j <= i}) = k
SelectAt(s, positions) ==
    [k \in 1..Cardinality(positions) |-> s[Nth(positions, k)]]

\* Where the window that starts behind position `from` ends.  At least one
\* event is left; the loop stops at DecisionTaskCompleted or at the end.
WindowEnd(h, from) ==
    LET completed == {i \in from + 1 .. Len(h) : h[i].type = "DecisionTaskCompleted"}
        stop == IF completed = {} THEN Len(h) ELSE Min(completed)
    IN  Max({i \in stop .. Len(h) : \A j \in stop + 1 .. i : command(h[j])})

LastEventId_NoRoom(started) == started.id

\* A decision task that was started leaves room for its completed event.
LastEventId(started) == started.id + 1

\* What Window#add leaves after the events of the window.  The last decision
\* task that was started counts.  A task that failed or timed out takes the
\* time back, and leaves the id.
next_window(h, from) ==
    LET part == SubSeq(h, from + 1, WindowEnd(h, from))
        At(types) == {i \in 1..Len(part) : part[i].type \in types}
        started == At({"DecisionTaskStarted"})
        missed == At({"DecisionTaskFailed", "DecisionTaskTimedOut"})
        markers == At({"MarkerRecorded"})
    IN  [ events |-> SelectAt(part, 1..Len(part) \ (At(DecisionTaskTypes) \cup markers)),
          markers |-> SelectAt(part, markers),
          replay |-> At({"DecisionTaskCompleted"}) # {},
          last_event_id |-> IF started = {} THEN Nil ELSE LastEventId(part[Max(started)]),
          local_time |-> IF \E i \in started : \A j \in missed : j < i
                           THEN part[Max(started)].id ELSE Nil ]
=============================================================================
