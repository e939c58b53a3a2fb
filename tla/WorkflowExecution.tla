------------------------- MODULE WorkflowExecution -------------------------
(***************************************************************************)
(* One workflow execution: the worker's DecisionTaskProcessor              *)
(* (lib/cadence/workflow/decision_task_processor.rb), which runs the       *)
(* executor of WorkflowContext on each decision task, and the Cadence      *)
(* service, which keeps the history.  The service is external: it is       *)
(* modelled from what the client relies on.                                *)
(*                                                                         *)
(*  - It hands out one decision task at a time, with the whole history up  *)
(*    to the task's DecisionTaskStarted event.                             *)
(*  - Events that arrive while a task is started are held back until the   *)
(*    task ends, and come after its commands.                              *)
(*  - An accepted response adds DecisionTaskCompleted and, right behind it, *)
(*    one event for each decision, in order.                               *)
(*  - A response is accepted only from the holder of the current task; a   *)
(*    closing response only if no event is held back.                      *)
(*                                                                         *)
(* While a run is in progress the service does not move: the executor only *)
(* reads its snapshot, so what happens meanwhile might as well happen when *)
(* it is ready to respond.                                                 *)
(***************************************************************************)
EXTENDS WorkflowContext

CONSTANTS Programs,              \* the code a worker may start with
          Upgrades,              \* pairs of programs: a release replaces one by the other
          Reports,               \* the event types the outside may add
          MaxSignals,            \* bound on the signals and cancel requests sent
          MaxFailures,           \* bound on the tasks that fail, time out or get lost
          MAX_FAILED_ATTEMPTS    \* 50 in the code

ASSUME LimitsAssumption ==
    MaxSignals \in Nat /\ MaxFailures \in Nat /\ MAX_FAILED_ATTEMPTS \in Nat

VARIABLES history,     \* the events the service has recorded
          buffered,    \* the events it holds back
          task,        \* the decision task: "none", "scheduled" or "started"
          attempt,     \* how often the current task has failed before
          failures,    \* how many of them have been failed, timed out or lost
          journal      \* history variable: what code was told in accepted runs

serverVars == <<history, buffered, task, attempt, failures>>
vars == <<program, phase, error, snapshot, cursor, todo, sm, handlers, agenda, futures,
          slots, fibers, current, seen, history, buffered, task, attempt, failures, journal>>

-----------------------------------------------------------------------------
(* The service.                                                             *)

Event(type, ref, key, what) == [type |-> type, ref |-> ref, key |-> key, what |-> what, id |-> 0]

\* Events get their ids when they enter the history.
Recorded(h, events) ==
    h \o [i \in 1..Len(events) |-> [events[i] EXCEPT !.id = Len(h) + i]]

TaskEvent(type) == Event(type, 0, 0, "")

Init ==
    /\ program \in Programs
    /\ InitRun
    /\ history = Recorded(<<>>, << TaskEvent("WorkflowExecutionStarted"),
                                   TaskEvent("DecisionTaskScheduled") >>)
    /\ buffered = <<>>
    /\ task = "scheduled"
    /\ attempt = 0
    /\ failures = 0
    /\ journal = <<>>

Known == history \o buffered

Has(types, ref) == \E i \in 1..Len(Known) : Known[i].type \in types /\ Known[i].ref = ref

Closed == Last(history).type \in {"WorkflowExecutionCompleted", "WorkflowExecutionFailed"}

ActivityClosed == {"ActivityTaskCompleted", "ActivityTaskFailed", "ActivityTaskTimedOut",
                   "ActivityTaskCanceled"}
ChildClosed == {"StartChildWorkflowExecutionFailed", "ChildWorkflowExecutionCompleted",
                "ChildWorkflowExecutionFailed", "ChildWorkflowExecutionCanceled",
                "ChildWorkflowExecutionTimedOut", "ChildWorkflowExecutionTerminated"}
TimerClosed == {"TimerFired", "TimerCanceled"}

OpenOf(type, closing) ==
    {e \in ToSet(history) : e.type = type /\ ~Has(closing, e.id)}

OpenActivities == OpenOf("ActivityTaskScheduled", ActivityClosed)
OpenChildren == OpenOf("StartChildWorkflowExecutionInitiated", ChildClosed)
OpenTimers == OpenOf("TimerStarted", TimerClosed)

\* The workflow does not rest with events it has not seen: they are recorded
\* with a new decision task behind them, unless one is waiting already.
Add(h, events) ==
    IF task = "scheduled" THEN Recorded(h, events)
    ELSE Recorded(h, Append(events, TaskEvent("DecisionTaskScheduled")))

\* An event reaches the service.
Arrive(e) ==
    /\ phase \in {"idle", "decided", "failed"}
    /\ ~Closed
    /\ IF task = "started"
         THEN /\ buffered' = Append(buffered, e)
              /\ UNCHANGED <<history, task>>
         ELSE /\ history' = Add(history, <<e>>)
              /\ task' = "scheduled"
              /\ UNCHANGED buffered
    /\ UNCHANGED <<program, runVars, attempt, failures, journal>>

\* An activity is picked up, or ends in one of the ways the service reports.
ActivityReport ==
    \E e \in OpenActivities : \E type \in Reports \cap (ActivityClosed \cup {"ActivityTaskStarted"}) :
        /\ type = "ActivityTaskStarted" => ~Has({type}, e.id)
        /\ type = "ActivityTaskCanceled" => Has({"ActivityTaskCancelRequested"}, e.id)
        /\ Arrive(Event(type, e.id, 0, ""))

ChildReport ==
    \E e \in OpenChildren : \E type \in Reports \cap (ChildClosed \cup {"ChildWorkflowExecutionStarted"}) :
        /\ type \in {"ChildWorkflowExecutionStarted", "StartChildWorkflowExecutionFailed"} =>
             ~Has({"ChildWorkflowExecutionStarted"}, e.id)
        /\ Arrive(Event(type, e.id, 0, ""))

TimerFires == \E e \in OpenTimers : Arrive(Event("TimerFired", e.id, e.key, ""))

Signals ==
    Cardinality({i \in 1..Len(Known) : Known[i].type \in {"WorkflowExecutionSignaled",
                                                           "WorkflowExecutionCancelRequested"}})

Signal == Signals < MaxSignals /\ Arrive(TaskEvent("WorkflowExecutionSignaled"))

CancelRequest ==
    /\ "WorkflowExecutionCancelRequested" \in Reports
    /\ ~Has({"WorkflowExecutionCancelRequested"}, 0)
    /\ Signals < MaxSignals
    /\ Arrive(TaskEvent("WorkflowExecutionCancelRequested"))

\* The open activity or timer that a decision of a batch names by its key: one
\* in the history, or one an earlier decision of the batch starts.
Named(batch, i, scheduling, open) ==
    {e.id : e \in {o \in open : o.key = batch[i].key}} \cup
    {batch[j].id : j \in {k \in 1..i-1 : batch[k].type = scheduling /\ batch[k].key = batch[i].key}}

CanceledBefore(batch, i) == \E j \in 1..i-1 : batch[j].type = "CancelTimer"
                                               /\ batch[j].key = batch[i].key

\* A timer that has fired behind the worker's back can still be canceled.
CancelableTimers ==
    OpenTimers \cup {e \in ToSet(history) : /\ e.type = "TimerStarted"
                                            /\ \E b \in ToSet(buffered) : b.type = "TimerFired" /\ b.ref = e.id}

Command(batch, i) ==
    LET d == batch[i]
        named(scheduling, open) == Named(batch, i, scheduling, open)
        ref(set) == IF set = {} THEN 0 ELSE CHOOSE id \in set : TRUE
    IN  CASE d.type = "ScheduleActivity" -> Event("ActivityTaskScheduled", 0, d.key, d.what)
          [] d.type = "StartTimer" -> Event("TimerStarted", 0, d.key, d.what)
          [] d.type = "StartChildWorkflow" ->
               Event("StartChildWorkflowExecutionInitiated", 0, d.key, d.what)
          [] d.type = "RecordMarker" -> Event("MarkerRecorded", 0, 0, d.what)
          [] d.type = "RequestActivityCancellation" ->
               LET ids == named("ScheduleActivity", OpenActivities)
               IN  Event(IF ids = {} THEN "RequestCancelActivityTaskFailed"
                         ELSE "ActivityTaskCancelRequested", ref(ids), d.key, "")
          [] d.type = "CancelTimer" ->
               LET ids == IF CanceledBefore(batch, i) THEN {}
                          ELSE named("StartTimer", CancelableTimers)
               IN  Event(IF ids = {} THEN "CancelTimerFailed" ELSE "TimerCanceled",
                         ref(ids), d.key, "")
          [] d.type = "CompleteWorkflow" -> TaskEvent("WorkflowExecutionCompleted")
          [] d.type = "FailWorkflow" -> TaskEvent("WorkflowExecutionFailed")

\* A task ends without decisions: what was held back is recorded behind it,
\* and a new task is scheduled.
EndTask(type) ==
    /\ history' = Recorded(history, <<TaskEvent(type)>> \o buffered
                                      \o <<TaskEvent("DecisionTaskScheduled")>>)
    /\ buffered' = <<>>
    /\ task' = "scheduled"
    /\ attempt' = attempt + 1

\* The service takes the decisions of a task.
AcceptDecisions(batch) ==
    LET commands == [i \in 1..Len(batch) |-> Command(batch, i)]
        canceled == {commands[i].ref : i \in {j \in 1..Len(batch) : commands[j].type = "TimerCanceled"}}
        late == SelectAt(buffered, {i \in 1..Len(buffered) :
                   ~(buffered[i].type = "TimerFired" /\ buffered[i].ref \in canceled)})
        ended == <<TaskEvent("DecisionTaskCompleted")>> \o commands
    IN  /\ IF late = <<>>
             THEN history' = Recorded(history, ended) /\ task' = "none"
             ELSE history' = Add(history, ended \o late) /\ task' = "scheduled"
        /\ buffered' = <<>>
        /\ attempt' = 0
        /\ UNCHANGED failures

\* The token of the worker's task is the one the service waits for.  While a
\* task is started nothing is added behind its DecisionTaskStarted event.
HoldsTask == task = "started" /\ Len(history) = Len(snapshot)

-----------------------------------------------------------------------------
(* The worker.                                                              *)

\* poll_for_decision_task, and fetch_full_history.
Poll ==
    /\ phase = "idle"
    /\ task = "scheduled"
    /\ task' = "started"
    /\ history' = Recorded(history, <<TaskEvent("DecisionTaskStarted")>>)
    /\ StartRun(history')
    /\ UNCHANGED <<program, buffered, attempt, failures, journal>>

\* The task is polled and fails before there is a run: this worker does not
\* know the workflow, or a page of the history cannot be fetched.
PollInVain ==
    /\ phase = "idle"
    /\ task = "scheduled"
    /\ failures < MaxFailures
    /\ task' = "started"
    /\ history' = Recorded(history, <<TaskEvent("DecisionTaskStarted")>>)
    /\ ResetRun("failed", "not_run", history', <<>>)
    /\ UNCHANGED <<program, buffered, attempt, failures, journal>>

\* The executor at work.
Run == RunStep /\ UNCHANGED <<history, buffered, task, attempt, failures, journal>>

CloseRequested == sm.decisions # <<>> /\ Closing(Last(sm.decisions))

\* complete_task, and the service accepts.
CompleteTask ==
    /\ phase = "decided"
    /\ HoldsTask
    /\ ~(CloseRequested /\ buffered # <<>>)
    /\ AcceptDecisions(sm.decisions)
    /\ journal' = seen
    /\ EndRun
    /\ UNCHANGED program

\* complete_task, and the service fails the task: it closes the workflow while
\* there are events the worker has not seen.
UnhandledDecision ==
    /\ phase = "decided"
    /\ HoldsTask
    /\ CloseRequested /\ buffered # <<>>
    /\ EndTask("DecisionTaskFailed")
    /\ EndRun
    /\ UNCHANGED <<program, failures, journal>>

\* complete_task or fail_task gets an error from the service or the network,
\* or the worker dies: the response is lost, and nothing retries it.
LoseResponse ==
    /\ phase \in {"decided", "failed"}
    /\ HoldsTask => failures < MaxFailures
    /\ EndRun
    /\ UNCHANGED <<program, serverVars, journal>>

\* fail_task
FailTask ==
    /\ phase = "failed"
    /\ attempt < MAX_FAILED_ATTEMPTS
    /\ HoldsTask
    /\ failures < MaxFailures
    /\ failures' = failures + 1
    /\ EndTask("DecisionTaskFailed")
    /\ EndRun
    /\ UNCHANGED <<program, journal>>

\* fail_task gives up without a word.
GiveUpTask ==
    /\ phase = "failed"
    /\ attempt >= MAX_FAILED_ATTEMPTS
    /\ EndRun
    /\ UNCHANGED <<program, serverVars, journal>>

\* The service stops waiting for the worker.
TimeOut ==
    /\ phase \in {"idle", "decided", "failed"}
    /\ task = "started"
    /\ failures < MaxFailures
    /\ failures' = failures + 1
    /\ EndTask("DecisionTaskTimedOut")
    /\ UNCHANGED <<program, runVars, journal>>

\* A new release of the workflow code reaches the worker.
Deploy ==
    /\ phase = "idle"
    /\ ~Closed
    /\ \E upgrade \in Upgrades : program = upgrade[1] /\ program' = upgrade[2]
    /\ UNCHANGED <<runVars, serverVars, journal>>

Next ==
    \/ Poll \/ PollInVain \/ Run \/ CompleteTask \/ UnhandledDecision \/ LoseResponse \/ FailTask
    \/ GiveUpTask \/ TimeOut \/ Deploy
    \/ ActivityReport \/ ChildReport \/ TimerFires \/ Signal \/ CancelRequest

Spec == Init /\ [][Next]_vars

(***************************************************************************)
(* Fairness: pollers keep polling and a run goes on (the pool's threads do *)
(* not starve); the service times tasks out, fires its timers and bounds   *)
(* how long an activity or a child may stay open.  Nothing makes anyone    *)
(* send a signal, lose a response or deploy.                               *)
(***************************************************************************)
Worker == Poll \/ Run \/ CompleteTask \/ UnhandledDecision \/ FailTask \/ GiveUpTask
            \/ (~HoldsTask /\ LoseResponse)

Fairness ==
    /\ WF_vars(Worker)
    /\ WF_vars(phase = "idle" /\ TimeOut)
    /\ WF_vars(ActivityReport)
    /\ WF_vars(ChildReport)
    /\ WF_vars(TimerFires)

FairSpec == Spec /\ Fairness

-----------------------------------------------------------------------------

TypeOK ==
    /\ phase \in Phases
    /\ cursor \in 0..Len(snapshot)
    /\ current \in 0..Len(fibers)
    /\ (phase = "fiber") = (current # 0)
    /\ slots \in [Slots -> 0..Len(futures)]
    /\ \A i \in 1..Len(history) : history[i].id = i
    /\ task \in {"none", "scheduled", "started"}
    /\ attempt \in Nat
    /\ failures \in 0..MaxFailures

\* When the next window is opened, no decision is left over: the events of the
\* last one have stood for everything code decided in it.
NothingLeftOver ==
    AtRoot /\ todo = <<>> /\ cursor < Len(snapshot) => sm.decisions = <<>>

\* Replaying code that is deterministic never raises NonDeterministicWorkflowError:
\* each command event finds the decision it stands for at the head of the list
\* (discard_decision), and in the end the list is empty.
ReplayNeverFails == error # "non_deterministic" /\ NothingLeftOver

\* None of the errors that stand for a second end is raised: Future#set on a
\* failed future, Future#fail on a fulfilled one, a fiber resumed after its end.
NoneRaised == error \notin {"failed_future", "fulfilled_future", "dead_fiber"}

\* A handler that is due to resolve a future finds it open: a second Future#set
\* would overwrite the result without an error.
ResolvesOpen ==
    \A k \in 1..Len(agenda) :
        agenda[k].kind \in {"set", "fail"} => futures[agenda[k].future].state = "pending"

\* A wake-up that is due is the one its fiber waits for: an older one, for
\* another future, would let Future#get return before there is a result.
WakesWaiting ==
    \A k \in 1..Len(agenda) : \A p \in 1..Len(handlers) :
        /\ agenda[k].kind = "resume" /\ handlers[p].act.kind = "resume"
        /\ handlers[p].act.fiber = agenda[k].fiber
        /\ futures[handlers[p].act.future].state = "pending"
        => handlers[p].act.future = agenda[k].future

\* Whatever code does, a future is resolved once, and a fiber is woken only
\* while it waits and only by the future it waits for, although the handlers of
\* Context#wait_for are never removed.
SettledOnce == NoneRaised /\ ResolvesOpen /\ WakesWaiting

\* Replay shows code what it saw: while windows are replayed, the run has been
\* told a prefix of what accepted runs were told (ids of decisions, values of
\* side effects, releases, times, outcomes, callbacks, in this order), and all
\* of it by the time the live window is entered.
ReplayReproduces ==
    LET live == cursor > 0 /\ cursor = Len(snapshot) /\ ~sm.replay
    IN  phase # "idle" =>
            /\ ~live => IsPrefix(seen, journal)
            /\ live => IsPrefix(journal, seen)

\* The ids code is given for its new decisions are the ids the service will
\* give their events, although markers of the history are stepped over, tasks
\* fail in between, and decisions of replayed windows were scheduled again.
\* And no two futures of a run ever have the same target.
TargetsDistinct ==
    \A f, g \in 1..Len(futures) : futures[f].target = futures[g].target => f = g

PredictedIds ==
    /\ phase = "decided" =>
         \A i \in 1..Len(sm.decisions) : sm.decisions[i].id = Len(snapshot) + 1 + i
    /\ TargetsDistinct

\* You cannot do anything in a workflow after it completes: no response carries
\* a decision behind a closing one (validate_append_decision), and nothing is
\* recorded behind the event that closes the workflow.
CloseIsLast ==
    /\ \A i \in 1..Len(sm.decisions) - 1 : ~Closing(sm.decisions[i])
    /\ \A i \in 1..Len(history) - 1 : history[i].type \notin
                                        {"WorkflowExecutionCompleted", "WorkflowExecutionFailed"}

\* The event that puts a command of the code on record.
RecordedAs == [
    ActivityTaskScheduled |-> "ScheduleActivity",
    TimerStarted |-> "StartTimer",
    StartChildWorkflowExecutionInitiated |-> "StartChildWorkflow",
    ActivityTaskCancelRequested |-> "RequestActivityCancellation",
    RequestCancelActivityTaskFailed |-> "RequestActivityCancellation",
    TimerCanceled |-> "CancelTimer",
    CancelTimerFailed |-> "CancelTimer" ]

CommandsOnRecord ==
    {<<RecordedAs[e.type], e.id>> : e \in {f \in ToSet(history) : f.type \in DOMAIN RecordedAs}}

Durable ==
    INSTANCE DurableExecution
        WITH Commands <- {RecordedAs[type] : type \in DOMAIN RecordedAs},
             told <- journal, record <- CommandsOnRecord, closed <- Closed

\* Decision tasks that are lost, failed, timed out, answered too late and run
\* all over again implement DurableExecution: the code seems to run once, and
\* each command it gave is in the history once (DecisionTaskProcessor#process,
\* Executor#run, StateManager#schedule and #discard_decision).
IsDurable == Durable!Spec

\* When a run has decided, every fiber that is not over waits for a future that
\* is still open: no wake-up is missed, whatever the order in which waits,
\* callbacks and events meet.
NoFiberStranded ==
    phase = "decided" =>
        \A i \in 1..Len(fibers) : fibers[i].stack # <<>> =>
            \E h \in ToSet(handlers) : /\ h.act.kind = "resume"
                                       /\ h.act.fiber = i
                                       /\ ~finished(h.act.future)

\* When a run has decided, its futures agree with the history it was given: a
\* future is ready or failed exactly when the event that says so is there.
\* (ActivityTaskCanceled, TimerCanceled and ChildWorkflowExecutionTerminated
\* reach no future's handler, and leave it open.)
FuturesAgree ==
    LET Told(f, types) == \E e \in ToSet(snapshot) :
                             e.ref = futures[f].target.id /\ e.type \in types
    IN  phase = "decided" => \A f \in 1..Len(futures) :
            /\ (futures[f].state = "ready") =
                 Told(f, {"ActivityTaskCompleted", "TimerFired", "ChildWorkflowExecutionCompleted"})
            /\ (futures[f].state = "failed") =
                 Told(f, {"ActivityTaskFailed", "ActivityTaskTimedOut",
                          "StartChildWorkflowExecutionFailed", "ChildWorkflowExecutionFailed",
                          "ChildWorkflowExecutionCanceled", "ChildWorkflowExecutionTimedOut"})

\* has_release? gives one answer per release for the life of the workflow,
\* whether the release was checked before or after it was deployed.
ReleaseConsistent ==
    \A x, y \in {o[2] : o \in {z \in ToSet(seen) \cup ToSet(journal) : z[1] = "release"}} :
        x[1] = y[1] => x[2] = y[2]

\* A run of this code never ends in an error: each decision task that gets as
\* far as a run is answered with decisions.
NeverAborts == error \in {"none", "not_run"}

\* A workflow whose code comes to its end is closed, although responses get
\* lost, workers die and tasks time out on the way.
WorkflowCloses == <>Closed
=============================================================================
