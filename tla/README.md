# A TLA+ verification of cadence-ruby

This directory models the Cadence client for Ruby (`lib/cadence`) and the Go
proxy it talks through (`proxy`): how a worker process polls, runs and stops, how
a workflow is replayed from its history, and what becomes of a call between a
Ruby thread and the service, the generated Thrift code on both sides included.
It holds TLA+ modules, the TLC configurations that check them on small
instances, and proofs that TLAPS checks.

`PROJECT.json` lists the components, the runs, the mutants that each property
must detect, the map from definitions to source lines, the findings, the
hazards and the theorems.

## The system

A worker process talks to a Cadence service. The service keeps, for every
workflow execution, a *history* of events, and hands out *decision tasks*
(decide what happens next) and *activity tasks* (do some work). Workers are
stateless: a decision task comes with the whole history, and the workflow code
is run from its beginning against it. The code must then take the decisions it
took before, get the ids it got before, and see the values it saw before; what
it does beyond that is the answer to the task.

| Component | State it keeps | Operations | Talks to |
|---|---|---|---|
| `ThreadPool` | counter of free threads, job queue, condition variable | wait_for_available_threads, schedule, shutdown, the threads' loop | its poller; jobs are task processors |
| `Workflow::Poller`, `Activity::Poller` | `@shutting_down`, `@thread`, a pool | start, stop, wait, poll_loop | service (long poll), pool |
| `Worker` | pollers, `@shutting_down` | register, start, stop, signal handlers | pollers |
| `Crew` | pids of forked workers | dispatch, stop, monitor, signal handlers | child processes |
| `DecisionTaskProcessor` | one task | process, complete_task, fail_task | service, executor |
| `Executor`, `Dispatcher` | handlers by target | run, register_handler, dispatch | state manager, fibers |
| `History`, `Window`, `Event`, `EventTarget` | events | next_window, decision_id, from_event, from_decision | state manager |
| `StateManager` | pending decisions, markers, releases, side effects, last id, replay flag | schedule, apply, release?, next_side_effect | dispatcher |
| `Context`, `Future`, `Workflow` | futures and their callbacks | every call of workflow code | state manager, dispatcher |
| `Activity::TaskProcessor`, `Activity::Context`, `AsyncToken` | one task, async flag | process, heartbeat, async completion | service |
| `Saga` | list of compensations | run_saga, add_compensation, compensate | context |
| `Connection::Thrift` | a mutex, a transport with the headers of the next request | one method per call, send_request | proxy |
| `Client` | none | start, signal, reset, list ... | service |
| `Testing` | executions and futures in memory | the client's calls, locally | workflow code |
| options, middleware, serializers, metadata, metrics, logging, JSON, UUID | none that changes | conversions | |
| `proxy` (Go) | the calls in hand, with their deadlines | dispatch by header, decode, call, encode | connection (HTTP), service (TChannel) |
| `proxy/gen`, `lib/gen/thrift` | none | FromWire, ToWire, WrapResponse, UnwrapResponse; FIELDS, recv_* | |

Hard to test here: the interleaving of poller, pool threads and stop; windows
and ids under lost, failed and timed-out decision tasks; the order of events,
callbacks and waits inside one window; code that changes between two runs of
one execution; threads that share the headers of one transport; two sets of
generated tables that must agree; callers that give up on calls that go on.
`PROJECT.json` lists each such point at its line under
`hazards`, with the properties that would catch it going wrong.

What makes each part correct: a pool neither loses a wake-up nor a job, and
drains before it ends; a worker stops without cutting off a task; replay
reproduces the execution it replays; ids are predicted exactly; a future is
resolved exactly when the history says so and whoever waits for it goes on;
nothing follows the closing decision; a release check has one answer per
execution; an execution whose code ends is closed in spite of lost answers; a
saga is undone latest step first and no step twice; a call is performed at most
once, as what it was, with all its fields, and answered with its own answer or a
failure.

## Modules

    ThreadPool ── ThreadPoolProofs        thread_pool.rb
    Worker ── MCWorker, WorkerProofs      worker.rb, both poller.rb
    Crew ── CrewProofs                    crew.rb
    ActivityTask ── ActivityTaskProofs    activity/task_processor.rb, context.rb, async_token.rb
    EventTarget                           history/event.rb, history/event_target.rb
        └── WorkflowHistory               history.rb, history/window.rb
             └── StateManager             state_manager.rb, decision.rb, decision_state_machine.rb
                  └── WorkflowExecutor    executor.rb, dispatcher.rb
                       └── WorkflowContext   context.rb, future.rb, workflow.rb
                            └── WorkflowExecution   decision_task_processor.rb, and the service
                                 ├── MCWorkflow ── MCActivityId
                                 ├── WorkflowProofs ── WorkflowFiberProofs ── WorkflowReplayProofs
                                 └── (refines) DurableExecution
    ThriftTypes
        ├── ProxyShared               proxy/gen/shared/shared.go
        │    └── ProxyService         proxy/gen/cadence/cadence.go
        ├── RubyThrift                lib/gen/thrift
        └── Proxy                     connection/thrift.rb, main.go, proxyhandler.go, server.go, client.go
             ├── MCProxy
             ├── ProxyProofs
             └── (refines) RemoteCall

**ThreadPool.** Each action is one critical section of `@mutex` or one step
outside of it. A *client* is the caller of `wait_for_available_threads` and
`schedule`. The code has one per pool, the poller; the module allows several,
because the NOTE of the class speaks of the race between the two calls.
`exits` counts the exit blocks of `shutdown`; an exit block leaves the thread's
loop by `throw`, past the lines that count the thread as free. A spurious
wake-up of the condition variable is an action of its own.

**Worker.** The main thread starts the pollers one by one; `Poller#start` takes
three steps (flag, thread, assignment), because a signal handler runs on the
main thread between any two. While the handler runs the main thread does
nothing else. `Worker#stop` flags all pollers and then waits for each in order.
The pool appears as the number of tasks it has not finished, bounded by its
size: that is what `BacklogBound`, `DrainedAtShutdown` and `ShutdownReturns` of
ThreadPool show of it for a single client. A thread of the program calls `stop`
only on a worker that has started, as the repository's tests do; signals come
at any time after they are trapped.

**Crew.** The parent forks, notes the pid, and monitors; a handler runs between
any two of these steps. A child starts out with the parent's handlers and a copy
of its list, and passes signals on to older children until Worker#start traps
them. A worker is its life cycle only: `StopEnds` and `StartEnds` of Worker show
that one that is told to stop ends. `Process.kill` on a pid that has been waited
for raises, and leaves out the pids behind it. `waitpid2(-1)` raises where the
parent has no child left: a list that still names one then ends `dispatch` with
ECHILD, parent state `childless`, which `MonitorEnds` does not take for an end.

**ActivityTask.** One activity and its attempts. The processor of each attempt
runs by itself, so a worker may still be at work on an attempt that the service
has timed out while the next one is under way. The service is external: only the
holder of the current attempt is listened to, and an async token, which names
the activity and not the attempt, counts for the attempt that is current when it
is used. An answer that is sent may be recorded or not, and its response may be
lost; `respond_completed` and `respond_failed` rescue the error by themselves,
which keeps an answer that was lost from being followed by another one.

**EventTarget, WorkflowHistory, StateManager** are operators without variables.
The prefix search over `EVENT_TARGET_TYPES` is a search in the order of the
source, over event types cut into the parts at which keys end. A time stamp is
represented by the id of its event. `StateManager` is a record with the fields
of the class; an operator that can raise comes with a predicate or an operator
for the error (`CanAppend`, `ApplyError`). A decision that is refused has used up its
id and moved its state machine all the same (`Reserve`), and a release whose marker
is refused keeps its answer (`track_release_refused`). Only code that rescues the
error can notice: a saga. `LateCheck` of WorkflowCancel does so.

**WorkflowExecutor** holds the variables of a run and the steps of its root:
take the next window, apply an event, call the handlers the dispatch found. The
handlers' blocks are data (`Act`): start the workflow, resolve a future, wake a
fiber, call a block. `seen` is a history variable: all that code was told.

**WorkflowContext** holds the steps of workflow code. Code is a *program*: named
blocks of instructions, one instruction for each call that code can make. A
fiber has a stack of blocks, since `done` on a future that is ready calls its
block in place. A saga is such a block too, with the errors it compensates for
and the compensations added so far; a step that raises unwinds the stack to the
innermost saga, which rolls back in reverse order or raises again (`Raise`,
`RollBackOrder`). A method called on a variable that holds no future yet raises,
as it does on nil (`NilFuture`): programs are not assumed to be well-formed. Programs do not branch on the result of a saga. An error in
the main fiber becomes a FailWorkflow decision; in
the fiber of a callback it ends the run; behind a closing decision it ends the
run too.

**WorkflowExecution** composes the run with the decision task processor and the
service. The service is external, and modelled from what the client relies on;
the header of the module lists the assumptions: one task at a time, events
held back while a task is started, commands right behind DecisionTaskCompleted
in the order of the decisions, answers accepted from the current holder only, a
closing answer refused while events are held back. A lost answer and a dead
worker are the same to the service (`LoseResponse`). `Deploy` replaces the code
between two runs. The service does not move while a run is in progress; the
run reads only its snapshot, so this loses no behaviour.

**DurableExecution** is what a workflow promises to the author of its code: it
seems to run once. What code was told is never untold, each command it was told
it gave is on record once, in its order and under its id, and nothing else is,
and a closed workflow does nothing more. A command is a pair of its kind and its
id; the record is the set of those in the history, whose ids are their places, and
code is told of commands with rising ids. `IsDurable` maps the journal of the
completed runs, the commands in the history and its closing event to it.

`ReplayNeverFails` has two parts: no replay raises NonDeterministicWorkflowError,
and no decision is left over when the next window opens (`NothingLeftOver`): the
events of a window have stood for everything code decided in it. The code
does not check the second; a decision that was left over would be sent again.

**ThriftTypes, ProxyShared, ProxyService, RubyThrift.** A struct is the table of
its fields (id, wire type, struct held), one definition per struct, read off
`ToWire`/`FromWire` in Go and off `FIELDS` in Ruby: 155 structs and the arguments
and results of 36 calls. That is all that generated code lets through or
drops: a field is decoded when its id and its wire type match, and stepped over
otherwise. The two sides were generated by different tools, so that they agree
is something to check and not a matter of course.

**Proxy.** Threads share a connection. `send_request` takes the mutex, writes the
procedure's name into a header of the transport and posts; the proxy goes by
that header. `Dispatch` is the server's lookup, `args.FromWire`, the method of
`proxyHandler` and the client's call; `Answer` is the way back. Messages between
proxy and service may be lost, a deadline (`Context-TTL-MS`) may pass at any
moment, the caller may give up while the call goes on, the proxy may die with
all it has in hand, and the service may perform a call that nobody waits for.
A message is its set of fields, all of which the caller may have filled in.
`lost` collects what a hop drops. The service is external, and its tables are
taken to be those of the IDL, that is, of the Ruby classes.

**RemoteCall** is what a caller may rely on: its call is performed at most once,
it is that call, and the caller gets the answer it was given, or "failed", which
says nothing about whether it was, will be or will never be performed.

## Runs

| Run | Shows | States |
|---|---|---|
| ThreadPool | two clients: exact counter, bounded backlog, no lost wake-up, drained shutdown, exits last; scheduled blocks run, somebody who waits goes on, shutdown returns | 20 263 |
| Worker | TERM/INT at any time and calls of stop from a thread: start and stop end, started pollers are drained whether start returns or raises, no poll begins behind stop | 11 055 |
| CrewMonitor | forks, signals, deaths: a living child is on the list, dispatch returns when all are gone, and then does return, not with ECHILD | 4 323 |
| ActivityTask | three attempts: one answer per attempt, the record is the truth | 0.6 M |
| WorkflowReplay | 240 programs of three phrases: replay reproduces, ids are predicted, no stranded fiber; the execution implements DurableExecution | 0.6 M |
| WorkflowCancel | cancellation, requests to cancel the workflow, children with all reports the service makes of them, explicit and failing ends: futures agree with the history and are resolved once, no fiber is woken twice or by the wrong future, nothing behind the close | 0.8 M |
| WorkflowRelease | has_release? across deployments, and checks dropped later; sagas whose steps or compensations fail | 132 k |
| WorkflowLive | four example shapes are closed in the end, although the worker gives up on a task | 3.0 k |
| Proxy | each of the 36 calls beside another one on the same connection: no field is dropped, a call implements RemoteCall, and every call returns | 0.86 M |
| WorkflowExample | *violated*: the cancelling-timer example can fail its task for ever | |
| WorkflowActivityId | *violated*: a custom activity id breaks replay | |
| CrewStop | *violated*: a signal during dispatch leaves workers running | |

Each property of a passing run has a mutant of the modelled code that violates
it, listed in `PROJECT.json`; the mutated forms stand in the modules right
before the definitions they replace.

### Bounds

*ThreadPool.* Two threads, two clients and four jobs: a client blocks, a job queues behind busy threads, and exits meet jobs. The
safety properties are also proved for any size.

*Worker.* Two pollers, so that a signal finds one started and the other not;
pools of two threads and up to three tasks, so that a loop ends while tasks are
still at work; two calls of stop, so that they overlap or follow each other.

*Crew.* Three workers and two signals: a signal can meet a child with the crew's
handlers, one with its own and one that is gone, and come again while the parent
is between waitpid2 and delete.

*ActivityTask.* Three attempts: a token of the first can meet the second, and
a late answer of the first the third.

*Workflows.* Programs of three phrases out of activities, timers, waits, bang
calls, cancellation, callbacks, signal handlers and side effects, over up to
three futures. Two effects of a fault need two tasks, and the programs get up
to six. `MaxSignals = 1` puts a signal, or a request to cancel the workflow, before,
between and behind any other two events. `MaxFailures` bounds failed, lost and timed-out tasks (one, or two for
releases and WorkflowLive); `MAX_FAILED_ATTEMPTS`, 50 in the code, is 1 or 2. WorkflowLive
has one attempt and two failures: the worker reports the first failure, is
silent about the second, and the task comes back only when the service times it
out. It has no signals; the events of the service between two attempts are
reports of activities, timers and children. `MaxEventId` only sizes the tracker and is never reached.
`SideEffectValues` has two values, so that a side effect that ran twice shows.
The sagas have two steps with a compensation each, so that an order shows, and
one more activity that may fail. No run lets the service write
ActivityTaskStarted: it only moves a state machine whose state is read at scheduling
only, where it is new or not.

*Proxy.* Two threads: the second can come between any two steps of the first.
One makes any of the 36 calls, the other a call without a result or a long poll,
so that a wrong header meets tables that differ and tables that do not.
`Nesting = 8` is deeper than any message nests.

### Deadlock and fairness

TLC checks deadlock where every behaviour of the system ends in a known way
(`Ended` in the MC modules). It is switched off where the system may rest: a
pool after its shutdown, a crew whose parent is gone or whose workers nobody
stops, a closed activity, and workflow code that waits for
something it has cancelled, which stays open for ever in the code too.

Fairness is weak fairness of what the code's scheduling provides: Ruby runs
every runnable thread; pollers poll again; a poll returns within its TTL; jobs
and tasks end (an assumption on user code); the service times out tasks and
fires timers, and activities and children end (their timeouts). For Proxy it is
that Ruby threads and goroutines run and that the deadline of a call passes;
nothing is assumed of the service or the network, nor that a caller gives up.
No fairness makes anyone schedule a job, send a signal, call stop, lose an
answer, deploy or end a proxy.

## Proofs

`ThreadPoolProofs` proves, for every finite non-empty set of threads and of
clients and any set of jobs, that `Spec` implies TypeOK, CounterIsExact,
BacklogBound, SomeoneAwake, DrainedAtShutdown (as invariants) and
NoStartAfterExit (as an action property). The assumptions are the three ASSUMEs
of the module: finite non-empty threads and clients, and an exit block that is
not a job.

The inductive invariant `IInv` adds to the properties:

- `AdmissionBound`: queued blocks and admitted clients together exceed the free
  threads by less than the number of clients. BacklogBound alone is not
  inductive: a client that was admitted will schedule without looking again.
- `ExitsBehind`: behind an exit block there are only exit blocks.
- `NoExitWhileOpen`, `ExitedMeansDrained`: exits exist only once the clients
  have left, and a thread that is gone means a queue without jobs.
- `RunningHoldsJob`, `ReturnedMeansExited`: what the states of threads and of
  the shutdown mean.

Each action preserves each conjunct; cardinalities of the sets of popping,
occupied and admitted threads and clients change by one at a time, which a few
lemmas state.

`ActivityTaskProofs` proves TypeOK, AnsweredOnce and TruthfulRecord of
ActivityTask for every `MaxAttempts` in Nat \ {0}. TruthfulRecord is not
inductive: it speaks of what the service wrote down and of how the code ended,
and not of the processor in between. The invariant adds what each state of a
processor knows (`ProcessorKnows`), that a verdict of the worker is its one
answer (`VerdictIsAnswer`), and that an attempt is not at work before its turn
(`AttemptsInOrder`).

`ProxyProofs` proves TypeOK of Proxy (with the mutex in it) and that Proxy
implements RemoteCall, for any threads and any workload, under the hypothesis
`TablesAgree`: every answer a call can have comes out of the two translations as
what it was. That is a statement about the tables, without variables; TLC
evaluates it for all of them (the ASSUME of MCProxy), and the proof leaves the
tables closed. The inductive invariant adds to the types: `Addressed`, the header
belongs to the thread between writing it and posting, which is what the mutex is
for, and a request at the proxy is for the call its thread makes; `Once`, a
request that has not left the proxy has not been performed, and one on its way
neither; `OwnAnswer`, a reply decodes to the answer that was given to this call.
Execute is then the Perform of RemoteCall, Receive its Return, and the other
ends of send_request its Fail; all other steps stutter.

`CrewProofs` proves, for any number of workers and of signals, TypeOK,
FinishedMeansGone and NoneForgotten of Crew, and two that no run checks.
The monitor waits for exactly the children it has, so `waitpid2` never raises
ECHILD (`CrewWaitsForChildren`): the safety half of MonitorEnds. And a signal that
finds the parent in its monitor loop goes to every living child and
does not raise (`MonitorSignalsAll`), which is the part of the finding below that
does hold. The invariant adds `ListIsExact`, what the list holds at each step of
the parent between fork and list, waitpid2 and delete, and `NotForked`, that a
pid has a child from its fork on and not before.

`WorkerProofs` proves, for any number of pollers, any pool size and any number of
tasks and calls of stop, TypeOK, StoppedIsDrained, EndIsDrained and the action
property NoPollAfterStop. That a stopped worker is drained is not inductive: stop
goes through the pollers twice, and each has to stay as it was left. `Flagged`
says which pollers a call has told to stop and that no later `Poller#start` takes
it back, `WaitedFor` which ones it has found drained, `StartsInOrder` and
`CallsInPlace` where the main thread is meanwhile; `ThreadKept` gives a poll the
thread for its task, and `EndsByStop` says why `Worker#start` ends.

The workflow proofs are about `WorkflowExecution` with its whole chain of modules,
for every set of programs (deterministic or not, well-formed or not, with upgrades
between any two runs), every set of reports and every bound. The assumptions are
the ASSUMEs of the modules and say only that the bounds are naturals; nothing is
assumed of programs. What the module assumes of the service is in its actions.

`WorkflowProofs` proves TypeOK and CloseIsLast. Its invariant is `RunInv`, the run
of a decider between any two steps, and `ServiceInv`, the service's record: a
closing event is the last, its task is gone, nothing that waits in the buffer
closes. CloseIsLast needs both: an accepted answer becomes the tail of the
history, so the close is last there because it was last among the decisions of
the run. A run takes its steps in some twenty calls of workflow code; instead of
showing each invariant for each call, `CodeStepMoves` shows once that a call
continues, parks or ends its fiber or aborts the run (`CodeMoves`), and all that
comes later, here and in the next two modules, is shown of these four. The module
begins with facts about sequences whose elements have no common type, about the
filters that keep an order (`SelectAt`), about windows (a window is made of the
events behind the cursor, each once, in order), and about events.

`WorkflowFiberProofs` first proves SettledOnce: no future is resolved twice, no fiber is
resumed after its end, and none by a future other than the one it waits for.
Nothing local guarantees it: handlers are never removed, one event calls all
handlers of its target, callbacks and other fibers run in between and register
more, and two futures could, for all the proof knows, have one target, since that
ids are distinct depends on replay. The invariant follows an end on its way:

- `RecordsOnce`: the service reports the end of an activity, timer or child once,
  in its history and its buffer together (`Rivals` are two such reports);
- `EndsOnce`, `LeftIsOpen`: so does the snapshot of a run, and an event that the run
  has still to apply finds the futures of its target open;
- `HandlersFit`, `HandlersOnce`: a handler is registered for the target of its
  future, and a future has one handler that sets it and one that fails it. That
  the events with the target of a future are rivals, and no others, is read off
  the prefix table row by row (`TableMatches`, `TargetsOfClosers`);
- `DueOnce`: a handler on the agenda that resolves a future is the only one, the
  future is open, and no event is left for it;
- `WaitsOnce`, `WakesOnce`: a fiber that waits does so for one future and does not
  run; a wake-up on the agenda finds its fiber waiting for just this future.

It then proves that NoFiberStranded holds while the targets of the run's futures
differ (`WorkflowWakesFibers`). The invariant `StrandInv` adds: the handlers which
resolve a future come before those that wake whoever waits for it (`SetBefore`), a
handler that resolves one is called before any code runs (`DueFirst`), and with
it all who wait for the future are due (`SetWakes`); so a fiber that is neither
running nor over waits for an open future or has a wake-up on the agenda (`Covered`).
Two futures with one target would be resolved by one event, and
code could begin to wait for the second in between; hence the condition.

`WorkflowReplayProofs` relates a run to the history it was given. Its theorems
assume of replay what TLC checks in each program it is given: `[]NothingLeftOver`
and, for the last one, `[]ReplayReproduces`. Both say that code is deterministic
under replay. That is a relation between two runs of the code, of which the
state holds only the last; an invariant that implied it would have to contain the
run of the code as a function of the history. The hypotheses hold in every
behaviour of WorkflowReplay, and the first in WorkflowCancel and WorkflowRelease
as well. The first is needed: a decision that is left over takes a place in the next
answer, and shifts the ids of all that come behind it. Under it, for every program,
whether or not a replay raises NonDeterministicWorkflowError:

- PredictedIds (`WorkflowPredictsIds`), and with it NoFiberStranded without a
  condition (`WorkflowWakesAll`). `RecordInv` says what a history looks like,
  under any failures: an event that closes something names, by its id, the
  event that began it, which came earlier; the commands of a task stand right behind its
  DecisionTaskCompleted. `IdsInv` says that a window ends where an answer begins,
  that the window which decides starts to count two ids behind its last event
  (`LiveIds`; one for DecisionTaskCompleted) and counts each decision once, until one
is refused, and that the target of a future comes
  from a pending decision or from the event of one that was found (`FuturesKnown`),
  so that a new one differs from all others.
- FuturesAgree (`WorkflowFuturesAgree`). `ToldInv` follows each event that was
  applied to the futures with its target: a future that is resolved was so by an
  event with its id, and as that event's type says (`Settled`, `DueFrom`), and an
  event that was applied has resolved its future or has a handler on the agenda
  (`Applied`). It rests on SettledOnce, so that no second handler overwrites
  it, and on `IdsInv`, so that the event with the id of a future is its own.
- IsDurable, that the execution implements DurableExecution (`WorkflowIsDurable`,
  with both hypotheses). `SaidInv` says that the commands a run was told of are
  those whose events it found and those among its pending decisions, with rising ids;
  `JournalInv`, that the commands in the history are those the accepted runs were
  told of. An answer that is accepted turns the pending decisions of the run into events
  with just these ids, and is GoOn of DurableExecution, with ReplayReproduces for
  "is never untold"; every other step stutters, also those that lose the
  answer, fail the task, time it out or refuse it.

TLC checked the conjuncts of these invariants on the workflow runs before they
were proved, those of SettledOnce on programs that are not deterministic too.

Only model-checked, and why:

- all liveness properties: they need fairness and ENABLED, which the prover does
  not handle;
- ReplayNeverFails and ReplayReproduces: what the theorems above assume. They
  compare a run with the earlier runs of the same execution, step for step, which
  is an induction over the history, hence over data. They are also false of programs
  in general: a custom activity id breaks the first (see below);
- ReleaseConsistent: about which upgrades are deployed between two runs. It is
  checked with upgrades that add or drop a check, for which ReplayReproduces
  does not hold, and so rests on neither hypothesis;
- SagaUndone: about the effects of programs of one shape;
- NothingDropped: a matter of the tables, which TLC evaluates completely.

## What the runs found

1. In the cancelling-timer example the callback of a cancelled timer can still
   run after the workflow has completed, and fails the task on every attempt.
2. A custom `activity_id` makes replay raise NonDeterministicWorkflowError.
3. TERM or INT that reaches a crew while it forks is passed on to the workers
   listed so far only; the crew goes on forking, and the later workers run until
   they are signaled again.

The model also shows, without a statement in the repository that says
otherwise: a CancelTimerFailed event raises NoMethodError
(`state_machine.failed`, state_manager.rb:196); a canceled activity, a canceled
timer and a terminated child leave their futures open, because the event's
target is not the one the future's handlers are registered for, or because
nothing is dispatched; a signal during the start of a worker ends it with
NoMethodError on a nil thread, after the started pollers have been drained;
Worker#start returns at once, with tasks still at work, when a thread of the
program calls stop; a late completion by async token closes whichever attempt is
current. `EVENT_TARGET_TYPES` has 'ExternalWorkflowExecution' before
'ExternalWorkflowExecutionCancel', although its comment says that the first match
is the longer one; no decision of this client leads to such an event. `update_domain`
builds its request with fields that the class does not have, and raises. A long
poll keeps the mutex of its connection for as long as it lasts; pollers have
connections of their own. For a call without a result, an exception that is
missing in the proxy's table would be read as success; none is missing.

## Not modelled

*Generated code.* Enums, `String`, `Equals`, getters, logging and error texts of
`proxy/gen`; structs that no call carries; the mock client of
`workflowservicetest` and the dependency injection of `*fx`, which nothing in the
repository uses; the server side (`Processor`) of `lib/gen/thrift`.

*Client.* Apart from the completion of activities it keeps no state: each method
builds one request, sends it and reads the answer. `reset_workflow` searches the
first page of a history for a point to reset to.

*Local testing* runs a workflow to its end inside the call that starts it, on one
thread, without a history.

*Options, retry policies, lookup, middleware, serializers, configuration,
metadata, metrics, logging, JSON, UUIDs, typing* are conversions, or settings that
do not change once a worker has started. How an operation of the connection fills
in its request is abstracted to: all fields.

Inside the modelled parts: event types that no decision of this client leads to
(external workflows, search attributes) appear only in the prefix table;
`UnsupportedEvent` is not reachable for the types above; continue-as-new is not
offered by this version of the context.

## Plan

Done: the modules above, the abstract specifications DurableExecution and
RemoteCall, and proofs about ThreadPool, ActivityTask, Proxy, Crew, Worker and
WorkflowExecution, the two refinements among them.

Left, in this order:

1. ReplayReproduces as a theorem, for programs without release checks: with a
   module that holds two runs of one program side by side, the second on a longer
   history, and the invariant that the second is in step with the first up to where
   the first ended. The sequences of their agendas would have to be related handler
   by handler.
2. ReleaseConsistent for a given set of upgrades, by the same means.
3. The reset points of `Client` and the precedence of options, each against a
   reference definition.
