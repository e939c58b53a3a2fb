-------------------------- MODULE WorkflowExecutor --------------------------
(***************************************************************************)
(* One run of Workflow::Executor (lib/cadence/workflow/executor.rb): the   *)
(* history of a decision task is replayed window by window; its events are *)
(* dispatched to handlers; handlers resolve futures and run workflow code  *)
(* in fibers; the code calls the Workflow::Context.  Everything happens in *)
(* one thread and one fiber at a time: a handler runs at the root, and     *)
(* hands over to a fiber until that fiber yields or ends.                  *)
(*                                                                         *)
(* Workflow code is a program: named blocks of instructions, one           *)
(* instruction for each call the Context, a Future or the code itself can  *)
(* make.  Programs are deterministic; what they learn comes from the calls. *)
(***************************************************************************)
EXTENDS StateManager

CONSTANTS Slots,             \* the variables in which code keeps its futures
          SideEffectValues   \* what a side effect's block may return

VARIABLES program,    \* the code of the worker: blocks of instructions
          phase,      \* who is at work: see Phases
          error,      \* the error that ended the run
          snapshot,   \* the history of the decision task
          cursor,     \* how many of its events windows have taken
          todo,       \* the events of the current window left to apply
          sm,         \* the StateManager
          handlers,   \* the Dispatcher's handlers, in order of registration
          agenda,     \* the handlers the current dispatch has left to call
          futures,    \* the futures created so far
          slots,      \* which future each variable of the code holds (0: none)
          fibers,     \* the fibers created so far
          current,    \* the fiber that runs (0: none, the root is at work)
          seen        \* history variable: what code was told, call by call

runVars == <<phase, error, snapshot, cursor, todo, sm, handlers, agenda, futures,
             slots, fibers, current, seen>>

Phases == {"idle",      \* no decision task at hand
           "apply",     \* Executor#run, at the root
           "fiber",     \* workflow code
           "decided",   \* run has returned the decisions
           "failed"}    \* run has raised

\* A handler is what its block does: start the workflow, resolve a future, wake
\* the fiber that waits for one, or call a block of code in a new fiber.
Act(kind, future, fiber, block) ==
    [kind |-> kind, future |-> future, fiber |-> fiber, block |-> block]

Handler(target, name, act) == [target |-> target, name |-> name, act |-> act]

WILDCARD == "*"

finished(f) == futures[f].state # "pending"

\* A block that is being executed.  A saga's block has errors it rescues, and
\* compensations.
NewFrame(block, rescues) ==
    [block |-> block, pc |-> 1, rescues |-> rescues, compensations |-> <<>>]

NewFiber(block, main) == [stack |-> <<NewFrame(block, {})>>, main |-> main]

InitRun ==
    /\ phase = "idle"
    /\ error = "none"
    /\ snapshot = <<>>
    /\ cursor = 0
    /\ todo = <<>>
    /\ sm = NewStateManager
    /\ handlers = <<>>
    /\ agenda = <<>>
    /\ futures = <<>>
    /\ slots = [s \in Slots |-> 0]
    /\ fibers = <<>>
    /\ current = 0
    /\ seen = <<>>

ResetRun(at, raised, history, registered) ==
    /\ phase' = at
    /\ error' = raised
    /\ snapshot' = history
    /\ cursor' = 0
    /\ todo' = <<>>
    /\ sm' = NewStateManager
    /\ handlers' = registered
    /\ agenda' = <<>>
    /\ futures' = <<>>
    /\ slots' = [s \in Slots |-> 0]
    /\ fibers' = <<>>
    /\ current' = 0
    /\ seen' = <<>>

\* Executor.new and the head of run: the handler of 'started' is registered.
StartRun(history) ==
    ResetRun("apply", "none", history,
             <<Handler(WorkflowTarget, "started", Act("start", 0, 0, "main"))>>)

\* The run is over and its objects are dropped.
EndRun == ResetRun("idle", "none", <<>>, <<>>)

\* An error nobody rescues leaves Executor#run.
Abort(kind) ==
    /\ phase' = "failed"
    /\ error' = kind
    /\ current' = 0
    /\ UNCHANGED <<snapshot, cursor, todo, sm, handlers, agenda, futures, slots, fibers, seen>>

-----------------------------------------------------------------------------
(* The root: Executor#run, StateManager#apply, Dispatcher#dispatch.         *)

AtRoot == phase = "apply" /\ agenda = <<>>

Ordered_EventsFirst(window) == window.events \o window.markers

\* apply handles the markers of a window before its events.
Ordered(window) == window.markers \o window.events

\* history.next_window and the head of apply.
NextWindow ==
    /\ AtRoot
    /\ todo = <<>>
    /\ cursor < Len(snapshot)
    /\ LET window == next_window(snapshot, cursor)
       IN  /\ sm' = OpenWindow(sm, window)
           /\ todo' = Ordered(window)
    /\ cursor' = WindowEnd(snapshot, cursor)
    /\ UNCHANGED <<program, phase, error, snapshot, handlers, agenda, futures, slots,
                   fibers, current, seen>>

Answers_ByNameOnly(h, name) == h.name = name

Answers(h, name) == h.name = name \/ h.name = WILDCARD

Dispatched_AnyTarget(e) ==
    IF e.type \notin DOMAIN DispatchedAs THEN <<>>
    ELSE SelectAt(handlers, {i \in 1..Len(handlers) : Answers(handlers[i], DispatchedAs[e.type])})

\* handlers_for: the handlers of the target, by name or by wildcard, as they
\* are when the event is dispatched.
Dispatched(e) ==
    LET target == from_event(e)
    IN  IF e.type \notin DOMAIN DispatchedAs THEN <<>>
        ELSE SelectAt(handlers, {i \in 1..Len(handlers) :
                                   /\ handlers[i].target = target
                                   /\ Answers(handlers[i], DispatchedAs[e.type])})

\* apply_event
ApplyEvent ==
    /\ AtRoot
    /\ todo # <<>>
    /\ LET e == Head(todo)
           called == Dispatched(e)
       IN  IF ApplyError(sm, e) # "none"
             THEN Abort(ApplyError(sm, e))
             ELSE /\ sm' = apply_event(sm, e)
                  /\ todo' = Tail(todo)
                  /\ agenda' = [i \in 1..Len(called) |-> called[i].act]
                  /\ UNCHANGED <<phase, error, snapshot, cursor, handlers, futures, slots,
                                 fibers, current, seen>>
    /\ UNCHANGED program

\* Fiber.new { ... }.resume
Launch(fiber) ==
    /\ fibers' = Append(fibers, fiber)
    /\ current' = Len(fibers) + 1
    /\ phase' = "fiber"

\* Executor#execute_workflow
RunStart ==
    /\ Head(agenda).kind = "start"
    /\ Launch(NewFiber("main", TRUE))
    /\ agenda' = Tail(agenda)
    /\ UNCHANGED <<error, snapshot, cursor, todo, sm, handlers, futures, slots, seen>>

\* call_in_fiber, for a signal handler or the callback of a future.
RunCall ==
    /\ Head(agenda).kind = "call"
    /\ Launch(NewFiber(Head(agenda).block, FALSE))
    /\ agenda' = Tail(agenda)
    /\ seen' = Append(seen, <<"called", Head(agenda).block>>)
    /\ UNCHANGED <<error, snapshot, cursor, todo, sm, handlers, futures, slots>>

\* future.set(result), then its callbacks, each in a fiber of its own.
RunSet ==
    /\ Head(agenda).kind = "set"
    /\ LET f == Head(agenda).future
       IN  IF futures[f].state = "failed"
             THEN Abort("failed_future")
             ELSE /\ futures' = [futures EXCEPT ![f].state = "ready"]
                  /\ agenda' = [i \in 1..Len(futures[f].callbacks) |->
                                  Act("call", 0, 0, futures[f].callbacks[i])] \o Tail(agenda)
                  /\ UNCHANGED <<phase, error, snapshot, cursor, todo, sm, handlers, slots,
                                 fibers, current, seen>>

\* future.fail(reason, details)
RunFail ==
    /\ Head(agenda).kind = "fail"
    /\ LET f == Head(agenda).future
       IN  IF futures[f].state = "ready"
             THEN Abort("fulfilled_future")
             ELSE /\ futures' = [futures EXCEPT ![f].state = "failed"]
                  /\ agenda' = Tail(agenda)
                  /\ UNCHANGED <<phase, error, snapshot, cursor, todo, sm, handlers, slots,
                                 fibers, current, seen>>

\* fiber.resume if future.finished?
MayResume(f) == finished(f)

\* The wildcard handler wait_for registers.  It is never removed, so it can
\* outlive its fiber; resuming a dead fiber raises FiberError.
RunResume ==
    /\ Head(agenda).kind = "resume"
    /\ LET act == Head(agenda)
       IN  IF ~MayResume(act.future)
             THEN /\ agenda' = Tail(agenda)
                  /\ UNCHANGED <<phase, error, snapshot, cursor, todo, sm, handlers, futures,
                                 slots, fibers, current, seen>>
             ELSE IF fibers[act.fiber].stack = <<>>
             THEN Abort("dead_fiber")
             ELSE /\ agenda' = Tail(agenda)
                  /\ current' = act.fiber
                  /\ phase' = "fiber"
                  /\ UNCHANGED <<error, snapshot, cursor, todo, sm, handlers, futures, slots,
                                 fibers, seen>>

RunHandler ==
    /\ phase = "apply"
    /\ agenda # <<>>
    /\ RunStart \/ RunCall \/ RunSet \/ RunFail \/ RunResume
    /\ UNCHANGED program

\* No window is left: run returns the decisions.
FinishRun ==
    /\ AtRoot
    /\ todo = <<>>
    /\ cursor = Len(snapshot)
    /\ phase' = "decided"
    /\ UNCHANGED <<program, error, snapshot, cursor, todo, sm, handlers, agenda, futures,
                   slots, fibers, current, seen>>
=============================================================================
