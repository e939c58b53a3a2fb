--------------------------- MODULE WorkflowContext ---------------------------
(***************************************************************************)
(* Workflow code and what it calls: Workflow::Context, Future, Saga and    *)
(* Workflow.execute_in_context (lib/cadence/workflow/context.rb,           *)
(* workflow/future.rb, workflow.rb, saga).  One action for each kind of    *)
(* instruction, taken by the fiber that runs; a fiber goes on until it     *)
(* waits for a future that is not resolved, or ends.                       *)
(***************************************************************************)
EXTENDS WorkflowExecutor

\* An instruction: the call, the variable and the arguments it uses.
Instr(op, slot, what) ==
    [op |-> op, slot |-> slot, what |-> what, key |-> Nil, block |-> "", skip |-> 0]

\* A workflow id nobody chose: SecureRandom.uuid, which no event id equals.
Uuid == MaxEventId + 1

Stack == fibers[current].stack
Frame == Head(Stack)
Block == program[Frame.block]
BlockEnds == Frame.pc > Len(Block)
Current == Block[Frame.pc]
Future == slots[Current.slot]

\* The variable holds a future.
HoldsFuture == Future \in 1..Len(futures)

At(op) == phase = "fiber" /\ ~BlockEnds /\ Current.op = op

\* The running fiber's stack after `skip` further instructions.
Advanced(skip) ==
    [fibers EXCEPT ![current].stack =
        <<[Frame EXCEPT !.pc = @ + 1 + skip]>> \o Tail(Stack)]

Advance(skip) == fibers' = Advanced(skip)

See(what, value) == seen' = Append(seen, <<what, value>>)

Yield_KeepsFiber == phase' = "apply" /\ UNCHANGED current

\* The fiber gives control back to the handler that resumed it.
Yield == phase' = "apply" /\ current' = 0

\* The sagas of the running fiber that rescue an error and do not raise it again.
Rescuing(kind) == {i \in 1..Len(Stack) : kind \in Stack[i].rescues}

RollBackOrder_AsAdded(compensations) == compensations

\* Saga#compensate: reverse_each.
RollBackOrder(compensations) == Reverse(compensations)

\* The rescue of run_saga: the innermost saga that compensates for the error is
\* left, and its compensations are executed one after the other.  They are not
\* in the saga any more: an error of one goes further out, past the rest.  `left`
\* is the state manager as the call that raised left it.
Compensate(i, kind, left) ==
    LET undo == RollBackOrder(Stack[i].compensations)
    IN  /\ fibers' = [fibers EXCEPT ![current].stack =
             [j \in 1..Len(undo) |-> NewFrame(undo[j], {})] \o SubSeq(@, i + 1, Len(@))]
        /\ See("rolled_back", kind)
        /\ sm' = left
        /\ UNCHANGED <<phase, error, snapshot, cursor, todo, handlers, agenda, futures,
                       slots, current>>

\* An error unwinds the fiber's stack.  The rescue of execute_in_context turns
\* an error of the main fiber into a FailWorkflow decision, unless the workflow
\* is closing already: then schedule raises once more.  In the fiber of a
\* callback or a signal handler nothing rescues, and the error ends the run and
\* drops its state manager.
Raise(kind, left) ==
    IF Rescuing(kind) # {} THEN Compensate(Min(Rescuing(kind)), kind, left)
    ELSE IF fibers[current].main /\ CanAppend(sm)
      THEN /\ sm' = schedule(left, Decision("FailWorkflow", Nil, kind))
           /\ fibers' = [fibers EXCEPT ![current].stack = <<>>]
           /\ Yield
           /\ UNCHANGED <<error, snapshot, cursor, todo, handlers, agenda, futures, slots, seen>>
      ELSE Abort(IF fibers[current].main THEN "already_completing" ELSE kind)

\* schedule_decision with what the caller does next, or the error it raises.
ScheduleDecision(d, Then) ==
    IF CanAppend(sm)
      THEN sm' = schedule(sm, d) /\ Then
      ELSE Raise("already_completing", Reserve(sm))

\* The decision that schedule has just appended.
Scheduled(d) == Last(schedule(sm, d).decisions)

\* A decision with a future: its handlers resolve it.
ScheduleFuture(d, resolves, fails) ==
    LET made == Scheduled(d)
        target == from_decision(made)
        f == Len(futures) + 1
    IN  ScheduleDecision(d,
          /\ futures' = Append(futures, [ target |-> target, cancelation_id |-> made.key,
                                          state |-> "pending", callbacks |-> <<>> ])
          /\ slots' = [slots EXCEPT ![Current.slot] = f]
          /\ handlers' = handlers \o << Handler(target, resolves, Act("set", f, 0, "")),
                                        Handler(target, fails, Act("fail", f, 0, "")) >>
          /\ Advance(0)
          /\ See(d.type, made.id)
          /\ UNCHANGED <<phase, error, snapshot, cursor, todo, agenda, current>>)

ExecuteActivity ==
    /\ At("activity")
    /\ ScheduleFuture(Decision("ScheduleActivity", Current.key, Current.what),
                      "completed", "failed")
    /\ UNCHANGED program

ExecuteWorkflow ==
    /\ At("child")
    /\ ScheduleFuture(Decision("StartChildWorkflow", Uuid, Current.what),
                      "completed", "failed")
    /\ UNCHANGED program

StartTimer ==
    /\ At("timer")
    /\ ScheduleFuture(Decision("StartTimer", Current.key, Current.what), "fired", "canceled")
    /\ UNCHANGED program

\* A decision without a future: cancel_activity, cancel_timer.
ScheduleRequest(d) ==
    ScheduleDecision(d,
        /\ Advance(0)
        /\ See(d.type, Scheduled(d).id)
        /\ UNCHANGED <<phase, error, snapshot, cursor, todo, handlers, agenda, futures, slots,
                       current>>)

Request(f) ==
    IF futures[f].target.type = "activity"
      THEN Decision("RequestActivityCancellation", futures[f].cancelation_id, "")
      ELSE Decision("CancelTimer", futures[f].cancelation_id, "")

\* The future is finished: the call has nothing to do.
PassOver ==
    /\ Advance(0)
    /\ UNCHANGED <<phase, error, snapshot, cursor, todo, sm, handlers, agenda, futures, slots,
                   current, seen>>

\* Future#cancel; only activities and timers can be canceled.
Cancel ==
    /\ At("cancel")
    /\ HoldsFuture
    /\ IF finished(Future) THEN PassOver
       ELSE IF futures[Future].target.type = "child_workflow" THEN Raise("not_cancelable", sm)
       ELSE ScheduleRequest(Request(Future))
    /\ UNCHANGED program

\* cancel_timer and cancel_activity, called with an id whether or not the timer
\* or activity is still open.
CancelById ==
    /\ At("cancel_by_id")
    /\ HoldsFuture
    /\ ScheduleRequest(Request(Future))
    /\ UNCHANGED program

\* Future#wait.  wait_for registers the wake-up and yields; once resumed, it
\* returns without looking at the future again.
Wait ==
    /\ At("wait")
    /\ HoldsFuture
    /\ IF finished(Future) THEN PassOver
       ELSE /\ handlers' = Append(handlers, Handler(futures[Future].target, WILDCARD,
                                                     Act("resume", Future, current, "")))
            /\ Advance(0)
            /\ Yield
            /\ UNCHANGED <<error, snapshot, cursor, todo, sm, agenda, futures, slots, seen>>
    /\ UNCHANGED program

\* The value of Future#get, behind its wait.
Read ==
    /\ At("read")
    /\ HoldsFuture
    /\ See("read", <<futures[Future].target.id, futures[Future].state>>)
    /\ Advance(0)
    /\ UNCHANGED <<program, phase, error, snapshot, cursor, todo, sm, handlers, agenda,
                   futures, slots, current>>

\* The end of execute_activity! and execute_workflow!, behind their wait.
Check ==
    /\ At("check")
    /\ HoldsFuture
    /\ IF futures[Future].state = "failed" THEN Raise("activity_error", sm) ELSE PassOver
    /\ UNCHANGED program

\* Future#done
Done ==
    /\ At("done")
    /\ HoldsFuture
    /\ CASE futures[Future].state = "failed" -> PassOver
         [] futures[Future].state = "ready" ->
              /\ fibers' = [fibers EXCEPT ![current].stack =
                   <<NewFrame(Current.block, {})>> \o Advanced(0)[current].stack]
              /\ See("called", Current.block)
              /\ UNCHANGED <<phase, error, snapshot, cursor, todo, sm, handlers, agenda,
                             futures, slots, current>>
         [] OTHER ->
              /\ futures' = [futures EXCEPT ![Future].callbacks = Append(@, Current.block)]
              /\ Advance(0)
              /\ UNCHANGED <<phase, error, snapshot, cursor, todo, sm, handlers, agenda,
                             slots, current, seen>>
    /\ UNCHANGED program

\* A method called on a variable that holds no future: nil has none of them.
NilFuture ==
    /\ \E op \in {"cancel", "cancel_by_id", "wait", "read", "check", "done"} : At(op)
    /\ ~HoldsFuture
    /\ Raise("user_error", sm)
    /\ UNCHANGED program

\* Context#side_effect: a recorded value is taken in order, a new one is
\* recorded as a marker.
SideEffect ==
    /\ At("side_effect")
    /\ IF sm.side_effects # <<>>
         THEN /\ sm' = [sm EXCEPT !.side_effects = Tail(@)]
              /\ See("side_effect", Head(sm.side_effects))
              /\ Advance(0)
              /\ UNCHANGED <<phase, error, snapshot, cursor, todo, handlers, agenda, futures,
                             slots, current>>
         ELSE \E v \in SideEffectValues :
                ScheduleDecision(
                  Decision("RecordMarker", Nil, [name |-> "SIDE_EFFECT", details |-> v]),
                  /\ See("side_effect", v)
                  /\ Advance(0)
                  /\ UNCHANGED <<phase, error, snapshot, cursor, todo, handlers, agenda,
                                 futures, slots, current>>)
    /\ UNCHANGED program

\* has_release?, in an `if` that skips instructions when the answer is no.
HasRelease ==
    /\ At("release")
    /\ LET release == Current.what
           answer == IF Answered(sm, release) THEN sm.releases[release] ELSE ~sm.replay
       IN  IF ~Answered(sm, release) /\ answer /\ ~CanAppend(sm)
             THEN Raise("already_completing", track_release_refused(sm, release))
             ELSE /\ sm' = CASE Answered(sm, release) -> sm
                             [] ~Answered(sm, release) /\ sm.replay ->
                                  track_release_replay(sm, release)
                             [] OTHER -> track_release_live(sm, release)
                  /\ See("release", <<release, answer>>)
                  /\ Advance(IF answer THEN 0 ELSE Current.skip)
                  /\ UNCHANGED <<phase, error, snapshot, cursor, todo, handlers, agenda,
                                 futures, slots, current>>
    /\ UNCHANGED program

\* Context#now
Now ==
    /\ At("now")
    /\ See("now", sm.local_time)
    /\ Advance(0)
    /\ UNCHANGED <<program, phase, error, snapshot, cursor, todo, sm, handlers, agenda,
                   futures, slots, current>>

\* Context#on_signal
OnSignal ==
    /\ At("on_signal")
    /\ handlers' = Append(handlers,
                          Handler(WorkflowTarget, "signaled", Act("call", 0, 0, Current.block)))
    /\ Advance(0)
    /\ UNCHANGED <<program, phase, error, snapshot, cursor, todo, sm, agenda, futures, slots,
                   current, seen>>

\* Context#complete and Context#fail, called by the code itself.
CompleteCall ==
    /\ At("complete")
    /\ ScheduleRequest(Decision("CompleteWorkflow", Nil, "result"))
    /\ UNCHANGED program

FailCall ==
    /\ At("fail")
    /\ ScheduleRequest(Decision("FailWorkflow", Nil, "reason"))
    /\ UNCHANGED program

\* The errors code meets.
Errors == {"activity_error", "user_error", "not_cancelable", "already_completing"}

\* compensate?
Compensates(kind, configuration) ==
    IF configuration.compensate_on # {}
      THEN kind \in configuration.compensate_on
      ELSE kind \notin configuration.do_not_compensate_on

\* run_saga, up to the call of its block.
RunSaga ==
    /\ At("saga")
    /\ fibers' = [fibers EXCEPT ![current].stack =
         <<NewFrame(Current.block, {e \in Errors : Compensates(e, Current.what)})>>
           \o Advanced(0)[current].stack]
    /\ UNCHANGED <<program, phase, error, snapshot, cursor, todo, sm, handlers, agenda,
                   futures, slots, current, seen>>

\* Saga#add_compensation, called in the saga's block: a block that does
\* execute_activity!.
AddCompensation ==
    /\ At("add_compensation")
    /\ fibers' = [fibers EXCEPT ![current].stack =
         <<[Frame EXCEPT !.pc = @ + 1, !.compensations = Append(@, Current.block)]>>
           \o Tail(Stack)]
    /\ UNCHANGED <<program, phase, error, snapshot, cursor, todo, sm, handlers, agenda,
                   futures, slots, current, seen>>

\* The code raises an error of its own.
RaiseCall ==
    /\ At("raise")
    /\ Raise("user_error", sm)
    /\ UNCHANGED program

\* A block ends: back into the block that called it, or the fiber is over.  When
\* execute returns, execute_in_context completes the workflow.
BlockReturns ==
    /\ phase = "fiber"
    /\ BlockEnds
    /\ IF Len(Stack) > 1
         THEN /\ fibers' = [fibers EXCEPT ![current].stack = Tail(@)]
              /\ UNCHANGED <<phase, error, snapshot, cursor, todo, sm, handlers, agenda,
                             futures, slots, current, seen>>
       ELSE IF fibers[current].main
         THEN ScheduleDecision(Decision("CompleteWorkflow", Nil, "result"),
                /\ fibers' = [fibers EXCEPT ![current].stack = <<>>]
                /\ Yield
                /\ UNCHANGED <<error, snapshot, cursor, todo, handlers, agenda, futures,
                               slots, seen>>)
         ELSE /\ fibers' = [fibers EXCEPT ![current].stack = <<>>]
              /\ Yield
              /\ UNCHANGED <<error, snapshot, cursor, todo, sm, handlers, agenda, futures,
                             slots, seen>>
    /\ UNCHANGED program

CodeStep ==
    \/ ExecuteActivity \/ ExecuteWorkflow \/ StartTimer \/ Cancel \/ CancelById \/ Wait
    \/ Read \/ Check \/ Done \/ NilFuture \/ SideEffect \/ HasRelease \/ Now \/ OnSignal
    \/ CompleteCall \/ FailCall \/ RaiseCall \/ RunSaga \/ AddCompensation \/ BlockReturns

RootStep == NextWindow \/ ApplyEvent \/ RunHandler \/ FinishRun

\* Executor#run, one step.
RunStep == RootStep \/ CodeStep
=============================================================================
