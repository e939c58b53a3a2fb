----------------------------- MODULE MCWorkflow -----------------------------
(* WorkflowExecution with the programs its runs use.                         *)
EXTENDS WorkflowExecution, TLC

MCSlots == {"p", "q", "r"}

\* Phrases: the calls workflow code is made of.
Activity(s) == <<Instr("activity", s, "work")>>
Timer(s) == <<Instr("timer", s, "")>>
Child(s) == <<Instr("child", s, "")>>
Get(s) == <<Instr("wait", s, ""), Instr("read", s, "")>>
Bang(s) == <<Instr("wait", s, ""), Instr("check", s, "")>>
CancelF(s) == <<Instr("cancel", s, "")>>
CancelId(s) == <<Instr("cancel_by_id", s, "")>>
Effect == <<Instr("side_effect", "p", "")>>
NowIs == <<Instr("now", "p", "")>>
OnSignalDo(b) == <<[Instr("on_signal", "p", "") EXCEPT !.block = b]>>
DoneDo(s, b) == <<[Instr("done", s, "") EXCEPT !.block = b]>>
IfRelease(name, phrase) == <<[Instr("release", "p", name) EXCEPT !.skip = Len(phrase)]>> \o phrase
Call(op) == <<Instr(op, "p", "")>>
Saga(b, on, notOn) ==
    <<[Instr("saga", "p", [compensate_on |-> on, do_not_compensate_on |-> notOn])
         EXCEPT !.block = b]>>

\* The blocks callbacks run: one that looks, one that waits, one that cancels.
Code(main) ==
    [ main |-> main,
      look |-> Effect \o NowIs,
      work |-> Activity("r") \o Get("r"),
      stop |-> CancelF("p") ]

\* All programs of three phrases that use a variable only once it is set.
SmallPrograms ==
    LET Openings(s) == {Activity(s), Timer(s)}
        Uses(s) == {Get(s), Bang(s), CancelF(s), DoneDo(s, "look"), DoneDo(s, "work")}
        Others == {Effect \o NowIs, OnSignalDo("look"), OnSignalDo("work")}
    IN  {Code(a \o b \o c) : a \in Openings("p") \cup {Effect \o Timer("p")}, b \in Uses("p") \cup Others \cup Openings("q"),
                             c \in Uses("p") \cup Others}

\* A signal handler that checks a release, in a saga and again behind it: the
\* saga rescues what the first check raises when the workflow has completed.
LateCheck ==
    [ main |-> Activity("p") \o OnSignalDo("late") \o Get("p"),
      late |-> Saga("first", {}, {}) \o IfRelease("fix_1", NowIs),
      first |-> IfRelease("fix_1", NowIs) ]

\* Programs that cancel, start children, and close or fail in their own way.
Endings == {<<>>, Bang("p"), Call("complete"), Call("fail"), Call("raise")}
CancelingPrograms ==
    {Code(a \o b \o c) : a \in {Activity("p"), Timer("p")},
                         b \in {CancelF("p"), CancelId("p"), Get("p") \o CancelF("p"),
                                Get("p") \o CancelId("p")},
                         c \in Endings}
      \cup {Code(a \o b \o Activity("q") \o Get("q")) :
               a \in {Activity("p"), Timer("p")}, b \in {CancelF("p"), OnSignalDo("stop")}}
      \cup {Code(Child("p") \o b \o c) : b \in {<<>>, CancelF("p"), Get("p") \o CancelF("p"),
                                                 OnSignalDo("stop")},
                                         c \in {<<>>, Bang("p"), Call("fail")}}
      \cup {Code(Activity("p") \o Get("q")), LateCheck}   \* nil.get, and the above

\* Shapes of examples/workflows: cancelling_timer_workflow.rb, long_workflow.rb
\* with and without its cancellation, simple_timer_workflow.rb with a value that
\* is drawn again on every attempt, and the child of parent_workflow.rb.
CancellingTimer ==
    Code(Timer("p") \o Activity("q") \o DoneDo("p", "work") \o Get("q") \o CancelF("p"))
LongWorkflow == Code(Activity("p") \o OnSignalDo("stop") \o Bang("p"))
Withdrawn == Code(Activity("p") \o CancelF("p") \o Bang("p"))
SimpleTimer == Code(Timer("p") \o Get("p") \o Activity("q") \o Bang("q") \o Effect)
Parent == Code(Child("p") \o Bang("p"))

LivePrograms == {LongWorkflow, Withdrawn, SimpleTimer, Parent}
CancellingTimerOnly == {CancellingTimer}

\* The README's example of a breaking change, before and after; and the same
\* code once the checks are dropped, for workflows that started with them.
Before == Code(Activity("p") \o Bang("p") \o Timer("q") \o Bang("q") \o Activity("r") \o Bang("r"))
After ==
    Code(Activity("p") \o Bang("p")
           \o IfRelease("fix_1", Activity("p") \o Bang("p"))
           \o Timer("q") \o Bang("q")
           \o IfRelease("fix_1", Effect)
           \o Activity("r") \o Bang("r")
           \o IfRelease("fix_2", Activity("p") \o Bang("p")))
Checked ==
    Code(IfRelease("fix_1", Activity("p")) \o IfRelease("fix_2", Timer("q") \o Get("q"))
           \o Get("p"))
Dropped == Code(Activity("p") \o Timer("q") \o Get("q") \o Get("p"))

\* examples/workflows/trip_booking_workflow.rb with two bookings.  And the same
\* where the saga is told what to compensate for, and the code changes its mind.
Do(activity) == <<Instr("activity", "p", activity)>> \o Bang("p")
UndoBy(b) == <<[Instr("add_compensation", "p", "") EXCEPT !.block = b]>>
Bookings == Do("rent_car") \o UndoBy("undo_car") \o Do("book_hotel") \o UndoBy("undo_hotel")
Trip(on, notOn, payment) ==
    [ main |-> Saga("trip", on, notOn),
      trip |-> Bookings \o payment,
      undo_car |-> Do("cancel_car"),
      undo_hotel |-> Do("cancel_hotel") ]
Trips ==
    { Trip({}, {}, Do("make_payment")),
      Trip({"user_error"}, {}, Call("raise")),
      Trip({}, {"activity_error"}, Do("make_payment")) }

ReleasedPrograms == {Before, After, Checked} \cup Trips
ReleaseUpgrades == {<<Before, After>>, <<Checked, Dropped>>}

Ended ==
    /\ Closed \/ (failures = MaxFailures /\ (phase # "idle" \/ task = "started"))
    /\ UNCHANGED vars

\* The compensation of each step of a trip.
CanceledBy == [rent_car |-> "cancel_car", book_hotel |-> "cancel_hotel"]

\* The positions in the history at which an activity was scheduled, and at
\* which it was completed.
ScheduledAt(activity) ==
    {i \in 1..Len(history) : history[i].type = "ActivityTaskScheduled"
                               /\ history[i].what = activity}
CompletedAt(activity) ==
    {i \in 1..Len(history) : history[i].type = "ActivityTaskCompleted"
                               /\ history[i].ref \in ScheduledAt(activity)}

\* A saga is rolled back step by step, latest step first (run_saga,
\* Saga#compensate): although code is replayed, tasks get lost and activities
\* fail, a step is undone at most once and only if it was done; nothing is
\* undone before what came after it has been; a trip that was paid for is not
\* undone; and a workflow that completes without the payment has undone all.
SagaUndone ==
    /\ \A step \in DOMAIN CanceledBy :
         /\ Cardinality(ScheduledAt(CanceledBy[step])) <= 1
         /\ \A i \in ScheduledAt(CanceledBy[step]) : \E j \in CompletedAt(step) : j < i
    /\ \A i \in ScheduledAt("cancel_car") :
         CompletedAt("book_hotel") # {} => \E j \in CompletedAt("cancel_hotel") : j < i
    /\ CompletedAt("make_payment") # {} =>
         \A step \in DOMAIN CanceledBy : ScheduledAt(CanceledBy[step]) = {}
    /\ /\ Last(history).type = "WorkflowExecutionCompleted"
       /\ CompletedAt("make_payment") = {}
       => \A step \in DOMAIN CanceledBy :
            CompletedAt(step) # {} => CompletedAt(CanceledBy[step]) # {}

MCNext == Next \/ Ended
MCSpec == Init /\ [][MCNext]_vars
=============================================================================
