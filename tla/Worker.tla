------------------------------- MODULE Worker -------------------------------
(***************************************************************************)
(* Cadence::Worker and the two Poller classes (lib/cadence/worker.rb,      *)
(* workflow/poller.rb, activity/poller.rb): how a worker process starts    *)
(* its pollers, and how it stops them without cutting a task off.          *)
(*                                                                         *)
(* Four kinds of threads meet here.  The main thread runs Worker#start; a  *)
(* TERM or INT is handled on the main thread, which is held up until the   *)
(* handler returns.  Worker#stop, called by the handler or by another      *)
(* thread of the program, works in a thread of its own.  Each poller has a *)
(* thread for its poll loop and a pool of threads for its tasks; of the    *)
(* pool this module uses what ThreadPool shows: a poller is held up while  *)
(* every thread has a task, and shutdown returns when all tasks are over.  *)
(***************************************************************************)
EXTENDS Integers

CONSTANTS N,            \* the pollers, 1..N in the order of start
          PoolSize,     \* the thread_pool_size option
          Callers,      \* who may call stop: "signal" (TERM, INT), "thread"
          MaxStops,     \* bound on the calls of stop
          MaxTasks      \* bound on the tasks a poller is given

ASSUME NAssumption == N \in Nat \ {0}
ASSUME PoolSizeAssumption == PoolSize \in Nat \ {0}
ASSUME CallersAssumption == Callers \subseteq {"signal", "thread"}
ASSUME BoundsAssumption == MaxStops \in Nat /\ MaxTasks \in Nat

VARIABLES main,            \* where the main thread is in Worker#start
          next,            \* the poller it starts next
          shutting_down,   \* @shutting_down of the worker
          stopping,        \* @shutting_down of each poller
          assigned,        \* whether a poller's @thread is set
          loop,            \* where the poll loop of each poller is
          busy,            \* the tasks each pool has not finished
          given,           \* how many tasks each poller was given
          stopper,         \* where each caller is in its call of stop
          at,              \* the poller that call looks at
          stops            \* how often stop has been called

starting == <<main, next, assigned>>
polling == <<loop, busy, given>>
calling == <<stopper, at, stops>>
vars == <<main, next, shutting_down, stopping, assigned, loop, busy, given, stopper, at, stops>>

Pollers == 1..N

MainStates == {"resetting",   \* Poller#start, @shutting_down = false
               "spawning",    \* Poller#start, Thread.new
               "assigning",   \* Poller#start, @thread =
               "sleeping",    \* sleep(1) while !shutting_down?
               "returned", "raised"}
LoopStates == {"none", "checking", "polling", "ended"}
StopperStates == {"idle", "flagging", "waiting", "returned", "raised"}

TypeOK ==
    /\ main \in MainStates
    /\ next \in 1..N+1
    /\ shutting_down \in BOOLEAN
    /\ stopping \in [Pollers -> BOOLEAN]
    /\ assigned \in [Pollers -> BOOLEAN]
    /\ loop \in [Pollers -> LoopStates]
    /\ busy \in [Pollers -> 0..PoolSize]
    /\ given \in [Pollers -> 0..MaxTasks]
    /\ stopper \in [Callers -> StopperStates]
    /\ at \in [Callers -> Pollers]
    /\ stops \in 0..MaxStops

\* The pollers are built and the signals are trapped.
Init ==
    /\ main = "resetting"
    /\ next = 1
    /\ shutting_down = FALSE
    /\ stopping = [p \in Pollers |-> FALSE]
    /\ assigned = [p \in Pollers |-> FALSE]
    /\ loop = [p \in Pollers |-> "none"]
    /\ busy = [p \in Pollers |-> 0]
    /\ given = [p \in Pollers |-> 0]
    /\ stopper = [c \in Callers |-> "idle"]
    /\ at = [c \in Callers |-> 1]
    /\ stops = 0

\* An error that leaves Worker#start ends the process.
Alive == main # "raised"

Handling_Deferred == FALSE

\* The main thread is inside the handler of a signal.
Handling == "signal" \in Callers /\ stopper["signal"] \in {"flagging", "waiting"}

-----------------------------------------------------------------------------
(* The main thread: pollers.each(&:start), and the wait for the end.        *)

ResetFlag ==
    /\ main = "resetting"
    /\ ~Handling
    /\ stopping' = [stopping EXCEPT ![next] = FALSE]
    /\ main' = "spawning"
    /\ UNCHANGED <<next, shutting_down, assigned, polling, calling>>

SpawnLoop ==
    /\ main = "spawning"
    /\ ~Handling
    /\ loop' = [loop EXCEPT ![next] = "checking"]
    /\ main' = "assigning"
    /\ UNCHANGED <<next, shutting_down, stopping, assigned, busy, given, calling>>

AssignThread ==
    /\ main = "assigning"
    /\ ~Handling
    /\ assigned' = [assigned EXCEPT ![next] = TRUE]
    /\ next' = next + 1
    /\ main' = IF next = N THEN "sleeping" ELSE "resetting"
    /\ UNCHANGED <<shutting_down, stopping, polling, calling>>

StartReturns ==
    /\ main = "sleeping"
    /\ ~Handling
    /\ shutting_down
    /\ main' = "returned"
    /\ UNCHANGED <<next, shutting_down, stopping, assigned, polling, calling>>

-----------------------------------------------------------------------------
(* The poll loop of a poller, and the tasks of its pool.                    *)

SeesStop_Never(p) == FALSE

SeesStop(p) == stopping[p]

HasThread_Always(p) == TRUE

\* What ThreadPool promises a poller that comes back from
\* wait_for_available_threads.
HasThread(p) == busy[p] < PoolSize

\* wait_for_available_threads, and the look at @shutting_down behind it.
CheckLoop(p) ==
    /\ Alive
    /\ loop[p] = "checking"
    /\ HasThread(p)
    /\ loop' = [loop EXCEPT ![p] = IF SeesStop(p) THEN "ended" ELSE "polling"]
    /\ UNCHANGED <<starting, shutting_down, stopping, busy, given, calling>>

\* poll_for_task brings a task, which is scheduled whatever the flag says now.
PollBrings(p) ==
    /\ Alive
    /\ loop[p] = "polling"
    /\ given[p] < MaxTasks
    /\ given' = [given EXCEPT ![p] = @ + 1]
    /\ busy' = [busy EXCEPT ![p] = @ + 1]
    /\ loop' = [loop EXCEPT ![p] = "checking"]
    /\ UNCHANGED <<starting, shutting_down, stopping, calling>>

\* poll_for_task brings nothing, or fails.
PollBringsNothing(p) ==
    /\ Alive
    /\ loop[p] = "polling"
    /\ loop' = [loop EXCEPT ![p] = "checking"]
    /\ UNCHANGED <<starting, shutting_down, stopping, busy, given, calling>>

TaskEnds(p) ==
    /\ Alive
    /\ busy[p] > 0
    /\ busy' = [busy EXCEPT ![p] = @ - 1]
    /\ UNCHANGED <<starting, shutting_down, stopping, loop, given, calling>>

-----------------------------------------------------------------------------
(* Worker#stop.                                                             *)

\* A signal can come as soon as it is trapped, and again once the handler has
\* returned; a program's own thread calls stop on a worker that has started.
MayCall(c) ==
    /\ stopper[c] \in {"idle", "returned"}
    /\ main \in IF c = "signal" THEN {"resetting", "spawning", "assigning", "sleeping"}
                                ELSE {"sleeping", "returned"}

StopCalled(c) ==
    /\ MayCall(c)
    /\ stops < MaxStops
    /\ stops' = stops + 1
    /\ shutting_down' = TRUE
    /\ stopper' = [stopper EXCEPT ![c] = "flagging"]
    /\ at' = [at EXCEPT ![c] = 1]
    /\ UNCHANGED <<starting, stopping, polling>>

\* The call goes on to the next poller, or past the last one.
GoOn(c, then, first) ==
    IF at[c] < N
      THEN at' = [at EXCEPT ![c] = @ + 1] /\ UNCHANGED stopper
      ELSE at' = [at EXCEPT ![c] = first] /\ stopper' = [stopper EXCEPT ![c] = then]

\* pollers.each(&:stop)
StopFlag(c) ==
    /\ Alive
    /\ stopper[c] = "flagging"
    /\ stopping' = [stopping EXCEPT ![at[c]] = TRUE]
    /\ GoOn(c, "waiting", 1)
    /\ UNCHANGED <<starting, shutting_down, polling, stops>>

Drained_LoopOnly(p) == loop[p] = "ended"

\* Poller#wait returns: the poll loop is joined, and the pool is shut down.
Drained(p) == loop[p] = "ended" /\ busy[p] = 0

\* pollers.each(&:wait)
StopWait(c) ==
    /\ Alive
    /\ stopper[c] = "waiting"
    /\ assigned[at[c]]
    /\ Drained(at[c])
    /\ GoOn(c, "returned", 1)
    /\ UNCHANGED <<starting, shutting_down, stopping, polling, stops>>

\* Poller#wait on a poller that has no @thread yet raises; the error comes out
\* of Thread#join in the caller, and from the handler it ends Worker#start.
StopRaises(c) ==
    /\ Alive
    /\ stopper[c] = "waiting"
    /\ ~assigned[at[c]]
    /\ stopper' = [stopper EXCEPT ![c] = "raised"]
    /\ main' = IF c = "signal" THEN "raised" ELSE main
    /\ UNCHANGED <<next, assigned, shutting_down, stopping, polling, at, stops>>

-----------------------------------------------------------------------------

MainStep == ResetFlag \/ SpawnLoop \/ AssignThread \/ StartReturns
LoopStep(p) == CheckLoop(p) \/ PollBrings(p) \/ PollBringsNothing(p)
StopStep(c) == StopFlag(c) \/ StopWait(c) \/ StopRaises(c)

Next ==
    \/ MainStep
    \/ \E p \in Pollers : LoopStep(p) \/ TaskEnds(p)
    \/ \E c \in Callers : StopCalled(c) \/ StopStep(c)

Spec == Init /\ [][Next]_vars

(***************************************************************************)
(* Fairness: runnable threads run; a poll ends within polling_ttl; a task  *)
(* ends (an assumption on activities; a decision task ends by itself).     *)
(* Nothing makes anyone call stop.                                         *)
(***************************************************************************)
Fairness ==
    /\ WF_vars(MainStep)
    /\ \A p \in Pollers : WF_vars(LoopStep(p)) /\ WF_vars(TaskEnds(p))
    /\ \A c \in Callers : WF_vars(StopStep(c))

FairSpec == Spec /\ Fairness

-----------------------------------------------------------------------------

\* Worker#stop returns only when no poller polls and no task is left, however
\* many calls overlap, and a poller stays like that.
StoppedIsDrained ==
    \A c \in Callers : stopper[c] = "returned" =>
        \A p \in Pollers : loop[p] = "ended" /\ busy[p] = 0

\* When a signal ends the worker, Worker#start returns or raises (and with it,
\* as a rule, the process ends) only after every task of the pollers that were
\* started is over: the handler holds the main thread until Worker#stop is
\* through, also when the start is cut short and stop ends in an error.  A thread
\* that calls stop gives no such promise: the flag lets Worker#start return at
\* once.
EndIsDrained ==
    \/ main = "raised"
    \/ main = "returned" /\ \A c \in Callers \ {"signal"} : stopper[c] = "idle"
    => \A p \in Pollers : assigned[p] => loop[p] = "ended" /\ busy[p] = 0

\* Once a call of stop has told all pollers, none of them begins another poll:
\* Poller#start, which takes the flag back, never runs behind Poller#stop.
NoPollAfterStop ==
    [][ (\E c \in Callers : stopper[c] \in {"waiting", "returned"}) =>
            \A p \in Pollers : loop'[p] = "polling" => loop[p] = "polling" ]_vars

\* A call of stop comes to an end, and so does Worker#start behind it.
StopEnds ==
    \A c \in Callers : stopper[c] = "flagging" ~> stopper[c] \in {"returned", "raised"}
StartEnds == shutting_down ~> main \in {"returned", "raised"}
=============================================================================
