----------------------------- MODULE ThreadPool -----------------------------
(***************************************************************************)
(* Cadence::ThreadPool (lib/cadence/thread_pool.rb): a fixed set of        *)
(* threads fed from a queue, with a counter of the threads that are free   *)
(* and a condition variable on which a poller waits before it asks the     *)
(* service for more work.  Every action is one critical section of @mutex, *)
(* or one step a thread takes outside it.                                  *)
(*                                                                         *)
(* A client is a caller of the pool: it loops over                         *)
(* wait_for_available_threads and schedule, and leaves the loop for good   *)
(* once it is told to stop.  A poller owns its pool, so the code has one   *)
(* client per pool; the module takes any number of them because the NOTE   *)
(* at the head of the class speaks of a race between the two calls.        *)
(***************************************************************************)
EXTENDS Integers, Sequences, FiniteSets

CONSTANTS Threads,   \* the threads of @pool; `size` is their number
          Clients,   \* the threads that call the pool
          Jobs,      \* the blocks clients schedule, each of them once
          Exit       \* the block that throws EXIT_SYMBOL

ASSUME ThreadsAssumption == IsFiniteSet(Threads) /\ Threads # {}
ASSUME ClientsAssumption == IsFiniteSet(Clients) /\ Clients # {}
ASSUME ExitAssumption == Exit \notin Jobs

VARIABLES available_threads,  \* @available_threads
          queue,              \* @queue
          client,             \* where each client is in its loop
          thread,             \* what each thread of the pool is doing
          holds,              \* the block a running thread popped
          exits,              \* how many Exit blocks shutdown has scheduled
          shutdown,           \* "open", "draining", "returned"
          finished            \* the jobs that have been called and came back

vars == <<available_threads, queue, client, thread, holds, exits, shutdown, finished>>

size == Cardinality(Threads)

Blocks == Jobs \cup {Exit}

ClientStates == {"checking",   \* about to evaluate the while condition
                 "blocked",    \* inside @availability.wait
                 "admitted",   \* wait_for_available_threads has returned
                 "left"}       \* its loop has ended
ThreadStates == {"popping",    \* at @queue.pop
                 "running",    \* inside the block
                 "releasing",  \* the block is over, @mutex not yet taken
                 "exited"}     \* the throw has left the loop

TypeOK ==
    /\ available_threads \in Int
    /\ queue \in Seq(Blocks)
    /\ client \in [Clients -> ClientStates]
    /\ thread \in [Threads -> ThreadStates]
    /\ holds \in [Threads -> Blocks]
    /\ exits \in 0..size
    /\ shutdown \in {"open", "draining", "returned"}
    /\ finished \in SUBSET Jobs

Popping == {t \in Threads : thread[t] = "popping"}
Occupied == {t \in Threads : thread[t] # "popping"}
Admitted == {c \in Clients : client[c] = "admitted"}
Blocked == {c \in Clients : client[c] = "blocked"}

Queued == {queue[i] : i \in 1..Len(queue)}
InHand == {holds[t] : t \in {u \in Threads : thread[u] = "running"}}

-----------------------------------------------------------------------------

Init ==
    /\ available_threads = size
    /\ queue = <<>>
    /\ client = [c \in Clients |-> "checking"]
    /\ thread = [t \in Threads |-> "popping"]
    /\ holds = [t \in Threads |-> Exit]
    /\ exits = 0
    /\ shutdown = "open"
    /\ finished = {}

NoThreadAvailable_OffByOne == available_threads < 0

\* The condition of the while loop in wait_for_available_threads.
NoThreadAvailable == available_threads <= 0

\* The while condition is evaluated under @mutex: the call returns, or the
\* client joins the waiters and gives the mutex up in the same step.
WaitForAvailableThreads(c) ==
    /\ client[c] = "checking"
    /\ client' = [client EXCEPT ![c] = IF NoThreadAvailable THEN "blocked" ELSE "admitted"]
    /\ UNCHANGED <<available_threads, queue, thread, holds, exits, shutdown, finished>>

\* ConditionVariable#wait may come back without a signal; the loop checks again.
SpuriousWakeup(c) ==
    /\ client[c] = "blocked"
    /\ client' = [client EXCEPT ![c] = "checking"]
    /\ UNCHANGED <<available_threads, queue, thread, holds, exits, shutdown, finished>>

Push_NoDecrement(block) ==
    /\ queue' = Append(queue, block)
    /\ UNCHANGED available_threads

\* The body of schedule.
Push(block) ==
    /\ available_threads' = available_threads - 1
    /\ queue' = Append(queue, block)

Schedule(c, job) ==
    /\ client[c] = "admitted"
    /\ job \notin Queued \cup InHand \cup finished
    /\ Push(job)
    /\ client' = [client EXCEPT ![c] = "checking"]
    /\ UNCHANGED <<thread, holds, exits, shutdown, finished>>

\* The poll brought no task: the client goes round without scheduling.
ComeBackEmpty(c) ==
    /\ client[c] = "admitted"
    /\ client' = [client EXCEPT ![c] = "checking"]
    /\ UNCHANGED <<available_threads, queue, thread, holds, exits, shutdown, finished>>

\* The client was told to stop: it ends its loop and never calls again.
Leave(c) ==
    /\ client[c] = "admitted"
    /\ client' = [client EXCEPT ![c] = "left"]
    /\ UNCHANGED <<available_threads, queue, thread, holds, exits, shutdown, finished>>

AfterPop_ExitRescued(block) == "running"

\* The Exit block throws at once: `rescue Exception` does not stop a throw, and
\* the thread leaves its loop past the lines that would count it as available.
AfterPop(block) == IF block = Exit THEN "exited" ELSE "running"

\* @queue.pop hands over the oldest block.
Pop(t) ==
    /\ thread[t] = "popping"
    /\ queue # <<>>
    /\ queue' = Tail(queue)
    /\ holds' = [holds EXCEPT ![t] = Head(queue)]
    /\ thread' = [thread EXCEPT ![t] = AfterPop(Head(queue))]
    /\ UNCHANGED <<available_threads, client, exits, shutdown, finished>>

Run_NoRescue(t) ==
    /\ thread[t] = "running"
    /\ \E end \in {"releasing", "exited"} : thread' = [thread EXCEPT ![t] = end]
    /\ finished' = finished \cup {holds[t]}
    /\ UNCHANGED <<available_threads, queue, client, holds, exits, shutdown>>

\* The block returns or raises: `run` rescues every Exception, so both are one.
Run(t) ==
    /\ thread[t] = "running"
    /\ thread' = [thread EXCEPT ![t] = "releasing"]
    /\ finished' = finished \cup {holds[t]}
    /\ UNCHANGED <<available_threads, queue, client, holds, exits, shutdown>>

WakeOne_Never == UNCHANGED client

\* @availability.signal: one waiter, if there is any, looks at the counter again.
WakeOne ==
    IF Blocked = {}
      THEN UNCHANGED client
      ELSE \E c \in Blocked : client' = [client EXCEPT ![c] = "checking"]

\* The critical section after a block.
Release(t) ==
    /\ thread[t] = "releasing"
    /\ thread' = [thread EXCEPT ![t] = "popping"]
    /\ available_threads' = available_threads + 1
    /\ WakeOne
    /\ UNCHANGED <<queue, holds, exits, shutdown, finished>>

ClientsGone == \A c \in Clients : client[c] = "left"

MayShutDown_AnyTime == TRUE

\* Poller#wait joins the poll loop before it shuts the pool down.
MayShutDown == ClientsGone

ExitsLeft_OneMore == exits <= size

\* size.times
ExitsLeft == exits < size

\* One of the `size` calls of schedule { throw EXIT_SYMBOL }.
ShutdownSchedule ==
    /\ MayShutDown
    /\ shutdown # "returned"
    /\ ExitsLeft
    /\ Push(Exit)
    /\ exits' = exits + 1
    /\ shutdown' = "draining"
    /\ UNCHANGED <<client, thread, holds, finished>>

AllJoined_FirstOnly == \E t \in Threads : thread[t] = "exited"

\* @pool.each(&:join) returns when every thread is over.
AllJoined == \A t \in Threads : thread[t] = "exited"

ShutdownJoin ==
    /\ shutdown = "draining"
    /\ exits = size
    /\ AllJoined
    /\ shutdown' = "returned"
    /\ UNCHANGED <<available_threads, queue, client, thread, holds, exits, finished>>

ClientStep(c) ==
    \/ WaitForAvailableThreads(c)
    \/ SpuriousWakeup(c)
    \/ \E job \in Jobs : Schedule(c, job)
    \/ ComeBackEmpty(c)
    \/ Leave(c)

ThreadStep(t) == Pop(t) \/ Run(t) \/ Release(t)

Next ==
    \/ \E c \in Clients : ClientStep(c)
    \/ \E t \in Threads : ThreadStep(t)
    \/ ShutdownSchedule
    \/ ShutdownJoin

Spec == Init /\ [][Next]_vars

(***************************************************************************)
(* Fairness: the Ruby scheduler runs every runnable thread, the blocks end *)
(* (an assumption on user code), and the thread that shuts the pool down   *)
(* carries on.  Nothing makes a client schedule or leave, and nothing      *)
(* makes a wake-up spurious.                                               *)
(***************************************************************************)
Fairness ==
    /\ \A t \in Threads : WF_vars(ThreadStep(t))
    /\ \A c \in Clients : WF_vars(WaitForAvailableThreads(c))
    /\ WF_vars(ShutdownSchedule)
    /\ WF_vars(ShutdownJoin)

FairSpec == Spec /\ Fairness

-----------------------------------------------------------------------------

\* The counter is exact: the threads not counted as available are the ones
\* that are busy or gone, and the ones already promised to a queued block.  It
\* goes below zero when more blocks are queued than threads are free.
CounterIsExact ==
    available_threads = size - Len(queue) - Cardinality(Occupied)

\* The race of the NOTE above ThreadPool, bounded: before shutdown, the blocks
\* that no free thread is waiting for are fewer than the callers of the pool.
\* With the single poller the code gives each pool, a job that was polled for
\* always has a thread ready to take it.
BacklogBound ==
    shutdown = "open" =>
        Len(queue) <= Cardinality(Popping) + Cardinality(Clients) - 1

\* No wake-up is lost for all callers at once: when a thread is available, at
\* least one caller is not asleep inside wait_for_available_threads.
SomeoneAwake == available_threads > 0 => Blocked # Clients

\* shutdown drains: once it has returned, every block that a poller ever
\* handed over has been run to its end; none is left in the queue behind the
\* exits, or cut off half way.
DrainedAtShutdown ==
    shutdown = "returned" =>
        /\ \A i \in 1..Len(queue) : queue[i] \notin Jobs
        /\ InHand = {}

\* The exits come last: once one thread has thrown EXIT_SYMBOL, no thread
\* starts another job, so the threads that remain are only finishing theirs.
NoStartAfterExit ==
    [][ (\E t \in Threads : thread[t] = "exited") =>
            \A u \in Threads : thread'[u] = "running" => thread[u] = "running" ]_vars

\* Every block that was scheduled is run, and the call that shuts the pool
\* down comes back: `size` exits reach `size` threads.
JobsRun == \A j \in Jobs : (j \in Queued) ~> (j \in finished)
ShutdownReturns == ClientsGone ~> (shutdown = "returned")

\* When callers block for a free thread, one of them gets through: the poller,
\* when it is the only one.  (Among several, nothing orders the waiters.)
BlockedIsAdmitted == Blocked # {} ~> Admitted # {}
=============================================================================
