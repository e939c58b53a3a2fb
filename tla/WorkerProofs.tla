---------------------------- MODULE WorkerProofs ----------------------------
(***************************************************************************)
(* Proofs about module Worker, for any number of pollers, any pool size    *)
(* and any number of tasks and of calls of stop.                           *)
(***************************************************************************)
EXTENDS Worker, TLAPS

\* The loop of the poller is over, and so are its tasks.
IsDrained(p) == loop[p] = "ended" /\ busy[p] = 0

\* Worker#start goes through the pollers in order.
StartsInOrder ==
    /\ \A p \in Pollers : assigned[p] <=> p < next
    /\ main \in {"sleeping", "returned"} <=> next = N + 1

\* A poller that polls has a thread for the task it may be given.
ThreadKept == \A p \in Pollers : loop[p] = "polling" => busy[p] < PoolSize

\* A thread of the program calls stop on a started worker only; the handler
\* of a signal ends with an error in no other place than the start.
CallsInPlace ==
    \A c \in Callers :
      /\ c # "signal" /\ stopper[c] # "idle" => next = N + 1
      /\ stopper[c] = "returned" => next = N + 1
      /\ stopper[c] = "raised" => main = "raised"
      /\ c = "signal" /\ main = "returned" => stopper[c] \notin {"flagging", "waiting"}

\* The pollers a call of stop has gone past are told to stop, and stay so.
Flagged ==
    \A c \in Callers, p \in Pollers :
      \/ stopper[c] = "flagging" /\ p < at[c]
      \/ stopper[c] \in {"waiting", "returned"}
      => stopping[p]

\* The pollers it has waited for had a thread, and are drained.
WaitedFor ==
    \A c \in Callers, p \in Pollers :
      \/ stopper[c] = "waiting" /\ p < at[c]
      \/ stopper[c] = "returned"
      => assigned[p] /\ IsDrained(p)

\* How Worker#start ends: because of a call of stop, and if by its error, with
\* the started pollers drained.
EndsByStop ==
    /\ main = "raised" => \A p \in Pollers : assigned[p] => IsDrained(p)
    /\ main = "returned" => shutting_down
    /\ shutting_down => \E c \in Callers : stopper[c] # "idle"

\* The inductive invariant.
IInv ==
    /\ TypeOK
    /\ StartsInOrder
    /\ ThreadKept
    /\ CallsInPlace
    /\ Flagged
    /\ WaitedFor
    /\ EndsByStop

-----------------------------------------------------------------------------
\* A worker before Worker#start has told its first poller to start.
LEMMA InitHolds == Init => IInv
  <1> USE NAssumption, PoolSizeAssumption, BoundsAssumption DEF Init
  <1>1. Init => TypeOK
    <2>1. 1 \in Pollers /\ 1 \in 1..N + 1
      BY DEF Pollers
    <2>2. Init => main \in MainStates /\ next \in 1..N + 1 /\ shutting_down \in BOOLEAN
      BY <2>1 DEF MainStates
    <2>3. Init => stopping \in [Pollers -> BOOLEAN] /\ assigned \in [Pollers -> BOOLEAN]
      BY ZenonT(40)
    <2>4. Init => loop \in [Pollers -> LoopStates] /\ busy \in [Pollers -> 0..PoolSize]
      BY DEF LoopStates
    <2>5. Init => /\ given \in [Pollers -> 0..MaxTasks]
                  /\ stopper \in [Callers -> StopperStates]
                  /\ at \in [Callers -> Pollers]
                  /\ stops \in 0..MaxStops
      BY <2>1 DEF StopperStates
    <2> QED
      BY <2>2, <2>3, <2>4, <2>5 DEF TypeOK
  <1>2. Init => StartsInOrder
    BY DEF StartsInOrder, Pollers
  <1>3. Init => ThreadKept /\ CallsInPlace /\ Flagged /\ WaitedFor /\ EndsByStop
    BY DEF ThreadKept, CallsInPlace, Flagged, WaitedFor, EndsByStop
  <1> QED
    BY <1>1, <1>2, <1>3 DEF IInv

\* While the main thread is in Worker#start and not in the handler of a
\* signal, no call of stop is under way or has returned.
LEMMA StartIsAlone ==
  ASSUME IInv, main \notin {"sleeping", "returned", "raised"}, ~Handling, NEW c \in Callers
  PROVE  stopper[c] = "idle" /\ next \in Pollers
  <1>1. next \in Pollers /\ next # N + 1
    BY NAssumption DEF IInv, TypeOK, StartsInOrder, Pollers
  <1>2. stopper[c] \in StopperStates
    BY DEF IInv, TypeOK
  <1> QED
    BY <1>1, <1>2 DEF IInv, CallsInPlace, Handling, StopperStates

\* Poller#start, step by step, and the end of Worker#start.
LEMMA MainKeeps ==
  ASSUME IInv, MainStep
  PROVE  IInv'
  <1> USE NAssumption, PoolSizeAssumption DEF IInv, calling, polling
  <1>1. CASE ResetFlag
    <2>1. next \in Pollers /\ \A c \in Callers : stopper[c] = "idle"
      BY <1>1, StartIsAlone, SMTT(30) DEF ResetFlag, TypeOK, StartsInOrder, Pollers
    <2>2. TypeOK' /\ StartsInOrder' /\ ThreadKept' /\ CallsInPlace'
      BY <1>1, <2>1 DEF ResetFlag, TypeOK, MainStates, StartsInOrder, ThreadKept, CallsInPlace
    <2>3. Flagged' /\ WaitedFor'
      BY <1>1, <2>1 DEF ResetFlag, Flagged, WaitedFor
    <2>4. EndsByStop'
      BY <1>1, <2>1 DEF ResetFlag, EndsByStop
    <2> QED
      BY <2>2, <2>3, <2>4
  <1>2. CASE SpawnLoop
    <2>1. next \in Pollers /\ \A c \in Callers : stopper[c] = "idle"
      BY <1>2, StartIsAlone, SMTT(30) DEF SpawnLoop, TypeOK, StartsInOrder, Pollers
    <2>2. TypeOK' /\ StartsInOrder' /\ CallsInPlace'
      BY <1>2, <2>1 DEF SpawnLoop, TypeOK, MainStates, LoopStates, StartsInOrder, CallsInPlace
    <2>3. ThreadKept' /\ Flagged' /\ WaitedFor' /\ EndsByStop'
      BY <1>2, <2>1 DEF SpawnLoop, TypeOK, ThreadKept, Flagged, WaitedFor, EndsByStop
    <2> QED
      BY <2>2, <2>3
  <1>3. CASE AssignThread
    <2>1. next \in Pollers /\ \A c \in Callers : stopper[c] = "idle"
      BY <1>3, StartIsAlone, SMTT(30) DEF AssignThread, TypeOK, StartsInOrder, Pollers
    <2>2. TypeOK'
      BY <1>3, <2>1 DEF AssignThread, TypeOK, MainStates, Pollers
    <2>3. StartsInOrder'
      BY <1>3, <2>1 DEF AssignThread, TypeOK, StartsInOrder, Pollers
    <2>4. ThreadKept' /\ CallsInPlace' /\ Flagged' /\ WaitedFor' /\ EndsByStop'
      BY <1>3, <2>1 DEF AssignThread, ThreadKept, CallsInPlace, Flagged, WaitedFor, EndsByStop
    <2> QED
      BY <2>2, <2>3, <2>4
  <1>4. CASE StartReturns
    <2>1. TypeOK' /\ StartsInOrder' /\ ThreadKept' /\ CallsInPlace'
      BY <1>4 DEF StartReturns, TypeOK, MainStates, StartsInOrder, ThreadKept, CallsInPlace,
                  Handling
    <2>2. Flagged' /\ WaitedFor' /\ EndsByStop'
      BY <1>4 DEF StartReturns, Flagged, WaitedFor, EndsByStop, IsDrained
    <2> QED
      BY <2>1, <2>2
  <1> QED
    BY <1>1, <1>2, <1>3, <1>4 DEF MainStep

\* A poll loop that is over stays over, and a pool behind it only gets emptier.
LEMMA DrainedStays ==
  ASSUME IInv, NEW p \in Pollers, LoopStep(p) \/ TaskEnds(p), NEW q \in Pollers, IsDrained(q)
  PROVE  IsDrained(q)'
  BY DEF IInv, TypeOK, LoopStep, CheckLoop, PollBrings, PollBringsNothing, TaskEnds, IsDrained

\* The poll loops and the tasks (Poller#poll_loop, ThreadPool).
LEMMA PollerKeeps ==
  ASSUME IInv, NEW p \in Pollers, LoopStep(p) \/ TaskEnds(p)
  PROVE  IInv'
  <1> USE NAssumption, PoolSizeAssumption DEF IInv
  <1>1. /\ UNCHANGED <<starting, shutting_down, stopping, calling>>
        /\ main # "raised"
    BY DEF LoopStep, CheckLoop, PollBrings, PollBringsNothing, TaskEnds, Alive
  <1>2. TypeOK'
    <2>1. CASE CheckLoop(p)
      BY <2>1 DEF CheckLoop, TypeOK, LoopStates, starting, calling
    <2>2. CASE PollBrings(p)
      BY <2>2, BoundsAssumption DEF PollBrings, ThreadKept, TypeOK, LoopStates, starting, calling
    <2>3. CASE PollBringsNothing(p)
      BY <2>3 DEF PollBringsNothing, TypeOK, LoopStates, starting, calling
    <2>4. CASE TaskEnds(p)
      BY <2>4 DEF TaskEnds, TypeOK, starting, calling
    <2> QED
      BY <2>1, <2>2, <2>3, <2>4 DEF LoopStep
  <1>3. ThreadKept'
    BY DEF LoopStep, CheckLoop, PollBrings, PollBringsNothing, TaskEnds, ThreadKept, TypeOK,
           HasThread
  <1>4. StartsInOrder' /\ CallsInPlace' /\ Flagged'
    BY <1>1 DEF StartsInOrder, CallsInPlace, Flagged, starting, calling
  <1>5. WaitedFor' /\ EndsByStop'
    BY <1>1, DrainedStays DEF WaitedFor, EndsByStop, starting, calling
  <1> QED
    BY <1>2, <1>3, <1>4, <1>5

\* Worker#stop, called by the handler or by a thread of the program.
LEMMA StopCallKeeps ==
  ASSUME IInv, NEW c \in Callers, StopCalled(c)
  PROVE  IInv'
  <1> USE NAssumption DEF IInv
  <1>1. /\ UNCHANGED <<main, next, assigned, stopping, loop, busy, given>>
        /\ shutting_down' = TRUE
        /\ stopper' = [stopper EXCEPT ![c] = "flagging"]
        /\ at' = [at EXCEPT ![c] = 1]
        /\ main # "raised"
        /\ c = "signal" => main # "returned"
        /\ c # "signal" => next = N + 1
    BY DEF StopCalled, MayCall, starting, polling, StartsInOrder
  <1>2. TypeOK'
    BY <1>1, BoundsAssumption DEF StopCalled, TypeOK, StopperStates, Pollers
  <1>3. StartsInOrder' /\ ThreadKept' /\ CallsInPlace'
    BY <1>1 DEF StartsInOrder, ThreadKept, CallsInPlace, TypeOK
  <1>4. Flagged' /\ WaitedFor'
    BY <1>1, SMTT(30) DEF Flagged, WaitedFor, IsDrained, TypeOK, Pollers
  <1>5. EndsByStop'
    BY <1>1 DEF EndsByStop, TypeOK
  <1> QED
    BY <1>2, <1>3, <1>4, <1>5

\* The three ways a call of stop goes on.
LEMMA StopStepKeeps ==
  ASSUME IInv, NEW c \in Callers, StopStep(c)
  PROVE  IInv'
  <1> USE NAssumption DEF IInv
  <1>1. CASE StopFlag(c)
    <2>1. /\ UNCHANGED <<main, next, assigned, shutting_down, loop, busy, given, stops>>
          /\ stopper[c] = "flagging"
          /\ stopping' = [stopping EXCEPT ![at[c]] = TRUE]
          /\ at[c] \in Pollers
      BY <1>1 DEF StopFlag, starting, polling, TypeOK
    <2>2. \/ at[c] < N /\ at' = [at EXCEPT ![c] = @ + 1] /\ stopper' = stopper
          \/ at[c] = N /\ at' = [at EXCEPT ![c] = 1] /\ stopper' = [stopper EXCEPT ![c] = "waiting"]
      BY <1>1, <2>1 DEF StopFlag, GoOn, Pollers
    <2>3. TypeOK'
      <3>1. at' \in [Callers -> Pollers]
        <4>1. at[c] < N => at[c] + 1 \in Pollers
          BY <2>1 DEF Pollers
        <4>2. 1 \in Pollers
          BY DEF Pollers
        <4> QED
          BY <2>2, <4>1, <4>2 DEF TypeOK
      <3>2. stopper' \in [Callers -> StopperStates]
        BY <2>2 DEF TypeOK, StopperStates
      <3> QED
        BY <2>1, <3>1, <3>2 DEF TypeOK
    <2>4. StartsInOrder' /\ ThreadKept'
      BY <2>1 DEF StartsInOrder, ThreadKept
    <2>5. CallsInPlace'
      BY <2>1, <2>2 DEF CallsInPlace, TypeOK
    <2>6. Flagged'
      <3> SUFFICES ASSUME NEW d \in Callers, NEW p \in Pollers,
                          \/ stopper'[d] = "flagging" /\ p < at'[d]
                          \/ stopper'[d] \in {"waiting", "returned"}
                   PROVE  stopping'[p]
        BY DEF Flagged
      <3>1. stopping[p] => stopping'[p]
        BY <2>1 DEF TypeOK
      <3>2. CASE d # c
        <4>1. stopper'[d] = stopper[d] /\ at'[d] = at[d]
          BY <2>2, <3>2 DEF TypeOK
        <4> QED
          BY <3>1, <4>1 DEF Flagged
      <3>3. CASE d = c
        <4>1. p = at[c] \/ p < at[c]
          BY <2>1, <2>2, <3>3, SMTT(30) DEF TypeOK, Pollers
        <4> QED
          BY <2>1, <3>1, <4>1 DEF Flagged, TypeOK
      <3> QED
        BY <3>2, <3>3
    <2>7. WaitedFor'
      <3> SUFFICES ASSUME NEW d \in Callers, NEW p \in Pollers,
                          \/ stopper'[d] = "waiting" /\ p < at'[d]
                          \/ stopper'[d] = "returned"
                   PROVE  assigned[p] /\ IsDrained(p)
        BY <2>1 DEF WaitedFor, IsDrained
      <3>1. d # c
        BY <2>1, <2>2 DEF TypeOK, Pollers
      <3>2. stopper'[d] = stopper[d] /\ at'[d] = at[d]
        BY <2>2, <3>1 DEF TypeOK
      <3> QED
        BY <3>2 DEF WaitedFor
    <2>8. EndsByStop'
      BY <2>1, <2>2 DEF EndsByStop, IsDrained, TypeOK
    <2> QED
      BY <2>3, <2>4, <2>5, <2>6, <2>7, <2>8
  <1>2. CASE StopWait(c)
    <2>1. /\ UNCHANGED <<main, next, assigned, shutting_down, stopping, loop, busy, given, stops>>
          /\ stopper[c] = "waiting"
          /\ assigned[at[c]] /\ IsDrained(at[c])
          /\ at[c] \in Pollers
      BY <1>2 DEF StopWait, Drained, IsDrained, starting, polling, TypeOK
    <2>2. \/ at[c] < N /\ at' = [at EXCEPT ![c] = @ + 1] /\ stopper' = stopper
          \/ at[c] = N /\ at' = [at EXCEPT ![c] = 1] /\ stopper' = [stopper EXCEPT ![c] = "returned"]
      BY <1>2, <2>1 DEF StopWait, GoOn, Pollers
    <2>3. TypeOK'
      <3>1. at' \in [Callers -> Pollers]
        <4>1. at[c] < N => at[c] + 1 \in Pollers
          BY <2>1 DEF Pollers
        <4>2. 1 \in Pollers
          BY DEF Pollers
        <4> QED
          BY <2>2, <4>1, <4>2 DEF TypeOK
      <3>2. stopper' \in [Callers -> StopperStates]
        BY <2>2 DEF TypeOK, StopperStates
      <3> QED
        BY <2>1, <3>1, <3>2 DEF TypeOK
    <2>4. StartsInOrder' /\ ThreadKept'
      BY <2>1 DEF StartsInOrder, ThreadKept
    <2>5. at[c] = N => next = N + 1
      BY <2>1 DEF StartsInOrder, TypeOK, Pollers
    <2>6. CallsInPlace'
      BY <2>1, <2>2, <2>5 DEF CallsInPlace, TypeOK
    <2>7. Flagged'
      BY <2>1, <2>2 DEF Flagged, TypeOK, Pollers
    <2>8. WaitedFor'
      BY <2>1, <2>2, SMTT(30) DEF WaitedFor, IsDrained, TypeOK, Pollers
    <2>9. EndsByStop'
      BY <2>1, <2>2 DEF EndsByStop, IsDrained, TypeOK
    <2> QED
      BY <2>3, <2>4, <2>6, <2>7, <2>8, <2>9
  <1>3. CASE StopRaises(c)
    <2>1. /\ UNCHANGED <<next, assigned, shutting_down, stopping, loop, busy, given, at, stops>>
          /\ stopper[c] = "waiting" /\ stopper' = [stopper EXCEPT ![c] = "raised"]
          /\ at[c] \in Pollers /\ ~assigned[at[c]]
      BY <1>3 DEF StopRaises, polling, TypeOK
    <2>2. next <= at[c] /\ next # N + 1 /\ next \in Nat
      BY <2>1 DEF StartsInOrder, TypeOK, Pollers
    <2>3. c = "signal" /\ main' = "raised"
      BY <1>3, <2>1, <2>2 DEF StopRaises, CallsInPlace
    <2>4. \A d \in Callers : d # c => stopper[d] = "idle"
      BY <2>2, <2>3 DEF CallsInPlace
    <2>5. TypeOK'
      BY <2>1, <2>3 DEF TypeOK, StopperStates, MainStates
    <2>6. StartsInOrder' /\ ThreadKept' /\ CallsInPlace'
      BY <2>1, <2>2, <2>3, <2>4 DEF StartsInOrder, ThreadKept, CallsInPlace, TypeOK
    <2>7. Flagged' /\ WaitedFor'
      BY <2>1, <2>4 DEF Flagged, WaitedFor, TypeOK
    <2>8. \A p \in Pollers : assigned[p] => IsDrained(p)
      BY <2>1, <2>2 DEF WaitedFor, StartsInOrder, Pollers
    <2>9. EndsByStop'
      BY <2>1, <2>3, <2>8 DEF EndsByStop, IsDrained, TypeOK
    <2> QED
      BY <2>5, <2>6, <2>7, <2>9
  <1> QED
    BY <1>1, <1>2, <1>3 DEF StopStep

\* The invariant holds in every state a worker reaches.
LEMMA Invariant == Spec => []IInv
  <1>1. IInv /\ [Next]_vars => IInv'
    <2> SUFFICES ASSUME IInv, [Next]_vars
                 PROVE  IInv'
      OBVIOUS
    <2>1. CASE Next
      BY <2>1, MainKeeps, PollerKeeps, StopCallKeeps, StopStepKeeps DEF Next
    <2>2. CASE UNCHANGED vars
      BY <2>2 DEF vars, IInv, TypeOK, StartsInOrder, ThreadKept, CallsInPlace, Flagged,
                  WaitedFor, EndsByStop, IsDrained
    <2> QED
      BY <2>1, <2>2
  <1> QED
    BY <1>1, InitHolds, PTL DEF Spec

-----------------------------------------------------------------------------
\* The variables of a worker keep their types; so no pool is given more tasks
\* than it has threads (Poller#poll_loop).
THEOREM WorkerTypeCorrect == Spec => []TypeOK
  BY Invariant, PTL DEF IInv

\* A call of stop that returns leaves no poller polling and no task at work,
\* for any number of pollers and of overlapping calls (Worker#stop).
THEOREM WorkerStopsDrained == Spec => []StoppedIsDrained
  <1>1. IInv => StoppedIsDrained
    BY DEF IInv, WaitedFor, IsDrained, StoppedIsDrained
  <1> QED
    BY <1>1, Invariant, PTL

\* A signal ends Worker#start only when the tasks of all started pollers are
\* over, also where the start is cut short (Worker#start, #trap_signals).
THEOREM WorkerEndsDrained == Spec => []EndIsDrained
  <1>1. IInv => EndIsDrained
    <2> SUFFICES ASSUME IInv,
                        \/ main = "raised"
                        \/ main = "returned" /\ \A c \in Callers \ {"signal"} : stopper[c] = "idle",
                        NEW p \in Pollers, assigned[p]
                 PROVE  IsDrained(p)
      BY DEF EndIsDrained, IsDrained
    <2>1. CASE main = "raised"
      BY <2>1 DEF IInv, EndsByStop
    <2>2. CASE main = "returned" /\ \A c \in Callers \ {"signal"} : stopper[c] = "idle"
      <3>1. PICK c \in Callers : c = "signal" /\ stopper[c] # "idle"
        BY <2>2 DEF IInv, EndsByStop
      <3>2. stopper[c] = "returned"
        BY <2>2, <3>1 DEF IInv, CallsInPlace, TypeOK, StopperStates
      <3> QED
        BY <3>2 DEF IInv, WaitedFor
    <2> QED
      BY <2>1, <2>2
  <1> QED
    BY <1>1, Invariant, PTL

\* Once a call of stop has told all pollers, no poll begins: Poller#start never
\* takes back a flag that Poller#stop has set (Poller#start, #stop).
THEOREM WorkerPollsNoMore == Spec => NoPollAfterStop
  <1> DEFINE Quiet ==
        (\E c \in Callers : stopper[c] \in {"waiting", "returned"}) =>
            \A p \in Pollers : loop'[p] = "polling" => loop[p] = "polling"
  <1>1. IInv /\ [Next]_vars => [Quiet]_vars
    <2> SUFFICES ASSUME IInv, Next,
                        NEW c \in Callers, stopper[c] \in {"waiting", "returned"},
                        NEW p \in Pollers, loop'[p] = "polling"
                 PROVE  loop[p] = "polling"
      BY DEF vars
    <2>1. stopping[p]
      BY DEF IInv, Flagged
    <2> QED
      BY <2>1 DEF Next, MainStep, ResetFlag, SpawnLoop, AssignThread, StartReturns, LoopStep,
                  CheckLoop, PollBrings, PollBringsNothing, TaskEnds, SeesStop, StopCalled,
                  StopStep, StopFlag, StopWait, StopRaises, polling, IInv, TypeOK
  <1> QED
    BY <1>1, Invariant, PTL DEF Spec, NoPollAfterStop
=============================================================================
