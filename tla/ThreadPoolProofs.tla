-------------------------- MODULE ThreadPoolProofs --------------------------
(***************************************************************************)
(* Proofs about ThreadPool, for every number of threads, clients and jobs. *)
(*                                                                         *)
(* None of the properties is inductive as it stands.  BacklogBound needs   *)
(* to know what an admitted client saw (AdmissionBound), and               *)
(* DrainedAtShutdown that the exits are scheduled behind every job         *)
(* (ExitsBehind) by a caller that waited for the clients to leave          *)
(* (NoExitWhileOpen), so that the first thread to exit finds no job left.  *)
(***************************************************************************)
EXTENDS ThreadPool, FiniteSetTheorems, TLAPS

\* What admission buys: each admitted client still has its claim, and only the
\* other clients can have taken a thread since it looked.
AdmissionBound ==
    shutdown = "open" =>
        available_threads >= 1 - Cardinality(Clients) + Cardinality(Admitted)

\* An Exit block has only Exit blocks behind it.
ExitsBehind ==
    \A i, j \in 1..Len(queue) : i <= j /\ queue[i] = Exit => queue[j] = Exit

\* Exits, queued or taken, mean that every client has left.
NoExitWhileOpen ==
    /\ shutdown # "open" => ClientsGone
    /\ shutdown = "open" => /\ \A i \in 1..Len(queue) : queue[i] # Exit
                            /\ \A t \in Threads : thread[t] # "exited"

\* Once a thread has exited, what is left in the queue are exits.
ExitedMeansDrained ==
    (\E t \in Threads : thread[t] = "exited") =>
        \A i \in 1..Len(queue) : queue[i] = Exit

RunningHoldsJob == \A t \in Threads : thread[t] = "running" => holds[t] \in Jobs

ReturnedMeansExited ==
    shutdown = "returned" => \A t \in Threads : thread[t] = "exited"

IInv ==
    /\ TypeOK
    /\ CounterIsExact
    /\ AdmissionBound
    /\ SomeoneAwake
    /\ ExitsBehind
    /\ NoExitWhileOpen
    /\ ExitedMeansDrained
    /\ RunningHoldsJob
    /\ ReturnedMeansExited

-----------------------------------------------------------------------------

\* The sets the invariants count are finite, and split the pool.
LEMMA FiniteParts ==
    /\ IsFiniteSet(Popping) /\ IsFiniteSet(Occupied) /\ IsFiniteSet(Admitted)
    /\ size \in Nat /\ Cardinality(Occupied) \in Nat /\ Cardinality(Popping) \in Nat
    /\ Cardinality(Admitted) \in Nat /\ Cardinality(Clients) \in Nat
    /\ Cardinality(Admitted) <= Cardinality(Clients)
    /\ size = Cardinality(Popping) + Cardinality(Occupied)
  <1>1. Popping \in SUBSET Threads /\ Occupied \in SUBSET Threads /\ Admitted \in SUBSET Clients
    BY DEF Popping, Occupied, Admitted
  <1>2. IsFiniteSet(Popping) /\ IsFiniteSet(Occupied) /\ IsFiniteSet(Admitted)
    BY <1>1, FS_Subset, ThreadsAssumption, ClientsAssumption
  <1>3. Cardinality(Admitted) <= Cardinality(Clients)
    BY <1>1, FS_Subset, ClientsAssumption
  <1>4. Threads = Popping \cup Occupied /\ Popping \cap Occupied = {}
    BY DEF Popping, Occupied
  <1>5. /\ Cardinality(Popping) \in Nat /\ Cardinality(Occupied) \in Nat
        /\ Cardinality(Admitted) \in Nat /\ Cardinality(Clients) \in Nat
    BY <1>2, FS_CardinalityType, ClientsAssumption
  <1>6. Cardinality(Threads) = Cardinality(Popping) + Cardinality(Occupied)
                                 - Cardinality(Popping \cap Occupied)
    BY <1>2, <1>4, FS_Union
  <1>7. Cardinality(Popping \cap Occupied) = 0
    BY <1>4, FS_EmptySet
  <1>8. size = Cardinality(Popping) + Cardinality(Occupied)
    BY <1>5, <1>6, <1>7 DEF size
  <1> QED
    BY <1>2, <1>3, <1>5, <1>8

\* There is at least one thread and one client.
LEMMA AtLeastOne == size >= 1 /\ Cardinality(Clients) >= 1
  <1>1. Cardinality(Threads) # 0 /\ Cardinality(Clients) # 0
    BY FS_EmptySet, ThreadsAssumption, ClientsAssumption
  <1> QED
    BY <1>1, FiniteParts DEF size

\* The invariant holds in the state ThreadPool#initialize leaves.
LEMMA InitIInv == Init => IInv
  <1> SUFFICES ASSUME Init PROVE IInv
    OBVIOUS
  <1>1. TypeOK
    BY FiniteParts DEF Init, TypeOK, Blocks, ClientStates, ThreadStates
  <1>2. Occupied = {} /\ Admitted = {} /\ Blocked = {}
    BY DEF Init, Occupied, Admitted, Blocked
  <1>3. CounterIsExact
    BY <1>2, FS_EmptySet, FiniteParts DEF Init, CounterIsExact
  <1>4. AdmissionBound
    BY <1>2, FS_EmptySet, FiniteParts, AtLeastOne DEF Init, AdmissionBound
  <1>5. SomeoneAwake
    BY <1>2, ClientsAssumption DEF SomeoneAwake
  <1>6. /\ ExitsBehind /\ NoExitWhileOpen /\ ExitedMeansDrained
        /\ RunningHoldsJob /\ ReturnedMeansExited
    BY DEF Init, ExitsBehind, NoExitWhileOpen, ExitedMeansDrained, RunningHoldsJob,
           ReturnedMeansExited
  <1> QED
    BY <1>1, <1>3, <1>4, <1>5, <1>6 DEF IInv

\* How the number of admitted clients moves when one client moves.
LEMMA AdmittedMoves ==
    ASSUME TypeOK, NEW c \in Clients, NEW s \in ClientStates,
           client' = [client EXCEPT ![c] = s]
    PROVE  /\ client[c] # "admitted" /\ s = "admitted" =>
                 Cardinality(Admitted') = Cardinality(Admitted) + 1
           /\ client[c] = "admitted" /\ s # "admitted" =>
                 Cardinality(Admitted') = Cardinality(Admitted) - 1
           /\ client[c] # "admitted" /\ s # "admitted" => Admitted' = Admitted
  <1>1. CASE client[c] # "admitted" /\ s = "admitted"
    <2>1. Admitted' = Admitted \cup {c} /\ c \notin Admitted
      BY <1>1 DEF Admitted, TypeOK
    <2> QED
      BY <1>1, <2>1, FS_AddElement, FiniteParts
  <1>2. CASE client[c] = "admitted" /\ s # "admitted"
    <2>1. Admitted' = Admitted \ {c} /\ c \in Admitted
      BY <1>2 DEF Admitted, TypeOK
    <2> QED
      BY <1>2, <2>1, FS_RemoveElement, FiniteParts
  <1>3. CASE client[c] # "admitted" /\ s # "admitted"
    BY <1>3 DEF Admitted, TypeOK
  <1> QED
    BY <1>1, <1>2, <1>3

\* How the number of occupied threads moves when one thread moves.
LEMMA OccupiedMoves ==
    ASSUME TypeOK, NEW t \in Threads, NEW s \in ThreadStates,
           thread' = [thread EXCEPT ![t] = s]
    PROVE  /\ thread[t] = "popping" /\ s # "popping" =>
                 Cardinality(Occupied') = Cardinality(Occupied) + 1
           /\ thread[t] # "popping" /\ s = "popping" =>
                 Cardinality(Occupied') = Cardinality(Occupied) - 1
           /\ thread[t] # "popping" /\ s # "popping" => Occupied' = Occupied
  <1>1. CASE thread[t] = "popping" /\ s # "popping"
    <2>1. Occupied' = Occupied \cup {t} /\ t \notin Occupied
      BY <1>1 DEF Occupied, TypeOK
    <2> QED
      BY <1>1, <2>1, FS_AddElement, FiniteParts
  <1>2. CASE thread[t] # "popping" /\ s = "popping"
    <2>1. Occupied' = Occupied \ {t} /\ t \in Occupied
      BY <1>2 DEF Occupied, TypeOK
    <2> QED
      BY <1>2, <2>1, FS_RemoveElement, FiniteParts
  <1>3. CASE thread[t] # "popping" /\ s # "popping"
    BY <1>3 DEF Occupied, TypeOK
  <1> QED
    BY <1>1, <1>2, <1>3

\* A step that moves one client and nothing else preserves the invariant when
\* it admits only against the counter, blocks only without a thread, and does
\* not move a client that has left.
LEMMA ClientMovePreserves ==
    ASSUME IInv, NEW c \in Clients, NEW s \in ClientStates,
           client' = [client EXCEPT ![c] = s],
           client[c] # "left",
           s = "admitted" => client[c] # "admitted" /\ available_threads > 0,
           s = "blocked" => available_threads <= 0,
           UNCHANGED <<available_threads, queue, thread, holds, exits, shutdown, finished>>
    PROVE  IInv'
  <1> USE DEF IInv
  <1>1. TypeOK'
    BY DEF TypeOK
  <1>2. CounterIsExact'
    BY DEF CounterIsExact, Occupied
  <1>3. shutdown = "open"
    BY DEF NoExitWhileOpen, ClientsGone
  <1>4. AdmissionBound'
    <2>1. IsFiniteSet(Admitted') /\ Cardinality(Admitted') <= Cardinality(Clients)
      BY FS_Subset, ClientsAssumption DEF Admitted
    <2>2. Cardinality(Admitted') \in Nat
      BY <2>1, FS_CardinalityType
    <2>3. CASE s = "admitted"
      BY <2>1, <2>2, <2>3, FiniteParts DEF AdmissionBound, TypeOK
    <2>4. CASE s # "admitted"
      <3>1. Cardinality(Admitted') <= Cardinality(Admitted)
        <4>1. CASE client[c] = "admitted"
          <5>1. Cardinality(Admitted') = Cardinality(Admitted) - 1
            BY <2>4, <4>1, AdmittedMoves
          <5> QED
            BY <5>1, FiniteParts
        <4>2. CASE client[c] # "admitted"
          <5>1. Admitted' = Admitted
            BY <2>4, <4>2, AdmittedMoves
          <5> QED
            BY <5>1, FiniteParts
        <4> QED
          BY <4>1, <4>2
      <3> QED
        BY <1>3, <2>2, <3>1, FiniteParts DEF AdmissionBound, TypeOK
    <2> QED
      BY <2>3, <2>4
  <1>5. SomeoneAwake'
    <2>1. CASE s = "blocked"
      BY <2>1 DEF SomeoneAwake, TypeOK
    <2>2. CASE s # "blocked"
      BY <2>2 DEF SomeoneAwake, Blocked, TypeOK
    <2> QED
      BY <2>1, <2>2
  <1>6. /\ ExitsBehind' /\ ExitedMeansDrained' /\ RunningHoldsJob' /\ ReturnedMeansExited'
    BY DEF ExitsBehind, ExitedMeansDrained, RunningHoldsJob, ReturnedMeansExited
  <1>7. NoExitWhileOpen'
    BY <1>3 DEF NoExitWhileOpen
  <1> QED
    BY <1>1, <1>2, <1>4, <1>5, <1>6, <1>7

\* Every action preserves the invariant; one step per action, and under it one
\* per part the action can disturb.
LEMMA NextIInv == IInv /\ [Next]_vars => IInv'
  <1> SUFFICES ASSUME IInv, [Next]_vars PROVE IInv'
    OBVIOUS
  <1> USE DEF IInv
  <1>t. TypeOK /\ Len(queue) \in Nat /\ DOMAIN queue = 1..Len(queue)
    BY DEF TypeOK
  <1>1. ASSUME NEW c \in Clients, WaitForAvailableThreads(c) PROVE IInv'
    <2>1. CASE available_threads <= 0
      BY <1>1, <2>1, ClientMovePreserves
         DEF WaitForAvailableThreads, NoThreadAvailable, ClientStates
    <2>2. CASE ~(available_threads <= 0)
      <3>1. available_threads > 0
        BY <1>t, <2>2 DEF TypeOK
      <3> QED
        BY <1>1, <2>2, <3>1, ClientMovePreserves
           DEF WaitForAvailableThreads, NoThreadAvailable, ClientStates
    <2> QED
      BY <2>1, <2>2
  <1>2. ASSUME NEW c \in Clients, SpuriousWakeup(c) PROVE IInv'
    BY <1>2, ClientMovePreserves DEF SpuriousWakeup, ClientStates
  <1>3. ASSUME NEW c \in Clients, NEW job \in Jobs, Schedule(c, job) PROVE IInv'
    <2> USE <1>3 DEF Schedule, Push
    <2>1. /\ queue' \in Seq(Blocks) /\ Len(queue') = Len(queue) + 1
          /\ queue'[Len(queue) + 1] = job
          /\ \A i \in 1..Len(queue) : queue'[i] = queue[i]
      BY <1>t DEF TypeOK, Blocks
    <2>2. TypeOK'
      BY <1>t, <2>1 DEF TypeOK, ClientStates
    <2>3. shutdown = "open"
      BY DEF NoExitWhileOpen, ClientsGone
    <2>4. CounterIsExact'
      <3>1. Occupied' = Occupied
        BY DEF Occupied
      <3> QED
        BY <1>t, <2>1, <3>1, FiniteParts DEF CounterIsExact, TypeOK
    <2>5. AdmissionBound'
      <3>1. Cardinality(Admitted') = Cardinality(Admitted) - 1
        BY <1>t, AdmittedMoves DEF ClientStates
      <3> QED
        BY <1>t, <2>3, <3>1, FiniteParts DEF AdmissionBound, TypeOK
    <2>6. SomeoneAwake'
      BY DEF SomeoneAwake, Blocked, TypeOK
    <2>7. ExitsBehind' /\ NoExitWhileOpen' /\ ExitedMeansDrained'
      BY <1>t, <2>1, <2>3, ExitAssumption
         DEF ExitsBehind, NoExitWhileOpen, ExitedMeansDrained
    <2>8. RunningHoldsJob' /\ ReturnedMeansExited'
      BY DEF RunningHoldsJob, ReturnedMeansExited
    <2> QED
      BY <2>2, <2>4, <2>5, <2>6, <2>7, <2>8
  <1>4. ASSUME NEW c \in Clients, ComeBackEmpty(c) PROVE IInv'
    BY <1>4, ClientMovePreserves DEF ComeBackEmpty, ClientStates
  <1>5. ASSUME NEW c \in Clients, Leave(c) PROVE IInv'
    BY <1>5, ClientMovePreserves DEF Leave, ClientStates
  <1>6. ASSUME NEW t \in Threads, Pop(t) PROVE IInv'
    <2> USE <1>6 DEF Pop, AfterPop
    <2>1. /\ Head(queue) \in Blocks /\ Head(queue) = queue[1]
          /\ queue' \in Seq(Blocks) /\ Len(queue') = Len(queue) - 1 /\ Len(queue) >= 1
          /\ \A i \in 1..Len(queue') : queue'[i] = queue[i + 1]
      BY <1>t DEF TypeOK
    <2>2. TypeOK'
      BY <1>t, <2>1 DEF TypeOK, ThreadStates
    <2>3. CounterIsExact'
      <3>1. Cardinality(Occupied') = Cardinality(Occupied) + 1
        BY <1>t, OccupiedMoves DEF ThreadStates
      <3> QED
        BY <1>t, <2>1, <3>1, FiniteParts DEF CounterIsExact, TypeOK
    <2>4. AdmissionBound' /\ SomeoneAwake'
      BY DEF AdmissionBound, SomeoneAwake, Admitted, Blocked
    <2>5. ExitsBehind'
      BY <1>t, <2>1 DEF ExitsBehind
    <2>6. Head(queue) = Exit => \A i \in 1..Len(queue) : queue[i] = Exit
      BY <1>t, <2>1 DEF ExitsBehind
    <2>7. NoExitWhileOpen'
      BY <1>t, <2>1 DEF NoExitWhileOpen, ClientsGone, TypeOK
    <2>8. ExitedMeansDrained'
      BY <1>t, <2>1, <2>6 DEF ExitedMeansDrained, TypeOK
    <2>9. RunningHoldsJob' /\ ReturnedMeansExited'
      BY <1>t, <2>1 DEF RunningHoldsJob, ReturnedMeansExited, TypeOK, Blocks
    <2> QED
      BY <2>2, <2>3, <2>4, <2>5, <2>7, <2>8, <2>9
  <1>7. ASSUME NEW t \in Threads, Run(t) PROVE IInv'
    <2> USE <1>7 DEF Run
    <2>1. TypeOK'
      BY <1>t DEF TypeOK, ThreadStates, RunningHoldsJob
    <2>2. CounterIsExact'
      <3>1. Occupied' = Occupied
        BY <1>t, OccupiedMoves DEF ThreadStates
      <3> QED
        BY <3>1 DEF CounterIsExact
    <2>3. AdmissionBound' /\ SomeoneAwake' /\ ExitsBehind'
      BY DEF AdmissionBound, SomeoneAwake, Admitted, Blocked, ExitsBehind
    <2>4. /\ NoExitWhileOpen' /\ ExitedMeansDrained' /\ RunningHoldsJob'
          /\ ReturnedMeansExited'
      BY <1>t DEF NoExitWhileOpen, ClientsGone, ExitedMeansDrained, RunningHoldsJob,
                  ReturnedMeansExited, TypeOK
    <2> QED
      BY <2>1, <2>2, <2>3, <2>4
  <1>8. ASSUME NEW t \in Threads, Release(t) PROVE IInv'
    <2> USE <1>8 DEF Release, WakeOne
    <2>1. TypeOK'
      BY <1>t DEF TypeOK, ThreadStates, ClientStates, Blocked
    <2>2. CounterIsExact'
      <3>1. Cardinality(Occupied') = Cardinality(Occupied) - 1
        BY <1>t, OccupiedMoves DEF ThreadStates
      <3> QED
        BY <1>t, <3>1, FiniteParts DEF CounterIsExact, TypeOK
    <2>3. AdmissionBound'
      <3>1. Admitted' = Admitted
        BY <1>t DEF Admitted, Blocked, TypeOK
      <3> QED
        BY <1>t, <3>1, FiniteParts DEF AdmissionBound, TypeOK
    <2>4. SomeoneAwake'
      BY <1>t, ClientsAssumption DEF SomeoneAwake, Blocked, TypeOK
    <2>5. /\ ExitsBehind' /\ ExitedMeansDrained' /\ RunningHoldsJob' /\ ReturnedMeansExited'
      BY <1>t DEF ExitsBehind, ExitedMeansDrained, RunningHoldsJob, ReturnedMeansExited, TypeOK
    <2>6. NoExitWhileOpen'
      BY <1>t DEF NoExitWhileOpen, ClientsGone, Blocked, TypeOK
    <2> QED
      BY <2>1, <2>2, <2>3, <2>4, <2>5, <2>6
  <1>9. ASSUME ShutdownSchedule PROVE IInv'
    <2> USE <1>9 DEF ShutdownSchedule, MayShutDown, ExitsLeft, Push
    <2>1. /\ queue' \in Seq(Blocks) /\ Len(queue') = Len(queue) + 1
          /\ queue'[Len(queue) + 1] = Exit
          /\ \A i \in 1..Len(queue) : queue'[i] = queue[i]
      BY <1>t DEF TypeOK, Blocks
    <2>2. TypeOK'
      BY <1>t, <2>1, FiniteParts DEF TypeOK
    <2>3. CounterIsExact'
      <3>1. Occupied' = Occupied
        BY DEF Occupied
      <3> QED
        BY <1>t, <2>1, <3>1, FiniteParts DEF CounterIsExact, TypeOK
    <2>4. AdmissionBound'
      BY DEF AdmissionBound
    <2>5. SomeoneAwake'
      BY <1>t DEF SomeoneAwake, Blocked, TypeOK
    <2>6. ExitsBehind' /\ NoExitWhileOpen' /\ ExitedMeansDrained'
      BY <1>t, <2>1 DEF ExitsBehind, NoExitWhileOpen, ClientsGone, ExitedMeansDrained
    <2>7. RunningHoldsJob' /\ ReturnedMeansExited'
      BY DEF RunningHoldsJob, ReturnedMeansExited
    <2> QED
      BY <2>2, <2>3, <2>4, <2>5, <2>6, <2>7
  <1>10. ASSUME ShutdownJoin PROVE IInv'
    BY <1>10 DEF ShutdownJoin, AllJoined, TypeOK, CounterIsExact, Occupied, AdmissionBound, SomeoneAwake,
                 Blocked, ExitsBehind, NoExitWhileOpen, ClientsGone, ExitedMeansDrained,
                 RunningHoldsJob, ReturnedMeansExited
  <1>11. ASSUME UNCHANGED vars PROVE IInv'
    BY <1>11 DEF vars, TypeOK, CounterIsExact, Occupied, AdmissionBound, SomeoneAwake,
                 Admitted, Blocked, ExitsBehind, NoExitWhileOpen, ClientsGone,
                 ExitedMeansDrained, RunningHoldsJob, ReturnedMeansExited
  <1> QED
    BY <1>1, <1>2, <1>3, <1>4, <1>5, <1>6, <1>7, <1>8, <1>9, <1>10, <1>11
       DEF Next, ClientStep, ThreadStep

\* The invariant holds throughout every behaviour of the pool.
LEMMA Invariance == Spec => []IInv
  BY InitIInv, NextIInv, PTL DEF Spec

\* The counter, the queue and the threads have the types the code relies on.
THEOREM TypeCorrect == Spec => []TypeOK
  <1>1. IInv => TypeOK
    BY DEF IInv
  <1> QED
    BY <1>1, Invariance, PTL

\* @available_threads is exact for every pool size and every caller.
THEOREM CounterCorrect == Spec => []CounterIsExact
  <1>1. IInv => CounterIsExact
    BY DEF IInv
  <1> QED
    BY <1>1, Invariance, PTL

\* Between wait_for_available_threads and schedule, callers can over-commit
\* the pool by at most one block for each caller but the first.
THEOREM BacklogBounded == Spec => []BacklogBound
  <1>1. IInv => BacklogBound
    <2> SUFFICES ASSUME IInv, shutdown = "open"
                 PROVE  Len(queue) <= Cardinality(Popping) + Cardinality(Clients) - 1
      BY DEF BacklogBound
    <2>1. Len(queue) \in Nat /\ available_threads \in Int
      BY DEF IInv, TypeOK
    <2>2. available_threads >= 1 - Cardinality(Clients) + Cardinality(Admitted)
      BY DEF IInv, AdmissionBound
    <2>3. available_threads = Cardinality(Popping) - Len(queue)
      BY <2>1, FiniteParts DEF IInv, CounterIsExact
    <2> QED
      BY <2>1, <2>2, <2>3, FiniteParts
  <1> QED
    BY <1>1, Invariance, PTL

\* A free thread never leaves every caller asleep on the condition variable.
THEOREM NoLostWakeup == Spec => []SomeoneAwake
  <1>1. IInv => SomeoneAwake
    BY DEF IInv
  <1> QED
    BY <1>1, Invariance, PTL

\* ThreadPool#shutdown returns only when the queue has been worked off.
THEOREM ShutdownDrains == Spec => []DrainedAtShutdown
  <1>1. IInv => DrainedAtShutdown
    <2> SUFFICES ASSUME IInv, shutdown = "returned"
                 PROVE  /\ \A i \in 1..Len(queue) : queue[i] \notin Jobs
                        /\ InHand = {}
      BY DEF DrainedAtShutdown
    <2>1. \A t \in Threads : thread[t] = "exited"
      BY DEF IInv, ReturnedMeansExited
    <2>2. \A i \in 1..Len(queue) : queue[i] = Exit
      BY <2>1, ThreadsAssumption DEF IInv, ExitedMeansDrained
    <2> QED
      BY <2>1, <2>2, ExitAssumption DEF InHand
  <1> QED
    BY <1>1, Invariance, PTL

\* No job starts once the first thread has left the pool.
THEOREM ExitsComeLast == Spec => NoStartAfterExit
  <1>1. IInv /\ [Next]_vars =>
          [ (\E t \in Threads : thread[t] = "exited") =>
              \A u \in Threads : thread'[u] = "running" => thread[u] = "running" ]_vars
    <2> SUFFICES ASSUME IInv, Next, NEW t \in Threads, thread[t] = "exited",
                        NEW u \in Threads, thread'[u] = "running", thread[u] # "running"
                 PROVE  FALSE
      OBVIOUS
    <2>1. TypeOK /\ \A i \in 1..Len(queue) : queue[i] = Exit
      BY DEF IInv, ExitedMeansDrained
    <2>2. PICK v \in Threads : thread' # thread /\ ThreadStep(v)
      BY DEF Next, ClientStep, WaitForAvailableThreads, SpuriousWakeup, Schedule,
             ComeBackEmpty, Leave, ShutdownSchedule, ShutdownJoin
    <2>3. Pop(v)
      BY <2>1, <2>2 DEF ThreadStep, Run, Release, TypeOK
    <2>4. Head(queue) = queue[1] /\ 1 \in 1..Len(queue)
      BY <2>1, <2>3 DEF Pop, AfterPop, TypeOK
    <2> QED
      BY <2>1, <2>3, <2>4 DEF Pop, AfterPop, TypeOK
  <1> QED
    BY <1>1, Invariance, PTL DEF Spec, NoStartAfterExit
=============================================================================
