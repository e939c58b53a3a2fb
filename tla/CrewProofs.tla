----------------------------- MODULE CrewProofs -----------------------------
(***************************************************************************)
(* Proofs about module Crew, for any number of workers and of signals.     *)
(***************************************************************************)
EXTENDS Crew, TLAPS

\* A pid is used from the fork on, and not before.
NotForked == \A k \in Pids : k > forked <=> child[k] = "none"

\* What the list holds at each place of dispatch: while workers are forked, the
\* ones forked so far (nothing waits for a child yet); in the monitor loop,
\* those that have not been waited for, and the one that has just been.  The
\* parent never waits without a child.
ListIsExact ==
    /\ parent \in {"monitoring", "reaped"} => forked = crew_size
    /\ parent = "forking" => forked < crew_size /\ crew = 1..forked /\ Reaped = {}
    /\ parent = "listing" => forked \in Pids /\ crew = 1..forked - 1 /\ Reaped = {}
    /\ parent = "monitoring" => crew = Pids \ Reaped
    /\ parent = "reaped" => reaping \in Reaped /\ crew = (Pids \ Reaped) \cup {reaping}
    /\ parent = "finished" => Reaped = Pids
    /\ parent = "raised" => Pids \ Reaped \subseteq crew
    /\ parent # "childless"

\* The inductive invariant.
IInv == TypeOK /\ NotForked /\ ListIsExact

-----------------------------------------------------------------------------
\* The crew before dispatch: no child, and an empty list (Crew#initialize).
LEMMA InitHolds == Init => IInv
  BY crew_sizeAssumption, MaxSignalsAssumption
  DEF Init, IInv, TypeOK, NotForked, ListIsExact, Reaped, Pids, ParentStates, ChildStates

\* A child moves between its states and never to or from "reaped": its steps
\* leave the parent's books as they are (Worker#start, the handlers).
LEMMA ChildKeeps ==
  ASSUME IInv, NEW k \in Pids, ChildStep(k) \/ Die(k)
  PROVE  IInv'
  <1> USE DEF IInv
  <1>1. UNCHANGED <<parent, forked, crew, reaping, signals>>
    BY DEF ChildStep, Trap, StopWorker, PassOn, End, Die
  <1>2. pending' \in SUBSET Pids
    <2>1. Visited(1..k - 1) \subseteq Pids
      BY crew_sizeAssumption DEF Visited, Pids
    <2> QED
      BY <2>1 DEF ChildStep, Trap, StopWorker, PassOn, End, Die, TypeOK
  <1>3. PICK s \in ChildStates \ {"none", "reaped"} : child' = [child EXCEPT ![k] = s]
    BY DEF ChildStep, Trap, StopWorker, PassOn, End, Die, TypeOK, ChildStates, Alive
  <1>4. child[k] \notin {"none", "reaped"}
    BY DEF ChildStep, Trap, StopWorker, PassOn, End, Die, Alive
  <1>5. TypeOK'
    BY <1>1, <1>2, <1>3 DEF TypeOK
  <1>6. Reaped' = Reaped
    BY <1>3, <1>4 DEF Reaped, TypeOK
  <1>7. NotForked'
    BY <1>1, <1>3, <1>4 DEF NotForked, TypeOK
  <1>8. ListIsExact'
    BY <1>1, <1>6 DEF ListIsExact
  <1> QED
    BY <1>5, <1>7, <1>8

\* A signal makes the parent's handler raise only where the list holds a pid
\* that has been waited for: between waitpid2 and crew.delete (Crew#stop).
LEMMA RaisesOnlyWhenReaped ==
  ASSUME IInv, parent \notin Ended, KillRaises(crew)
  PROVE  parent = "reaped"
  BY DEF IInv, TypeOK, ParentStates, Ended, ListIsExact, KillRaises

\* The handler sends signals and changes no books; when it raises, every child
\* that may be alive is still on the list the parent leaves behind (Crew#stop).
LEMMA SignalKeeps ==
  ASSUME IInv, ParentSignaled
  PROVE  IInv'
  <1> USE DEF IInv
  <1>1. /\ UNCHANGED <<forked, crew, reaping, child>>
        /\ parent' \in {parent, "raised"}
        /\ parent' # parent => parent = "reaped"
    BY RaisesOnlyWhenReaped DEF ParentSignaled
  <1>2. TypeOK'
    BY <1>1, MaxSignalsAssumption DEF TypeOK, ParentSignaled, ParentStates, Visited
  <1>3. Reaped' = Reaped
    BY <1>1 DEF Reaped
  <1>4. NotForked'
    BY <1>1 DEF NotForked
  <1>5. ListIsExact'
    BY <1>1, <1>3 DEF ListIsExact
  <1> QED
    BY <1>2, <1>4, <1>5

\* In the monitor loop the list holds the parent's children, those that live and
\* those that are over: while it is not empty, waitpid2 has one to wait for.
LEMMA ListIsChildren ==
  ASSUME IInv, parent = "monitoring"
  PROVE  crew = Children
  <1>1. \A k \in Pids : child[k] # "none"
    BY crew_sizeAssumption DEF IInv, NotForked, ListIsExact, Pids
  <1> QED
    BY <1>1 DEF IInv, ListIsExact, Reaped, Children

\* Each step of dispatch and of the monitor loop keeps the list exact.
LEMMA ParentKeeps ==
  ASSUME IInv, ParentStep
  PROVE  IInv'
  <1> USE crew_sizeAssumption DEF IInv
  <1>1. CASE Fork
    <2>1. /\ forked \in Nat /\ forked < crew_size /\ forked + 1 \in Pids
          /\ forked' = forked + 1
          /\ child' = [child EXCEPT ![forked + 1] = "inherited"]
          /\ parent' = "listing"
          /\ UNCHANGED <<crew, reaping, pending, signals>>
      BY <1>1 DEF Fork, TypeOK, ListIsExact, Pids
    <2>2. TypeOK'
      BY <2>1 DEF TypeOK, ParentStates, ChildStates, Pids
    <2>3. Reaped' = {}
      BY <1>1, <2>1 DEF Fork, Reaped, TypeOK, ListIsExact
    <2>4. NotForked'
      BY <2>1 DEF NotForked, TypeOK, Pids
    <2>5. ListIsExact'
      BY <1>1, <2>1, <2>3 DEF Fork, ListIsExact
    <2> QED
      BY <2>2, <2>4, <2>5
  <1>2. CASE List
    <2>1. /\ forked \in Pids
          /\ crew' = (1..forked - 1) \cup {forked}
          /\ UNCHANGED <<forked, reaping, child, pending, signals>>
          /\ parent' = IF forked = crew_size THEN "monitoring" ELSE "forking"
      BY <1>2 DEF List, Listed, AllForked, ListIsExact
    <2>2. crew' = 1..forked
      BY <2>1 DEF Pids
    <2>3. Reaped' = {}
      BY <1>2, <2>1 DEF List, ListIsExact, Reaped
    <2>4. TypeOK'
      BY <2>1, <2>2 DEF TypeOK, ParentStates, Pids
    <2>5. ListIsExact'
      BY <2>1, <2>2, <2>3 DEF ListIsExact, Pids
    <2>6. NotForked'
      BY <2>1 DEF NotForked
    <2> QED
      BY <2>4, <2>5, <2>6
  <1>3. CASE Reap
    <2>0. Children # {}
      BY <1>3, ListIsChildren DEF Reap, MoreToWaitFor
    <2>1. PICK k \in Pids : /\ child[k] = "gone"
                            /\ child' = [child EXCEPT ![k] = "reaped"]
                            /\ reaping' = k
      BY <1>3, <2>0 DEF Reap, Children
    <2>2. /\ UNCHANGED <<forked, crew, pending, signals>>
          /\ parent = "monitoring" /\ parent' = "reaped"
      BY <1>3, <2>0 DEF Reap
    <2>3. TypeOK'
      BY <2>1, <2>2 DEF TypeOK, ParentStates, ChildStates, Pids
    <2>4. Reaped' = Reaped \cup {k} /\ k \notin Reaped
      BY <2>1 DEF Reaped, TypeOK
    <2>5. ListIsExact'
      BY <2>1, <2>2, <2>4 DEF ListIsExact
    <2>6. NotForked'
      BY <2>1, <2>2 DEF NotForked, TypeOK
    <2> QED
      BY <2>3, <2>5, <2>6
  <1>4. CASE Delete
    <2>1. /\ UNCHANGED <<forked, child, pending, signals>>
          /\ parent = "reaped" /\ parent' = "monitoring"
          /\ crew' = crew \ {reaping} /\ reaping' = 0
      BY <1>4 DEF Delete, Without
    <2>2. TypeOK'
      BY <2>1 DEF TypeOK, ParentStates
    <2>3. Reaped' = Reaped
      BY <2>1 DEF Reaped
    <2>4. ListIsExact'
      BY <2>1, <2>3 DEF ListIsExact
    <2>5. NotForked'
      BY <2>1 DEF NotForked
    <2> QED
      BY <2>2, <2>4, <2>5
  <1>5. CASE Finish
    <2>1. /\ UNCHANGED <<forked, crew, reaping, child, pending, signals>>
          /\ parent = "monitoring" /\ parent' = "finished" /\ crew = {}
      BY <1>5 DEF Finish, MoreToWaitFor
    <2>2. Reaped = Pids /\ Reaped' = Reaped
      BY <2>1 DEF ListIsExact, Reaped
    <2> QED
      BY <2>1, <2>2 DEF TypeOK, ParentStates, NotForked, ListIsExact
  <1> QED
    BY <1>1, <1>2, <1>3, <1>4, <1>5 DEF ParentStep

\* The list stays exact whatever the parent, its children and signals do.
LEMMA Invariant == Spec => []IInv
  <1>1. IInv /\ [Next]_vars => IInv'
    <2> SUFFICES ASSUME IInv, [Next]_vars
                 PROVE  IInv'
      OBVIOUS
    <2>1. CASE Next
      BY <2>1, ParentKeeps, SignalKeeps, ChildKeeps DEF Next
    <2>2. CASE UNCHANGED vars
      BY <2>2 DEF vars, IInv, TypeOK, NotForked, ListIsExact, Reaped
    <2> QED
      BY <2>1, <2>2
  <1> QED
    BY <1>1, InitHolds, PTL DEF Spec

-----------------------------------------------------------------------------
\* The variables of a crew of any size keep their types (Crew).
THEOREM CrewTypeCorrect == Spec => []TypeOK
  BY Invariant, PTL DEF IInv

\* dispatch returns only when every worker has come and gone, for any number
\* of workers and however many signals arrive (Crew#dispatch, #monitor).
THEOREM CrewFinishesLast == Spec => []FinishedMeansGone
  <1>1. IInv => FinishedMeansGone
    BY DEF IInv, ListIsExact, FinishedMeansGone
  <1> QED
    BY <1>1, Invariant, PTL

\* No living child is missing on the list, but the one that has just been
\* forked, for any number of workers (Crew#dispatch_worker, #monitor, #stop).
THEOREM CrewForgetsNone == Spec => []NoneForgotten
  <1>1. IInv => NoneForgotten
    <2> SUFFICES ASSUME IInv, NEW k \in Alive
                 PROVE  k \in crew \/ (k = forked /\ parent = "listing")
      BY DEF NoneForgotten
    <2>1. k \in Pids /\ k \notin Reaped /\ k <= forked /\ forked \in Nat
      BY crew_sizeAssumption DEF IInv, Alive, Reaped, NotForked, TypeOK, Pids
    <2>2. parent \in ParentStates
      BY DEF IInv, TypeOK
    <2>3. CASE parent \in {"forking", "listing"}
      BY <2>1, <2>3, crew_sizeAssumption DEF IInv, ListIsExact, Pids
    <2>4. CASE parent \notin {"forking", "listing"}
      BY <2>1, <2>2, <2>4 DEF IInv, ListIsExact, ParentStates
    <2> QED
      BY <2>3, <2>4
  <1> QED
    BY <1>1, Invariant, PTL

\* What the monitor loop waits for is there: its list is the set of the parent's
\* children, so waitpid2 never raises ECHILD, and no child is left out either.
WaitsForChildren == parent # "childless" /\ (parent = "monitoring" => crew = Children)

\* The monitor waits for the children it has, for any number of workers and
\* whatever ends, is killed or signaled in between (Crew#monitor).
THEOREM CrewWaitsForChildren == Spec => []WaitsForChildren
  <1>1. IInv => WaitsForChildren
    BY ListIsChildren DEF IInv, ListIsExact, WaitsForChildren
  <1> QED
    BY <1>1, Invariant, PTL

\* What a signal does that finds the parent in its monitor loop.
SignalsAll == parent = "monitoring" /\ signals' # signals => Alive \subseteq pending' /\ parent' = parent

\* A signal to a parent that waits in monitor goes to every living child, and
\* leaves the parent waiting: its handler does not raise (Crew#stop).
THEOREM MonitorSignalsAll == Spec => [][SignalsAll]_vars
  <1>1. IInv /\ [Next]_vars => [SignalsAll]_vars
    <2> SUFFICES ASSUME IInv, Next, parent = "monitoring", signals' # signals
                 PROVE  Alive \subseteq pending' /\ parent' = parent
      BY DEF SignalsAll, vars
    <2>1. ParentSignaled
      BY DEF Next, ParentStep, Fork, List, Reap, Delete, Finish, ChildStep, Trap, StopWorker,
             PassOn, End, Die
    <2>2. Reaped \cap crew = {} /\ Alive \subseteq crew
      BY DEF IInv, ListIsExact, Alive, Reaped
    <2> QED
      BY <2>1, <2>2 DEF ParentSignaled, KillRaises, Visited
  <1> QED
    BY <1>1, Invariant, PTL DEF Spec
=============================================================================
