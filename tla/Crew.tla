-------------------------------- MODULE Crew --------------------------------
(***************************************************************************)
(* Cadence::Crew (lib/cadence/crew.rb): a process that forks workers,      *)
(* passes TERM and INT on to them and waits for them to end.               *)
(*                                                                         *)
(* A handler runs on the main thread of the parent, between two of its     *)
(* steps.  A forked child starts out with the handlers of the crew and a   *)
(* copy of the list of pids, and has them until Worker#start traps the     *)
(* signals itself; from then on a signal makes it end (module Worker).     *)
(***************************************************************************)
EXTENDS Integers, FiniteSets

CONSTANTS crew_size,     \* the number of workers
          MaxSignals     \* bound on the signals the parent gets

ASSUME crew_sizeAssumption == crew_size \in Nat \ {0}
ASSUME MaxSignalsAssumption == MaxSignals \in Nat

VARIABLES parent,     \* where the parent is in dispatch
          forked,     \* how many children it has forked; their pids are 1..forked
          crew,       \* @crew
          reaping,    \* the pid waitpid2 has returned (0: none)
          child,      \* what each child is doing
          pending,    \* the children a signal is on its way to
          signals     \* how many signals the parent has got

vars == <<parent, forked, crew, reaping, child, pending, signals>>

Pids == 1..crew_size

ParentStates == {"forking",      \* about to fork
                 "listing",      \* fork has returned, crew << pid is next
                 "monitoring",   \* while crew.length.positive?
                 "reaped",       \* waitpid2 has returned, crew.delete is next
                 "finished",     \* dispatch has returned
                 "raised",       \* the handler has raised Errno::ESRCH
                 "childless"}    \* waitpid2 has raised Errno::ECHILD
Ended == {"finished", "raised", "childless"}
ChildStates == {"none",
                "inherited",     \* forked, with the handlers of the crew
                "working",       \* with the handlers of its worker
                "stopping",      \* in Worker#stop
                "gone",          \* over, its pid not yet waited for
                "reaped"}

TypeOK ==
    /\ parent \in ParentStates
    /\ forked \in 0..crew_size
    /\ crew \in SUBSET Pids
    /\ reaping \in 0..crew_size
    /\ child \in [Pids -> ChildStates]
    /\ pending \in SUBSET Pids
    /\ signals \in 0..MaxSignals

\* The signals are trapped.
Init ==
    /\ parent = "forking"
    /\ forked = 0
    /\ crew = {}
    /\ reaping = 0
    /\ child = [k \in Pids |-> "none"]
    /\ pending = {}
    /\ signals = 0

Alive == {k \in Pids : child[k] \in {"inherited", "working", "stopping"}}
Reaped == {k \in Pids : child[k] = "reaped"}
Children == {k \in Pids : child[k] \notin {"none", "reaped"}}

-----------------------------------------------------------------------------
(* The parent: dispatch, dispatch_worker, monitor.                          *)

Fork ==
    /\ parent = "forking"
    /\ forked' = forked + 1
    /\ child' = [child EXCEPT ![forked + 1] = "inherited"]
    /\ parent' = "listing"
    /\ UNCHANGED <<crew, reaping, pending, signals>>

Listed_Dropped(pid) == crew

\* crew << pid
Listed(pid) == crew \cup {pid}

AllForked_OneMore == forked > crew_size

\* (1..crew_size).each
AllForked == forked = crew_size

List ==
    /\ parent = "listing"
    /\ crew' = Listed(forked)
    /\ parent' = IF AllForked THEN "monitoring" ELSE "forking"
    /\ UNCHANGED <<forked, reaping, child, pending, signals>>

MoreToWaitFor_ButOne == Cardinality(crew) > 1

\* crew.length.positive?
MoreToWaitFor == crew # {}

\* waitpid2(-1) returns any child that is over, and waits for one while none
\* is.  It raises ECHILD where no child is left at all, and the error leaves
\* dispatch.
Reap ==
    /\ parent = "monitoring"
    /\ MoreToWaitFor
    /\ IF Children = {}
         THEN parent' = "childless" /\ UNCHANGED <<child, reaping>>
         ELSE \E k \in Children :
                /\ child[k] = "gone"
                /\ child' = [child EXCEPT ![k] = "reaped"]
                /\ reaping' = k
                /\ parent' = "reaped"
    /\ UNCHANGED <<forked, crew, pending, signals>>

Without_Kept(pid) == crew

\* crew.delete(pid)
Without(pid) == crew \ {pid}

Delete ==
    /\ parent = "reaped"
    /\ crew' = Without(reaping)
    /\ reaping' = 0
    /\ parent' = "monitoring"
    /\ UNCHANGED <<forked, child, pending, signals>>

Finish ==
    /\ parent = "monitoring"
    /\ ~MoreToWaitFor
    /\ parent' = "finished"
    /\ UNCHANGED <<forked, crew, reaping, child, pending, signals>>

\* crew.each { kill }: the pids are visited in the order of the list, and a
\* pid that has been waited for raises ESRCH, which leaves out the rest.
Visited(list) == {k \in list : \A j \in Reaped \cap list : k < j}
KillRaises(list) == Reaped \cap list # {}

\* The parent gets TERM or INT: stop(signal).  An error in the handler leaves
\* dispatch, and the parent is gone.
ParentSignaled ==
    /\ parent \notin Ended
    /\ signals < MaxSignals
    /\ signals' = signals + 1
    /\ pending' = pending \cup Visited(crew)
    /\ parent' = IF KillRaises(crew) THEN "raised" ELSE parent
    /\ UNCHANGED <<forked, crew, reaping, child>>

-----------------------------------------------------------------------------
(* A child.                                                                 *)

\* Worker#start, trap_signals.
Trap(k) ==
    /\ child[k] = "inherited"
    /\ child' = [child EXCEPT ![k] = "working"]
    /\ UNCHANGED <<parent, forked, crew, reaping, pending, signals>>

\* The worker's handler.
StopWorker(k) ==
    /\ k \in pending
    /\ child[k] \in {"working", "stopping"}
    /\ child' = [child EXCEPT ![k] = "stopping"]
    /\ pending' = pending \ {k}
    /\ UNCHANGED <<parent, forked, crew, reaping, signals>>

\* The crew's handler, in a child that still has it: it passes the signal on to
\* the pids of its copy of the list, those forked before it, and goes on.
PassOn(k) ==
    /\ k \in pending
    /\ child[k] = "inherited"
    /\ pending' = (pending \ {k}) \cup Visited(1..k-1)
    /\ child' = [child EXCEPT ![k] = IF KillRaises(1..k-1) THEN "gone" ELSE @]
    /\ UNCHANGED <<parent, forked, crew, reaping, signals>>

\* A worker that stops comes to its end.
End(k) ==
    /\ child[k] = "stopping"
    /\ child' = [child EXCEPT ![k] = "gone"]
    /\ UNCHANGED <<parent, forked, crew, reaping, pending, signals>>

\* A child is killed, or ends with an error.
Die(k) ==
    /\ k \in Alive
    /\ child' = [child EXCEPT ![k] = "gone"]
    /\ UNCHANGED <<parent, forked, crew, reaping, pending, signals>>

-----------------------------------------------------------------------------

ParentStep == Fork \/ List \/ Reap \/ Delete \/ Finish
ChildStep(k) == Trap(k) \/ StopWorker(k) \/ PassOn(k) \/ End(k)

Next ==
    \/ ParentStep
    \/ ParentSignaled
    \/ \E k \in Pids : ChildStep(k) \/ Die(k)

Spec == Init /\ [][Next]_vars

\* Fairness: processes run, signals arrive, and a worker told to stop ends
\* (StartEnds of module Worker).  Nothing sends a signal or kills a child.
Fairness ==
    /\ WF_vars(ParentStep)
    /\ \A k \in Pids : WF_vars(ChildStep(k))

FairSpec == Spec /\ Fairness

-----------------------------------------------------------------------------

\* dispatch returns ("The crew has finished up!") only when every worker it
\* was to create has come and gone.
FinishedMeansGone == parent = "finished" => Reaped = Pids

\* A child whose pid the parent has noted stays noted until it is over, and a
\* child that is not noted has only just been forked: a signal to a parent that
\* monitors reaches every child.
NoneForgotten == \A k \in Alive : k \in crew \/ (k = forked /\ parent = "listing")

\* Once every worker has been forked and is over, dispatch returns: the list the
\* parent counts down says of no worker that it is still to be waited for, so
\* waitpid2 is not called with no child left, and none is missed either.  One
\* more signal may come between and make the handler raise; an error of the
\* parent's own is no end.
MonitorEnds ==
    \A n \in 0..MaxSignals :
        (Alive = {} /\ forked = crew_size /\ parent # "raised" /\ signals = n)
            ~> (parent = "finished" \/ signals > n)

\* The comment on Crew#stop, "Stops the child worker processes": once the parent
\* has been told to stop, all workers come to an end.
StopStopsWorkers == signals > 0 ~> Alive = {} /\ forked = crew_size
=============================================================================
