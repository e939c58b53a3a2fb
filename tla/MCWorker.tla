------------------------------ MODULE MCWorker ------------------------------
(* Worker with two pollers, pools of two threads and a few tasks.             *)
EXTENDS Worker

\* A worker that has been stopped rests; so does one whose process is gone.
Ended ==
    /\ main \in {"returned", "raised"}
    /\ UNCHANGED vars

MCNext == Next \/ Ended
MCSpec == Init /\ [][MCNext]_vars
MCFairSpec == MCSpec /\ Fairness
=============================================================================
