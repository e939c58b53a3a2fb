------------------------------ MODULE MCProxy -------------------------------
(***************************************************************************)
(* Two threads with one connection: one makes any call there is, the other *)
(* a call without a result or a long poll.                                 *)
(***************************************************************************)
EXTENDS Proxy

CONSTANTS t1, t2

\* What the proof that Proxy implements RemoteCall takes from the tables.
ASSUME TablesAssumption == TablesAgree

MCThreads == {t1, t2}

MCWorkload ==
    {[t \in MCThreads |-> IF t = t1 THEN any ELSE other] :
       any \in Calls, other \in {"RespondActivityTaskCompleted", "PollForDecisionTask"}}
=============================================================================
