----------------------------- MODULE RemoteCall -----------------------------
(***************************************************************************)
(* What a caller of Cadence::Connection may rely on.  Its call is performed*)
(* at most once, and it is that call and no other.  The caller gets the    *)
(* answer this very call was given (a response or an exception of the      *)
(* service), or "failed", and then it knows nothing: the call may have been*)
(* performed, may never be, or may still be performed behind its back.     *)
(***************************************************************************)
CONSTANTS Callers, Answers(_)

VARIABLES op, done, result

vars == <<op, done, result>>

Init ==
    /\ done = [c \in Callers |-> <<>>]
    /\ result = [c \in Callers |-> "none"]

Perform(c) ==
    /\ done[c] = <<>>
    /\ \E a \in Answers(op[c]) :
         done' = [done EXCEPT ![c] = <<[op |-> op[c], answer |-> a]>>]
    /\ UNCHANGED <<op, result>>

Return(c) ==
    /\ result[c] = "none"
    /\ done[c] # <<>>
    /\ result' = [result EXCEPT ![c] = done[c][1].answer]
    /\ UNCHANGED <<op, done>>

Fail(c) ==
    /\ result[c] = "none"
    /\ result' = [result EXCEPT ![c] = "failed"]
    /\ UNCHANGED <<op, done>>

Next == \E c \in Callers : Perform(c) \/ Return(c) \/ Fail(c)

Spec == Init /\ [][Next]_vars
=============================================================================
