-------------------------- MODULE DurableExecution --------------------------
(***************************************************************************)
(* What a workflow promises to the author of its code: the code seems to   *)
(* run once, from beginning to end.  What it has been told it is never     *)
(* untold, each command it was told it gave is on record, once, under the  *)
(* id it was told and in the order it gave them, and nothing else is; and  *)
(* a workflow that is closed says and does nothing more.                   *)
(***************************************************************************)
EXTENDS Naturals, Sequences, SequencesExt

CONSTANT Commands   \* what of the things code is told are commands it gave

VARIABLES told,     \* what the code was told, call by call: pairs of a kind and
                    \* a value; the value of a command is its id
          record,   \* the commands on record: pairs of a kind and an id
          closed

vars == <<told, record, closed>>

\* The commands among them, by their places.
Given(conversation) == {i \in 1..Len(conversation) : conversation[i][1] \in Commands}

\* Each has a higher id than those before it.
InOrder(conversation) ==
    \A i, j \in Given(conversation) : i < j => conversation[i][2] < conversation[j][2]

Init ==
    /\ told = <<>>
    /\ record = {}
    /\ closed = FALSE

\* The code goes on from where it was.
GoOn ==
    /\ ~closed
    /\ IsPrefix(told, told')
    /\ InOrder(told')
    /\ record' = {told'[i] : i \in Given(told')}
    /\ closed' \in BOOLEAN

Spec == Init /\ [][GoOn]_vars
=============================================================================
