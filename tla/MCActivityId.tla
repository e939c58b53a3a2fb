---------------------------- MODULE MCActivityId ----------------------------
(* Code that names its activity: execute_activity(..., options: { activity_id }). *)
EXTENDS MCWorkflow

CONSTANT CustomId   \* an activity id that is not a number

NamedActivityOnly ==
    {Code(<<[Instr("activity", "p", "work") EXCEPT !.key = CustomId]>> \o Get("p"))}
=============================================================================
