---------------------------- MODULE ActivityTask ----------------------------
(***************************************************************************)
(* One activity from the attempt that is handed out first to the last:     *)
(* Activity::TaskProcessor, Activity::Context, AsyncToken, and the calls   *)
(* of Client that complete an activity by its token.                       *)
(*                                                                         *)
(* The service is external.  The client relies on this of it: an attempt   *)
(* is handed to one worker; an answer with a task token counts only while  *)
(* its attempt is the current one; a token of AsyncToken names the         *)
(* activity, so an answer by id counts for the current attempt, whichever  *)
(* that is; a failure or a timeout leads to another attempt while the      *)
(* retry policy allows one.                                                *)
(*                                                                         *)
(* A heartbeat changes nothing but the service's timer.  For an attempt    *)
(* that is not current it raises in the activity, which is Raise here.     *)
(***************************************************************************)
EXTENDS Integers

CONSTANT MaxAttempts     \* maximum_attempts of the retry policy

ASSUME MaxAttemptsAssumption == MaxAttempts \in Nat \ {0}

VARIABLES attempt,     \* the current attempt
          started,     \* it has been handed out
          closed,      \* the activity has its last event
          verdict,     \* what the service has recorded of each attempt, and from whom
          work,        \* where the processor of each attempt is
          async,       \* @async of the attempt's context
          handed,      \* the attempts that have given their async token to somebody
          outcome,     \* how the code of each attempt ended
          answers      \* how many answers each attempt's processor has tried to send

vars == <<attempt, started, closed, verdict, work, async, handed, outcome, answers>>
service == <<attempt, started, closed, verdict>>
processor == <<work, async, handed, outcome, answers>>

Attempts == 1..MaxAttempts

WorkStates == {"none",
               "polled",         \* TaskProcessor.new
               "running",        \* in execute of the activity
               "completing",     \* in respond_completed
               "failing",        \* in respond_failed
               "done", "dead"}
Outcomes == {"none", "ok", "error", "fatal", "unregistered"}
NoVerdict == [kind |-> "none", by |-> "none"]
Verdicts == [kind : {"none", "completed", "failed", "timed_out"},
             by : {"none", "worker", "token", "service"}]

TypeOK ==
    /\ attempt \in Attempts
    /\ started \in BOOLEAN
    /\ closed \in BOOLEAN
    /\ verdict \in [Attempts -> Verdicts]
    /\ work \in [Attempts -> WorkStates]
    /\ async \in [Attempts -> BOOLEAN]
    /\ handed \in SUBSET Attempts
    /\ outcome \in [Attempts -> Outcomes]
    /\ answers \in [Attempts -> 0..1]

Init ==
    /\ attempt = 1
    /\ started = FALSE
    /\ closed = FALSE
    /\ verdict = [a \in Attempts |-> NoVerdict]
    /\ work = [a \in Attempts |-> "none"]
    /\ async = [a \in Attempts |-> FALSE]
    /\ handed = {}
    /\ outcome = [a \in Attempts |-> "none"]
    /\ answers = [a \in Attempts |-> 0]

-----------------------------------------------------------------------------
(* The service.                                                             *)

Current(a) == ~closed /\ started /\ a = attempt

\* The service takes note of how the current attempt ended.
Record(kind, by) ==
    /\ verdict' = [verdict EXCEPT ![attempt] = [kind |-> kind, by |-> by]]
    /\ IF kind # "completed" /\ attempt < MaxAttempts
       THEN attempt' = attempt + 1 /\ started' = FALSE /\ UNCHANGED closed
       ELSE closed' = TRUE /\ UNCHANGED <<attempt, started>>

Timeout ==
    /\ ~closed
    /\ Record("timed_out", "service")
    /\ UNCHANGED processor

\* The response to the poll is lost.
LoseTask ==
    /\ ~closed /\ ~started
    /\ started' = TRUE
    /\ UNCHANGED <<attempt, closed, verdict, processor>>

\* A worker polls the task.
Poll ==
    /\ ~closed /\ ~started
    /\ started' = TRUE
    /\ work' = [work EXCEPT ![attempt] = "polled"]
    /\ UNCHANGED <<attempt, closed, verdict, async, handed, outcome, answers>>

\* Client#complete_activity or #fail_activity with a token that some attempt
\* has given away.
AnswerByToken ==
    /\ handed # {}
    /\ Current(attempt)
    /\ \E kind \in {"completed", "failed"} : Record(kind, "token")
    /\ UNCHANGED processor

-----------------------------------------------------------------------------
(* TaskProcessor#process of attempt a.                                      *)

\* The activity's class is not registered with the worker.
NotRegistered(a) ==
    /\ work[a] = "polled"
    /\ outcome' = [outcome EXCEPT ![a] = "unregistered"]
    /\ work' = [work EXCEPT ![a] = "failing"]
    /\ UNCHANGED <<service, async, handed, answers>>

RunCode(a) ==
    /\ work[a] = "polled"
    /\ work' = [work EXCEPT ![a] = "running"]
    /\ UNCHANGED <<service, async, handed, outcome, answers>>

\* activity.async
CallAsync(a) ==
    /\ work[a] = "running"
    /\ async' = [async EXCEPT ![a] = TRUE]
    /\ UNCHANGED <<service, work, handed, outcome, answers>>

\* activity.async_token, passed on to whoever completes the activity
HandToken(a) ==
    /\ work[a] = "running"
    /\ handed' = handed \cup {a}
    /\ UNCHANGED <<service, work, async, outcome, answers>>

AfterReturn_IgnoresAsync(a) == "completing"

\* respond_completed(result) unless context.async?
AfterReturn(a) == IF async[a] THEN "done" ELSE "completing"

Return(a) ==
    /\ work[a] = "running"
    /\ outcome' = [outcome EXCEPT ![a] = "ok"]
    /\ work' = [work EXCEPT ![a] = AfterReturn(a)]
    /\ UNCHANGED <<service, async, handed, answers>>

\* StandardError or ScriptError, a refused heartbeat among them
Raise(a) ==
    /\ work[a] = "running"
    /\ outcome' = [outcome EXCEPT ![a] = "error"]
    /\ work' = [work EXCEPT ![a] = "failing"]
    /\ UNCHANGED <<service, async, handed, answers>>

\* Any other Exception leaves process without an answer (ThreadPool's Run
\* rescues it).
RaiseFatal(a) ==
    /\ work[a] = "running"
    /\ outcome' = [outcome EXCEPT ![a] = "fatal"]
    /\ work' = [work EXCEPT ![a] = "done"]
    /\ UNCHANGED <<service, async, handed, answers>>

AfterError_NotRescued(a) == IF work[a] = "completing" THEN "failing" ELSE "done"

\* respond_completed and respond_failed rescue the error of their call.
AfterError(a) == "done"

Kind(a) == IF work[a] = "completing" THEN "completed" ELSE "failed"

\* The answer is sent.  The call raises when the attempt is not current, when the
\* request is lost (or the result cannot be serialized) and when the response is
\* lost, after the service has recorded the answer.
Respond(a) ==
    /\ work[a] \in {"completing", "failing"}
    /\ answers' = [answers EXCEPT ![a] = @ + 1]
    /\ \/ /\ Current(a)
          /\ Record(Kind(a), "worker")
          /\ \E after \in {"done", AfterError(a)} : work' = [work EXCEPT ![a] = after]
       \/ /\ UNCHANGED service
          /\ work' = [work EXCEPT ![a] = AfterError(a)]
    /\ UNCHANGED <<async, handed, outcome>>

\* The worker is killed.
Die(a) ==
    /\ work[a] \in {"polled", "running", "completing", "failing"}
    /\ work' = [work EXCEPT ![a] = "dead"]
    /\ UNCHANGED <<service, async, handed, outcome, answers>>

-----------------------------------------------------------------------------

Service == Timeout \/ LoseTask \/ Poll \/ AnswerByToken

Process(a) ==
    \/ NotRegistered(a) \/ RunCode(a) \/ CallAsync(a) \/ HandToken(a)
    \/ Return(a) \/ Raise(a) \/ RaiseFatal(a) \/ Respond(a) \/ Die(a)

Next == Service \/ \E a \in Attempts : Process(a)

Spec == Init /\ [][Next]_vars

-----------------------------------------------------------------------------

\* What the history says of an attempt is what happened in it.  A worker reports
\* success only of code that returned and did not ask for asynchronous
\* completion, and failure only of code that raised or was not there, whatever
\* answers get lost; nobody completes an activity by a token that no attempt has
\* handed out.
TruthfulRecord ==
    \A a \in Attempts :
      LET v == verdict[a] IN
      /\ v.by = "worker" /\ v.kind = "completed" => outcome[a] = "ok" /\ ~async[a]
      /\ v.by = "worker" /\ v.kind = "failed" => outcome[a] \in {"error", "unregistered"}
      /\ v.by = "token" => \E b \in handed : b <= a

\* A processor that comes to its end has tried to answer once, and not at all
\* exactly when its code has left that to others: it is asynchronous and has
\* returned, or has ended with an error that processes are not to survive.
AnsweredOnce ==
    \A a \in Attempts : work[a] = "done" =>
      answers[a] = IF outcome[a] = "fatal" \/ (outcome[a] = "ok" /\ async[a])
                   THEN 0 ELSE 1
=============================================================================
