------------------------- MODULE ActivityTaskProofs -------------------------
(***************************************************************************)
(* Proofs about ActivityTask, for every number of attempts.                *)
(*                                                                         *)
(* What the service records says nothing of where the processor was when   *)
(* it answered; the invariant adds what each of its states knows           *)
(* (ProcessorKnows), that a verdict of the worker is its one answer        *)
(* (VerdictIsAnswer), and that attempts come one after the other           *)
(* (AttemptsInOrder).                                                      *)
(***************************************************************************)
EXTENDS ActivityTask, TLAPS

ProcessorKnows ==
    \A a \in Attempts :
      /\ work[a] \in {"none", "polled", "running"} => outcome[a] = "none" /\ answers[a] = 0
      /\ work[a] = "completing" => outcome[a] = "ok" /\ ~async[a] /\ answers[a] = 0
      /\ work[a] = "failing" => outcome[a] \in {"error", "unregistered"} /\ answers[a] = 0

VerdictIsAnswer == \A a \in Attempts : verdict[a].by = "worker" => answers[a] = 1

AttemptsInOrder ==
    /\ \A a \in Attempts : work[a] # "none" => a <= attempt
    /\ \A b \in handed : b <= attempt
    /\ ~started => work[attempt] = "none"

IInv ==
    /\ TypeOK
    /\ ProcessorKnows
    /\ VerdictIsAnswer
    /\ AttemptsInOrder
    /\ AnsweredOnce
    /\ TruthfulRecord

-----------------------------------------------------------------------------

\* What the service's step does: the verdict of the current attempt is written,
\* and the current attempt moves on by one or not at all.
LEMMA RecordSteps ==
    ASSUME TypeOK, NEW kind \in {"completed", "failed", "timed_out"},
           NEW by \in {"worker", "token", "service"}, Record(kind, by)
    PROVE  /\ attempt' \in Attempts /\ attempt' >= attempt
           /\ started' \in BOOLEAN /\ closed' \in BOOLEAN
           /\ ~started' => attempt' > attempt \/ ~started
           /\ verdict' \in [Attempts -> Verdicts]
           /\ verdict'[attempt] = [kind |-> kind, by |-> by]
           /\ \A a \in Attempts : a # attempt => verdict'[a] = verdict[a]
  <1>1. [kind |-> kind, by |-> by] \in Verdicts
    BY DEF Verdicts
  <1>2. verdict' = [verdict EXCEPT ![attempt] = [kind |-> kind, by |-> by]]
    BY DEF Record
  <1>3. attempt' \in Attempts /\ attempt' >= attempt /\ started' \in BOOLEAN /\ closed' \in BOOLEAN
        /\ (~started' => attempt' > attempt \/ ~started)
    <2> DEFINE again == kind # "completed" /\ attempt < MaxAttempts
    <2>1. attempt \in 1..MaxAttempts /\ started \in BOOLEAN /\ closed \in BOOLEAN
      BY DEF TypeOK, Attempts
    <2>2. CASE again
      <3>1. attempt' = attempt + 1 /\ started' = FALSE /\ closed' = closed
        BY <2>2 DEF Record
      <3>2. attempt' \in 1..MaxAttempts /\ attempt' > attempt /\ attempt' >= attempt
        BY <2>1, <2>2, <3>1, MaxAttemptsAssumption
      <3> QED
        BY <2>1, <3>1, <3>2 DEF Attempts
    <2>3. CASE ~again
      <3>1. attempt' = attempt /\ started' = started /\ closed' = TRUE
        BY <2>3 DEF Record
      <3> QED
        BY <2>1, <3>1 DEF Attempts
    <2> QED
      BY <2>2, <2>3
  <1> QED
    BY <1>1, <1>2, <1>3 DEF TypeOK

LEMMA InitIInv == Init => IInv
  <1> SUFFICES ASSUME Init PROVE IInv
    OBVIOUS
  <1>1. TypeOK
    <2>1. attempt \in Attempts /\ handed \in SUBSET Attempts
      BY MaxAttemptsAssumption DEF Init, Attempts
    <2>2. verdict \in [Attempts -> Verdicts]
      BY DEF Init, NoVerdict, Verdicts
    <2>3. async \in [Attempts -> BOOLEAN] /\ started \in BOOLEAN /\ closed \in BOOLEAN
      BY DEF Init
    <2>4. work \in [Attempts -> WorkStates] /\ outcome \in [Attempts -> Outcomes]
      BY DEF Init, WorkStates, Outcomes
    <2>5. answers \in [Attempts -> 0..1]
      BY DEF Init
    <2> QED
      BY <2>1, <2>2, <2>3, <2>4, <2>5 DEF TypeOK
  <1>2. ProcessorKnows /\ AttemptsInOrder /\ AnsweredOnce
    BY <1>1 DEF Init, ProcessorKnows, AttemptsInOrder, AnsweredOnce, TypeOK
  <1>3. VerdictIsAnswer /\ TruthfulRecord
    BY DEF Init, VerdictIsAnswer, TruthfulRecord, NoVerdict
  <1> QED
    BY <1>1, <1>2, <1>3 DEF IInv

\* A verdict that does not come from a worker: a timeout, or an answer by token.
LEMMA OutsideVerdict ==
    ASSUME IInv, NEW kind \in {"completed", "failed", "timed_out"},
           NEW by \in {"token", "service"}, Record(kind, by), UNCHANGED processor,
           by = "token" => handed # {}
    PROVE  IInv'
  <1>1. UNCHANGED <<work, async, handed, outcome, answers>>
    BY DEF processor
  <1>2. /\ attempt' \in Attempts /\ attempt' >= attempt
        /\ started' \in BOOLEAN /\ closed' \in BOOLEAN
        /\ ~started' => attempt' > attempt \/ ~started
        /\ verdict' \in [Attempts -> Verdicts]
        /\ verdict'[attempt] = [kind |-> kind, by |-> by]
        /\ \A a \in Attempts : a # attempt => verdict'[a] = verdict[a]
    BY RecordSteps DEF IInv
  <1>3. TypeOK'
    BY <1>1, <1>2 DEF IInv, TypeOK
  <1>4. ProcessorKnows' /\ AnsweredOnce'
    BY <1>1 DEF IInv, ProcessorKnows, AnsweredOnce
  <1>5. VerdictIsAnswer'
    BY <1>1, <1>2 DEF IInv, VerdictIsAnswer
  <1>6. AttemptsInOrder'
    BY <1>1, <1>2 DEF IInv, AttemptsInOrder, TypeOK, Attempts
  <1>7. TruthfulRecord'
    BY <1>1, <1>2 DEF IInv, TruthfulRecord, AttemptsInOrder
  <1> QED
    BY <1>3, <1>4, <1>5, <1>6, <1>7 DEF IInv

\* The task of the current attempt is handed out, to a worker or to nobody.
LEMMA HandOut == ASSUME IInv, LoseTask \/ Poll PROVE IInv'
  <1> USE DEF IInv, processor
  <1>1. TypeOK'
    BY DEF LoseTask, Poll, TypeOK, WorkStates
  <1>2. ProcessorKnows'
    <2>1. CASE LoseTask
      BY <2>1 DEF LoseTask, ProcessorKnows
    <2>2. CASE Poll
      <3>1. work[attempt] = "none" /\ attempt \in Attempts
        BY <2>2 DEF Poll, AttemptsInOrder, TypeOK
      <3>2. outcome[attempt] = "none" /\ answers[attempt] = 0
        BY <3>1 DEF ProcessorKnows
      <3> QED
        BY <2>2, <3>1, <3>2 DEF Poll, ProcessorKnows, TypeOK
    <2> QED
      BY <2>1, <2>2
  <1>3. VerdictIsAnswer' /\ TruthfulRecord'
    BY DEF LoseTask, Poll, VerdictIsAnswer, TruthfulRecord
  <1>4. AttemptsInOrder'
    <2>1. started' = TRUE /\ attempt' = attempt /\ handed' = handed
      BY DEF LoseTask, Poll
    <2>2. attempt <= attempt
      BY DEF TypeOK, Attempts
    <2>3. \A a \in Attempts : a # attempt => work'[a] = work[a]
      BY DEF LoseTask, Poll, TypeOK
    <2> QED
      BY <2>1, <2>2, <2>3 DEF AttemptsInOrder
  <1>5. AnsweredOnce'
    BY DEF LoseTask, Poll, AnsweredOnce, TypeOK
  <1> QED
    BY <1>1, <1>2, <1>3, <1>4, <1>5

\* A step of an attempt's code, up to the point where the answer is due.
LEMMA CodeSteps ==
    ASSUME IInv, NEW a \in Attempts,
           \/ NotRegistered(a) \/ RunCode(a) \/ CallAsync(a) \/ HandToken(a)
           \/ Return(a) \/ Raise(a) \/ RaiseFatal(a) \/ Die(a)
    PROVE  IInv'
  <1> USE DEF IInv, service, NotRegistered, RunCode, CallAsync, HandToken, Return, Raise,
              RaiseFatal, Die, AfterReturn
  <1>1. TypeOK'
    BY DEF TypeOK, WorkStates, Outcomes
  <1>2. ProcessorKnows'
    BY DEF TypeOK, ProcessorKnows
  <1>3. VerdictIsAnswer'
    BY DEF VerdictIsAnswer
  <1>4. AttemptsInOrder'
    BY DEF TypeOK, AttemptsInOrder
  <1>5. AnsweredOnce'
    BY DEF TypeOK, AnsweredOnce, ProcessorKnows
  <1>6. verdict[a].by # "worker" \/ work[a] \notin {"polled", "running"}
    BY DEF VerdictIsAnswer, ProcessorKnows
  <1>7. TruthfulRecord'
    BY <1>6 DEF TypeOK, TruthfulRecord
  <1> QED
    BY <1>1, <1>2, <1>3, <1>4, <1>5, <1>7

\* The answer, recorded or not.
LEMMA AnswerStep == ASSUME IInv, NEW a \in Attempts, Respond(a) PROVE IInv'
  <1> USE DEF IInv
  <1>1. /\ work[a] \in {"completing", "failing"} /\ answers[a] = 0
        /\ work' = [work EXCEPT ![a] = "done"]
        /\ answers' = [answers EXCEPT ![a] = 1]
        /\ UNCHANGED <<async, handed, outcome>>
    <2>1. work[a] \in {"completing", "failing"} /\ answers[a] = 0
      BY DEF Respond, ProcessorKnows
    <2>2. answers' = [answers EXCEPT ![a] = answers[a] + 1]
      BY DEF Respond, TypeOK
    <2>3. work' = [work EXCEPT ![a] = "done"] /\ UNCHANGED <<async, handed, outcome>>
      BY DEF Respond, AfterError
    <2>4. answers[a] + 1 = 1
      BY <2>1
    <2> QED
      BY <2>1, <2>2, <2>3, <2>4
  <1>2. /\ work[a] = "completing" => outcome[a] = "ok" /\ ~async[a] /\ Kind(a) = "completed"
        /\ work[a] = "failing" => outcome[a] \in {"error", "unregistered"} /\ Kind(a) = "failed"
    BY DEF ProcessorKnows, Kind
  <1>3. /\ attempt' \in Attempts /\ attempt' >= attempt
        /\ started' \in BOOLEAN /\ closed' \in BOOLEAN
        /\ ~started' => attempt' > attempt \/ ~started
        /\ verdict' \in [Attempts -> Verdicts]
        /\ \A b \in Attempts : b # a => verdict'[b] = verdict[b]
        /\ verdict'[a] = verdict[a] \/ verdict'[a] = [kind |-> Kind(a), by |-> "worker"]
    <2>1. CASE UNCHANGED service
      BY <2>1 DEF service, TypeOK, Attempts
    <2>2. CASE Current(a) /\ Record(Kind(a), "worker")
      <3>1. Kind(a) \in {"completed", "failed", "timed_out"} /\ a = attempt
        BY <2>2 DEF Kind, Current
      <3> QED
        BY <2>2, <3>1, RecordSteps
    <2> QED
      BY <2>1, <2>2 DEF Respond
  <1>4. TypeOK'
    <2>1. work' \in [Attempts -> WorkStates]
      BY <1>1 DEF TypeOK, WorkStates
    <2>2. answers' \in [Attempts -> 0..1]
      BY <1>1 DEF TypeOK
    <2> QED
      BY <1>1, <1>3, <2>1, <2>2 DEF TypeOK
  <1>5. ProcessorKnows'
    BY <1>1 DEF TypeOK, ProcessorKnows
  <1>6. VerdictIsAnswer'
    BY <1>1, <1>3 DEF TypeOK, VerdictIsAnswer
  <1>7. AttemptsInOrder'
    BY <1>1, <1>3 DEF TypeOK, AttemptsInOrder, Attempts
  <1>8. AnsweredOnce'
    BY <1>1, <1>2 DEF TypeOK, AnsweredOnce
  <1>9. TruthfulRecord'
    BY <1>1, <1>2, <1>3 DEF TruthfulRecord
  <1> QED
    BY <1>4, <1>5, <1>6, <1>7, <1>8, <1>9

\* Every step of the service, of a worker and of an activity keeps the invariant.
LEMMA NextIInv == IInv /\ [Next]_vars => IInv'
  <1> SUFFICES ASSUME IInv, [Next]_vars PROVE IInv'
    OBVIOUS
  <1>1. CASE Timeout
    BY <1>1, OutsideVerdict DEF Timeout
  <1>2. CASE AnswerByToken
    <2>1. PICK kind \in {"completed", "failed"} : Record(kind, "token")
      BY <1>2 DEF AnswerByToken
    <2> QED
      BY <1>2, <2>1, OutsideVerdict DEF AnswerByToken
  <1>3. CASE LoseTask \/ Poll
    BY <1>3, HandOut
  <1>4. ASSUME NEW a \in Attempts, Process(a) PROVE IInv'
    BY <1>4, CodeSteps, AnswerStep DEF Process
  <1>5. CASE UNCHANGED vars
    BY <1>5 DEF vars, IInv, TypeOK, ProcessorKnows, VerdictIsAnswer, AttemptsInOrder,
                AnsweredOnce, TruthfulRecord
  <1> QED
    BY <1>1, <1>2, <1>3, <1>4, <1>5 DEF Next, Service

\* The invariant holds of every behaviour of an activity.
THEOREM Invariance == Spec => []IInv
  BY InitIInv, NextIInv, PTL DEF Spec

\* The variables of ActivityTask keep their types.
THEOREM TypeCorrect == Spec => []TypeOK
  <1>1. IInv => TypeOK
    BY DEF IInv
  <1> QED
    BY <1>1, Invariance, PTL

\* TaskProcessor#process answers each attempt once, or leaves it to others.
THEOREM OneAnswer == Spec => []AnsweredOnce
  <1>1. IInv => AnsweredOnce
    BY DEF IInv
  <1> QED
    BY <1>1, Invariance, PTL

\* Whatever is lost, late or repeated, the history of an activity is true.
THEOREM RecordIsTrue == Spec => []TruthfulRecord
  <1>1. IInv => TruthfulRecord
    BY DEF IInv
  <1> QED
    BY <1>1, Invariance, PTL
=============================================================================
