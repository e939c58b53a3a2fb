------------------------ MODULE WorkflowReplayProofs ------------------------
(***************************************************************************)
(* The proofs that relate a run to the history it was given. They begin    *)
(* with what a history looks like (RecordInv), and they assume of replay   *)
(* what TLC checks in each program it is given: that the events of a       *)
(* window stand for everything code decided in it (NothingLeftOver) and,   *)
(* for the last theorem, that a replay shows code what it saw before       *)
(* (ReplayReproduces). Both say that code under replay is deterministic, a *)
(* relation between two runs that no invariant of one run can state.       *)
(*                                                                         *)
(* From them follow, for every program: the ids that code is given are the *)
(* ids the service gives (PredictedIds), so that no two futures share a    *)
(* target and no fiber is stranded; futures agree with the history         *)
(* (FuturesAgree); and the code seems to run once (IsDurable).             *)
(***************************************************************************)
EXTENDS WorkflowFiberProofs

-----------------------------------------------------------------------------
(* The record: what a history looks like.                                    *)

\* An end is reported of something that is on record.
Names(e) ==
    /\ e.type \in Closes => e.ref \in 1..Len(history)
    /\ e.type \in ClosesActivity => history[e.ref].type = "ActivityTaskScheduled"
    /\ e.type \in ClosesTimer => history[e.ref].type = "TimerStarted"
    /\ e.type \in ClosesChild => history[e.ref].type = "StartChildWorkflowExecutionInitiated"

\* An event that neither answers a decision task nor stands for a command.
Mild(e) ==
    /\ DOMAIN e = EventFields
    /\ e.type \notin DOMAIN RecordedAs \cup {"DecisionTaskCompleted"}
    /\ Names(e)

\* A sequence of such events.
Milds(s) == IsSeq(s) /\ \A i \in 1..Len(s) : Mild(s[i])

\* A decision task is answered right behind its start.
AnswersFollow(h) ==
    \A i \in 1..Len(h) : h[i].type = "DecisionTaskCompleted" =>
        i > 1 /\ h[i - 1].type = "DecisionTaskStarted"

\* Every event on record does, and came later.
NamesKnown ==
    \A i \in 1..Len(history) : /\ Names(history[i])
                               /\ history[i].type \in Closes => history[i].ref < i

\* The invariant of the record, and of the run's copy of it.
RecordInv ==
    /\ Milds(buffered)
    /\ NamesKnown
    /\ AnswersFollow(history)
    /\ task = "started" => history[Len(history)].type = "DecisionTaskStarted"
    /\ Len(snapshot) <= Len(history)
    /\ \A i \in 1..Len(snapshot) : snapshot[i] = history[i]
    /\ snapshot = <<>> <=> phase = "idle"
    /\ phase # "idle" => snapshot[Len(snapshot)].type = "DecisionTaskStarted"

\* A decision task is handed out.
HandsOut ==
    /\ task = "scheduled" /\ task' = "started" /\ buffered' = buffered
    /\ history' = Recorded(history, <<TaskEvent("DecisionTaskStarted")>>)

\* An event is held back.
HoldsBack ==
    /\ task = "started" /\ UNCHANGED <<history, task>>
    /\ \E e : Mild(e) /\ buffered' = Append(buffered, e)

\* Events are recorded, and a decision task is scheduled.
Notes ==
    /\ \E new : Milds(new) /\ history' = Recorded(history, new)
    /\ task' = "scheduled" /\ (buffered' = buffered \/ buffered' = <<>>)

\* The events that an accepted answer puts on record: first that there was one,
\* then its decisions, then what was held back.
AnsweredBy(new, batch) ==
    /\ Events(new) /\ Len(new) >= 1 + Len(batch)
    /\ new[1] = TaskEvent("DecisionTaskCompleted")
    /\ \A i \in 1..Len(batch) : new[1 + i] = Command(batch, i)
    /\ \A i \in 2 + Len(batch) .. Len(new) : Mild(new[i])

\* The decisions of a task are taken.
Takings ==
    /\ CompleteTask
    /\ \E new : AnsweredBy(new, sm.decisions) /\ history' = Recorded(history, new)
    /\ task' # "started" /\ buffered' = <<>>

\* Two sequences of mild events make one.
LEMMA MildConcat ==
    ASSUME NEW s, NEW t, Milds(s), Milds(t)
    PROVE  Milds(s \o t)
  BY ConcatParts, SeqConcat DEF Milds

\* Mild events are events.
LEMMA MildEvents ==
    ASSUME NEW s, Milds(s)
    PROVE  Events(s)
  BY DEF Milds, Mild, Events

\* One event is a sequence of events.
LEMMA MildOne ==
    ASSUME NEW e, Mild(e)
    PROVE  Milds(<<e>>)
  <1>1. IsSeq(<<e>>) /\ Len(<<e>>) = 1 /\ <<e>>[1] = e
    BY SeqShort
  <1>2. \A i \in 1..1 : Mild(<<e>>[i])
    BY <1>1
  <1> QED  BY <1>1, <1>2 DEF Milds

\* The events of decision tasks and of the workflow itself are mild.
LEMMA MildTask ==
    ASSUME NEW type \in {"DecisionTaskScheduled", "DecisionTaskStarted", "DecisionTaskFailed",
                         "DecisionTaskTimedOut", "WorkflowExecutionStarted",
                         "WorkflowExecutionSignaled", "WorkflowExecutionCancelRequested"}
    PROVE  Mild(TaskEvent(type)) /\ Milds(<<TaskEvent(type)>>)
  <1> DEFINE e == TaskEvent(type)
  <1>1. DOMAIN e = EventFields /\ e.type = type
    BY DEF TaskEvent, Event, EventFields
  <1> HIDE DEF e
  <1>2. type \notin DOMAIN RecordedAs \cup {"DecisionTaskCompleted"}
    BY DEF RecordedAs
  <1>3. type \notin Closes
    BY DEF Closes, ClosesActivity, ClosesTimer, ClosesChild
  <1>4. Mild(e)
    BY <1>1, <1>2, <1>3 DEF Mild, Names, Closes
  <1> QED  BY <1>4, MildOne DEF e

\* What the service holds to be open is on record.
LEMMA OpenOnRecord ==
    ASSUME ServiceInv, NEW type, NEW closing, NEW o \in OpenOf(type, closing)
    PROVE  o.id \in 1..Len(history) /\ history[o.id].type = type
  <1>1. IsSeq(history) /\ \A i \in 1..Len(history) : history[i].id = i
    BY DEF ServiceInv, HistoryOK, Events
  <1>2. o \in ToSet(history) /\ o.type = type
    BY DEF OpenOf
  <1>3. PICK i \in 1..Len(history) : o = history[i]
    BY <1>1, <1>2, SeqFacts DEF ToSet
  <1> QED  BY <1>1, <1>2, <1>3

\* An event arrives: it is held back or recorded.
LEMMA ArriveRecords ==
    ASSUME ServiceInv, NEW e, Mild(e), Arrive(e)
    PROVE  HoldsBack \/ Notes
  <1>1. CASE task = "started"
    BY <1>1 DEF Arrive, HoldsBack
  <1>2. CASE task # "started"
    <2>1. history' = Add(history, <<e>>) /\ task' = "scheduled" /\ buffered' = buffered
      BY <1>2 DEF Arrive
    <2>2. CASE task = "scheduled"
      BY <2>1, <2>2, MildOne DEF Add, Notes
    <2>3. CASE task # "scheduled"
      <3> DEFINE t == TaskEvent("DecisionTaskScheduled")
      <3>1. Milds(<<t>>)
        BY MildTask
      <3>2. history' = Recorded(history, Append(<<e>>, t))
        BY <2>1, <2>3 DEF Add
      <3> HIDE DEF t
      <3>3. Append(<<e>>, t) = <<e>> \o <<t>>
        <4>1. <<e>> \in Seq({e, t}) /\ t \in {e, t}
          OBVIOUS
        <4> QED  BY <4>1, AppendIsConcat
      <3>4. Milds(<<e>> \o <<t>>)
        BY <3>1, MildOne, MildConcat
      <3>5. history' = Recorded(history, <<e>> \o <<t>>)
        BY <3>2, <3>3
      <3> QED  BY <2>1, <3>4, <3>5 DEF Notes
    <2> QED  BY <2>2, <2>3
  <1> QED  BY <1>1, <1>2

\* A report on something open is an event like that.
LEMMA ReportMild ==
    ASSUME ServiceInv, NEW ref \in 1..Len(history), NEW type, NEW key,
           \/ /\ history[ref].type = "ActivityTaskScheduled"
              /\ type \in ActivityClosed \cup {"ActivityTaskStarted"}
           \/ /\ history[ref].type = "StartChildWorkflowExecutionInitiated"
              /\ type \in ChildClosed \cup {"ChildWorkflowExecutionStarted"}
           \/ history[ref].type = "TimerStarted" /\ type = "TimerFired"
    PROVE  Mild(Event(type, ref, key, ""))
  <1> DEFINE e == Event(type, ref, key, "")
  <1>1. DOMAIN e = EventFields /\ e.type = type /\ e.ref = ref
    BY DEF Event, EventFields
  <1> HIDE DEF e
  <1>2. type \notin DOMAIN RecordedAs \cup {"DecisionTaskCompleted"}
    BY DEF RecordedAs, ActivityClosed, ChildClosed
  <1>3. Names(e)
    BY <1>1 DEF Names, ActivityClosed, ChildClosed, ClosesActivity, ClosesTimer, ClosesChild
  <1>4. Mild(e)
    BY <1>1, <1>2, <1>3 DEF Mild
  <1> QED  BY <1>4 DEF e

\* A task ends without decisions.
LEMMA EndTaskRecords ==
    ASSUME Milds(buffered), NEW type \in {"DecisionTaskFailed", "DecisionTaskTimedOut"}, EndTask(type)
    PROVE  Notes
  <1> DEFINE first == <<TaskEvent(type)>>
             last == <<TaskEvent("DecisionTaskScheduled")>>
  <1>1. Milds(first) /\ Milds(last)
    BY MildTask
  <1>2. history' = Recorded(history, first \o buffered \o last) /\ buffered' = <<>> /\ task' = "scheduled"
    BY DEF EndTask
  <1> HIDE DEF first, last
  <1>3. Milds(first \o buffered)
    BY <1>1, MildConcat
  <1>4. Milds(first \o buffered \o last)
    BY <1>1, <1>3, MildConcat
  <1> QED  BY <1>2, <1>4 DEF Notes


\* The decisions of a task are taken.
LEMMA AcceptRecords ==
    ASSUME RunInv, ServiceInv, Milds(buffered), CompleteTask
    PROVE  Takings
  <1> DEFINE batch == sm.decisions
             n == Len(batch)
             commands == [i \in 1..n |-> Command(batch, i)]
             canceled == {commands[i].ref : i \in {j \in 1..n : commands[j].type = "TimerCanceled"}}
             kept == {i \in 1..Len(buffered) :
                        ~(buffered[i].type = "TimerFired" /\ buffered[i].ref \in canceled)}
             late == SelectAt(buffered, kept)
             one == TaskEvent("DecisionTaskCompleted")
             first == <<one>>
             ended == first \o commands
             t == TaskEvent("DecisionTaskScheduled")
  <1>1. /\ \/ history' = Recorded(history, ended)
           \/ history' = Recorded(history, ended \o late)
           \/ history' = Recorded(history, Append(ended \o late, t))
        /\ buffered' = <<>> /\ task' # "started"
    BY DEF CompleteTask, AcceptDecisions, Add
  <1>2. n \in Nat /\ \A i \in 1..n : IsDecision(batch[i])
    BY SeqFacts DEF RunInv, ManagerOK
  <1>3. kept \subseteq 1..Len(buffered)
    OBVIOUS
  <1> HIDE DEF kept, batch, n
  <1>4. IsSeq(commands) /\ Len(commands) = n
    BY <1>2, SeqByFun
  <1>5. \A i \in 1..n : commands[i] = Command(batch, i) /\ DOMAIN commands[i] = EventFields
    <2>1. \A i \in 1..n : DOMAIN Command(batch, i) = EventFields
      BY <1>2, CommandIsEvent
    <2> QED  BY <2>1
  <1>6. IsSeq(buffered) /\ \A i \in 1..Len(buffered) : Mild(buffered[i])
    BY DEF Milds
  <1>7. IsSeq(late)
    BY <1>3, <1>6, SelectAtFrom
  <1>8. \A k \in 1..Len(late) : \E i \in kept : late[k] = buffered[i] /\ i = Nth(kept, k)
    BY <1>3, <1>6, SelectAtFrom
  <1> HIDE DEF late, commands
  <1>9. Milds(late)
    BY <1>3, <1>6, <1>7, <1>8 DEF Milds
  <1>10. DOMAIN one = EventFields
    BY DEF TaskEvent, Event, EventFields
  <1>11. Milds(<<t>>)
    BY MildTask
  <1> HIDE DEF one, t
  <1>12. IsSeq(first) /\ Len(first) = 1 /\ first[1] = one
    BY SeqShort
  <1> HIDE DEF first
  <1>13. /\ IsSeq(ended) /\ Len(ended) = 1 + n
         /\ ended[1] = one /\ \A i \in 1..n : ended[1 + i] = commands[i]
    <2>1. /\ IsSeq(ended) /\ Len(ended) = Len(first) + Len(commands)
          /\ \A i \in 1..Len(first) : ended[i] = first[i]
          /\ \A i \in 1..Len(commands) : ended[Len(first) + i] = commands[i]
      <3>1. IsSeq(first) /\ IsSeq(commands)
        BY <1>4, <1>12
      <3> QED  BY <3>1, SeqConcat
    <2> QED  BY <1>4, <1>12, <2>1
  <1> HIDE DEF ended
  <1>14. \A i \in 1..Len(ended) : DOMAIN ended[i] = EventFields
    <2> TAKE i \in 1..Len(ended)
    <2>1. CASE i = 1
      BY <1>10, <1>13, <2>1
    <2>2. CASE i # 1
      <3>1. i - 1 \in 1..n /\ i = 1 + (i - 1)
        BY <1>2, <1>13, <2>2
      <3>2. ended[i] = commands[i - 1]
        BY <1>13, <3>1
      <3> QED  BY <1>5, <3>1, <3>2
    <2> QED  BY <2>1, <2>2
  <1>15. ASSUME NEW more, Milds(more) PROVE AnsweredBy(ended \o more, batch)
    <2> DEFINE new == ended \o more
    <2>1. /\ IsSeq(new) /\ Len(new) = 1 + n + Len(more)
          /\ \A i \in 1..1 + n : new[i] = ended[i]
          /\ \A i \in 1..Len(more) : new[1 + n + i] = more[i]
      BY <1>13, <1>15, SeqConcat DEF Milds
    <2>2. Len(more) \in Nat /\ Events(more) /\ \A i \in 1..Len(more) : Mild(more[i])
      BY <1>15, MildEvents, SeqFacts DEF Milds
    <2>3. Events(new)
      <3>1. Events(ended)
        BY <1>13, <1>14 DEF Events
      <3> QED  BY <2>2, <3>1, EventsConcat
    <2> HIDE DEF new
    <2>4. new[1] = one /\ \A i \in 1..n : new[1 + i] = Command(batch, i)
      BY <1>2, <1>5, <1>13, <2>1
    <2>5. ASSUME NEW i \in 2 + n .. Len(new) PROVE Mild(new[i])
      <3>1. i - (1 + n) \in 1..Len(more) /\ i = 1 + n + (i - (1 + n))
        BY <1>2, <2>1, <2>2
      <3>2. new[i] = more[i - (1 + n)]
        BY <2>1, <3>1
      <3> QED  BY <2>2, <3>1, <3>2
    <2>6. Len(new) >= 1 + n
      BY <1>2, <2>1, <2>2
    <2>7. AnsweredBy(new, batch)
      BY <2>3, <2>4, <2>5, <2>6 DEF AnsweredBy, n, one
    <2> QED  BY <2>7 DEF new
  <1>16. \E new : AnsweredBy(new, batch) /\ history' = Recorded(history, new)
    <2>1. CASE history' = Recorded(history, ended)
      <3>1. Milds(<<>>)
        BY SeqShort DEF Milds
      <3>2. ended \o <<>> = ended
        BY <1>13, ConcatEmptySeq DEF IsSeq
      <3> QED  BY <1>15, <2>1, <3>1, <3>2
    <2>2. CASE history' = Recorded(history, ended \o late)
      BY <1>9, <1>15, <2>2
    <2>3. CASE history' = Recorded(history, Append(ended \o late, t))
      <3> DEFINE S == ToSet(ended) \cup ToSet(late) \cup {t}
      <3>1. ended \in Seq(S) /\ late \in Seq(S) /\ <<t>> \in Seq(S) /\ t \in S /\ ended \o late \in Seq(S)
        <4>1. ended \in Seq(S) /\ late \in Seq(S)
          BY <1>7, <1>13, SeqMonotonic DEF IsSeq
        <4>2. t \in S
          OBVIOUS
        <4> HIDE DEF S
        <4> QED  BY <4>1, <4>2, ConcatProperties
      <3> HIDE DEF S
      <3>2. Append(ended \o late, t) = (ended \o late) \o <<t>>
        BY <3>1, AppendIsConcat
      <3>3. (ended \o late) \o <<t>> = ended \o (late \o <<t>>)
        BY <3>1, ConcatAssociative
      <3>4. Milds(late \o <<t>>)
        BY <1>9, <1>11, MildConcat
      <3> QED  BY <1>15, <2>3, <3>2, <3>3, <3>4
    <2> QED  BY <1>1, <2>1, <2>2, <2>3
  <1> QED  BY <1>1, <1>16 DEF Takings, batch

\* All that a step can do to the record.
LEMMA RecordMoves ==
    ASSUME RunInv, ServiceInv, Milds(buffered), [Next]_vars
    PROVE  UNCHANGED <<history, buffered, task>> \/ HandsOut \/ HoldsBack \/ Notes \/ Takings
  <1>1. CASE Poll \/ PollInVain
    BY <1>1 DEF Poll, PollInVain, HandsOut
  <1>2. CASE Run \/ LoseResponse \/ GiveUpTask \/ Deploy \/ UNCHANGED vars
    BY <1>2 DEF Run, LoseResponse, GiveUpTask, Deploy, serverVars, vars
  <1>3. CASE CompleteTask
    BY <1>3, AcceptRecords
  <1>4. CASE UnhandledDecision \/ FailTask \/ TimeOut
    BY <1>4, EndTaskRecords DEF UnhandledDecision, FailTask, TimeOut
  <1>5. CASE ActivityReport
    <2>1. PICK o \in OpenActivities, type \in Reports \cap (ActivityClosed \cup {"ActivityTaskStarted"}) :
             Arrive(Event(type, o.id, 0, ""))
      BY <1>5 DEF ActivityReport
    <2>2. o.id \in 1..Len(history) /\ history[o.id].type = "ActivityTaskScheduled"
      BY OpenOnRecord DEF OpenActivities
    <2> QED  BY <2>1, <2>2, ReportMild, ArriveRecords
  <1>6. CASE ChildReport
    <2>1. PICK o \in OpenChildren, type \in Reports \cap (ChildClosed \cup {"ChildWorkflowExecutionStarted"}) :
             Arrive(Event(type, o.id, 0, ""))
      BY <1>6 DEF ChildReport
    <2>2. o.id \in 1..Len(history) /\ history[o.id].type = "StartChildWorkflowExecutionInitiated"
      BY OpenOnRecord DEF OpenChildren
    <2> QED  BY <2>1, <2>2, ReportMild, ArriveRecords
  <1>7. CASE TimerFires
    <2>1. PICK o \in OpenTimers : Arrive(Event("TimerFired", o.id, o.key, ""))
      BY <1>7 DEF TimerFires
    <2>2. o.id \in 1..Len(history) /\ history[o.id].type = "TimerStarted"
      BY OpenOnRecord DEF OpenTimers
    <2> QED  BY <2>1, <2>2, ReportMild, ArriveRecords
  <1>8. CASE Signal \/ CancelRequest
    BY <1>8, MildTask, ArriveRecords DEF Signal, CancelRequest
  <1> QED  BY <1>1, <1>2, <1>3, <1>4, <1>5, <1>6, <1>7, <1>8 DEF Next


\* What an event names stays on record.
LEMMA NamesStay ==
    ASSUME Len(history) \in Nat, Len(history') \in Nat, Len(history) <= Len(history'),
           \A i \in 1..Len(history) : history'[i] = history[i],
           NEW e, Names(e)
    PROVE  Names(e)'
  BY DEF Names, Closes

\* Events are recorded behind those there are.
LEMMA RecordGrows ==
    ASSUME ServiceInv, RecordInv, NEW new, Events(new), history' = Recorded(history, new),
           \A i \in 1..Len(new) : Names(new[i]),
           \A i \in 1..Len(new) : new[i].type = "DecisionTaskCompleted" => i = 1 /\ task = "started"
    PROVE  /\ Len(history) \in Nat /\ Len(history') \in Nat /\ Len(new) \in Nat
           /\ Len(history') = Len(history) + Len(new)
           /\ \A i \in 1..Len(history) : history'[i] = history[i]
           /\ \A i \in 1..Len(new) : SameEvent(history'[Len(history) + i], new[i])
           /\ NamesKnown'
           /\ AnswersFollow(history)'
  <1> DEFINE n == Len(history)
  <1>1. Events(history) /\ n \in Nat \ {0} /\ Len(new) \in Nat
    BY ClosedByLast, SeqFacts DEF ServiceInv, HistoryOK, Events
  <1>2. /\ Len(history') = n + Len(new)
        /\ \A i \in 1..n : history'[i] = history[i]
        /\ \A i \in 1..Len(new) : SameEvent(history'[n + i], new[i])
    BY <1>1, RecordedEvents
  <1>3. Len(history') \in Nat /\ n <= Len(history')
    BY <1>1, <1>2
  <1>4. \A i \in 1..Len(history') : i \in 1..n \/ \E j \in 1..Len(new) : i = n + j
    <2> TAKE i \in 1..Len(history')
    <2>1. CASE i > n
      <3>1. i - n \in 1..Len(new) /\ i = n + (i - n)
        BY <1>1, <1>2, <2>1
      <3> QED  BY <3>1
    <2> QED  BY <1>1, <1>2, <2>1
  <1>5. ASSUME NEW i \in 1..Len(history'), NEW a, a = history'[i]
        PROVE  Names(a)' /\ (a.type \in Closes => a.ref < i)
    <2>1. CASE i \in 1..n
      <3>1. PICK e : e = history[i]
        OBVIOUS
      <3>2. Names(e) /\ (e.type \in Closes => e.ref < i)
        BY <2>1, <3>1 DEF RecordInv, NamesKnown
      <3>3. Names(e)' /\ e = a
        BY <1>1, <1>2, <1>3, <1>5, <2>1, <3>1, <3>2, NamesStay
      <3> QED  BY <3>2, <3>3
    <2>2. CASE \E j \in 1..Len(new) : i = n + j
      <3>1. PICK j \in 1..Len(new) : i = n + j
        BY <2>2
      <3>2. PICK e : e = new[j]
        OBVIOUS
      <3>4. a.type = e.type /\ a.ref = e.ref /\ Names(e)
        BY <1>2, <1>5, <3>1, <3>2 DEF SameEvent
      <3>5. Names(a) /\ (a.type \in Closes => a.ref \in 1..n)
        BY <3>4 DEF Names
      <3>6. Names(a)'
        BY <1>1, <1>2, <1>3, <3>5, NamesStay
      <3>7. a.type \in Closes => a.ref < i
        BY <1>1, <3>1, <3>5
      <3> QED  BY <3>6, <3>7
    <2> QED  BY <1>4, <2>1, <2>2
  <1>6. AnswersFollow(history)'
    <2> SUFFICES ASSUME NEW i \in 1..Len(history'), history'[i].type = "DecisionTaskCompleted"
                 PROVE  i > 1 /\ history'[i - 1].type = "DecisionTaskStarted"
      BY DEF AnswersFollow
    <2>1. CASE i \in 1..n
      <3>1. i > 1 /\ history[i - 1].type = "DecisionTaskStarted"
        BY <1>2, <2>1 DEF RecordInv, AnswersFollow
      <3>2. i - 1 \in 1..n
        BY <1>1, <2>1, <3>1
      <3> QED  BY <1>2, <3>1, <3>2
    <2>2. CASE \E j \in 1..Len(new) : i = n + j
      <3>1. PICK j \in 1..Len(new) : i = n + j
        BY <2>2
      <3>2. j = 1 /\ task = "started"
        BY <1>2, <3>1 DEF SameEvent
      <3>3. i - 1 = n /\ n \in 1..n /\ i > 1
        BY <1>1, <3>1, <3>2
      <3> QED  BY <1>2, <3>2, <3>3 DEF RecordInv
    <2> QED  BY <1>4, <2>1, <2>2
  <1>7. NamesKnown'
    BY <1>5 DEF NamesKnown
  <1> QED  BY <1>1, <1>2, <1>3, <1>6, <1>7

\* Every command answers to a type of its own kind, and ends nothing.
LEMMA CommandNames ==
    ASSUME NEW batch, NEW i, IsDecision(batch[i])
    PROVE  /\ Names(Command(batch, i))
           /\ Command(batch, i).type # "DecisionTaskCompleted"
  <1> DEFINE c == Command(batch, i)
  <1>1. c.type \in {"ActivityTaskScheduled", "TimerStarted", "StartChildWorkflowExecutionInitiated",
                    "MarkerRecorded", "RequestCancelActivityTaskFailed", "ActivityTaskCancelRequested",
                    "CancelTimerFailed", "TimerCanceled", "WorkflowExecutionCompleted",
                    "WorkflowExecutionFailed"}
    BY CommandIsEvent
  <1> HIDE DEF c
  <1>2. c.type \notin Closes /\ c.type # "DecisionTaskCompleted"
    BY <1>1 DEF Closes, ClosesActivity, ClosesTimer, ClosesChild
  <1> QED  BY <1>2 DEF Names, Closes, c

\* The record part of the invariant.
RecordSound ==
    /\ Milds(buffered)
    /\ NamesKnown
    /\ AnswersFollow(history)
    /\ task = "started" => history[Len(history)].type = "DecisionTaskStarted"

\* The record only grows, and stays sound.
LEMMA RecordSoundNext ==
    ASSUME RunInv, ServiceInv, RecordInv, [Next]_vars
    PROVE  /\ RecordSound'
           /\ Len(history) \in Nat /\ Len(history') \in Nat /\ Len(history) <= Len(history')
           /\ \A i \in 1..Len(history) : history'[i] = history[i]
           /\ HandsOut => history'[Len(history')].type = "DecisionTaskStarted"
  <1>1. Events(history) /\ Len(history) \in Nat \ {0} /\ Milds(buffered)
    BY ClosedByLast, SeqFacts DEF ServiceInv, HistoryOK, RecordInv
  <1>2. Milds(<<>>)'
    BY SeqShort DEF Milds
  <1>3. ASSUME Len(history') \in Nat, Len(history) <= Len(history'),
               \A i \in 1..Len(history) : history'[i] = history[i]
        PROVE  Milds(buffered)'  \/ buffered' # buffered
    <2> SUFFICES ASSUME buffered' = buffered PROVE Milds(buffered)'
      OBVIOUS
    <2>1. ASSUME NEW i \in 1..Len(buffered), NEW e, e = buffered[i] PROVE Mild(e)'
      <3>2. Mild(e)
        BY <1>1, <2>1 DEF Milds
      <3>3. Names(e)'
        BY <1>1, <1>3, <3>2, NamesStay DEF Mild
      <3> QED  BY <3>2, <3>3 DEF Mild
    <2> QED  BY <1>1, <2>1 DEF Milds
  <1>4. CASE UNCHANGED <<history, buffered, task>>
    <2>1. Len(history') \in Nat /\ Len(history) <= Len(history')
      BY <1>1, <1>4
    <2>2. Milds(buffered)'
      BY <1>3, <1>4, <2>1
    <2>3. /\ AnswersFollow(history)'
          /\ task' = "started" => history'[Len(history')].type = "DecisionTaskStarted"
      BY <1>4 DEF RecordInv, AnswersFollow
    <2>4. NamesKnown'
      BY <1>4 DEF RecordInv, NamesKnown, Names
    <2> QED  BY <1>1, <1>4, <2>1, <2>2, <2>3, <2>4 DEF RecordSound, HandsOut
  <1>5. CASE HoldsBack
    <2>1. PICK e : Mild(e) /\ buffered' = Append(buffered, e)
      BY <1>5 DEF HoldsBack
    <2>2. UNCHANGED <<history, task>> /\ task = "started"
      BY <1>5 DEF HoldsBack
    <2>3. /\ IsSeq(buffered') /\ Len(buffered') = Len(buffered) + 1 /\ Len(buffered) \in Nat
          /\ \A i \in 1..Len(buffered) : buffered'[i] = buffered[i]
          /\ buffered'[Len(buffered) + 1] = e
      BY <1>1, <2>1, SeqAppend, SeqFacts DEF Milds
    <2>4. \A i \in 1..Len(buffered') : Mild(buffered'[i])
      <3> TAKE i \in 1..Len(buffered')
      <3>1. CASE i \in 1..Len(buffered)
        BY <1>1, <2>3, <3>1 DEF Milds
      <3>2. CASE i = Len(buffered) + 1
        BY <2>1, <2>3, <3>2
      <3> QED  BY <2>3, <3>1, <3>2
    <2>5. Milds(buffered)'
      BY <2>2, <2>3, <2>4 DEF Milds, Mild, Names
    <2>6. /\ AnswersFollow(history)'
          /\ task' = "started" => history'[Len(history')].type = "DecisionTaskStarted"
      BY <2>2 DEF RecordInv, AnswersFollow
    <2>7. NamesKnown'
      BY <2>2 DEF RecordInv, NamesKnown, Names
    <2> QED  BY <1>1, <2>2, <2>5, <2>6, <2>7 DEF RecordSound, HandsOut
  <1>6. CASE HandsOut
    <2> DEFINE e == TaskEvent("DecisionTaskStarted")
               new == <<e>>
    <2>1. Milds(new) /\ history' = Recorded(history, new) /\ task' = "started" /\ buffered' = buffered
      BY <1>6, MildTask DEF HandsOut
    <2>2. e.type = "DecisionTaskStarted"
      BY DEF TaskEvent, Event
    <2> HIDE DEF e
    <2>3. Len(new) = 1 /\ new[1] = e
      BY SeqShort
    <2> HIDE DEF new
    <2>4. /\ Events(new) /\ (\A i \in 1..Len(new) : Names(new[i]))
          /\ \A i \in 1..Len(new) : new[i].type # "DecisionTaskCompleted"
      BY <2>1, MildEvents DEF Milds, Mild
    <2>5. /\ Len(history') \in Nat /\ Len(history') = Len(history) + Len(new)
          /\ \A i \in 1..Len(history) : history'[i] = history[i]
          /\ \A i \in 1..Len(new) : SameEvent(history'[Len(history) + i], new[i])
          /\ NamesKnown'
          /\ AnswersFollow(history)'
      BY <2>1, <2>4, RecordGrows
    <2>6. history'[Len(history')].type = "DecisionTaskStarted"
      BY <2>2, <2>3, <2>5 DEF SameEvent
    <2>7. Len(history) <= Len(history')
      BY <1>1, <2>3, <2>5
    <2>8. Milds(buffered)'
      BY <1>3, <2>1, <2>5, <2>7
    <2> QED  BY <1>1, <2>5, <2>6, <2>7, <2>8 DEF RecordSound
  <1>7. CASE Notes
    <2>1. PICK new : Milds(new) /\ history' = Recorded(history, new)
      BY <1>7 DEF Notes
    <2>2. /\ Events(new) /\ (\A i \in 1..Len(new) : Names(new[i]))
          /\ \A i \in 1..Len(new) : new[i].type # "DecisionTaskCompleted"
      BY <2>1, MildEvents DEF Milds, Mild
    <2>3. /\ Len(history') \in Nat /\ Len(history') = Len(history) + Len(new) /\ Len(new) \in Nat
          /\ \A i \in 1..Len(history) : history'[i] = history[i]
          /\ NamesKnown'
          /\ AnswersFollow(history)'
      BY <2>1, <2>2, RecordGrows
    <2>4. Len(history) <= Len(history')
      BY <1>1, <2>3
    <2>5. Milds(buffered)'
      BY <1>2, <1>3, <1>7, <2>3, <2>4 DEF Notes
    <2>6. task' # "started" /\ ~HandsOut
      BY <1>7 DEF Notes, HandsOut
    <2> QED  BY <1>1, <2>3, <2>4, <2>5, <2>6 DEF RecordSound
  <1>8. CASE Takings
    <2> DEFINE batch == sm.decisions
    <2>1. PICK new : AnsweredBy(new, batch) /\ history' = Recorded(history, new)
      BY <1>8 DEF Takings
    <2>2. Len(batch) \in Nat /\ \A i \in 1..Len(batch) : IsDecision(batch[i])
      BY SeqFacts DEF RunInv, ManagerOK
    <2>3. task = "started" /\ task' # "started" /\ ~HandsOut /\ buffered' = <<>>
      BY <1>8 DEF Takings, HandsOut, CompleteTask, HoldsTask
    <2> HIDE DEF batch
    <2>4. \A i \in 1..Len(new) : Names(new[i]) /\ (new[i].type = "DecisionTaskCompleted" => i = 1)
      <3> TAKE i \in 1..Len(new)
      <3>1. CASE i = 1
        <4>1. new[1].type = "DecisionTaskCompleted"
          <5>1. new[1] = TaskEvent("DecisionTaskCompleted")
            BY <2>1 DEF AnsweredBy
          <5>2. TaskEvent("DecisionTaskCompleted").type = "DecisionTaskCompleted"
            BY DEF TaskEvent, Event
          <5> QED  BY <5>1, <5>2
        <4>2. new[1].type \notin Closes
          BY <4>1 DEF Closes, ClosesActivity, ClosesTimer, ClosesChild
        <4> QED  BY <3>1, <4>2 DEF Names, Closes
      <3>2. CASE i \in 2..1 + Len(batch)
        <4>1. i - 1 \in 1..Len(batch) /\ i = 1 + (i - 1)
          BY <2>2, <3>2
        <4>2. new[i] = Command(batch, i - 1)
          BY <2>1, <4>1 DEF AnsweredBy
        <4> QED  BY <2>2, <4>1, <4>2, CommandNames
      <3>3. CASE i > 1 + Len(batch)
        <4>1. i \in 2 + Len(batch) .. Len(new)
          BY <2>2, <3>3
        <4> QED  BY <2>1, <4>1 DEF AnsweredBy, Mild
      <3> QED  BY <2>2, <3>1, <3>2, <3>3
    <2>5. Events(new)
      BY <2>1 DEF AnsweredBy
    <2>6. /\ Len(history') \in Nat /\ Len(history') = Len(history) + Len(new) /\ Len(new) \in Nat
          /\ \A i \in 1..Len(history) : history'[i] = history[i]
          /\ NamesKnown'
          /\ AnswersFollow(history)'
      BY <2>1, <2>3, <2>4, <2>5, RecordGrows
    <2>7. Len(history) <= Len(history')
      BY <1>1, <2>6
    <2>8. Milds(buffered)'
      BY <1>2, <2>3
    <2> QED  BY <1>1, <2>3, <2>6, <2>7, <2>8 DEF RecordSound
  <1> QED  BY <1>1, <1>4, <1>5, <1>6, <1>7, <1>8, RecordMoves


\* A run has a copy of the record as it was when its task was handed out.
LEMMA RecordInvNext ==
    ASSUME RunInv, ServiceInv, RecordInv, [Next]_vars
    PROVE  RecordInv'
  <1>1. /\ RecordSound'
        /\ Len(history) \in Nat /\ Len(history') \in Nat /\ Len(history) <= Len(history')
        /\ \A i \in 1..Len(history) : history'[i] = history[i]
        /\ HandsOut => history'[Len(history')].type = "DecisionTaskStarted"
    BY RecordSoundNext
  <1>2. /\ Len(snapshot) \in Nat /\ Len(snapshot) <= Len(history)
        /\ \A i \in 1..Len(snapshot) : snapshot[i] = history[i]
        /\ snapshot = <<>> <=> phase = "idle"
        /\ phase # "idle" => snapshot[Len(snapshot)].type = "DecisionTaskStarted"
    BY SeqFacts DEF RunInv, RunType, Events, RecordInv
  <1>3. ASSUME snapshot' = snapshot, phase' = "idle" <=> phase = "idle"
        PROVE  RecordInv'
    <2>1. /\ Len(snapshot') <= Len(history')
          /\ \A i \in 1..Len(snapshot') : snapshot'[i] = history'[i]
      BY <1>1, <1>2, <1>3
    <2> QED  BY <1>1, <1>2, <1>3, <2>1 DEF RecordInv, RecordSound
  <1>4. CASE Run
    <2>1. phase \in {"apply", "fiber"}
      <3>1. CodeStep => phase = "fiber"
        BY CodeStepMoves DEF CodeMoves
      <3> QED  BY <1>4, <3>1 DEF Run, RunStep, RootStep, NextWindow, ApplyEvent, RunHandler,
                                FinishRun, AtRoot
    <2>2. snapshot' = snapshot /\ phase' # "idle"
      <3>1. CASE CodeStep
        <4>1. CodeMoves
          BY <3>1, CodeStepMoves
        <4> QED  BY <4>1 DEF CodeMoves, Continues, Parks, Ends, Aborts
      <3>2. CASE NextWindow \/ FinishRun
        BY <3>2 DEF NextWindow, FinishRun, AtRoot
      <3>3. CASE ApplyEvent
        BY <3>3 DEF ApplyEvent, Abort, AtRoot
      <3>4. CASE RunHandler
        BY <3>4 DEF RunHandler, RunStart, RunCall, RunSet, RunFail, RunResume, Launch, Abort
      <3> QED  BY <1>4, <3>1, <3>2, <3>3, <3>4 DEF Run, RunStep, RootStep
    <2> QED  BY <1>3, <2>1, <2>2
  <1>5. CASE Poll \/ PollInVain
    <2>1. snapshot' = history' /\ phase' # "idle" /\ HandsOut
      BY <1>5 DEF Poll, PollInVain, StartRun, ResetRun, HandsOut
    <2>2. history' # <<>>
      <3>1. Len(history) # 0
        BY ClosedByLast DEF ServiceInv
      <3>2. Len(history') # 0
        BY <1>1, <3>1
      <3> QED  BY <3>2, SeqShort
    <2> QED  BY <1>1, <2>1, <2>2 DEF RecordInv, RecordSound
  <1>6. CASE EndRun
    <2>1. snapshot' = <<>> /\ phase' = "idle"
      BY <1>6 DEF EndRun, ResetRun
    <2>2. Len(snapshot') = 0
      BY <2>1, SeqShort
    <2> QED  BY <1>1, <2>1, <2>2 DEF RecordInv, RecordSound
  <1>7. CASE UNCHANGED runVars
    BY <1>3, <1>7 DEF runVars
  <1>8. CASE UNCHANGED vars
    BY <1>3, <1>8 DEF vars
  <1>9. ASSUME NEW e, Arrive(e) PROVE UNCHANGED runVars
    BY <1>9 DEF Arrive
  <1>10. CASE ActivityReport \/ ChildReport \/ TimerFires \/ Signal \/ CancelRequest
    BY <1>7, <1>9, <1>10 DEF ActivityReport, ChildReport, TimerFires, Signal, CancelRequest
  <1>11. CASE CompleteTask \/ UnhandledDecision \/ LoseResponse \/ FailTask \/ GiveUpTask
    BY <1>6, <1>11 DEF CompleteTask, UnhandledDecision, LoseResponse, FailTask, GiveUpTask
  <1>12. CASE TimeOut \/ Deploy
    BY <1>7, <1>12 DEF TimeOut, Deploy
  <1> QED  BY <1>4, <1>5, <1>8, <1>10, <1>11, <1>12 DEF Next

\* The record of a new execution.
LEMMA RecordInit ==
    ASSUME Init
    PROVE  RecordInv
  <1> DEFINE one == TaskEvent("WorkflowExecutionStarted")
             two == TaskEvent("DecisionTaskScheduled")
             new == <<one, two>>
  <1>1. /\ history = Recorded(<<>>, new) /\ buffered = <<>> /\ task = "scheduled"
        /\ phase = "idle" /\ snapshot = <<>>
    BY DEF Init, InitRun
  <1>2. Mild(one) /\ Mild(two)
    BY MildTask
  <1> HIDE DEF one, two
  <1>3. IsSeq(new) /\ Len(new) = 2 /\ new[1] = one /\ new[2] = two
    BY SeqShort
  <1> HIDE DEF new
  <1>4. \A i \in 1..Len(new) : i = 1 \/ i = 2
    BY <1>3
  <1>5. Milds(new) /\ Events(new) /\ Events(<<>>) /\ Milds(<<>>) /\ Len(<<>>) = 0
    <2>1. Milds(new)
      BY <1>2, <1>3, <1>4 DEF Milds
    <2> QED  BY <2>1, MildEvents, SeqShort DEF Events, Milds
  <1>6. /\ Len(history) = 0 + Len(new)
        /\ \A i \in 1..Len(new) : SameEvent(history[0 + i], new[i])
    BY <1>1, <1>5, RecordedEvents
  <1>7. \A i \in 1..Len(history) : history[i].type \notin Closes
                                    /\ history[i].type # "DecisionTaskCompleted"
    <2>1. \A i \in 1..Len(new) : history[i].type = new[i].type
      BY <1>6 DEF SameEvent
    <2>2. one.type \notin Closes /\ two.type \notin Closes
      BY TaskTypes DEF one, two, TaskEvent, Event
    <2>3. Len(history) = Len(new)
      BY <1>3, <1>6
    <2>4. one.type # "DecisionTaskCompleted" /\ two.type # "DecisionTaskCompleted"
      BY <1>2 DEF Mild
    <2>5. \A i \in 1..Len(new) : new[i].type \notin Closes /\ new[i].type # "DecisionTaskCompleted"
      BY <1>3, <1>4, <2>2, <2>4
    <2> QED  BY <2>1, <2>3, <2>5
  <1>8. NamesKnown /\ AnswersFollow(history)
    BY <1>7 DEF NamesKnown, Names, Closes, AnswersFollow
  <1>9. Len(snapshot) = 0 /\ Len(history) \in Nat
    BY <1>1, <1>3, <1>6, SeqShort
  <1> QED  BY <1>1, <1>5, <1>8, <1>9 DEF RecordInv


-----------------------------------------------------------------------------
(* The ids of decisions.                                                     *)

\* The next id is the first one behind the last that no marker has.
LEMMA NextId ==
    ASSUME NEW m, m.last_event_id \in Nat, IsFiniteSet(m.marker_ids)
    PROVE  /\ NextDecisionId(m) \in Nat /\ NextDecisionId(m) > m.last_event_id
           /\ m.last_event_id + 1 \notin m.marker_ids => NextDecisionId(m) = m.last_event_id + 1
  <1> DEFINE a == m.last_event_id + 1
             M == m.marker_ids
             c == Cardinality(M)
             S == a..a + c
             T == S \ M
  <1>1. a \in Nat /\ c \in Nat /\ a + c \in Nat /\ a <= a + c
    BY FS_CardinalityType
  <1>2. NextDecisionId(m) = Min(T)
    BY DEF NextDecisionId
  <1> HIDE DEF a, c, M
  <1>3. IsFiniteSet(S) /\ Cardinality(S) = c + 1
    <2>1. IsFiniteSet(S) /\ Cardinality(S) = IF a > a + c THEN 0 ELSE a + c - a + 1
      BY <1>1, FS_Interval
    <2> QED  BY <1>1, <2>1
  <1>4. T # {}
    <2> SUFFICES ASSUME T = {} PROVE FALSE
      OBVIOUS
    <2>1. S \in SUBSET M
      OBVIOUS
    <2> HIDE DEF S
    <2>2. Cardinality(S) <= c
      BY <2>1, FS_Subset DEF c, M
    <2> QED  BY <1>1, <1>3, <2>2
  <1>5. T \subseteq Nat /\ \A x \in T : x >= a
    BY <1>1
  <1>6. a \notin M => a \in T
    BY <1>1
  <1> HIDE DEF T
  <1>7. Min(T) \in T /\ \A y \in T : Min(T) <= y
    BY <1>4, <1>5, MinOfNaturals
  <1>8. Min(T) \in Nat /\ Min(T) >= a
    BY <1>5, <1>7
  <1>9. a \notin M => Min(T) = a
    BY <1>1, <1>6, <1>7, <1>8
  <1> QED  BY <1>1, <1>2, <1>8, <1>9 DEF a, M

\* The next window of a history whose tasks are answered right behind their
\* start, and of which the last is not.  It ends at the end of the history, and
\* is live; or it ends with the commands of an answer, and the ids of decisions
\* go on from the answer.
LEMMA WindowIds ==
    ASSUME NEW h, Events(h), \A i \in 1..Len(h) : h[i].id = i, AnswersFollow(h),
           NEW from \in Nat, from < Len(h), h[Len(h)].type = "DecisionTaskStarted",
           from > 0 => h[from].type # "DecisionTaskStarted"
    PROVE  LET w == next_window(h, from)
               end == WindowEnd(h, from)
           IN  /\ end \in from + 1 .. Len(h)
               /\ w.replay = (end < Len(h))
               /\ ~w.replay => w.last_event_id = Len(h) + 1
               /\ w.replay => /\ w.last_event_id \in from + 1 .. end
                              /\ \A i \in w.last_event_id + 1 .. end : command(h[i])
                              /\ command(h[end]) \/ h[end].type = "DecisionTaskCompleted"
  <1> DEFINE n == Len(h)
             end == WindowEnd(h, from)
             completed == {i \in from + 1 .. n : h[i].type = "DecisionTaskCompleted"}
             stop == IF completed = {} THEN n ELSE Min(completed)
             T == {i \in stop .. n : \A j \in stop + 1 .. i : command(h[j])}
             part == SubSeq(h, from + 1, end)
             started == {i \in 1..Len(part) : part[i].type \in {"DecisionTaskStarted"}}
             ended == {i \in 1..Len(part) : part[i].type \in {"DecisionTaskCompleted"}}
             w == next_window(h, from)
  <1>1. n \in Nat /\ IsSeq(h) /\ end \in from + 1 .. n
    BY SeqFacts, WindowAdvances DEF Events
  <1>2. /\ w.replay = (ended # {})
        /\ w.last_event_id = IF started = {} THEN Nil ELSE LastEventId(part[Max(started)])
    BY DEF next_window
  <1>3. IsSeq(part) /\ Len(part) = end - from /\ \A i \in 1..end - from : part[i] = h[from + i]
    BY <1>1, SeqSub
  <1> HIDE DEF w
  <1>4. stop \in from + 1 .. n /\ (completed # {} => stop \in completed)
        /\ \A i \in from + 1 .. n : h[i].type = "DecisionTaskCompleted" => stop <= i
    <2>1. completed \subseteq Nat
      BY <1>1
    <2>2. CASE completed = {}
      BY <1>1, <2>2
    <2>3. CASE completed # {}
      BY <1>1, <2>1, <2>3, MinOfNaturals
    <2> QED  BY <2>2, <2>3
  <1>5. end = Max(T)
    BY Zenon DEF WindowEnd, T, stop
  <1> HIDE DEF stop
  <1>6. stop \in T /\ T \subseteq 0..n /\ T # {}
    BY <1>1, <1>4
  <1> HIDE DEF T
  <1>7. Max(T) \in T /\ \A y \in T : y <= Max(T)
    BY <1>1, <1>6, MaxOfNaturals
  <1> HIDE DEF end
  <1>8. end \in stop .. n /\ \A j \in stop + 1 .. end : command(h[j])
    BY <1>5, <1>7 DEF T
  <1> HIDE DEF part
  <1>9. \A i \in 1..Len(part) : from + i \in from + 1 .. end /\ part[i] = h[from + i]
    BY <1>1, <1>3
  <1>10. \A i \in from + 1 .. end : i - from \in 1..Len(part) /\ part[i - from] = h[i]
    <2> TAKE i \in from + 1 .. end
    <2>1. i - from \in 1..end - from /\ from + (i - from) = i
      BY <1>1
    <2> QED  BY <1>3, <2>1
  <1>11. started \subseteq 0..Len(part) /\ Len(part) \in Nat
    BY <1>1, <1>3
  <1>12. ASSUME NEW s \in from + 1 .. end, h[s].type = "DecisionTaskStarted",
                \A i \in s + 1 .. end : h[i].type # "DecisionTaskStarted"
         PROVE  w.last_event_id = s + 1
    <2>1. s - from \in started
      BY <1>10, <1>12
    <2>2. \A i \in started : i <= s - from
      <3> TAKE i \in started
      <3>1. i \in 1..Len(part) /\ from + i \in from + 1 .. end /\ h[from + i].type = "DecisionTaskStarted"
        BY <1>9
      <3>2. from + i \notin s + 1 .. end
        BY <1>12, <3>1
      <3> QED  BY <1>1, <3>1, <3>2
    <2> HIDE DEF started
    <2>3. Max(started) \in started /\ \A y \in started : y <= Max(started)
      BY <1>11, <2>1, MaxOfNaturals
    <2>4. Max(started) = s - from
      <3> DEFINE m == Max(started)
      <3> HIDE DEF m
      <3>0. m \in started /\ m <= s - from /\ s - from <= m
        BY <2>1, <2>2, <2>3 DEF m
      <3>1. m \in 0..Len(part)
        BY <1>11, <3>0
      <3>2. m \in Nat /\ s - from \in Int
        BY <1>1, <1>11, <3>1
      <3>3. m = s - from
        BY <3>0, <3>2
      <3> QED  BY <3>3 DEF m
    <2>5. part[Max(started)] = h[s]
      BY <1>10, <2>4
    <2>6. h[s].id = s
      BY <1>1
    <2> QED  BY <1>2, <2>1, <2>5, <2>6 DEF LastEventId
  <1>13. CASE completed = {}
    <2>1. end = n
      <3>1. completed = {} => stop = n
        BY DEF stop
      <3> HIDE DEF completed
      <3>2. stop = n
        BY <1>13, <3>1
      <3> QED  BY <1>1, <1>8, <3>2
    <2>2. ended = {}
      BY <1>9, <1>13, <2>1
    <2>3. w.last_event_id = n + 1
      <3>1. n \in from + 1 .. end /\ h[n].type = "DecisionTaskStarted"
        BY <1>1, <2>1
      <3>2. \A i \in n + 1 .. end : h[i].type # "DecisionTaskStarted"
        BY <1>1, <2>1
      <3> QED  BY <1>12, <3>1, <3>2
    <2>4. w.replay = FALSE
      BY <1>2, <2>2
    <2>5. (end < n) = FALSE
      BY <1>1, <2>1
    <2>6. ~w.replay /\ w.replay = (end < n)
      BY <2>4, <2>5
    <2> QED  BY <1>1, <2>3, <2>6 DEF w, end
  <1>14. CASE completed # {}
    <2>1. stop \in from + 1 .. n /\ h[stop].type = "DecisionTaskCompleted"
      BY <1>4, <1>14
    <2>2. stop > 1 /\ h[stop - 1].type = "DecisionTaskStarted"
      <3>1. stop \in 1..Len(h)
        BY <1>1, <2>1
      <3>2. AnswersFollow(h) => (h[stop].type = "DecisionTaskCompleted"
              => stop > 1 /\ h[stop - 1].type = "DecisionTaskStarted")
        BY <3>1 DEF AnswersFollow
      <3>3. AnswersFollow(h)
        OBVIOUS
      <3> QED  BY <2>1, <3>2, <3>3
    <2>3. stop - 1 \in from + 1 .. end
      <3>1. stop - 1 # from
        BY <1>1, <2>1, <2>2
      <3> QED  BY <1>1, <1>8, <2>1, <2>2, <3>1
    <2>4. \A i \in stop .. end : h[i].type # "DecisionTaskStarted"
      <3> TAKE i \in stop .. end
      <3>1. CASE i = stop
        BY <2>1, <3>1
      <3>2. CASE i # stop
        <4>1. i \in stop + 1 .. end
          BY <1>4, <1>1, <3>2
        <4> QED  BY <1>8, <4>1 DEF command, COMMAND_EVENT_TYPES
      <3> QED  BY <3>1, <3>2
    <2>5. w.last_event_id = stop
      <3>1. stop - 1 + 1 = stop
        BY <1>4
      <3> QED  BY <1>12, <2>2, <2>3, <2>4, <3>1
    <2>6. end < n
      BY <1>1, <1>8, <2>4
    <2>7. ended # {}
      <3>1. stop \in from + 1 .. end
        BY <1>1, <1>8, <2>1
      <3> QED  BY <1>10, <2>1, <3>1
    <2>8. command(h[end]) \/ h[end].type = "DecisionTaskCompleted"
      <3>1. end = stop \/ end \in stop + 1 .. end
        BY <1>1, <1>4, <1>8
      <3> QED  BY <1>8, <2>1, <3>1
    <2>9. stop \in from + 1 .. end
      BY <1>1, <1>8, <2>1
    <2> QED  BY <1>1, <1>2, <1>8, <2>5, <2>6, <2>7, <2>8, <2>9 DEF w, end
  <1> QED  BY <1>13, <1>14

\* What gave a future its target: a decision that is pending, or the event of
\* one that was found in the history.
HasOrigin(decisions, applied, h, target) ==
    \/ \E j \in 1..Len(decisions) : from_decision(decisions[j]) = target
    \/ /\ target.id \in 1..applied /\ h[target.id].type \in DiscardingTypes
       /\ from_event(h[target.id]) = target

\* The window that is open: live if it is the last, and otherwise one that ends
\* with an answer or its commands.
WindowsOpen ==
    /\ cursor > 0 => sm.replay = (cursor < Len(snapshot))
    /\ cursor \in 1..Len(snapshot) - 1 => command(snapshot[cursor])
                                           \/ snapshot[cursor].type = "DecisionTaskCompleted"

\* The live window has been opened.
Live == cursor > 0 /\ cursor = Len(snapshot)

\* In it, each decision has the id that the service will give its event.  The
\* last id given out is that of the last decision, until one has been refused.
LiveIds ==
    Live => /\ CanAppend(sm) => sm.last_event_id = Len(snapshot) + 1 + Len(sm.decisions)
            /\ \A i \in 1..Len(sm.decisions) : sm.decisions[i].id = Len(snapshot) + 1 + i

\* The ids of futures have been given out, to decisions.
FuturesKnown ==
    \A f \in 1..Len(futures) :
        /\ futures[f].target.id \in Nat /\ futures[f].target.id <= sm.last_event_id
        /\ HasOrigin(sm.decisions, cursor, snapshot, futures[f].target)

\* No event that closes something has an id that is still to be given out.
ClosersBehind == \A i \in 1..cursor : snapshot[i].type \in Closes => i <= sm.last_event_id

\* The invariant of the ids a run gives out.
IdsInv ==
    /\ sm.marker_ids \subseteq 1..cursor
    /\ sm.last_event_id \in Nat
    /\ WindowsOpen /\ LiveIds /\ FuturesKnown /\ TargetsDistinct /\ ClosersBehind
    /\ phase = "decided" => cursor = Len(snapshot)

\* The futures keep their targets, and there are no new ones.
SameTargets ==
    /\ Len(futures') = Len(futures)
    /\ \A f \in 1..Len(futures) : futures'[f].target = futures[f].target

\* The state manager has the same decisions, and has given out no id, or one for
\* a decision it then refused.
SameIds ==
    /\ sm'.decisions = sm.decisions
    /\ \/ sm'.last_event_id = sm.last_event_id
       \/ ~CanAppend(sm) /\ sm'.last_event_id = NextDecisionId(sm)
    /\ sm'.marker_ids = sm.marker_ids /\ sm'.replay = sm.replay

\* The next id of the run's state manager is a new one.
LEMMA IdsRise ==
    ASSUME RunInv, IdsInv
    PROVE  /\ sm.last_event_id \in Nat
           /\ NextDecisionId(sm) \in Nat /\ NextDecisionId(sm) > sm.last_event_id
           /\ sm.last_event_id + 1 \notin sm.marker_ids =>
                NextDecisionId(sm) = sm.last_event_id + 1
  <1>1. sm.last_event_id \in Nat /\ sm.marker_ids \subseteq 1..cursor
    BY DEF IdsInv
  <1>2. cursor \in Nat
    BY SeqFacts DEF RunInv, RunType, Events
  <1>3. IsFiniteSet(sm.marker_ids)
    <2>1. IsFiniteSet(1..cursor)
      BY <1>2, FS_Interval
    <2> QED  BY <1>1, <2>1, FS_Subset
  <1> QED  BY <1>1, <1>3, NextId

\* No decision gets an id.
LEMMA IdsStay ==
    ASSUME RunInv, IdsInv, UNCHANGED <<snapshot, cursor>>, SameIds, SameTargets,
           phase' = "decided" => cursor = Len(snapshot)
    PROVE  IdsInv'
  <1>1. WindowsOpen'
    BY DEF IdsInv, WindowsOpen, SameIds, command
  <1>2. LiveIds'
    BY DEF IdsInv, LiveIds, Live, SameIds, CanAppend
  <1>3. /\ sm.last_event_id \in Nat /\ sm'.last_event_id \in Nat
        /\ sm.last_event_id <= sm'.last_event_id
    BY IdsRise DEF SameIds
  <1>4. FuturesKnown'
    <2> SUFFICES ASSUME NEW f \in 1..Len(futures)
                 PROVE  /\ futures[f].target.id \in Nat
                        /\ futures[f].target.id <= sm'.last_event_id
                        /\ HasOrigin(sm.decisions, cursor, snapshot, futures[f].target)
      BY DEF FuturesKnown, SameIds, SameTargets
    <2>1. /\ futures[f].target.id \in Nat /\ futures[f].target.id <= sm.last_event_id
          /\ HasOrigin(sm.decisions, cursor, snapshot, futures[f].target)
      BY DEF IdsInv, FuturesKnown
    <2> QED  BY <1>3, <2>1
  <1>5. TargetsDistinct'
    BY DEF IdsInv, TargetsDistinct, SameTargets
  <1>6. ClosersBehind'
    <2> SUFFICES ASSUME NEW i \in 1..cursor, snapshot[i].type \in Closes
                 PROVE  i <= sm'.last_event_id
      BY DEF ClosersBehind
    <2>1. i \in Nat /\ i <= sm.last_event_id
      BY DEF IdsInv, ClosersBehind
    <2> QED  BY <1>3, <2>1
  <1> QED  BY <1>1, <1>2, <1>4, <1>5, <1>6, <1>3 DEF IdsInv, SameIds

\* A step of workflow code gives out the next id, or none.
LEMMA CodeTakes ==
    ASSUME RunInv, CodeMoves
    PROVE  /\ UNCHANGED <<snapshot, cursor, todo>> /\ phase' # "decided"
           /\ \/ SameIds /\ SameTargets
              \/ /\ sm'.marker_ids = sm.marker_ids /\ sm'.replay = sm.replay
                 /\ \E d : /\ Takes(d)
                           /\ SameTargets \/ \E made : /\ made.target = from_decision(d)
                                                       /\ futures' = Append(futures, made)
  <1> DEFINE Given == \E d : /\ Takes(d)
                             /\ SameTargets \/ \E made : /\ made.target = from_decision(d)
                                                         /\ futures' = Append(futures, made)
  <1>1. UNCHANGED <<snapshot, cursor, todo>> /\ phase = "fiber"
    BY DEF CodeMoves
  <1>2. UNCHANGED futures => SameTargets
    BY DEF SameTargets
  <1>3. ASSUME Decides, SameTargets PROVE (SameIds \/ Given)
    BY <1>3 DEF Decides, Refrains, SameIds
  <1>4. Decides => sm'.marker_ids = sm.marker_ids /\ sm'.replay = sm.replay
    BY DEF Decides
  <1>5. CASE Continues
    <2>1. Decides /\ phase' = phase
      BY <1>5 DEF Continues
    <2>2. CASE KeepsObjects \/ HandlesSignal
      BY <1>1, <1>2, <1>3, <1>4, <2>1, <2>2 DEF KeepsObjects, HandlesSignal
    <2>3. CASE CreatesFuture
      <3>1. Given
        BY <2>3 DEF CreatesFuture
      <3> QED  BY <1>1, <1>4, <2>1, <3>1
    <2>4. CASE AddsCallback
      <3>1. SameTargets
        BY <2>4, CallbackAdded DEF SameTargets
      <3> QED  BY <1>1, <1>3, <1>4, <2>1, <3>1
    <2> QED  BY <1>5, <2>2, <2>3, <2>4 DEF Continues
  <1>6. CASE Ends
    BY <1>1, <1>2, <1>3, <1>4, <1>6 DEF Ends, KeepsObjects
  <1>7. CASE Parks \/ Aborts
    BY <1>1, <1>2, <1>7 DEF Parks, Aborts, KeepsObjects, SameIds
  <1> QED  BY <1>5, <1>6, <1>7 DEF CodeMoves

\* The next id is given to a decision, and to the future it may have.
LEMMA TakenIds ==
    ASSUME RunInv, IdsInv, UNCHANGED <<snapshot, cursor>>, phase' # "decided",
           sm'.marker_ids = sm.marker_ids, sm'.replay = sm.replay, NEW d, Takes(d),
           SameTargets \/ \E made : /\ made.target = from_decision(d)
                                    /\ futures' = Append(futures, made)
    PROVE  IdsInv'
  <1> DEFINE n == Len(sm.decisions)
             last == sm.last_event_id
             max == Len(snapshot)
  <1>1. /\ IsSeq(sm.decisions) /\ n \in Nat /\ IsSeq(futures) /\ Len(futures) \in Nat
        /\ max \in Nat /\ cursor \in 0..max
    BY Referents, SeqFacts DEF RunInv, RunType, ManagerOK, Events
  <1>2. last \in Nat /\ sm.marker_ids \subseteq 1..cursor
    BY DEF IdsInv
  <1>3. /\ d.id \in Nat /\ d.id > last /\ sm'.last_event_id = d.id
        /\ last + 1 \notin sm.marker_ids => d.id = last + 1
    BY IdsRise DEF Takes
  <1>4. /\ Len(sm'.decisions) = n + 1 /\ sm'.decisions[n + 1] = d
        /\ \A i \in 1..n : sm'.decisions[i] = sm.decisions[i]
    BY <1>1, SeqAppend DEF Takes
  <1>5. WindowsOpen'
    BY DEF IdsInv, WindowsOpen, command
  <1>6. LiveIds'
    <2> SUFFICES ASSUME Live
                 PROVE  /\ sm'.last_event_id = max + 1 + Len(sm'.decisions)
                        /\ \A i \in 1..Len(sm'.decisions) : sm'.decisions[i].id = max + 1 + i
      BY DEF LiveIds, Live
    <2>1. last = max + 1 + n /\ \A i \in 1..n : sm.decisions[i].id = max + 1 + i
      BY DEF IdsInv, LiveIds, Takes
    <2>4. \A i \in 1..n + 1 : i \in 1..n \/ i = n + 1
      BY <1>1
    <2> HIDE DEF n, max, last
    <2>2. last + 1 \notin 1..cursor
      BY <1>1, <2>1
    <2>3. d.id = max + 1 + (n + 1)
      <3>1. d.id = last + 1
        BY <1>2, <1>3, <2>2
      <3> QED  BY <1>1, <2>1, <3>1
    <2> QED  BY <1>3, <1>4, <2>1, <2>3, <2>4
  <1>7. \A t : HasOrigin(sm.decisions, cursor, snapshot, t)
                 => HasOrigin(sm'.decisions, cursor, snapshot, t)
    <2> TAKE t
    <2>1. \A j \in 1..n : j \in 1..n + 1
      BY <1>1
    <2> QED  BY <1>4, <2>1 DEF HasOrigin
  <1>8. \A f \in 1..Len(futures) :
          /\ futures[f].target.id \in Nat /\ futures[f].target.id < d.id
          /\ HasOrigin(sm'.decisions, cursor, snapshot, futures[f].target)
    <2> TAKE f \in 1..Len(futures)
    <2>1. /\ futures[f].target.id \in Nat /\ futures[f].target.id <= last
          /\ HasOrigin(sm.decisions, cursor, snapshot, futures[f].target)
      BY DEF IdsInv, FuturesKnown
    <2> QED  BY <1>2, <1>3, <1>7, <2>1
  <1>9. CASE SameTargets
    <2>1. FuturesKnown'
      BY <1>3, <1>8, <1>9 DEF FuturesKnown, SameTargets
    <2>2. TargetsDistinct'
      BY <1>9 DEF IdsInv, TargetsDistinct, SameTargets
    <2>3. ClosersBehind'
      BY <1>1, <1>2, <1>3 DEF IdsInv, ClosersBehind
    <2> QED  BY <1>2, <1>3, <1>5, <1>6, <2>1, <2>2, <2>3 DEF IdsInv
  <1>10. ASSUME NEW made, made.target = from_decision(d), futures' = Append(futures, made)
         PROVE  IdsInv'
    <2> DEFINE m == Len(futures)
    <2>1. /\ Len(futures') = m + 1 /\ futures'[m + 1] = made
          /\ \A f \in 1..m : futures'[f] = futures[f]
      BY <1>1, <1>10, SeqAppend
    <2>2. \A f \in 1..m + 1 : f \in 1..m \/ f = m + 1
      BY <1>1
    <2>3. made.target.id = d.id
      BY <1>10 DEF from_decision, Target
    <2>4. HasOrigin(sm'.decisions, cursor, snapshot, made.target)
      <3>1. n + 1 \in 1..Len(sm'.decisions)
        BY <1>1, <1>4
      <3> QED  BY <1>4, <1>10, <3>1 DEF HasOrigin
    <2> HIDE DEF m
    <2>5. FuturesKnown'
      <3> SUFFICES ASSUME NEW f \in 1..m + 1
                   PROVE  /\ futures'[f].target.id \in Nat /\ futures'[f].target.id <= d.id
                          /\ HasOrigin(sm'.decisions, cursor, snapshot, futures'[f].target)
        BY <1>3, <2>1 DEF FuturesKnown
      <3>1. CASE f \in 1..m
        BY <1>3, <1>8, <2>1, <3>1 DEF m
      <3>2. CASE f = m + 1
        BY <1>3, <2>1, <2>3, <2>4, <3>2
      <3> QED  BY <2>2, <3>1, <3>2
    <2>6. TargetsDistinct'
      <3> SUFFICES ASSUME NEW f \in 1..m + 1, NEW g \in 1..m + 1,
                          futures'[f].target = futures'[g].target
                   PROVE  f = g
        BY <2>1 DEF TargetsDistinct
      <3>1. \A h \in 1..m : futures'[h].target.id \in Nat /\ futures'[h].target.id < d.id
        BY <1>8, <2>1 DEF m
      <3>2. futures'[m + 1].target.id = d.id
        BY <2>1, <2>3
      <3>3. CASE f \in 1..m /\ g \in 1..m
        BY <2>1, <3>3 DEF IdsInv, TargetsDistinct, m
      <3>4. CASE f = m + 1 \/ g = m + 1
        <4>1. \A h \in 1..m : futures'[h].target.id # d.id
          BY <1>3, <3>1
        <4> QED  BY <2>2, <3>2, <3>4, <4>1
      <3> QED  BY <2>2, <3>3, <3>4
    <2>7. ClosersBehind'
      BY <1>1, <1>2, <1>3 DEF IdsInv, ClosersBehind
    <2> QED  BY <1>2, <1>3, <1>5, <1>6, <2>5, <2>6, <2>7 DEF IdsInv
  <1> QED  BY <1>9, <1>10


\* The event that is applied next is one of the window, and it is left.
LEMMA HeadLeft ==
    ASSUME RunInv, todo # <<>>
    PROVE  /\ Head(todo).id \in 1..cursor /\ Head(todo).id \in 1..Len(snapshot)
           /\ Head(todo) = snapshot[Head(todo).id]
           /\ Left(Head(todo).id)
  <1> DEFINE e == Head(todo)
  <1>1. /\ IsSeq(todo) /\ cursor \in 0..Len(snapshot) /\ Len(snapshot) \in Nat
        /\ \A k \in 1..Len(todo) : todo[k].id \in 1..cursor /\ todo[k] = snapshot[todo[k].id]
    BY SeqFacts DEF RunInv, RunType, Events
  <1>2. 1 \in 1..Len(todo) /\ e = todo[1]
    BY <1>1, SeqTail
  <1> HIDE DEF e
  <1>3. e.id \in 1..cursor /\ e.id \in 1..Len(snapshot) /\ e = snapshot[e.id] /\ todo[1].id = e.id
    BY <1>1, <1>2
  <1>4. Left(e.id)
    BY <1>2, <1>3 DEF Left
  <1> QED  BY <1>3, <1>4 DEF e

\* What applying an event leaves of decisions and ids.
LEMMA Applying ==
    ASSUME RunInv, NEW e, ApplyError(sm, e) = "none"
    PROVE  LET m == apply_event(sm, e)
           IN  /\ m.last_event_id = sm.last_event_id /\ m.replay = sm.replay
               /\ IF e.type \in DiscardingTypes
                    THEN /\ m.decisions = Tail(sm.decisions) /\ m.marker_ids = sm.marker_ids
                         /\ sm.decisions # <<>>
                         /\ from_decision(Head(sm.decisions)) = from_event(e)
                    ELSE /\ m.decisions = sm.decisions
                         /\ m.marker_ids = sm.marker_ids
                              \/ m.marker_ids = sm.marker_ids \cup {e.id}
  <1> DEFINE tracked == track(sm, e)
             m == apply_event(sm, e)
             Same(s) == /\ s.decisions = sm.decisions /\ s.marker_ids = sm.marker_ids
                        /\ s.last_event_id = sm.last_event_id /\ s.replay = sm.replay
  <1>1. DOMAIN tracked = ManagerFields /\ Same(tracked)
    BY DEF track, RunInv, ManagerOK, ManagerFields
  <1>2. m = IF e.type \in DiscardingTypes
              THEN [tracked EXCEPT !.decisions = Tail(@)]
              ELSE IF e.type = "MarkerRecorded" THEN handle_marker(tracked, e) ELSE tracked
    BY DEF apply_event
  <1> HIDE DEF tracked, m
  <1>3. CASE e.type \in DiscardingTypes
    <2>1. sm.decisions # <<>> /\ from_decision(Head(sm.decisions)) = from_event(e)
      BY <1>3 DEF ApplyError, DiscardMatches, DiscardingTypes
    <2>2. /\ m.decisions = Tail(sm.decisions) /\ m.marker_ids = sm.marker_ids
          /\ m.last_event_id = sm.last_event_id /\ m.replay = sm.replay
      BY <1>1, <1>2, <1>3 DEF ManagerFields
    <2> QED  BY <1>3, <2>1, <2>2 DEF m
  <1>4. CASE e.type \notin DiscardingTypes /\ e.type = "MarkerRecorded"
    <2>1. m = handle_marker(tracked, e)
      BY <1>2, <1>4
    <2>2. /\ m.decisions = sm.decisions /\ m.marker_ids = sm.marker_ids \cup {e.id}
          /\ m.last_event_id = sm.last_event_id /\ m.replay = sm.replay
      BY <1>1, <2>1 DEF handle_marker, RememberRelease, ManagerFields
    <2> QED  BY <1>4, <2>2 DEF m
  <1>5. CASE e.type \notin DiscardingTypes /\ e.type # "MarkerRecorded"
    BY <1>1, <1>2, <1>5 DEF m
  <1> QED  BY <1>3, <1>4, <1>5

\* The events that take decisions off the list have the ids of their own.
LEMMA DiscardId ==
    ASSUME NEW e, e.type \in DiscardingTypes
    PROVE  decision_id(e) = e.id /\ from_event(e).id = e.id
  BY DEF DiscardingTypes, decision_id, EVENT_TYPES, CHILD_WORKFLOW_EVENTS, from_event, Target

\* Applying an event keeps the invariant: a decision it takes off the list is in
\* the history, and no such event is left in the live window.
LEMMA ApplyEventIds ==
    ASSUME RunInv, IdsInv, ApplyEvent
    PROVE  IdsInv'
  <1> DEFINE e == Head(todo)
  <1>1. phase = "apply" /\ todo # <<>>
    BY DEF ApplyEvent, AtRoot
  <1>2. CASE ApplyError(sm, e) # "none"
    <2>1. Abort(ApplyError(sm, e))
      BY <1>2 DEF ApplyEvent
    <2> QED  BY <2>1, IdsStay DEF Abort, SameIds, SameTargets
  <1>3. CASE ApplyError(sm, e) = "none"
    <2>1. sm' = apply_event(sm, e) /\ UNCHANGED <<phase, snapshot, cursor, futures>>
      BY <1>3 DEF ApplyEvent
    <2>2. e.id \in 1..cursor /\ e = snapshot[e.id]
      BY <1>1, HeadLeft
    <2> HIDE DEF e
    <2>3. /\ sm'.last_event_id = sm.last_event_id /\ sm'.replay = sm.replay
          /\ e.type \in DiscardingTypes =>
               /\ sm'.decisions = Tail(sm.decisions) /\ sm'.marker_ids = sm.marker_ids
               /\ sm.decisions # <<>>
               /\ from_decision(Head(sm.decisions)) = from_event(e)
          /\ e.type \notin DiscardingTypes =>
               /\ sm'.decisions = sm.decisions
               /\ sm'.marker_ids = sm.marker_ids \/ sm'.marker_ids = sm.marker_ids \cup {e.id}
      BY <1>3, <2>1, Applying
    <2>4. sm'.marker_ids \subseteq 1..cursor
      BY <2>2, <2>3 DEF IdsInv
    <2>5. WindowsOpen' /\ TargetsDistinct' /\ ClosersBehind'
      BY <2>1, <2>3 DEF IdsInv, WindowsOpen, TargetsDistinct, ClosersBehind, command
    <2>6. CASE e.type \notin DiscardingTypes
      <3>1. LiveIds' /\ FuturesKnown'
        BY <2>1, <2>3, <2>6 DEF IdsInv, LiveIds, Live, FuturesKnown, CanAppend
      <3> QED  BY <1>1, <2>1, <2>3, <2>4, <2>5, <3>1 DEF IdsInv
    <2>7. CASE e.type \in DiscardingTypes
      <3> DEFINE D == sm.decisions
      <3>1. /\ IsSeq(D) /\ D # <<>> /\ Len(D) \in Nat \ {0} /\ Head(D) = D[1]
            /\ Len(Tail(D)) = Len(D) - 1 /\ \A j \in 1..Len(D) - 1 : Tail(D)[j] = D[j + 1]
        BY <2>3, <2>7, SeqTail DEF RunInv, ManagerOK
      <3>2. from_decision(D[1]) = from_event(e) /\ sm'.decisions = Tail(D)
        BY <2>3, <2>7, <3>1
      <3>3. D[1].id = e.id /\ from_event(e).id = e.id
        BY <2>7, <3>2, DiscardId DEF from_decision, Target
      <3>4. ~Live
        <4>1. Live => D[1].id = Len(snapshot) + 1 + 1
          BY <3>1 DEF IdsInv, LiveIds
        <4>2. Len(snapshot) \in Nat /\ cursor \in 0..Len(snapshot)
          BY SeqFacts DEF RunInv, RunType, Events
        <4> QED  BY <2>2, <3>3, <4>1, <4>2
      <3>5. LiveIds'
        BY <2>1, <3>4 DEF LiveIds, Live
      <3>6. ASSUME NEW t, HasOrigin(D, cursor, snapshot, t)
            PROVE  HasOrigin(Tail(D), cursor, snapshot, t)
        <4>1. CASE t = from_event(e)
          BY <2>2, <2>7, <3>3, <4>1 DEF HasOrigin
        <4>2. CASE t # from_event(e)
          <5>1. ASSUME NEW j \in 1..Len(D), from_decision(D[j]) = t
                PROVE  \E k \in 1..Len(Tail(D)) : from_decision(Tail(D)[k]) = t
            <6>1. j # 1
              BY <3>2, <4>2, <5>1
            <6>2. j - 1 \in 1..Len(D) - 1 /\ (j - 1) + 1 = j
              BY <3>1, <6>1
            <6>3. Tail(D)[j - 1] = D[j] /\ j - 1 \in 1..Len(Tail(D))
              BY <3>1, <6>2
            <6> QED  BY <5>1, <6>3
          <5> QED  BY <3>6, <5>1 DEF HasOrigin
        <4> QED  BY <4>1, <4>2
      <3> HIDE DEF D
      <3>7. FuturesKnown'
        <4>1. \A f \in 1..Len(futures) : HasOrigin(D, cursor, snapshot, futures[f].target)
          BY DEF IdsInv, FuturesKnown, D
        <4> QED  BY <2>1, <2>3, <3>2, <3>6, <4>1 DEF IdsInv, FuturesKnown
      <3> QED  BY <1>1, <2>1, <2>3, <2>4, <2>5, <3>5, <3>7 DEF IdsInv
    <2> QED  BY <2>6, <2>7
  <1> QED  BY <1>2, <1>3


\* The window that is opened next: where it ends, and the last id it leaves, which
\* is behind all the events of earlier windows.
LEMMA WindowOpens ==
    ASSUME RunInv, RecordInv, ServiceInv, IdsInv, NextWindow
    PROVE  LET w == next_window(snapshot, cursor)
               end == WindowEnd(snapshot, cursor)
               n == Len(snapshot)
           IN  /\ end \in cursor + 1 .. n
               /\ w.replay = (end < n)
               /\ ~w.replay => w.last_event_id = n + 1
               /\ w.replay => /\ w.last_event_id \in cursor + 1 .. end
                              /\ \A i \in w.last_event_id + 1 .. end : command(snapshot[i])
                              /\ command(snapshot[end]) \/ snapshot[end].type = "DecisionTaskCompleted"
               /\ w.last_event_id \in Nat /\ w.last_event_id > cursor
  <1> DEFINE w == next_window(snapshot, cursor)
             end == WindowEnd(snapshot, cursor)
             n == Len(snapshot)
  <1>1. phase = "apply" /\ cursor < n
    BY DEF NextWindow, AtRoot
  <1>2. Events(snapshot) /\ (\A i \in 1..n : snapshot[i].id = i) /\ n \in Nat /\ cursor \in Nat
    BY SeqFacts DEF RunInv, RunType, Events
  <1>3. AnswersFollow(snapshot)
    <2>1. Len(history) \in Nat /\ n <= Len(history) /\ \A i \in 1..n : snapshot[i] = history[i]
      BY SeqFacts DEF RecordInv, ServiceInv, HistoryOK, Events
    <2> SUFFICES ASSUME NEW i \in 1..n, snapshot[i].type = "DecisionTaskCompleted"
                 PROVE  i > 1 /\ snapshot[i - 1].type = "DecisionTaskStarted"
      BY DEF AnswersFollow
    <2>2. i \in 1..Len(history) /\ history[i].type = "DecisionTaskCompleted"
      BY <1>2, <2>1
    <2>3. i > 1 /\ history[i - 1].type = "DecisionTaskStarted"
      BY <2>2 DEF RecordInv, AnswersFollow
    <2>4. i - 1 \in 1..n
      BY <1>2, <2>3
    <2> QED  BY <2>1, <2>3, <2>4
  <1>4. snapshot[n].type = "DecisionTaskStarted"
    BY <1>1 DEF RecordInv
  <1>5. cursor > 0 => snapshot[cursor].type # "DecisionTaskStarted"
    <2>1. cursor > 0 => cursor \in 1..n - 1
      BY <1>1, <1>2
    <2> QED  BY <2>1 DEF IdsInv, WindowsOpen, command, COMMAND_EVENT_TYPES
  <1>6. /\ end \in cursor + 1 .. n
        /\ w.replay = (end < n)
        /\ ~w.replay => w.last_event_id = n + 1
        /\ w.replay => /\ w.last_event_id \in cursor + 1 .. end
                       /\ \A i \in w.last_event_id + 1 .. end : command(snapshot[i])
                       /\ command(snapshot[end]) \/ snapshot[end].type = "DecisionTaskCompleted"
    BY <1>1, <1>2, <1>3, <1>4, <1>5, WindowIds
  <1> HIDE DEF w, end, n
  <1>7. w.last_event_id \in Nat /\ w.last_event_id > cursor
    <2>1. CASE w.replay
      BY <1>2, <1>6, <2>1
    <2>2. CASE ~w.replay
      BY <1>1, <1>2, <1>6, <2>2
    <2> QED  BY <2>1, <2>2
  <1> QED  BY <1>6, <1>7 DEF w, end, n

\* Opening a window keeps it, provided that no decision is left over: the ids
\* go on behind all the events of earlier windows.
LEMMA NextWindowIds ==
    ASSUME RunInv, RecordInv, ServiceInv, IdsInv, NothingLeftOver, NextWindow
    PROVE  IdsInv'
  <1> DEFINE w == next_window(snapshot, cursor)
             end == WindowEnd(snapshot, cursor)
             n == Len(snapshot)
  <1>1. /\ phase = "apply" /\ AtRoot /\ todo = <<>> /\ cursor < n
        /\ sm' = OpenWindow(sm, w) /\ cursor' = end
        /\ UNCHANGED <<phase, snapshot, futures>>
    BY DEF NextWindow, AtRoot
  <1>2. sm.decisions = <<>>
    BY <1>1 DEF NothingLeftOver
  <1>3. n \in Nat /\ cursor \in Nat
    BY SeqFacts DEF RunInv, RunType, Events
  <1>4. /\ end \in cursor + 1 .. n
        /\ w.replay = (end < n)
        /\ ~w.replay => w.last_event_id = n + 1
        /\ w.replay => /\ w.last_event_id \in cursor + 1 .. end
                       /\ \A i \in w.last_event_id + 1 .. end : command(snapshot[i])
                       /\ command(snapshot[end]) \/ snapshot[end].type = "DecisionTaskCompleted"
        /\ w.last_event_id \in Nat /\ w.last_event_id > cursor
    BY WindowOpens
  <1> HIDE DEF w, end
  <1>5. /\ sm'.replay = w.replay /\ sm'.last_event_id = w.last_event_id
        /\ sm'.decisions = sm.decisions /\ sm'.marker_ids = sm.marker_ids
    BY <1>1 DEF OpenWindow, RunInv, ManagerOK, ManagerFields
  <1> HIDE DEF n
  <1>6. sm'.marker_ids \subseteq 1..cursor'
    <2>1. sm.marker_ids \subseteq 1..cursor
      BY DEF IdsInv
    <2>2. 1..cursor \subseteq 1..end
      BY <1>3, <1>4
    <2> QED  BY <1>1, <1>5, <2>1, <2>2
  <1>7. WindowsOpen'
    <2>1. ASSUME end < n PROVE w.replay
      BY <1>4, <2>1
    <2>2. end \in 1..n - 1 => end < n
      BY <1>3
    <2> QED  BY <1>1, <1>4, <1>5, <2>1, <2>2 DEF WindowsOpen, command, n
  <1>8. LiveIds'
    <2> SUFFICES ASSUME end = n
                 PROVE  /\ w.last_event_id = n + 1 + Len(sm'.decisions)
                        /\ \A i \in 1..Len(sm'.decisions) : sm'.decisions[i].id = n + 1 + i
      BY <1>1, <1>5 DEF LiveIds, Live, n
    <2>1. Len(sm'.decisions) = 0
      BY <1>2, <1>5, SeqShort
    <2>2. ~(end < n)
      BY <1>3
    <2>3. ~w.replay
      BY <1>4, <2>2
    <2> QED  BY <1>3, <1>4, <2>1, <2>3
  <1>9. FuturesKnown'
    <2> SUFFICES ASSUME NEW f \in 1..Len(futures)
                 PROVE  /\ futures[f].target.id \in Nat /\ futures[f].target.id <= w.last_event_id
                        /\ HasOrigin(sm'.decisions, end, snapshot, futures[f].target)
      BY <1>1, <1>5 DEF FuturesKnown
    <2> DEFINE t == futures[f].target
    <2>1. HasOrigin(sm.decisions, cursor, snapshot, t)
      BY DEF IdsInv, FuturesKnown
    <2> HIDE DEF t
    <2>2. /\ t.id \in 1..cursor /\ snapshot[t.id].type \in DiscardingTypes
          /\ from_event(snapshot[t.id]) = t
      BY <1>2, <2>1, SeqShort DEF HasOrigin
    <2>3. t.id \in 1..end /\ t.id \in Nat /\ t.id <= w.last_event_id
      BY <1>3, <1>4, <2>2
    <2> QED  BY <2>2, <2>3 DEF HasOrigin, t
  <1>10. ClosersBehind'
    <2> SUFFICES ASSUME NEW i \in 1..end, snapshot[i].type \in Closes
                 PROVE  i <= w.last_event_id
      BY <1>1, <1>5 DEF ClosersBehind
    <2>1. ~command(snapshot[i])
      BY DEF command, COMMAND_EVENT_TYPES, Closes, ClosesActivity, ClosesTimer, ClosesChild
    <2>2. CASE w.replay
      <3>1. i \notin w.last_event_id + 1 .. end
        BY <1>4, <2>1, <2>2
      <3> QED  BY <1>3, <1>4, <3>1
    <2>3. CASE ~w.replay
      BY <1>3, <1>4, <2>3
    <2> QED  BY <2>2, <2>3
  <1>11. TargetsDistinct'
    BY <1>1 DEF IdsInv, TargetsDistinct
  <1> QED  BY <1>1, <1>4, <1>5, <1>6, <1>7, <1>8, <1>9, <1>10, <1>11 DEF IdsInv

\* No step of a run breaks the invariant of its ids.
LEMMA RunIds ==
    ASSUME RunInv, FiberInv, ServiceInv, RecordInv, IdsInv, NothingLeftOver, Run
    PROVE  IdsInv'
  <1>1. CASE NextWindow
    BY <1>1, NextWindowIds
  <1>2. CASE ApplyEvent
    BY <1>2, ApplyEventIds
  <1>3. CASE RunHandler
    <2>1. HandlerMoves
      BY <1>3, RunHandlerMoves
    <2> QED  BY <2>1, IdsStay DEF HandlerMoves, SameIds, SameTargets
  <1>4. CASE FinishRun
    BY <1>4, IdsStay DEF FinishRun, SameIds, SameTargets
  <1>5. CASE CodeStep
    <2>1. CodeMoves
      BY <1>5, CodeStepMoves
    <2>2. CASE SameIds /\ SameTargets
      BY <2>1, <2>2, CodeTakes, IdsStay
    <2>3. CASE ~(SameIds /\ SameTargets)
      <3>1. PICK d : /\ Takes(d)
                     /\ SameTargets \/ \E made : /\ made.target = from_decision(d)
                                                 /\ futures' = Append(futures, made)
        BY <2>1, <2>3, CodeTakes
      <3> QED  BY <2>1, <2>3, <3>1, CodeTakes, TakenIds
    <2> QED  BY <2>2, <2>3
  <1> QED  BY <1>1, <1>2, <1>3, <1>4, <1>5 DEF Run, RunStep, RootStep

\* A new run has given out no id.
LEMMA FreshIds ==
    ASSUME NEW at, at # "decided", NEW raised, NEW h, NEW registered,
           ResetRun(at, raised, h, registered)
    PROVE  IdsInv'
  <1>1. /\ cursor' = 0 /\ futures' = <<>> /\ sm' = NewStateManager /\ phase' # "decided"
    BY DEF ResetRun
  <1>2. sm'.marker_ids = {} /\ sm'.last_event_id = 0
    BY <1>1 DEF NewStateManager
  <1> QED  BY <1>1, <1>2, SeqShort DEF IdsInv, WindowsOpen, LiveIds, Live, FuturesKnown,
                                       TargetsDistinct, ClosersBehind

\* Neither has a new execution.
LEMMA IdsInit ==
    ASSUME Init
    PROVE  IdsInv
  <1>1. cursor = 0 /\ futures = <<>> /\ sm = NewStateManager /\ phase = "idle"
    BY DEF Init, InitRun
  <1>2. sm.marker_ids = {} /\ sm.last_event_id = 0
    BY <1>1 DEF NewStateManager
  <1> QED  BY <1>1, <1>2, SeqShort DEF IdsInv, WindowsOpen, LiveIds, Live, FuturesKnown,
                                       TargetsDistinct, ClosersBehind

\* No step breaks the invariant of the ids.
LEMMA IdsNext ==
    ASSUME FiberInvs, RecordInv, IdsInv, NothingLeftOver, [Next]_vars
    PROVE  IdsInv'
  <1>1. CASE Run
    BY <1>1, RunIds DEF FiberInvs, IInv
  <1>2. CASE ~Run
    <2>1. CASE StartRun(history') \/ ResetRun("failed", "not_run", history', <<>>)
      BY <2>1, FreshIds DEF StartRun
    <2>2. CASE EndRun
      BY <2>2, FreshIds DEF EndRun
    <2>3. CASE UNCHANGED runVars
      <3>1. SameIds /\ SameTargets /\ UNCHANGED <<snapshot, cursor, phase>>
        BY <2>3 DEF runVars, SameIds, SameTargets
      <3> QED  BY <3>1, IdsStay DEF IdsInv, FiberInvs, IInv
    <2> QED  BY <1>2, <2>1, <2>2, <2>3, BetweenRuns
  <1> QED  BY <1>1, <1>2

\* The record is sound throughout.
LEMMA RecordInvariant == Spec => []RecordInv
  <1>1. Init => RecordInv
    BY RecordInit
  <1>2. FiberInvs /\ RecordInv /\ [Next]_vars => RecordInv'
    BY RecordInvNext DEF FiberInvs, IInv
  <1> QED  BY <1>1, <1>2, FiberInvariant, PTL DEF Spec

\* The ids are sound throughout, if no decision is left over at a window's end.
LEMMA IdsInvariant == Spec /\ []NothingLeftOver => []IdsInv
  <1>1. Init => IdsInv
    BY IdsInit
  <1>2. FiberInvs /\ RecordInv /\ IdsInv /\ NothingLeftOver /\ [Next]_vars => IdsInv'
    BY IdsNext
  <1> QED  BY <1>1, <1>2, FiberInvariant, RecordInvariant, PTL DEF Spec

\* If no decision is left over when a window opens, then in every program, under
\* all the failures the service and the network have, code is given the ids that the
\* service will give the events of its decisions, and no two futures of a run
\* have the same target (StateManager#next_event_id, #apply and #schedule,
\* History::Window#add, History#next_window).
THEOREM WorkflowPredictsIds == Spec /\ []NothingLeftOver => []PredictedIds
  <1>1. RunInv /\ RecordInv /\ IdsInv => PredictedIds
    <2> SUFFICES ASSUME RunInv, RecordInv, IdsInv PROVE PredictedIds
      OBVIOUS
    <2>1. phase = "decided" => Live
      <3>1. Len(snapshot) \in Nat /\ (snapshot = <<>> <=> Len(snapshot) = 0)
        BY SeqFacts DEF RunInv, RunType, Events
      <3>2. phase = "decided" => cursor = Len(snapshot) /\ snapshot # <<>>
        BY DEF IdsInv, RecordInv
      <3> QED  BY <3>1, <3>2 DEF Live
    <2> QED  BY <2>1 DEF PredictedIds, IdsInv, LiveIds
  <1>2. FiberInvs => RunInv
    BY DEF FiberInvs, IInv
  <1> QED  BY <1>1, <1>2, FiberInvariant, RecordInvariant, IdsInvariant, PTL

\* So no fiber of any program is stranded, either.
THEOREM WorkflowWakesAll == Spec /\ []NothingLeftOver => []NoFiberStranded
  <1>1. PredictedIds => TargetsDistinct
    BY DEF PredictedIds
  <1> QED  BY <1>1, WorkflowPredictsIds, WorkflowWakesFibers, PTL

-----------------------------------------------------------------------------
(* What the events of commands say of their targets.                         *)

\* The types of the targets that the events of commands have.
CommandTargets == [
    ActivityTaskScheduled |-> "activity",
    ActivityTaskCancelRequested |-> "cancel_activity_request",
    RequestCancelActivityTaskFailed |-> "cancel_activity_request",
    TimerStarted |-> "timer",
    TimerCanceled |-> "cancel_timer_request",
    StartChildWorkflowExecutionInitiated |-> "child_workflow" ]

\* The event of a command has the target of its decision, with its own id.
LEMMA TargetsOfCommands ==
    ASSUME NEW e, e.type \in DiscardingTypes
    PROVE  from_event(e) = Target(e.id, CommandTargets[e.type])
  <1> DEFINE type == e.type
             t == Segments[type]
             T == EVENT_TARGET_TYPES
             M == Matches(type)
  <1>1. type \in EventTypes
    BY DEF EventTypes, Segments, DiscardingTypes
  <1>2. /\ T[1][2] = "cancel_activity_request" /\ T[2][2] = "activity"
        /\ T[3][2] = "cancel_activity_request" /\ T[4][2] = "cancel_timer_request"
        /\ T[5][2] = "timer" /\ T[8][2] = "child_workflow"
    BY DEF EVENT_TARGET_TYPES
  <1>3. ASSUME NEW a, NEW b, t = <<a, b>>
        PROVE  IsSeq(t) /\ Len(t) >= 2 /\ t[1] = a /\ t[2] = b
    BY <1>3, SeqShort
  <1>4. decision_id(e) = e.id
    BY DiscardId
  <1>5. SUFFICES EventTargetType[type] = CommandTargets[type]
    BY <1>4 DEF from_event
  <1>6. CASE type = "ActivityTaskScheduled"
    <2>1. t[1] = "ActivityTask" /\ t[2] # "Cancel" /\ IsSeq(t) /\ Len(t) >= 2
      BY <1>3, <1>6 DEF Segments
    <2> HIDE DEF t, type
    <2>2. 1 \notin M /\ 2 \in M /\ M \subseteq 1..16
      BY <1>1, <2>1, TableMatches DEF t
    <2>3. EventTargetType[type] = "activity"
      BY <1>1, <1>2, <2>2, FirstRow
    <2> QED  BY <1>6, <2>3 DEF CommandTargets
  <1>7. CASE type = "ActivityTaskCancelRequested"
    <2>1. t[1] = "ActivityTask" /\ t[2] = "Cancel" /\ IsSeq(t) /\ Len(t) >= 2
      <3>1. t = <<"ActivityTask", "Cancel", "Requested">>
        BY <1>7 DEF Segments
      <3>2. LET u == <<"ActivityTask", "Cancel", "Requested">>
            IN  u \in Seq({"ActivityTask", "Cancel", "Requested"}) /\ Len(u) = 3
                  /\ u[1] = "ActivityTask" /\ u[2] = "Cancel"
        OBVIOUS
      <3>3. IsSeq(<<"ActivityTask", "Cancel", "Requested">>)
        BY <3>2, SeqAny
      <3> HIDE DEF t
      <3> QED  BY <3>1, <3>2, <3>3
    <2> HIDE DEF t, type
    <2>2. 1 \in M /\ M \subseteq 1..16
      BY <1>1, <2>1, TableMatches DEF t
    <2>3. EventTargetType[type] = "cancel_activity_request"
      BY <1>1, <1>2, <2>2, FirstRow
    <2> QED  BY <1>7, <2>3 DEF CommandTargets
  <1>8. CASE type = "RequestCancelActivityTaskFailed"
    <2>1. t[1] = "RequestCancelActivityTask" /\ IsSeq(t) /\ Len(t) >= 2
      BY <1>3, <1>8 DEF Segments
    <2> HIDE DEF t, type
    <2>2. (\A j \in 1..2 : j \notin M) /\ 3 \in M /\ M \subseteq 1..16
      BY <1>1, <2>1, TableMatches DEF t
    <2>3. EventTargetType[type] = "cancel_activity_request"
      BY <1>1, <1>2, <2>2, FirstRow
    <2> QED  BY <1>8, <2>3 DEF CommandTargets
  <1>9. CASE type = "TimerStarted"
    <2>1. t[1] = "Timer" /\ t[2] # "Canceled" /\ IsSeq(t) /\ Len(t) >= 2
      BY <1>3, <1>9 DEF Segments
    <2> HIDE DEF t, type
    <2>2. (\A j \in 1..4 : j \notin M) /\ 5 \in M /\ M \subseteq 1..16
      BY <1>1, <2>1, TableMatches DEF t
    <2>3. EventTargetType[type] = "timer"
      BY <1>1, <1>2, <2>2, FirstRow
    <2> QED  BY <1>9, <2>3 DEF CommandTargets
  <1>10. CASE type = "TimerCanceled"
    <2>1. t[1] = "Timer" /\ t[2] = "Canceled" /\ IsSeq(t) /\ Len(t) >= 2
      BY <1>3, <1>10 DEF Segments
    <2> HIDE DEF t, type
    <2>2. (\A j \in 1..3 : j \notin M) /\ 4 \in M /\ M \subseteq 1..16
      BY <1>1, <2>1, TableMatches DEF t
    <2>3. EventTargetType[type] = "cancel_timer_request"
      BY <1>1, <1>2, <2>2, FirstRow
    <2> QED  BY <1>10, <2>3 DEF CommandTargets
  <1>11. CASE type = "StartChildWorkflowExecutionInitiated"
    <2>1. t[1] = "StartChildWorkflowExecution" /\ IsSeq(t) /\ Len(t) >= 2
      BY <1>3, <1>11 DEF Segments
    <2> HIDE DEF t, type
    <2>2. (\A j \in 1..7 : j \notin M) /\ 8 \in M /\ M \subseteq 1..16
      BY <1>1, <2>1, TableMatches DEF t
    <2>3. EventTargetType[type] = "child_workflow"
      BY <1>1, <1>2, <2>2, FirstRow
    <2> QED  BY <1>11, <2>3 DEF CommandTargets
  <1> QED  BY <1>6, <1>7, <1>8, <1>9, <1>10, <1>11 DEF DiscardingTypes

\* What is at a position that was selected is in the selection.
LEMMA SelectAtHas ==
    ASSUME NEW s, IsSeq(s), NEW P, P \subseteq 1..Len(s)
    PROVE  /\ IsSeq(SelectAt(s, P))
           /\ \A j \in P : \E k \in 1..Len(SelectAt(s, P)) : SelectAt(s, P)[k] = s[j]
  <1> DEFINE u == SelectAt(s, P)
             N == Cardinality(P)
  <1>0. Len(s) \in Nat
    BY SeqFacts
  <1>1. IsSeq(u) /\ Len(u) = N
    BY <1>0, SelectAtKeeps
  <1>2. \A k \in 1..N : u[k] = s[Nth(P, k)]
    BY DEF SelectAt
  <1>3. \A j \in P : \E k \in 1..N : Nth(P, k) = j
    BY <1>0, SelectAtKeeps
  <1> HIDE DEF u, N
  <1> QED  BY <1>1, <1>2, <1>3 DEF u

\* Every event of a window that is no decision task's is applied.
LEMMA WindowComplete ==
    ASSUME NEW h, Events(h), \A i \in 1..Len(h) : h[i].id = i,
           NEW from \in Nat, from < Len(h),
           NEW i \in from + 1 .. WindowEnd(h, from), h[i].type \notin DecisionTaskTypes
    PROVE  LET t == Ordered(next_window(h, from)) IN \E k \in 1..Len(t) : t[k].id = i
  <1> DEFINE to == WindowEnd(h, from)
             part == SubSeq(h, from + 1, to)
             n == Len(part)
             Of(types) == {j \in 1..n : part[j].type \in types}
             P == Of({"MarkerRecorded"})
             Q == 1..n \ (Of(DecisionTaskTypes) \cup P)
             p == SelectAt(part, P)
             q == SelectAt(part, Q)
             t == p \o q
  <1>1. IsSeq(h) /\ Len(h) \in Nat /\ to \in from + 1 .. Len(h)
    BY SeqFacts, WindowAdvances DEF Events
  <1>2. Ordered(next_window(h, from)) = t
    BY DEF Ordered, next_window
  <1> HIDE DEF to
  <1>3. IsSeq(part) /\ n = to - from /\ \A j \in 1..n : part[j] = h[from + j]
    BY <1>1, SeqSub
  <1> HIDE DEF part
  <1> DEFINE j == i - from
  <1>4. j \in 1..n /\ from + j = i /\ n \in Nat /\ i \in 1..Len(h)
    BY <1>1, <1>3 DEF to
  <1> HIDE DEF j, n
  <1>5. part[j] = h[i] /\ part[j].id = i
    BY <1>3, <1>4
  <1>6. j \in P \/ j \in Q
    BY <1>4, <1>5
  <1>7. P \subseteq 1..n /\ Q \subseteq 1..n
    OBVIOUS
  <1> HIDE DEF P, Q
  <1>8. IsSeq(part) /\ P \subseteq 1..Len(part) /\ Q \subseteq 1..Len(part)
    BY <1>3, <1>7 DEF n
  <1>9. /\ IsSeq(p) /\ \A m \in P : \E k \in 1..Len(p) : p[k] = part[m]
        /\ IsSeq(q) /\ \A m \in Q : \E k \in 1..Len(q) : q[k] = part[m]
    BY <1>8, SelectAtHas
  <1> HIDE DEF p, q
  <1>10. /\ Len(t) = Len(p) + Len(q) /\ Len(p) \in Nat /\ Len(q) \in Nat
         /\ \A k \in 1..Len(p) : t[k] = p[k]
         /\ \A k \in 1..Len(q) : t[Len(p) + k] = q[k]
    BY <1>9, SeqFacts, SeqConcat
  <1> HIDE DEF t
  <1>11. CASE j \in P
    <2>1. PICK k \in 1..Len(p) : p[k] = part[j]
      BY <1>9, <1>11
    <2>2. k \in 1..Len(t) /\ t[k].id = i
      BY <1>5, <1>10, <2>1
    <2> QED  BY <1>2, <2>2
  <1>12. CASE j \in Q
    <2>1. PICK k \in 1..Len(q) : q[k] = part[j]
      BY <1>9, <1>12
    <2>2. Len(p) + k \in 1..Len(t) /\ t[Len(p) + k].id = i
      BY <1>5, <1>10, <2>1
    <2> QED  BY <1>2, <2>2
  <1> QED  BY <1>6, <1>11, <1>12


-----------------------------------------------------------------------------
(* Futures and the history.                                                  *)

\* The events that make a future ready; the others that close something fail it.
ReadyTypes == {"ActivityTaskCompleted", "TimerFired", "ChildWorkflowExecutionCompleted"}

\* The state that an event gives the future it settles.
AsTold(e) == IF e.type \in ReadyTypes THEN "ready" ELSE "failed"

\* The state that a handler leaves its future in.
Makes(act) == IF act.kind = "set" THEN "ready" ELSE "failed"

\* A handler is due that will do to the future f what the event e says.
Due(acts, f, e) ==
    \E k \in 1..Len(acts) : Resolves(acts[k]) /\ acts[k].future = f /\ Makes(acts[k]) = AsTold(e)

\* A future is as an event said that has been applied, or about to become so.
Applied ==
    \A i \in 1..Len(snapshot) : \A f \in 1..Len(futures) : ~Left(i) /\ Settles(i, f) =>
        futures[f].state = AsTold(snapshot[i]) \/ Due(agenda, f, snapshot[i])

\* A future that is not open is as an event said that was applied.
Settled ==
    \A f \in 1..Len(futures) : futures[f].state # "pending" =>
        \E i \in 1..cursor : Settles(i, f) /\ AsTold(snapshot[i]) = futures[f].state

\* A handler that is due to resolve a future does what an event said.
DueFrom ==
    \A k \in 1..Len(agenda) : Resolves(agenda[k]) =>
        \E i \in 1..cursor : /\ Settles(i, agenda[k].future)
                             /\ AsTold(snapshot[i]) = Makes(agenda[k])

\* The names of the dispatches that resolve a future, by its target.
NamesOf == [
    activity |-> <<"completed", "failed">>,
    timer |-> <<"fired", "canceled">>,
    child_workflow |-> <<"completed", "failed">> ]

\* Every future has the two handlers that resolve it.
HandlersThere ==
    \A f \in 1..Len(futures) :
        /\ \E p \in 1..Len(handlers) : /\ handlers[p].act.kind = "set" /\ handlers[p].act.future = f
                                       /\ handlers[p].name = NamesOf[futures[f].target.type][1]
        /\ \E p \in 1..Len(handlers) : /\ handlers[p].act.kind = "fail" /\ handlers[p].act.future = f
                                       /\ handlers[p].name = NamesOf[futures[f].target.type][2]

\* The invariant that relates the futures of a run to the events it was given.
ToldInv ==
    /\ Applied /\ Settled /\ DueFrom /\ HandlersThere
    /\ phase = "decided" => todo = <<>>

\* A run that does not move keeps it.
LEMMA ToldStay ==
    ASSUME ToldInv, UNCHANGED <<snapshot, cursor, todo, handlers, agenda, futures>>,
           phase' = "decided" => todo = <<>>
    PROVE  ToldInv'
  BY DEF ToldInv, Applied, Settled, DueFrom, HandlersThere, Left, Settles, Due, Resolves, Makes, AsTold

\* A new future has an id that no event could name so far.
LEMMA NewTargets ==
    ASSUME RunInv, IdsInv, CodeMoves,
           NEW f \in 1..Len(futures'), f \notin 1..Len(futures)
    PROVE  futures'[f].target.id \in Nat /\ futures'[f].target.id > sm.last_event_id
  <1>1. ~SameTargets
    BY DEF SameTargets
  <1>2. PICK d : /\ Takes(d)
                 /\ SameTargets \/ \E made : /\ made.target = from_decision(d)
                                             /\ futures' = Append(futures, made)
    BY <1>1, CodeTakes
  <1>3. PICK made : made.target = from_decision(d) /\ futures' = Append(futures, made)
    BY <1>1, <1>2
  <1>4. Len(futures) \in Nat /\ Len(futures') = Len(futures) + 1 /\ futures'[Len(futures) + 1] = made
    BY <1>3, Referents, SeqAppend
  <1>5. f = Len(futures) + 1
    BY <1>4
  <1>6. d.id \in Nat /\ d.id > sm.last_event_id
    BY <1>2, IdsRise DEF Takes
  <1>7. futures'[f].target.id = d.id
    BY <1>3, <1>4, <1>5 DEF from_decision, Target
  <1> QED  BY <1>6, <1>7

\* An event that closes something names what came before it.
LEMMA CloserNames ==
    ASSUME RunInv, ServiceInv, RecordInv, NEW i \in 1..Len(snapshot), snapshot[i].type \in Closes
    PROVE  /\ snapshot[i].ref \in 1..i - 1
           /\ from_event(snapshot[i]).id = snapshot[i].ref
           /\ snapshot[i].type \in ClosesActivity =>
                /\ snapshot[snapshot[i].ref].type = "ActivityTaskScheduled"
                /\ from_event(snapshot[i]) = Target(snapshot[i].ref, "activity")
           /\ snapshot[i].type \in ClosesTimer =>
                /\ snapshot[snapshot[i].ref].type = "TimerStarted"
                /\ from_event(snapshot[i]) = Target(snapshot[i].ref, "timer")
           /\ snapshot[i].type \in ClosesChild =>
                /\ snapshot[snapshot[i].ref].type = "StartChildWorkflowExecutionInitiated"
                /\ from_event(snapshot[i]) = Target(snapshot[i].ref, "child_workflow")
  <1> DEFINE e == snapshot[i]
  <1>1. /\ Len(history) \in Nat /\ Len(snapshot) \in Nat /\ Len(snapshot) <= Len(history)
        /\ \A j \in 1..Len(snapshot) : snapshot[j] = history[j]
    BY SeqFacts DEF RecordInv, ServiceInv, HistoryOK, RunInv, RunType, Events
  <1>2. i \in 1..Len(history) /\ e = history[i]
    BY <1>1
  <1>3. Names(e) /\ e.ref < i
    <2>1. Names(history[i]) /\ (history[i].type \in Closes => history[i].ref < i)
      BY <1>2 DEF RecordInv, NamesKnown
    <2> QED  BY <1>2, <2>1
  <1>4. e.type \in DOMAIN DispatchedAs
    BY DEF DispatchedAs, Closes, ClosesActivity, ClosesTimer, ClosesChild
  <1> HIDE DEF e
  <1>5. e.type \in Closes
    BY DEF e
  <1>6. e.ref \in 1..Len(history)
    BY <1>3, <1>5 DEF Names
  <1>7. e.ref \in 1..i - 1 /\ snapshot[e.ref] = history[e.ref]
    BY <1>1, <1>3, <1>6
  <1>8. /\ e.type \in ClosesActivity => from_event(e) = Target(e.ref, "activity")
        /\ e.type \in ClosesTimer => from_event(e) = Target(e.ref, "timer")
        /\ e.type \in ClosesChild => from_event(e) = Target(e.ref, "child_workflow")
    BY <1>4, TargetsOfClosers
  <1>9. \A t : Target(e.ref, t).id = e.ref
    BY DEF Target
  <1>10. from_event(e).id = e.ref
    BY <1>5, <1>8, <1>9 DEF Closes
  <1>11. /\ e.type \in ClosesActivity => history[e.ref].type = "ActivityTaskScheduled"
         /\ e.type \in ClosesTimer => history[e.ref].type = "TimerStarted"
         /\ e.type \in ClosesChild => history[e.ref].type = "StartChildWorkflowExecutionInitiated"
    BY <1>3 DEF Names
  <1> QED  BY <1>7, <1>8, <1>10, <1>11 DEF e


\* What was there before code ran: the futures with their states, the handlers.
OldStay ==
    /\ Len(futures') \in Nat /\ Len(futures) <= Len(futures')
    /\ \A f \in 1..Len(futures) : /\ futures'[f].target = futures[f].target
                                  /\ futures'[f].state = futures[f].state
    /\ \A f \in 1..Len(futures') : f \notin 1..Len(futures) => /\ futures'[f].state = "pending"
                                                               /\ CreatesFuture
    /\ Len(handlers') \in Nat /\ Len(handlers) <= Len(handlers')
    /\ \A p \in 1..Len(handlers) : handlers'[p] = handlers[p]

\* Code leaves it there.
LEMMA CodeLeavesOld ==
    ASSUME RunInv, FiberInv, CodeMoves
    PROVE  OldStay
  <1>1. IsSeq(handlers) /\ Len(handlers) \in Nat /\ Len(futures) \in Nat
    BY Referents
  <1>2. CASE Continues
    <2>1. Grown
      BY <1>2, ObjectsGrow DEF Continues
    <2>2. CASE CreatesFuture
      BY <2>1, <2>2 DEF Grown, OldStay
    <2>3. CASE KeepsObjects \/ HandlesSignal \/ AddsCallback
      <3>1. Len(futures') = Len(futures)
        <4>1. CASE KeepsObjects \/ HandlesSignal
          BY <4>1 DEF KeepsObjects, HandlesSignal
        <4>2. CASE AddsCallback
          BY <4>2, CallbackAdded
        <4> QED  BY <2>3, <4>1, <4>2
      <3> QED  BY <2>1, <3>1 DEF Grown, OldStay
    <2> QED  BY <1>2, <2>2, <2>3 DEF Continues
  <1>3. CASE Parks
    <2>1. futures' = futures /\ \E h : handlers' = Append(handlers, h)
      BY <1>3 DEF Parks
    <2>2. PICK h : handlers' = Append(handlers, h)
      BY <2>1
    <2>3. Len(handlers') = Len(handlers) + 1 /\ \A p \in 1..Len(handlers) : handlers'[p] = handlers[p]
      BY <1>1, <2>2, SeqAppend
    <2> QED  BY <1>1, <2>1, <2>3 DEF OldStay
  <1>4. CASE Ends \/ Aborts
    <2>1. handlers' = handlers /\ futures' = futures
      BY <1>4 DEF Ends, Aborts, KeepsObjects
    <2> QED  BY <1>1, <2>1 DEF OldStay
  <1> QED  BY <1>2, <1>3, <1>4 DEF CodeMoves

\* A new future has its two handlers.
LEMMA NewHandlers ==
    ASSUME RunInv, CreatesFuture
    PROVE  LET f == Len(futures) + 1
           IN  /\ Len(futures') = f
               /\ \E p \in 1..Len(handlers') :
                    /\ handlers'[p].act.kind = "set" /\ handlers'[p].act.future = f
                    /\ handlers'[p].name = NamesOf[futures'[f].target.type][1]
               /\ \E p \in 1..Len(handlers') :
                    /\ handlers'[p].act.kind = "fail" /\ handlers'[p].act.future = f
                    /\ handlers'[p].name = NamesOf[futures'[f].target.type][2]
  <1> DEFINE f == Len(futures) + 1
             m == Len(handlers)
  <1>1. IsSeq(futures) /\ IsSeq(handlers) /\ Len(futures) \in Nat /\ m \in Nat
    BY Referents
  <1>2. PICK d, made :
          /\ d.type \in DOMAIN ResolveNames
          /\ made.target = from_decision(d)
          /\ futures' = Append(futures, made)
          /\ handlers' = handlers \o Resolving(made.target, f, ResolveNames[d.type])
    BY DEF CreatesFuture
  <1> DEFINE names == ResolveNames[d.type]
             sets == Handler(made.target, names[1], Act("set", f, 0, ""))
             fails == Handler(made.target, names[2], Act("fail", f, 0, ""))
             added == Resolving(made.target, f, names)
  <1>3. NamesOf[made.target.type] = names
    <2>1. made.target.type = DECISION_TARGET_TYPES[d.type]
      BY <1>2 DEF from_decision, Target
    <2>2. d.type \in {"ScheduleActivity", "StartTimer", "StartChildWorkflow"}
      BY <1>2 DEF ResolveNames
    <2> QED  BY <2>1, <2>2 DEF ResolveNames, DECISION_TARGET_TYPES, NamesOf
  <1>4. Len(futures') = f /\ futures'[f] = made
    BY <1>1, <1>2, SeqAppend
  <1> HIDE DEF names
  <1>5. IsSeq(added) /\ Len(added) = 2 /\ added[1] = sets /\ added[2] = fails
    BY SeqShort DEF Resolving
  <1>6. /\ sets.act.kind = "set" /\ sets.act.future = f /\ sets.name = names[1]
        /\ fails.act.kind = "fail" /\ fails.act.future = f /\ fails.name = names[2]
    BY DEF Handler, Act
  <1>7. handlers' = handlers \o added
    BY <1>2 DEF names
  <1> HIDE DEF added, sets, fails, f
  <1>8. /\ Len(handlers') = m + Len(added)
        /\ \A i \in 1..Len(added) : handlers'[m + i] = added[i]
    <2>1. IsSeq(handlers) /\ IsSeq(added)
      BY <1>1, <1>5
    <2> QED  BY <1>7, <2>1, SeqConcat
  <1>9. /\ 1 \in 1..Len(added) /\ 2 \in 1..Len(added)
    BY <1>5
  <1>10. /\ m + 1 \in 1..Len(handlers') /\ handlers'[m + 1] = sets
         /\ m + 2 \in 1..Len(handlers') /\ handlers'[m + 2] = fails
    BY <1>1, <1>5, <1>8, <1>9
  <1> QED  BY <1>3, <1>4, <1>6, <1>10 DEF f

\* Workflow code keeps the invariant: no event it was given names a new future.
LEMMA CodeTold ==
    ASSUME RunInv, FiberInv, ServiceInv, RecordInv, IdsInv, ToldInv, CodeMoves
    PROVE  ToldInv'
  <1>1. OldStay
    BY CodeLeavesOld
  <1>2. UNCHANGED <<snapshot, cursor, todo, agenda>> /\ phase' # "decided"
    BY CodeTakes DEF CodeMoves
  <1>3. Len(snapshot) \in Nat /\ cursor \in Nat /\ Len(futures) \in Nat /\ Len(handlers) \in Nat
    BY Referents, SeqFacts DEF RunInv, RunType, Events
  <1>4. Applied'
    <2> SUFFICES ASSUME NEW i \in 1..Len(snapshot), NEW f \in 1..Len(futures'), ~Left(i),
                        snapshot[i].type \in Closes,
                        from_event(snapshot[i]) = futures'[f].target
                 PROVE  \/ futures'[f].state = AsTold(snapshot[i])
                        \/ Due(agenda, f, snapshot[i])
      BY <1>2 DEF Applied, Left, Settles
    <2>1. CASE f \in 1..Len(futures)
      <3>1. Settles(i, f) /\ futures'[f].state = futures[f].state
        BY <1>1, <2>1 DEF OldStay, Settles
      <3> QED  BY <2>1, <3>1 DEF ToldInv, Applied
    <2>2. CASE f \notin 1..Len(futures)
      <3>1. futures'[f].target.id \in Nat /\ futures'[f].target.id > sm.last_event_id
        BY <2>2, NewTargets
      <3>2. snapshot[i].ref \in 1..i - 1 /\ from_event(snapshot[i]).id = snapshot[i].ref
        BY CloserNames
      <3>3. i <= sm.last_event_id
        <4>1. i \in 1..cursor
          BY <1>3 DEF Left
        <4> QED  BY <4>1 DEF IdsInv, ClosersBehind
      <3>4. sm.last_event_id \in Nat
        BY DEF IdsInv
      <3>5. snapshot[i].ref = futures'[f].target.id
        BY <3>2
      <3> QED  BY <3>1, <3>2, <3>3, <3>4, <3>5
    <2> QED  BY <2>1, <2>2
  <1>5. Settled'
    <2> SUFFICES ASSUME NEW f \in 1..Len(futures'), futures'[f].state # "pending"
                 PROVE  \E i \in 1..cursor : /\ snapshot[i].type \in Closes
                                             /\ from_event(snapshot[i]) = futures'[f].target
                                             /\ AsTold(snapshot[i]) = futures'[f].state
      BY <1>2 DEF Settled, Settles
    <2>1. f \in 1..Len(futures)
      BY <1>1 DEF OldStay
    <2>2. futures'[f].state = futures[f].state /\ futures'[f].target = futures[f].target
      BY <1>1, <2>1 DEF OldStay
    <2> QED  BY <2>1, <2>2 DEF ToldInv, Settled, Settles
  <1>6. DueFrom'
    <2> SUFFICES ASSUME NEW k \in 1..Len(agenda), Resolves(agenda[k])
                 PROVE  \E i \in 1..cursor :
                          /\ snapshot[i].type \in Closes
                          /\ from_event(snapshot[i]) = futures'[agenda[k].future].target
                          /\ AsTold(snapshot[i]) = Makes(agenda[k])
      BY <1>2 DEF DueFrom, Settles, Resolves, Makes
    <2>1. agenda[k].future \in 1..Len(futures)
      BY Referents
    <2>2. futures'[agenda[k].future].target = futures[agenda[k].future].target
      BY <1>1, <2>1 DEF OldStay
    <2> QED  BY <2>2 DEF ToldInv, DueFrom, Settles
  <1>7. HandlersThere'
    <2> SUFFICES ASSUME NEW f \in 1..Len(futures')
                 PROVE  /\ \E p \in 1..Len(handlers') :
                             /\ handlers'[p].act.kind = "set" /\ handlers'[p].act.future = f
                             /\ handlers'[p].name = NamesOf[futures'[f].target.type][1]
                        /\ \E p \in 1..Len(handlers') :
                             /\ handlers'[p].act.kind = "fail" /\ handlers'[p].act.future = f
                             /\ handlers'[p].name = NamesOf[futures'[f].target.type][2]
      BY DEF HandlersThere
    <2>1. CASE f \in 1..Len(futures)
      <3>1. \A p \in 1..Len(handlers) : p \in 1..Len(handlers') /\ handlers'[p] = handlers[p]
        BY <1>1, <1>3 DEF OldStay
      <3>2. futures'[f].target = futures[f].target
        BY <1>1, <2>1 DEF OldStay
      <3>3. PICK p \in 1..Len(handlers) :
              /\ handlers[p].act.kind = "set" /\ handlers[p].act.future = f
              /\ handlers[p].name = NamesOf[futures[f].target.type][1]
        BY <2>1 DEF ToldInv, HandlersThere
      <3>4. PICK q \in 1..Len(handlers) :
              /\ handlers[q].act.kind = "fail" /\ handlers[q].act.future = f
              /\ handlers[q].name = NamesOf[futures[f].target.type][2]
        BY <2>1 DEF ToldInv, HandlersThere
      <3> QED  BY <3>1, <3>2, <3>3, <3>4
    <2>2. CASE f \notin 1..Len(futures)
      <3>1. CreatesFuture
        BY <1>1, <2>2 DEF OldStay
      <3>2. f = Len(futures) + 1
        BY <1>3, <2>2, <3>1, NewHandlers
      <3> QED  BY <3>1, <3>2, NewHandlers
    <2> QED  BY <2>1, <2>2
  <1> QED  BY <1>2, <1>4, <1>5, <1>6, <1>7 DEF ToldInv


\* Handlers and targets that stay are still there.
LEMMA HandlersStay ==
    ASSUME HandlersThere, handlers' = handlers, Len(futures') = Len(futures),
           \A f \in 1..Len(futures) : futures'[f].target = futures[f].target
    PROVE  HandlersThere'
  <1> SUFFICES ASSUME NEW f \in 1..Len(futures')
               PROVE  /\ \E p \in 1..Len(handlers') :
                           /\ handlers'[p].act.kind = "set" /\ handlers'[p].act.future = f
                           /\ handlers'[p].name = NamesOf[futures'[f].target.type][1]
                      /\ \E p \in 1..Len(handlers') :
                           /\ handlers'[p].act.kind = "fail" /\ handlers'[p].act.future = f
                           /\ handlers'[p].name = NamesOf[futures'[f].target.type][2]
    BY DEF HandlersThere
  <1>1. PICK p \in 1..Len(handlers) : /\ handlers[p].act.kind = "set" /\ handlers[p].act.future = f
                                      /\ handlers[p].name = NamesOf[futures[f].target.type][1]
    BY DEF HandlersThere
  <1>2. PICK q \in 1..Len(handlers) : /\ handlers[q].act.kind = "fail" /\ handlers[q].act.future = f
                                      /\ handlers[q].name = NamesOf[futures[f].target.type][2]
    BY DEF HandlersThere
  <1> QED  BY <1>1, <1>2

\* What opens a window leaves what was told: its events are all still to come.
LEMMA NextWindowTold ==
    ASSUME RunInv, ToldInv, NextWindow
    PROVE  ToldInv'
  <1> DEFINE end == WindowEnd(snapshot, cursor)
  <1>1. /\ phase' = "apply" /\ todo = <<>> /\ agenda = <<>> /\ cursor < Len(snapshot)
        /\ todo' = Ordered(next_window(snapshot, cursor)) /\ cursor' = end
        /\ UNCHANGED <<snapshot, handlers, agenda, futures>>
    BY DEF NextWindow, AtRoot
  <1>2. Events(snapshot) /\ (\A i \in 1..Len(snapshot) : snapshot[i].id = i)
        /\ Len(snapshot) \in Nat /\ cursor \in Nat
    BY SeqFacts DEF RunInv, RunType, Events
  <1>3. end \in cursor + 1 .. Len(snapshot)
    BY <1>1, <1>2, WindowAdvances DEF Events
  <1>4. Len(todo) = 0 /\ Len(agenda) = 0
    BY <1>1, SeqShort
  <1>5. Applied'
    <2> SUFFICES ASSUME NEW i \in 1..Len(snapshot), NEW f \in 1..Len(futures), ~Left(i)',
                        Settles(i, f)
                 PROVE  futures[f].state = AsTold(snapshot[i]) \/ Due(agenda, f, snapshot[i])
      BY <1>1 DEF Applied, Settles
    <2>1. i <= end
      BY <1>1, <1>2, <1>3 DEF Left
    <2>2. snapshot[i].type \notin DecisionTaskTypes
      BY DEF Settles, Closes, ClosesActivity, ClosesTimer, ClosesChild, DecisionTaskTypes
    <2>3. CASE i > cursor
      <3>1. i \in cursor + 1 .. WindowEnd(snapshot, cursor)
        BY <1>2, <2>1, <2>3
      <3> HIDE DEF end
      <3>2. \E k \in 1..Len(todo') : todo'[k].id = i
        BY <1>1, <1>2, <2>2, <3>1, WindowComplete
      <3> QED  BY <3>2 DEF Left
    <2>4. CASE ~(i > cursor)
      <3>1. ~Left(i)
        BY <1>4, <2>4 DEF Left
      <3> QED  BY <3>1 DEF ToldInv, Applied
    <2> QED  BY <2>3, <2>4
  <1> HIDE DEF end
  <1>6. Settled'
    <2> SUFFICES ASSUME NEW f \in 1..Len(futures), futures[f].state # "pending"
                 PROVE  \E i \in 1..end : Settles(i, f) /\ AsTold(snapshot[i]) = futures[f].state
      BY <1>1 DEF Settled, Settles
    <2>1. PICK i \in 1..cursor : Settles(i, f) /\ AsTold(snapshot[i]) = futures[f].state
      BY DEF ToldInv, Settled
    <2>2. i \in 1..end
      BY <1>2, <1>3
    <2> QED  BY <2>1, <2>2
  <1>7. DueFrom'
    BY <1>1, <1>4 DEF DueFrom
  <1>8. HandlersThere'
    <2>1. HandlersThere /\ handlers' = handlers /\ futures' = futures
      BY <1>1 DEF ToldInv
    <2> QED  BY <2>1, HandlersStay
  <1> QED  BY <1>1, <1>5, <1>6, <1>7, <1>8 DEF ToldInv


\* An event that settles a future calls the handler that does what it says.
LEMMA SettlerCalls ==
    ASSUME FiberInv, HandlersThere, NEW i \in 1..Len(snapshot), NEW f \in 1..Len(futures),
           Settles(i, f)
    PROVE  \E p \in Called(snapshot[i]) :
             /\ Resolves(handlers[p].act) /\ handlers[p].act.future = f
             /\ Makes(handlers[p].act) = AsTold(snapshot[i])
  <1> DEFINE e == snapshot[i]
             names == NamesOf[futures[f].target.type]
  <1>1. e.type \in Closes /\ from_event(e) = futures[f].target
    BY DEF Settles
  <1>2. \A type : Target(e.ref, type).type = type
    BY DEF Target
  <1> HIDE DEF e
  <1>3. e.type \in DOMAIN DispatchedAs
    BY <1>1 DEF DispatchedAs, Closes, ClosesActivity, ClosesTimer, ClosesChild
  <1>4. /\ e.type \in ClosesActivity => futures[f].target.type = "activity"
        /\ e.type \in ClosesTimer => futures[f].target.type = "timer"
        /\ e.type \in ClosesChild => futures[f].target.type = "child_workflow"
    BY <1>1, <1>2, <1>3, TargetsOfClosers
  <1>5. /\ e.type \in ReadyTypes => DispatchedAs[e.type] = names[1]
        /\ e.type \notin ReadyTypes => DispatchedAs[e.type] = names[2]
    <2>1. CASE e.type \in ClosesActivity
      <3>1. names = <<"completed", "failed">>
        BY <1>4, <2>1 DEF NamesOf
      <3>2. names[1] = "completed" /\ names[2] = "failed"
        BY <3>1, SeqShort
      <3> HIDE DEF names
      <3> QED  BY <2>1, <3>2 DEF ClosesActivity, ReadyTypes, DispatchedAs
    <2>2. CASE e.type \in ClosesTimer
      <3>1. names = <<"fired", "canceled">>
        BY <1>4, <2>2 DEF NamesOf
      <3>2. names[1] = "fired" /\ names[2] = "canceled"
        BY <3>1, SeqShort
      <3> HIDE DEF names
      <3> QED  BY <2>2, <3>2 DEF ClosesTimer, ReadyTypes, DispatchedAs
    <2>3. CASE e.type \in ClosesChild
      <3>1. names = <<"completed", "failed">>
        BY <1>4, <2>3 DEF NamesOf
      <3>2. names[1] = "completed" /\ names[2] = "failed"
        BY <3>1, SeqShort
      <3> HIDE DEF names
      <3> QED  BY <2>3, <3>2 DEF ClosesChild, ReadyTypes, DispatchedAs
    <2> QED  BY <1>1, <2>1, <2>2, <2>3 DEF Closes
  <1>6. PICK p \in 1..Len(handlers) :
          /\ Resolves(handlers[p].act) /\ handlers[p].act.future = f
          /\ Makes(handlers[p].act) = AsTold(e) /\ handlers[p].name = DispatchedAs[e.type]
    <2>1. CASE e.type \in ReadyTypes
      <3>1. PICK p \in 1..Len(handlers) : /\ handlers[p].act.kind = "set" /\ handlers[p].act.future = f
                                          /\ handlers[p].name = names[1]
        BY DEF HandlersThere
      <3> QED  BY <1>5, <2>1, <3>1 DEF Resolves, Makes, AsTold
    <2>2. CASE e.type \notin ReadyTypes
      <3>1. PICK p \in 1..Len(handlers) : /\ handlers[p].act.kind = "fail" /\ handlers[p].act.future = f
                                          /\ handlers[p].name = names[2]
        BY DEF HandlersThere
      <3> QED  BY <1>5, <2>2, <3>1 DEF Resolves, Makes, AsTold
    <2> QED  BY <2>1, <2>2
  <1>7. handlers[p].target = from_event(e)
    BY <1>1, <1>6 DEF FiberInv, HandlersFit, HandlerFits, Resolves
  <1>8. p \in Called(e)
    BY <1>3, <1>6, <1>7 DEF Called, Answers
  <1> QED  BY <1>6, <1>8 DEF e

\* The handlers that an event calls do what it says.
LEMMA CalledTells ==
    ASSUME RunInv, FiberInv, NEW i \in 1..Len(snapshot), Left(i), NEW p \in Called(snapshot[i]),
           Resolves(handlers[p].act)
    PROVE  Makes(handlers[p].act) = AsTold(snapshot[i])
  <1> DEFINE e == snapshot[i]
             h == handlers[p]
  <1>1. p \in 1..Len(handlers) /\ e.type \in Closes
    BY CalledSettles DEF Settles
  <1>2. /\ h.act.kind \in {"set", "fail"}
        /\ h.act.kind = "set" => h.name \in {"completed", "fired"}
        /\ h.act.kind = "fail" => h.name \in {"failed", "canceled"}
    BY <1>1 DEF FiberInv, HandlersFit, HandlerFits, Resolves
  <1>3. h.name = DispatchedAs[e.type] \/ h.name = "*"
    BY DEF Called, Answers, WILDCARD
  <1> HIDE DEF e, h
  <1>4. e.type \in ReadyTypes <=> DispatchedAs[e.type] \in {"completed", "fired"}
    BY <1>1 DEF ReadyTypes, DispatchedAs, Closes, ClosesActivity, ClosesTimer, ClosesChild
  <1>5. h.act.kind = "set" <=> e.type \in ReadyTypes
    BY <1>2, <1>3, <1>4
  <1> QED  BY <1>5 DEF Makes, AsTold, e, h


\* Applying an event makes due what it says, and nothing else.
LEMMA ApplyEventTold ==
    ASSUME RunInv, FiberInv, ToldInv, ApplyEvent
    PROVE  ToldInv'
  <1> DEFINE e == Head(todo)
  <1>1. CASE ApplyError(sm, e) # "none"
    <2>1. Abort(ApplyError(sm, e))
      BY <1>1 DEF ApplyEvent
    <2>2. phase' = "failed" /\ UNCHANGED <<snapshot, cursor, todo, handlers, agenda, futures>>
      BY <2>1 DEF Abort
    <2> QED  BY <2>2, ToldStay
  <1>2. CASE ApplyError(sm, e) = "none"
    <2>1. /\ todo # <<>> /\ agenda = <<>> /\ phase = "apply" /\ phase' = "apply"
          /\ agenda' = CalledActs(e) /\ todo' = Tail(todo)
          /\ UNCHANGED <<snapshot, cursor, handlers, futures>>
      BY <1>2 DEF ApplyEvent, CalledActs, AtRoot
    <2>2. /\ e.id \in 1..cursor /\ e.id \in 1..Len(snapshot)
          /\ e = snapshot[e.id] /\ Left(e.id)
      BY <2>1, HeadLeft
    <2>3. /\ IsSeq(todo) /\ Len(todo) \in Nat \ {0} /\ e = todo[1]
          /\ Len(todo') = Len(todo) - 1 /\ \A k \in 1..Len(todo) - 1 : todo'[k] = todo[k + 1]
      BY <2>1, SeqTail DEF RunInv, RunType, Events
    <2> HIDE DEF e
    <2>4. PICK j \in 1..Len(snapshot) : j = e.id /\ e = snapshot[j] /\ Left(j) /\ j \in 1..cursor
      BY <2>2
    <2>5. ASSUME NEW i \in 1..Len(snapshot), Left(i), i # j
          PROVE  Left(i)'
      <3>1. CASE i > cursor
        BY <2>1, <3>1 DEF Left
      <3>2. CASE \E k \in 1..Len(todo) : todo[k].id = i
        <4>1. PICK k \in 1..Len(todo) : todo[k].id = i
          BY <3>2
        <4>2. k # 1
          BY <2>3, <2>4, <2>5, <4>1
        <4>3. k - 1 \in 1..Len(todo) - 1 /\ (k - 1) + 1 = k
          BY <2>3, <4>2
        <4>4. k - 1 \in 1..Len(todo') /\ todo'[k - 1].id = i
          BY <2>3, <4>1, <4>3
        <4> QED  BY <4>4 DEF Left
      <3> QED  BY <2>5, <3>1, <3>2 DEF Left
    <2> DEFINE n == Cardinality(Called(e))
               Place(k) == Nth(Called(e), k)
    <2>6. IsSeq(handlers)
      BY Referents
    <2>7. /\ Len(agenda') = n
          /\ \A k \in 1..n : Place(k) \in Called(e) /\ agenda'[k] = handlers[Place(k)].act
          /\ \A q \in Called(e) : \E k \in 1..n : Place(k) = q
      BY <2>1, <2>6, DispatchCalls, Zenon
    <2> HIDE DEF n, Place
    <2>8. Applied'
      <3> SUFFICES ASSUME NEW i \in 1..Len(snapshot), NEW f \in 1..Len(futures), ~Left(i)',
                          Settles(i, f)
                   PROVE  futures[f].state = AsTold(snapshot[i]) \/ Due(agenda', f, snapshot[i])
        BY <2>1 DEF Applied, Settles
      <3>1. CASE Left(i)
        <4>1. i = j
          BY <2>5, <3>1
        <4>2. PICK p \in Called(e) : /\ Resolves(handlers[p].act) /\ handlers[p].act.future = f
                                     /\ Makes(handlers[p].act) = AsTold(snapshot[i])
          BY <2>4, <4>1, SettlerCalls DEF ToldInv
        <4>3. PICK k \in 1..n : Place(k) = p
          BY <2>7
        <4>4. k \in 1..Len(agenda') /\ agenda'[k] = handlers[p].act
          BY <2>7, <4>3
        <4> QED  BY <4>2, <4>4 DEF Due
      <3>2. CASE ~Left(i)
        <4>1. Len(agenda) = 0
          BY <2>1, SeqShort
        <4>2. futures[f].state = AsTold(snapshot[i]) \/ Due(agenda, f, snapshot[i])
          BY <3>2 DEF ToldInv, Applied
        <4> QED  BY <4>1, <4>2 DEF Due
      <3> QED  BY <3>1, <3>2
    <2>9. Settled'
      BY <2>1 DEF ToldInv, Settled, Settles
    <2>10. DueFrom'
      <3> SUFFICES ASSUME NEW k \in 1..n, Resolves(agenda'[k])
                   PROVE  \E i \in 1..cursor : /\ Settles(i, agenda'[k].future)
                                               /\ AsTold(snapshot[i]) = Makes(agenda'[k])
        BY <2>1, <2>7 DEF DueFrom, Settles, Resolves, Makes
      <3>1. PICK p \in Called(e) : agenda'[k] = handlers[p].act
        BY <2>7
      <3>2. p \in Called(snapshot[j]) /\ Resolves(handlers[p].act)
        BY <2>4, <3>1
      <3>3. Settles(j, handlers[p].act.future) /\ Makes(handlers[p].act) = AsTold(snapshot[j])
        BY <2>4, <3>2, CalledSettles, CalledTells
      <3> QED  BY <2>4, <3>1, <3>3
    <2>11. HandlersThere'
      <3>1. HandlersThere /\ handlers' = handlers /\ futures' = futures
        BY <2>1 DEF ToldInv
      <3> QED  BY <3>1, HandlersStay
    <2> QED  BY <2>1, <2>8, <2>9, <2>10, <2>11 DEF ToldInv
  <1> QED  BY <1>1, <1>2

\* A handler does to its future what an event said.
LEMMA HandlerTold ==
    ASSUME RunInv, ToldInv, HandlerMoves
    PROVE  ToldInv'
  <1>1. /\ UNCHANGED <<snapshot, cursor, todo, handlers>> /\ phase' # "decided"
        /\ Len(futures') = Len(futures) /\ agenda # <<>>
        /\ \A f \in 1..Len(futures) : /\ futures'[f].target = futures[f].target
                                      /\ futures'[f].state = Resolved(f)
        /\ \A f \in 1..Len(futures) : Resolves(agenda[1]) /\ f = agenda[1].future =>
             futures[f].state = "pending"
    BY DEF HandlerMoves
  <1>2. PICK d \in Int : Kept(d) /\ RestDue(d)
    BY DEF HandlerMoves
  <1>3. IsSeq(agenda) /\ Len(agenda) \in Nat \ {0} /\ Len(futures) \in Nat
    BY <1>1, Referents, SeqShort
  <1>4. \A f \in 1..Len(futures) : \A i : Settles(i, f)' <=> Settles(i, f)
    BY <1>1 DEF Settles
  <1>5. Makes(agenda[1]) \in {"ready", "failed"}
    BY DEF Makes
  <1>6. \A f \in 1..Len(futures) :
          Resolved(f) = IF Resolves(agenda[1]) /\ f = agenda[1].future
                          THEN Makes(agenda[1]) ELSE futures[f].state
    BY DEF Resolved, Makes
  <1>7. Applied'
    <2> SUFFICES ASSUME NEW i \in 1..Len(snapshot), NEW f \in 1..Len(futures), ~Left(i),
                        Settles(i, f)
                 PROVE  Resolved(f) = AsTold(snapshot[i]) \/ Due(agenda', f, snapshot[i])
      BY <1>1, <1>4 DEF Applied, Left
    <2>1. CASE Due(agenda, f, snapshot[i])
      <3>1. PICK k \in 1..Len(agenda) : /\ Resolves(agenda[k]) /\ agenda[k].future = f
                                        /\ Makes(agenda[k]) = AsTold(snapshot[i])
        BY <2>1 DEF Due
      <3>2. CASE k = 1
        BY <1>6, <3>1, <3>2
      <3>3. CASE k # 1
        <4>1. k \in 2..Len(agenda)
          BY <1>3, <3>3
        <4>2. k - d \in 1..Len(agenda') /\ agenda'[k - d] = agenda[k]
          BY <1>2, <4>1 DEF RestDue
        <4> QED  BY <3>1, <4>2 DEF Due
      <3> QED  BY <3>2, <3>3
    <2>2. CASE futures[f].state = AsTold(snapshot[i])
      <3>1. futures[f].state # "pending"
        BY <2>2 DEF AsTold
      <3> QED  BY <1>1, <1>6, <2>2, <3>1
    <2> QED  BY <2>1, <2>2 DEF ToldInv, Applied
  <1>8. Settled'
    <2> SUFFICES ASSUME NEW f \in 1..Len(futures), Resolved(f) # "pending"
                 PROVE  \E i \in 1..cursor : Settles(i, f) /\ AsTold(snapshot[i]) = Resolved(f)
      BY <1>1, <1>4 DEF Settled
    <2>1. CASE Resolves(agenda[1]) /\ f = agenda[1].future
      <3>1. 1 \in 1..Len(agenda)
        BY <1>3
      <3> QED  BY <1>6, <2>1, <3>1 DEF ToldInv, DueFrom
    <2>2. CASE ~(Resolves(agenda[1]) /\ f = agenda[1].future)
      BY <1>6, <2>2 DEF ToldInv, Settled
    <2> QED  BY <2>1, <2>2
  <1>9. DueFrom'
    <2> SUFFICES ASSUME NEW k \in 1..Len(agenda'), Resolves(agenda'[k])
                 PROVE  \E i \in 1..cursor :
                          /\ snapshot[i].type \in Closes
                          /\ from_event(snapshot[i]) = futures'[agenda'[k].future].target
                          /\ AsTold(snapshot[i]) = Makes(agenda'[k])
      BY <1>1 DEF DueFrom, Settles, Resolves, Makes, AsTold
    <2>1. k + d \in 2..Len(agenda) /\ agenda'[k] = agenda[k + d]
      BY <1>2 DEF Kept, Resolves
    <2>2. k + d \in 1..Len(agenda)
      BY <2>1
    <2>3. agenda'[k].future \in 1..Len(futures)
      BY <2>1, <2>2, Referents
    <2>4. PICK i \in 1..cursor : /\ Settles(i, agenda[k + d].future)
                                 /\ AsTold(snapshot[i]) = Makes(agenda[k + d])
      BY <2>1, <2>2 DEF ToldInv, DueFrom
    <2> QED  BY <1>1, <2>1, <2>3, <2>4 DEF Settles
  <1>10. HandlersThere'
    <2>1. HandlersThere /\ handlers' = handlers
      BY <1>1 DEF ToldInv
    <2> QED  BY <1>1, <2>1, HandlersStay
  <1> QED  BY <1>1, <1>7, <1>8, <1>9, <1>10 DEF ToldInv


\* No step of a run breaks it.
LEMMA RunTold ==
    ASSUME RunInv, FiberInv, ServiceInv, RecordInv, IdsInv, ToldInv, Run
    PROVE  ToldInv'
  <1>1. CASE NextWindow
    BY <1>1, NextWindowTold
  <1>2. CASE ApplyEvent
    BY <1>2, ApplyEventTold
  <1>3. CASE RunHandler
    BY <1>3, RunHandlerMoves, HandlerTold
  <1>4. CASE FinishRun
    BY <1>4, ToldStay DEF FinishRun
  <1>5. CASE CodeStep
    BY <1>5, CodeStepMoves, CodeTold
  <1> QED  BY <1>1, <1>2, <1>3, <1>4, <1>5 DEF Run, RunStep, RootStep

\* A new run has no futures, and nothing is due.
LEMMA FreshTold ==
    ASSUME NEW at, at # "decided", NEW raised, NEW h, NEW registered,
           ResetRun(at, raised, h, registered)
    PROVE  ToldInv'
  <1>1. /\ cursor' = 0 /\ futures' = <<>> /\ agenda' = <<>> /\ phase' # "decided"
    BY DEF ResetRun
  <1>2. Len(futures') = 0 /\ Len(agenda') = 0
    BY <1>1, SeqShort
  <1> QED  BY <1>1, <1>2 DEF ToldInv, Applied, Settled, DueFrom, HandlersThere

\* Neither has a new execution.
LEMMA ToldInit ==
    ASSUME Init
    PROVE  ToldInv
  <1>1. cursor = 0 /\ futures = <<>> /\ agenda = <<>> /\ phase = "idle"
    BY DEF Init, InitRun
  <1>2. Len(futures) = 0 /\ Len(agenda) = 0
    BY <1>1, SeqShort
  <1> QED  BY <1>1, <1>2 DEF ToldInv, Applied, Settled, DueFrom, HandlersThere

\* No step breaks the invariant of what futures are told.
LEMMA ToldNext ==
    ASSUME FiberInvs, RecordInv, IdsInv, ToldInv, [Next]_vars
    PROVE  ToldInv'
  <1>1. CASE Run
    BY <1>1, RunTold DEF FiberInvs, IInv
  <1>2. CASE ~Run
    <2>1. CASE StartRun(history') \/ ResetRun("failed", "not_run", history', <<>>)
      BY <2>1, FreshTold DEF StartRun
    <2>2. CASE EndRun
      BY <2>2, FreshTold DEF EndRun
    <2>3. CASE UNCHANGED runVars
      <3>1. UNCHANGED <<phase, snapshot, cursor, todo, handlers, agenda, futures>>
        BY <2>3 DEF runVars
      <3>2. phase' = "decided" => todo = <<>>
        BY <3>1 DEF ToldInv
      <3> QED  BY <3>1, <3>2, ToldStay
    <2> QED  BY <1>2, <2>1, <2>2, <2>3, BetweenRuns
  <1> QED  BY <1>1, <1>2

\* Futures are told what events say throughout, if no decision is left over.
LEMMA ToldInvariant == Spec /\ []NothingLeftOver => []ToldInv
  <1>1. Init => ToldInv
    BY ToldInit
  <1>2. FiberInvs /\ RecordInv /\ IdsInv /\ ToldInv /\ [Next]_vars => ToldInv'
    BY ToldNext
  <1> QED  BY <1>1, <1>2, FiberInvariant, RecordInvariant, IdsInvariant, PTL DEF Spec

\* When a run has decided, the event that names the id of a future settles it:
\* the id stands for one command, and that is the future's.
LEMMA NamedSettles ==
    ASSUME RunInv, ServiceInv, RecordInv, IdsInv, phase = "decided",
           NEW i \in 1..Len(snapshot), NEW f \in 1..Len(futures), snapshot[i].type \in Closes,
           snapshot[i].ref = futures[f].target.id
    PROVE  Settles(i, f)
  <1> DEFINE n == Len(snapshot)
             e == snapshot[i]
             t == futures[f].target
             c == snapshot[e.ref]
  <1>1. /\ n \in Nat /\ cursor = n /\ n > 0 /\ \A j \in 1..n : snapshot[j].id = j
        /\ Len(sm.decisions) \in Nat
    BY SeqFacts DEF IdsInv, RunInv, RunType, Events, ManagerOK
  <1>2. /\ e.ref \in 1..i - 1
        /\ e.type \in ClosesActivity =>
             c.type = "ActivityTaskScheduled" /\ from_event(e) = Target(e.ref, "activity")
        /\ e.type \in ClosesTimer =>
             c.type = "TimerStarted" /\ from_event(e) = Target(e.ref, "timer")
        /\ e.type \in ClosesChild =>
             /\ c.type = "StartChildWorkflowExecutionInitiated"
             /\ from_event(e) = Target(e.ref, "child_workflow")
    BY CloserNames
  <1>3. HasOrigin(sm.decisions, cursor, snapshot, t)
    BY DEF IdsInv, FuturesKnown
  <1>4. ASSUME NEW j \in 1..Len(sm.decisions), from_decision(sm.decisions[j]) = t
        PROVE  FALSE
    <2>1. sm.decisions[j].id = n + 1 + j
      BY <1>1 DEF IdsInv, LiveIds, Live
    <2>2. t.id = n + 1 + j
      BY <1>4, <2>1 DEF from_decision, Target
    <2> HIDE DEF t, e, n
    <2>3. e.ref = n + 1 + j /\ j \in Nat /\ i \in 1..n
      BY <1>1, <2>2 DEF e, t, n
    <2> QED  BY <1>1, <1>2, <2>3
  <1>5. c.type \in DiscardingTypes /\ from_event(c) = t
    BY <1>3, <1>4 DEF HasOrigin
  <1>6. c.id = e.ref
    <2>1. e.ref \in 1..n
      BY <1>1, <1>2
    <2> QED  BY <1>1, <2>1
  <1> HIDE DEF c, e, t, n
  <1>7. t = Target(e.ref, CommandTargets[c.type])
    BY <1>5, <1>6, TargetsOfCommands
  <1>8. /\ CommandTargets["ActivityTaskScheduled"] = "activity"
        /\ CommandTargets["TimerStarted"] = "timer"
        /\ CommandTargets["StartChildWorkflowExecutionInitiated"] = "child_workflow"
    BY DEF CommandTargets
  <1>9. e.type \in Closes
    BY DEF e
  <1>10. from_event(e) = t
    BY <1>2, <1>7, <1>8, <1>9 DEF Closes
  <1> QED  BY <1>9, <1>10 DEF Settles, e, t


\* So, when a run has decided, a future is as the event says that names its id,
\* and open if there is none.
LEMMA StatesTold ==
    ASSUME RunInv, ServiceInv, RecordInv, IdsInv, StrandInv, ToldInv, phase = "decided",
           NEW f \in 1..Len(futures), NEW state \in {"ready", "failed"}
    PROVE  futures[f].state = state <=>
             \E i \in 1..Len(snapshot) : /\ snapshot[i].type \in Closes
                                         /\ snapshot[i].ref = futures[f].target.id
                                         /\ AsTold(snapshot[i]) = state
  <1>1. agenda = <<>> /\ todo = <<>> /\ cursor = Len(snapshot) /\ Len(snapshot) \in Nat
    BY SeqFacts DEF StrandInv, DecidedIdle, ToldInv, IdsInv, RunInv, RunType, Events
  <1>2. Len(agenda) = 0 /\ Len(todo) = 0
    BY <1>1, SeqShort
  <1>3. ASSUME futures[f].state = state
        PROVE  \E i \in 1..Len(snapshot) : /\ snapshot[i].type \in Closes
                                           /\ snapshot[i].ref = futures[f].target.id
                                           /\ AsTold(snapshot[i]) = state
    <2>1. PICK i \in 1..cursor : Settles(i, f) /\ AsTold(snapshot[i]) = state
      BY <1>3 DEF ToldInv, Settled
    <2>2. i \in 1..Len(snapshot) /\ snapshot[i].type \in Closes
      BY <1>1, <2>1 DEF Settles
    <2>3. snapshot[i].ref = futures[f].target.id
      BY <2>1, <2>2, CloserNames DEF Settles
    <2> QED  BY <2>1, <2>2, <2>3
  <1>4. ASSUME NEW i \in 1..Len(snapshot), snapshot[i].type \in Closes,
               snapshot[i].ref = futures[f].target.id, AsTold(snapshot[i]) = state
        PROVE  futures[f].state = state
    <2>1. Settles(i, f)
      BY <1>4, NamedSettles
    <2>2. ~Left(i)
      BY <1>1, <1>2 DEF Left
    <2>3. ~Due(agenda, f, snapshot[i])
      BY <1>2 DEF Due
    <2> QED  BY <1>4, <2>1, <2>2, <2>3 DEF ToldInv, Applied
  <1> QED  BY <1>3, <1>4

\* If no decision is left over when a window opens, then in every program the
\* futures of a run that has decided agree with the history it was given: no result is
\* lost, taken twice or given to another future, whatever windows, failed tasks
\* and replays the events came in (StateManager#apply_event, Dispatcher#dispatch,
\* Future#set and #fail, Executor#run).
THEOREM WorkflowFuturesAgree == Spec /\ []NothingLeftOver => []FuturesAgree
  <1>1. ASSUME RunInv, ServiceInv, RecordInv, IdsInv, StrandInv, ToldInv
        PROVE  FuturesAgree
    <2> DEFINE Failing == {"ActivityTaskFailed", "ActivityTaskTimedOut",
                           "StartChildWorkflowExecutionFailed", "ChildWorkflowExecutionFailed",
                           "ChildWorkflowExecutionCanceled", "ChildWorkflowExecutionTimedOut"}
               Told(f, types) == \E e \in ToSet(snapshot) :
                                   e.ref = futures[f].target.id /\ e.type \in types
    <2> SUFFICES ASSUME phase = "decided", NEW f \in 1..Len(futures)
                 PROVE  /\ (futures[f].state = "ready") = Told(f, ReadyTypes)
                        /\ (futures[f].state = "failed") = Told(f, Failing)
      BY DEF FuturesAgree, ReadyTypes
    <2>1. /\ \A i \in 1..Len(snapshot) : snapshot[i] \in ToSet(snapshot)
          /\ \A e \in ToSet(snapshot) : \E i \in 1..Len(snapshot) : e = snapshot[i]
      BY SeqFacts DEF ToSet, RunInv, RunType, Events
    <2>2. \A e : /\ e.type \in ReadyTypes <=> e.type \in Closes /\ AsTold(e) = "ready"
                 /\ e.type \in Failing <=> e.type \in Closes /\ AsTold(e) = "failed"
      BY DEF Closes, ClosesActivity, ClosesTimer, ClosesChild, ReadyTypes, AsTold
    <2> HIDE DEF Failing
    <2>3. futures[f].state = "ready" <=> Told(f, ReadyTypes)
      <3>1. Told(f, ReadyTypes) <=>
              \E i \in 1..Len(snapshot) : /\ snapshot[i].type \in Closes
                                          /\ snapshot[i].ref = futures[f].target.id
                                          /\ AsTold(snapshot[i]) = "ready"
        BY <2>1, <2>2
      <3> QED  BY <1>1, <3>1, StatesTold
    <2>4. futures[f].state = "failed" <=> Told(f, Failing)
      <3>1. Told(f, Failing) <=>
              \E i \in 1..Len(snapshot) : /\ snapshot[i].type \in Closes
                                          /\ snapshot[i].ref = futures[f].target.id
                                          /\ AsTold(snapshot[i]) = "failed"
        BY <2>1, <2>2
      <3> QED  BY <1>1, <3>1, StatesTold
    <2> HIDE DEF Told
    <2>5. \A P, Q \in BOOLEAN : (P <=> Q) => P = Q
      OBVIOUS
    <2>6. (futures[f].state = "ready") \in BOOLEAN /\ (futures[f].state = "failed") \in BOOLEAN
      OBVIOUS
    <2>7. Told(f, ReadyTypes) \in BOOLEAN /\ Told(f, Failing) \in BOOLEAN
      BY DEF Told
    <2> QED  BY <2>3, <2>4, <2>5, <2>6, <2>7, Zenon
  <1>2. FiberInvs => RunInv /\ ServiceInv
    BY DEF FiberInvs, IInv
  <1> QED  BY <1>1, <1>2, FiberInvariant, RecordInvariant, IdsInvariant, StrandInvariant,
              ToldInvariant, PTL

-----------------------------------------------------------------------------
(* The code seems to run once.                                               *)

\* What DurableExecution takes for commands are the decisions that are.
LEMMA CommandsAreCommands ==
    /\ {RecordedAs[type] : type \in DOMAIN RecordedAs} = CommandTypes
    /\ DiscardingTypes = DOMAIN RecordedAs \ {"CancelTimerFailed"}
  <1>1. DOMAIN RecordedAs = {"ActivityTaskScheduled", "TimerStarted",
            "StartChildWorkflowExecutionInitiated", "ActivityTaskCancelRequested",
            "RequestCancelActivityTaskFailed", "TimerCanceled", "CancelTimerFailed"}
    BY DEF RecordedAs
  <1>2. /\ RecordedAs["ActivityTaskScheduled"] = "ScheduleActivity"
        /\ RecordedAs["TimerStarted"] = "StartTimer"
        /\ RecordedAs["StartChildWorkflowExecutionInitiated"] = "StartChildWorkflow"
        /\ RecordedAs["ActivityTaskCancelRequested"] = "RequestActivityCancellation"
        /\ RecordedAs["RequestCancelActivityTaskFailed"] = "RequestActivityCancellation"
        /\ RecordedAs["TimerCanceled"] = "CancelTimer"
        /\ RecordedAs["CancelTimerFailed"] = "CancelTimer"
    BY DEF RecordedAs
  <1>3. {RecordedAs[type] : type \in DOMAIN RecordedAs} \subseteq CommandTypes
    BY <1>1, <1>2 DEF CommandTypes
  <1>4. CommandTypes \subseteq {RecordedAs[type] : type \in DOMAIN RecordedAs}
    BY <1>1, <1>2 DEF CommandTypes
  <1>5. DiscardingTypes = DOMAIN RecordedAs \ {"CancelTimerFailed"}
    BY <1>1 DEF DiscardingTypes
  <1> QED  BY <1>3, <1>4, <1>5

\* An event that takes a decision off the list records a command, and the
\* decision it takes is that command.
LEMMA DiscardedCommand ==
    ASSUME NEW e, e.type \in DiscardingTypes, NEW d, IsDecision(d),
           from_decision(d) = from_event(e)
    PROVE  /\ e.type \in DOMAIN RecordedAs /\ RecordedAs[e.type] \in CommandTypes
           /\ d.type = RecordedAs[e.type] /\ d.id = e.id
  <1>1. from_event(e) = Target(e.id, CommandTargets[e.type])
    BY TargetsOfCommands
  <1>2. d.id = e.id /\ DECISION_TARGET_TYPES[d.type] = CommandTargets[e.type]
    BY <1>1 DEF from_decision, Target
  <1>3. e.type \in DOMAIN RecordedAs /\ RecordedAs[e.type] \in CommandTypes
    BY CommandsAreCommands
  <1>4. d.type \in {"ScheduleActivity", "RequestActivityCancellation", "RecordMarker", "StartTimer",
                    "CancelTimer", "CompleteWorkflow", "FailWorkflow", "StartChildWorkflow"}
    BY DEF IsDecision, DecisionTypes, DECISION_TARGET_TYPES
  <1>5. d.type = RecordedAs[e.type]
    BY <1>2, <1>4 DEF DiscardingTypes, CommandTargets, RecordedAs, DECISION_TARGET_TYPES
  <1> QED  BY <1>2, <1>3, <1>5

\* The event of a decision records a command if the decision is one.
LEMMA CommandRecorded ==
    ASSUME NEW batch, NEW i, IsDecision(batch[i])
    PROVE  LET type == Command(batch, i).type
           IN  /\ type \in DOMAIN RecordedAs <=> batch[i].type \in CommandTypes
               /\ type \in DOMAIN RecordedAs => RecordedAs[type] = batch[i].type
  <1> DEFINE d == batch[i]
             c == Command(batch, i)
             ref(set) == IF set = {} THEN 0 ELSE CHOOSE id \in set : TRUE
  <1>1. d.type \in {"ScheduleActivity", "RequestActivityCancellation", "RecordMarker", "StartTimer",
                    "CancelTimer", "CompleteWorkflow", "FailWorkflow", "StartChildWorkflow"}
    BY DEF IsDecision, DecisionTypes, DECISION_TARGET_TYPES
  <1>2. CASE d.type = "RequestActivityCancellation"
    <2> DEFINE ids == Named(batch, i, "ScheduleActivity", OpenActivities)
               type == IF ids = {} THEN "RequestCancelActivityTaskFailed"
                       ELSE "ActivityTaskCancelRequested"
    <2>1. c = Event(type, ref(ids), d.key, "")
      BY <1>2 DEF Command
    <2>2. type \in {"RequestCancelActivityTaskFailed", "ActivityTaskCancelRequested"}
      OBVIOUS
    <2> HIDE DEF type, ids, c
    <2>3. c.type = type
      BY <2>1 DEF Event
    <2> QED  BY <1>2, <2>2, <2>3 DEF RecordedAs, CommandTypes, c
  <1>3. CASE d.type = "CancelTimer"
    <2> DEFINE ids == IF CanceledBefore(batch, i) THEN {}
                      ELSE Named(batch, i, "StartTimer", CancelableTimers)
               type == IF ids = {} THEN "CancelTimerFailed" ELSE "TimerCanceled"
    <2>1. c = Event(type, ref(ids), d.key, "")
      BY <1>3 DEF Command
    <2>2. type \in {"CancelTimerFailed", "TimerCanceled"}
      OBVIOUS
    <2> HIDE DEF type, ids, c
    <2>3. c.type = type
      BY <2>1 DEF Event
    <2> QED  BY <1>3, <2>2, <2>3 DEF RecordedAs, CommandTypes, c
  <1>4. CASE d.type \notin {"RequestActivityCancellation", "CancelTimer"}
    BY <1>1, <1>4 DEF Command, TaskEvent, Event, RecordedAs, CommandTypes
  <1> QED  BY <1>2, <1>3, <1>4

\* Where a conversation tells of commands.
CommandPlaces(s) == {k \in 1..Len(s) : s[k][1] \in CommandTypes}

\* The commands a conversation tells of.
CommandsIn(s) == {s[k] : k \in CommandPlaces(s)}

\* Their ids rise.
Rising(s) == \A k, l \in CommandPlaces(s) : k < l => s[k][2] < s[l][2]

\* A word that is no command changes nothing of this; a command comes last.
LEMMA OneMoreWord ==
    ASSUME NEW s, IsSeq(s), NEW x
    PROVE  LET t == Append(s, x)
           IN  /\ IsSeq(t)
               /\ x[1] \notin CommandTypes => /\ CommandsIn(t) = CommandsIn(s)
                                              /\ Rising(s) => Rising(t)
               /\ x[1] \in CommandTypes =>
                    /\ CommandsIn(t) = CommandsIn(s) \cup {x}
                    /\ Rising(s) /\ (\A y \in CommandsIn(s) : y[2] < x[2]) => Rising(t)
  <1> DEFINE t == Append(s, x)
             n == Len(s)
  <1>1. /\ n \in Nat /\ IsSeq(t) /\ Len(t) = n + 1 /\ t[n + 1] = x
        /\ \A k \in 1..n : t[k] = s[k]
    BY SeqFacts, SeqAppend
  <1> HIDE DEF t, n
  <1>2. \A k \in 1..n + 1 : k \in 1..n \/ k = n + 1
    BY <1>1
  <1>3. \A k \in 1..n : k \in 1..n + 1 /\ k < n + 1 /\ k # n + 1
    BY <1>1
  <1>4. n + 1 \in 1..n + 1
    BY <1>1
  <1>5. CASE x[1] \notin CommandTypes
    <2>1. CommandPlaces(t) = CommandPlaces(s)
      BY <1>1, <1>2, <1>3, <1>5 DEF CommandPlaces, n
    <2>2. \A k \in CommandPlaces(s) : t[k] = s[k]
      BY <1>1 DEF CommandPlaces, n
    <2>3. CommandsIn(t) = CommandsIn(s)
      BY <2>1, <2>2 DEF CommandsIn
    <2>4. Rising(s) => Rising(t)
      BY <2>1, <2>2 DEF Rising
    <2> QED  BY <1>1, <1>5, <2>3, <2>4 DEF t
  <1>6. CASE x[1] \in CommandTypes
    <2>1. CommandPlaces(t) = CommandPlaces(s) \cup {n + 1}
      BY <1>1, <1>2, <1>3, <1>4, <1>6 DEF CommandPlaces, n
    <2>2. \A k \in CommandPlaces(s) : t[k] = s[k] /\ k \in 1..n /\ s[k] \in CommandsIn(s)
      BY <1>1 DEF CommandPlaces, CommandsIn, n
    <2>3. CommandsIn(t) = CommandsIn(s) \cup {x}
      BY <1>1, <2>1, <2>2 DEF CommandsIn
    <2>4. ASSUME Rising(s), \A y \in CommandsIn(s) : y[2] < x[2]
          PROVE  Rising(t)
      <3> SUFFICES ASSUME NEW k \in CommandPlaces(t), NEW l \in CommandPlaces(t), k < l
                   PROVE  t[k][2] < t[l][2]
        BY DEF Rising
      <3>1. k \in CommandPlaces(s)
        <4>1. k # n + 1
          <5>1. l \in 1..n + 1 /\ k \in 1..n + 1
            BY <1>1 DEF CommandPlaces
          <5> QED  BY <1>1, <5>1
        <4> QED  BY <2>1, <4>1
      <3>2. CASE l = n + 1
        BY <1>1, <2>2, <2>4, <3>1, <3>2
      <3>3. CASE l # n + 1
        BY <2>1, <2>2, <2>4, <3>1, <3>3 DEF Rising
      <3> QED  BY <3>2, <3>3
    <2> QED  BY <1>1, <1>6, <2>3, <2>4 DEF t
  <1> QED  BY <1>5, <1>6

\* The events of commands that the run has applied.
Found == {i \in 1..cursor : ~Left(i) /\ snapshot[i].type \in DOMAIN RecordedAs}

\* The commands that these events record.
FoundCommands == {<<RecordedAs[snapshot[i].type], i>> : i \in Found}

\* The decisions that are commands and that no event has stood for yet.
Pending == {j \in 1..Len(sm.decisions) : sm.decisions[j].type \in CommandTypes}

\* These commands.
PendingCommands == {<<sm.decisions[j].type, sm.decisions[j].id>> : j \in Pending}

\* The invariant of what code is told: of each command it gave that was found in
\* the history or is pending, and of no other; and ids rise.
SaidInv ==
    /\ IsSeq(seen)
    /\ CommandsIn(seen) = FoundCommands \cup PendingCommands
    /\ Rising(seen)
    /\ \A x \in CommandsIn(seen) : x[2] \in Nat /\ x[2] <= sm.last_event_id

\* No command is given, and none is found.
LEMMA SaidStay ==
    ASSUME RunInv, IdsInv, SaidInv, UNCHANGED <<snapshot, cursor, todo>>, Refrains
    PROVE  SaidInv'
  <1>1. FoundCommands' = FoundCommands
    BY DEF FoundCommands, Found, Left
  <1>2. PendingCommands' = PendingCommands
    BY DEF PendingCommands, Pending, Refrains
  <1>3. IsSeq(seen') /\ CommandsIn(seen') = CommandsIn(seen) /\ Rising(seen')
    <2>1. CASE seen' = seen
      BY <2>1 DEF SaidInv
    <2>2. CASE seen' # seen
      <3>1. PICK x : x[1] \notin CommandTypes /\ seen' = Append(seen, x)
        BY <2>2 DEF Refrains, Listens
      <3> QED  BY <3>1, OneMoreWord DEF SaidInv
    <2> QED  BY <2>1, <2>2
  <1>4. /\ sm.last_event_id \in Nat /\ sm'.last_event_id \in Nat
        /\ sm.last_event_id <= sm'.last_event_id
    BY IdsRise DEF Refrains
  <1>5. \A x \in CommandsIn(seen) : x[2] \in Nat /\ x[2] <= sm'.last_event_id
    BY <1>4 DEF SaidInv
  <1> QED  BY <1>1, <1>2, <1>3, <1>5 DEF SaidInv

\* A decision is scheduled: if it is a command, code is told its id.
LEMMA SaidTakes ==
    ASSUME RunInv, IdsInv, SaidInv, UNCHANGED <<snapshot, cursor, todo>>, NEW d, Takes(d)
    PROVE  SaidInv'
  <1> DEFINE n == Len(sm.decisions)
             x == <<d.type, d.id>>
  <1>1. FoundCommands' = FoundCommands
    BY DEF FoundCommands, Found, Left
  <1>2. IsSeq(sm.decisions) /\ n \in Nat /\ sm.last_event_id \in Nat
    BY SeqFacts DEF IdsInv, RunInv, ManagerOK
  <1>3. d.id \in Nat /\ d.id > sm.last_event_id /\ sm'.last_event_id = d.id
    BY IdsRise DEF Takes
  <1>4. /\ Len(sm'.decisions) = n + 1 /\ sm'.decisions[n + 1] = d
        /\ \A j \in 1..n : sm'.decisions[j] = sm.decisions[j]
    BY <1>2, SeqAppend DEF Takes
  <1>5. \A y \in CommandsIn(seen) : y[2] \in Nat /\ y[2] < d.id /\ y[2] <= d.id
    BY <1>2, <1>3 DEF SaidInv
  <1> HIDE DEF n
  <1>6. CASE d.type \notin CommandTypes
    <2>1. Pending' = Pending
      <3>1. \A j \in 1..n + 1 : j \in 1..n \/ j = n + 1
        BY <1>2
      <3>2. \A j \in 1..n : j \in 1..n + 1
        BY <1>2
      <3> QED  BY <1>4, <1>6, <3>1, <3>2 DEF Pending, n
    <2>2. PendingCommands' = PendingCommands
      BY <1>4, <2>1 DEF PendingCommands, Pending, n
    <2>3. IsSeq(seen') /\ CommandsIn(seen') = CommandsIn(seen) /\ Rising(seen')
      <3>1. CASE seen' = seen
        BY <3>1 DEF SaidInv
      <3>2. CASE seen' # seen
        <4>1. PICK w : w[1] \notin CommandTypes /\ seen' = Append(seen, w)
          BY <1>6, <3>2 DEF Takes, Listens
        <4> QED  BY <4>1, OneMoreWord DEF SaidInv
      <3> QED  BY <3>1, <3>2
    <2> QED  BY <1>1, <1>3, <1>5, <2>2, <2>3 DEF SaidInv
  <1>7. CASE d.type \in CommandTypes
    <2>1. Pending' = Pending \cup {n + 1}
      <3>1. \A j \in 1..n + 1 : j \in 1..n \/ j = n + 1
        BY <1>2
      <3>2. \A j \in 1..n : j \in 1..n + 1
        BY <1>2
      <3>3. n + 1 \in 1..n + 1
        BY <1>2
      <3> QED  BY <1>4, <1>7, <3>1, <3>2, <3>3 DEF Pending, n
    <2>2. PendingCommands' = PendingCommands \cup {x}
      <3>1. \A j \in Pending : sm'.decisions[j] = sm.decisions[j]
        BY <1>4 DEF Pending, n
      <3> QED  BY <1>4, <2>1, <3>1 DEF PendingCommands
    <2>3. seen' = Append(seen, x) /\ x[1] \in CommandTypes /\ x[2] = d.id
      BY <1>7 DEF Takes
    <2> HIDE DEF x
    <2>4. IsSeq(seen') /\ CommandsIn(seen') = CommandsIn(seen) \cup {x} /\ Rising(seen')
      <3>1. \A y \in CommandsIn(seen) : y[2] < x[2]
        BY <1>5, <2>3
      <3> QED  BY <2>3, <3>1, OneMoreWord DEF SaidInv
    <2>5. CommandsIn(seen') = FoundCommands' \cup PendingCommands'
      BY <1>1, <2>2, <2>4 DEF SaidInv
    <2>6. \A y \in CommandsIn(seen') : y[2] \in Nat /\ y[2] <= d.id
      BY <1>3, <1>5, <2>3, <2>4
    <2> QED  BY <1>3, <2>4, <2>5, <2>6 DEF SaidInv
  <1> QED  BY <1>6, <1>7

\* Applying an event moves a command from the pending ones to those found.
LEMMA ApplyEventSaid ==
    ASSUME RunInv, IdsInv, SaidInv, ApplyEvent
    PROVE  SaidInv'
  <1> DEFINE e == Head(todo)
  <1>1. CASE ApplyError(sm, e) # "none"
    <2>1. Abort(ApplyError(sm, e))
      BY <1>1 DEF ApplyEvent
    <2> QED  BY <2>1, SaidStay DEF Abort, Refrains, Listens
  <1>2. CASE ApplyError(sm, e) = "none"
    <2>1. /\ todo # <<>> /\ todo' = Tail(todo) /\ sm' = apply_event(sm, e)
          /\ UNCHANGED <<snapshot, cursor, seen>>
      BY <1>2 DEF ApplyEvent
    <2>2. /\ e.id \in 1..cursor /\ e.id \in 1..Len(snapshot)
          /\ e = snapshot[e.id] /\ Left(e.id)
      BY <2>1, HeadLeft
    <2>3. /\ IsSeq(todo) /\ Len(todo) \in Nat \ {0} /\ e = todo[1]
          /\ Len(todo') = Len(todo) - 1 /\ \A k \in 1..Len(todo) - 1 : todo'[k] = todo[k + 1]
      BY <2>1, SeqTail DEF RunInv, RunType, Events
    <2>4. /\ sm'.last_event_id = sm.last_event_id
          /\ e.type \in DiscardingTypes =>
               /\ sm'.decisions = Tail(sm.decisions) /\ sm.decisions # <<>>
               /\ from_decision(Head(sm.decisions)) = from_event(e)
          /\ e.type \notin DiscardingTypes => sm'.decisions = sm.decisions
      BY <1>2, <2>1, Applying
    <2>5. e.type \in DOMAIN RecordedAs => e.type \in DiscardingTypes
      BY <1>2, CommandsAreCommands DEF ApplyError
    <2> HIDE DEF e
    <2>6. \A i \in 1..cursor : Left(i)' <=> Left(i) /\ i # e.id
      <3> SUFFICES ASSUME NEW i \in 1..cursor
                   PROVE  (\E k \in 1..Len(todo') : todo'[k].id = i)
                            <=> (\E k \in 1..Len(todo) : todo[k].id = i) /\ i # e.id
        <4>1. cursor \in Nat
          BY SeqFacts DEF RunInv, RunType, Events
        <4>2. \A i \in 1..cursor : ~(i > cursor)
          BY <4>1
        <4> QED  BY <2>1, <4>2 DEF Left
      <3>1. ASSUME NEW k \in 1..Len(todo), todo[k].id = i, i # e.id
            PROVE  k - 1 \in 1..Len(todo') /\ todo'[k - 1].id = i
        <4>1. k # 1
          BY <2>3, <3>1
        <4>2. k - 1 \in 1..Len(todo) - 1 /\ (k - 1) + 1 = k
          BY <2>3, <4>1
        <4> QED  BY <2>3, <3>1, <4>2
      <3>2. ASSUME NEW k \in 1..Len(todo'), todo'[k].id = i
            PROVE  k + 1 \in 1..Len(todo) /\ todo[k + 1].id = i /\ i # e.id
        <4>1. k + 1 \in 1..Len(todo) /\ todo'[k] = todo[k + 1] /\ k + 1 # 1 /\ 1 \in 1..Len(todo)
          BY <2>3
        <4>2. todo[k + 1].id # todo[1].id
          BY <4>1 DEF RunInv, RunType
        <4> QED  BY <2>3, <3>2, <4>1, <4>2
      <3> QED  BY <3>1, <3>2
    <2>7. CASE e.type \in DOMAIN RecordedAs
      <3> DEFINE D == sm.decisions
                 p == <<RecordedAs[e.type], e.id>>
      <3>1. /\ IsSeq(D) /\ D # <<>> /\ Len(D) \in Nat \ {0} /\ Head(D) = D[1]
            /\ Len(Tail(D)) = Len(D) - 1 /\ \A j \in 1..Len(D) - 1 : Tail(D)[j] = D[j + 1]
        BY <2>4, <2>5, <2>7, SeqTail DEF RunInv, ManagerOK
      <3>2. IsDecision(D[1]) /\ from_decision(D[1]) = from_event(e) /\ sm'.decisions = Tail(D)
        BY <2>4, <2>5, <2>7, <3>1 DEF RunInv, ManagerOK
      <3>3. D[1].type \in CommandTypes /\ <<D[1].type, D[1].id>> = p
        BY <2>5, <2>7, <3>2, DiscardedCommand
      <3>4. Found' = Found \cup {e.id}
        BY <2>1, <2>2, <2>6, <2>7 DEF Found
      <3>5. FoundCommands' = FoundCommands \cup {p}
        <4>1. snapshot[e.id] = e
          BY <2>2
        <4> QED  BY <2>1, <3>4, <4>1 DEF FoundCommands
      <3>6. PendingCommands = PendingCommands' \cup {p}
        <4>1. \A j \in 1..Len(D) : j = 1 \/ (j - 1 \in 1..Len(D) - 1 /\ (j - 1) + 1 = j)
          BY <3>1
        <4>2. \A j \in 1..Len(D) - 1 : j + 1 \in 1..Len(D)
          BY <3>1
        <4>3. 1 \in Pending
          BY <3>1, <3>3 DEF Pending
        <4>4. ASSUME NEW j \in Pending PROVE <<D[j].type, D[j].id>> \in PendingCommands' \cup {p}
          <5>1. CASE j = 1
            BY <3>3, <5>1
          <5>2. CASE j # 1
            <6>1. j - 1 \in 1..Len(D) - 1 /\ D[j] = Tail(D)[j - 1]
              BY <3>1, <4>1, <5>2 DEF Pending
            <6>2. j - 1 \in Pending'
              BY <3>1, <3>2, <6>1 DEF Pending
            <6>3. <<Tail(D)[j - 1].type, Tail(D)[j - 1].id>> \in PendingCommands'
              BY <3>2, <6>2 DEF PendingCommands
            <6> QED  BY <6>1, <6>3
          <5> QED  BY <5>1, <5>2
        <4>5. ASSUME NEW j \in Pending' PROVE <<Tail(D)[j].type, Tail(D)[j].id>> \in PendingCommands
          <5>1. j \in 1..Len(D) - 1 /\ Tail(D)[j] = D[j + 1] /\ j + 1 \in 1..Len(D)
            BY <3>1, <3>2, <4>2 DEF Pending
          <5>2. j + 1 \in Pending
            BY <3>2, <5>1 DEF Pending
          <5> QED  BY <5>1, <5>2 DEF PendingCommands
        <4>6. p \in PendingCommands
          BY <3>3, <4>3 DEF PendingCommands
        <4> QED  BY <3>2, <4>4, <4>5, <4>6 DEF PendingCommands
      <3>7. CommandsIn(seen) = FoundCommands' \cup PendingCommands'
        BY <3>5, <3>6 DEF SaidInv
      <3> QED  BY <2>1, <2>4, <3>7 DEF SaidInv
    <2>8. CASE e.type \notin DOMAIN RecordedAs
      <3>1. e.type \notin DiscardingTypes
        BY <2>8, CommandsAreCommands
      <3>2. Found' = Found
        BY <2>1, <2>2, <2>6, <2>8 DEF Found
      <3>3. FoundCommands' = FoundCommands
        BY <2>1, <3>2 DEF FoundCommands
      <3>4. PendingCommands' = PendingCommands
        BY <2>4, <3>1 DEF PendingCommands, Pending
      <3> QED  BY <2>1, <2>4, <3>3, <3>4 DEF SaidInv
    <2> QED  BY <2>7, <2>8
  <1> QED  BY <1>1, <1>2


\* Opening a window finds nothing yet, provided that no decision is left over.
LEMMA NextWindowSaid ==
    ASSUME RunInv, RecordInv, ServiceInv, IdsInv, SaidInv, NothingLeftOver, NextWindow
    PROVE  SaidInv'
  <1> DEFINE w == next_window(snapshot, cursor)
             end == WindowEnd(snapshot, cursor)
             t == Ordered(w)
  <1>1. /\ AtRoot /\ todo = <<>> /\ cursor < Len(snapshot)
        /\ sm' = OpenWindow(sm, w) /\ cursor' = end /\ todo' = t
        /\ UNCHANGED <<snapshot, seen>>
    BY DEF NextWindow
  <1>2. Events(snapshot) /\ (\A i \in 1..Len(snapshot) : snapshot[i].id = i)
        /\ Len(snapshot) \in Nat /\ cursor \in Nat
    BY SeqFacts DEF RunInv, RunType, Events
  <1>3. sm.decisions = <<>> /\ Len(todo) = 0
    BY <1>1, SeqShort DEF NothingLeftOver
  <1>4. end \in cursor + 1 .. Len(snapshot) /\ w.last_event_id \in Nat /\ w.last_event_id > cursor
    BY WindowOpens
  <1>5. \A k \in 1..Len(t) : t[k].id \in cursor + 1 .. end
    BY <1>1, <1>2, WindowEvents
  <1>6. \A i \in cursor + 1 .. end : snapshot[i].type \notin DecisionTaskTypes =>
          \E k \in 1..Len(t) : t[k].id = i
    BY <1>1, <1>2, WindowComplete
  <1> HIDE DEF w, end, t
  <1>7. /\ sm'.last_event_id = w.last_event_id /\ sm'.decisions = sm.decisions
    BY <1>1 DEF OpenWindow, RunInv, ManagerOK, ManagerFields
  <1>8. Found' = Found
    <2>1. ASSUME NEW i \in 1..cursor PROVE i \in 1..end /\ ~Left(i) /\ ~Left(i)'
      <3>1. i \in 1..end /\ ~(i > end) /\ ~(i > cursor) /\ i \notin cursor + 1 .. end
        BY <1>2, <1>4
      <3> QED  BY <1>1, <1>3, <1>5, <3>1 DEF Left
    <2>2. ASSUME NEW i \in 1..end, i \notin 1..cursor, snapshot[i].type \in DOMAIN RecordedAs
          PROVE  Left(i)'
      <3>1. i \in cursor + 1 .. end
        BY <1>2, <1>4, <2>2
      <3>2. snapshot[i].type \notin DecisionTaskTypes
        BY <2>2 DEF RecordedAs, DecisionTaskTypes
      <3> QED  BY <1>1, <1>6, <3>1, <3>2 DEF Left
    <2> QED  BY <1>1, <2>1, <2>2 DEF Found
  <1>9. FoundCommands' = FoundCommands /\ PendingCommands' = PendingCommands
    BY <1>1, <1>7, <1>8 DEF FoundCommands, PendingCommands, Pending
  <1>10. \A x \in CommandsIn(seen) : x[2] \in Nat /\ x[2] <= w.last_event_id
    <2>1. Len(sm.decisions) = 0
      BY <1>3, SeqShort
    <2>2. PendingCommands = {}
      BY <2>1 DEF PendingCommands, Pending
    <2> SUFFICES ASSUME NEW x \in FoundCommands PROVE x[2] \in Nat /\ x[2] <= w.last_event_id
      BY <2>2 DEF SaidInv
    <2>3. PICK i \in Found : x = <<RecordedAs[snapshot[i].type], i>>
      BY DEF FoundCommands
    <2>4. x[2] = i /\ i \in 1..cursor
      BY <2>3 DEF Found
    <2> QED  BY <1>2, <1>4, <2>4
  <1> QED  BY <1>1, <1>7, <1>9, <1>10 DEF SaidInv

\* No step of a run breaks the invariant of what code is told.
LEMMA RunSaid ==
    ASSUME RunInv, FiberInv, ServiceInv, RecordInv, IdsInv, SaidInv, NothingLeftOver, Run
    PROVE  SaidInv'
  <1>1. CASE NextWindow
    BY <1>1, NextWindowSaid
  <1>2. CASE ApplyEvent
    BY <1>2, ApplyEventSaid
  <1>3. CASE RunHandler
    <2>1. HandlerMoves
      BY <1>3, RunHandlerMoves
    <2> QED  BY <2>1, SaidStay DEF HandlerMoves, Refrains, Listens
  <1>4. CASE FinishRun
    BY <1>4, SaidStay DEF FinishRun, Refrains, Listens
  <1>5. CASE CodeStep
    <2>1. CodeMoves
      BY <1>5, CodeStepMoves
    <2>2. UNCHANGED <<snapshot, cursor, todo>> /\ (Refrains \/ \E d : Takes(d))
      BY <2>1 DEF CodeMoves, Continues, Parks, Ends, Aborts, Decides, Refrains, Listens
    <2>3. CASE Refrains
      BY <2>2, <2>3, SaidStay
    <2>4. CASE \E d : Takes(d)
      BY <2>2, <2>4, SaidTakes
    <2> QED  BY <2>2, <2>3, <2>4
  <1> QED  BY <1>1, <1>2, <1>3, <1>4, <1>5 DEF Run, RunStep, RootStep

\* A new run has been told nothing.
LEMMA FreshSaid ==
    ASSUME NEW at, NEW raised, NEW h, NEW registered, ResetRun(at, raised, h, registered)
    PROVE  SaidInv'
  <1>1. seen' = <<>> /\ cursor' = 0 /\ sm' = NewStateManager
    BY DEF ResetRun
  <1>2. sm'.decisions = <<>>
    BY <1>1 DEF NewStateManager
  <1>3. IsSeq(seen') /\ Len(seen') = 0 /\ Len(sm'.decisions) = 0
    BY <1>1, <1>2, SeqShort
  <1>4. CommandPlaces(seen') = {}
    BY <1>3 DEF CommandPlaces
  <1>5. CommandsIn(seen') = {} /\ Rising(seen')
    BY <1>4 DEF CommandsIn, Rising
  <1>6. Found' = {} /\ Pending' = {}
    BY <1>1, <1>3 DEF Found, Pending
  <1>7. FoundCommands' = {} /\ PendingCommands' = {}
    BY <1>6 DEF FoundCommands, PendingCommands
  <1> QED  BY <1>3, <1>5, <1>7 DEF SaidInv

\* Neither has a new execution.
LEMMA SaidInit ==
    ASSUME Init
    PROVE  SaidInv
  <1>1. seen = <<>> /\ cursor = 0 /\ sm.decisions = <<>>
    BY DEF Init, InitRun, NewStateManager
  <1>2. IsSeq(seen) /\ Len(seen) = 0 /\ Len(sm.decisions) = 0
    BY <1>1, SeqShort
  <1>3. CommandPlaces(seen) = {}
    BY <1>2 DEF CommandPlaces
  <1>4. CommandsIn(seen) = {} /\ Rising(seen)
    BY <1>3 DEF CommandsIn, Rising
  <1>5. Found = {} /\ Pending = {}
    BY <1>1, <1>2 DEF Found, Pending
  <1>6. FoundCommands = {} /\ PendingCommands = {}
    BY <1>5 DEF FoundCommands, PendingCommands
  <1> QED  BY <1>2, <1>4, <1>6 DEF SaidInv

\* No step breaks the invariant of what code is told.
LEMMA SaidNext ==
    ASSUME FiberInvs, RecordInv, IdsInv, SaidInv, NothingLeftOver, [Next]_vars
    PROVE  SaidInv'
  <1>1. CASE Run
    BY <1>1, RunSaid DEF FiberInvs, IInv
  <1>2. CASE ~Run
    <2>1. CASE StartRun(history') \/ ResetRun("failed", "not_run", history', <<>>)
      BY <2>1, FreshSaid DEF StartRun
    <2>2. CASE EndRun
      BY <2>2, FreshSaid DEF EndRun
    <2>3. CASE UNCHANGED runVars
      BY <2>3, SaidStay DEF FiberInvs, IInv, runVars, Refrains, Listens
    <2> QED  BY <1>2, <2>1, <2>2, <2>3, BetweenRuns
  <1> QED  BY <1>1, <1>2

\* Code is told of its commands as it should be, if no decision is left over.
LEMMA SaidInvariant == Spec /\ []NothingLeftOver => []SaidInv
  <1>1. Init => SaidInv
    BY SaidInit
  <1>2. FiberInvs /\ RecordInv /\ IdsInv /\ SaidInv /\ NothingLeftOver /\ [Next]_vars => SaidInv'
    BY SaidNext
  <1> QED  BY <1>1, <1>2, FiberInvariant, RecordInvariant, IdsInvariant, PTL DEF Spec


-----------------------------------------------------------------------------
(* The commands on record.                                                   *)

\* The commands on record are those that accepted runs were told of, and their
\* ids rise.
JournalInv ==
    /\ IsSeq(journal)
    /\ CommandsIn(journal) = CommandsOnRecord
    /\ Rising(journal)

\* The places of the events that record commands.
Recording(h) == {i \in 1..Len(h) : h[i].type \in DOMAIN RecordedAs}

\* What a history has on record.
RecordedIn(h) == {<<RecordedAs[h[i].type], i>> : i \in Recording(h)}

\* That is what DurableExecution takes for the record.
LEMMA OnRecord ==
    ASSUME NEW h, IsSeq(h), \A i \in 1..Len(h) : h[i].id = i
    PROVE  {<<RecordedAs[e.type], e.id>> : e \in {f \in ToSet(h) : f.type \in DOMAIN RecordedAs}}
             = RecordedIn(h)
  <1> DEFINE all == {<<RecordedAs[e.type], e.id>> :
                       e \in {f \in ToSet(h) : f.type \in DOMAIN RecordedAs}}
  <1>1. DOMAIN h = 1..Len(h)
    BY SeqFacts
  <1>2. ASSUME NEW x \in all PROVE x \in RecordedIn(h)
    <2>1. PICK e \in ToSet(h) : e.type \in DOMAIN RecordedAs /\ x = <<RecordedAs[e.type], e.id>>
      BY <1>2
    <2>2. PICK i \in 1..Len(h) : e = h[i]
      BY <1>1 DEF ToSet
    <2> QED  BY <2>1, <2>2 DEF Recording, RecordedIn
  <1>3. ASSUME NEW i \in Recording(h) PROVE <<RecordedAs[h[i].type], i>> \in all
    <2>1. h[i] \in ToSet(h) /\ h[i].type \in DOMAIN RecordedAs /\ h[i].id = i
      BY <1>1 DEF Recording, ToSet
    <2> QED  BY <2>1
  <1> QED  BY <1>2, <1>3 DEF RecordedIn

\* Mild events record no command.
LEMMA MildNoCommands ==
    ASSUME ServiceInv, ServiceInv', NEW new, Milds(new), history' = Recorded(history, new)
    PROVE  CommandsOnRecord' = CommandsOnRecord
  <1> DEFINE n == Len(history)
  <1>1. /\ IsSeq(history) /\ Events(history) /\ (\A i \in 1..Len(history) : history[i].id = i)
        /\ IsSeq(history') /\ (\A i \in 1..Len(history') : history'[i].id = i) /\ n \in Nat
    BY SeqFacts DEF ServiceInv, HistoryOK, Events
  <1>2. Events(new) /\ Len(new) \in Nat
    BY MildEvents, SeqFacts DEF Milds
  <1>3. /\ Len(history') = n + Len(new)
        /\ \A i \in 1..n : history'[i] = history[i]
        /\ \A i \in 1..Len(new) : SameEvent(history'[n + i], new[i])
    BY <1>1, <1>2, RecordedEvents
  <1> HIDE DEF n
  <1>4. Recording(history') = Recording(history)
    <2>1. \A i \in 1..n : i \in 1..Len(history')
      BY <1>1, <1>2, <1>3
    <2>2. ASSUME NEW i \in 1..Len(history'), i \notin 1..n
          PROVE  history'[i].type \notin DOMAIN RecordedAs
      <3>1. i - n \in 1..Len(new) /\ n + (i - n) = i
        BY <1>1, <1>2, <1>3, <2>2
      <3>2. history'[i].type = new[i - n].type
        BY <1>3, <3>1 DEF SameEvent
      <3>3. Mild(new[i - n])
        BY <3>1 DEF Milds
      <3> QED  BY <3>2, <3>3 DEF Mild
    <2> QED  BY <1>3, <2>1, <2>2 DEF Recording, n
  <1>5. \A i \in Recording(history) : history'[i] = history[i]
    BY <1>3 DEF Recording, n
  <1>6. CommandsOnRecord = RecordedIn(history)
    BY <1>1, OnRecord DEF CommandsOnRecord
  <1>7. CommandsOnRecord' = RecordedIn(history')
    BY <1>1, OnRecord DEF CommandsOnRecord
  <1> QED  BY <1>4, <1>5, <1>6, <1>7 DEF RecordedIn

\* An answer records the commands of the run.
LEMMA AnswerCommands ==
    ASSUME ServiceInv, ServiceInv', RunInv, NEW new, AnsweredBy(new, sm.decisions),
           history' = Recorded(history, new),
           \A j \in 1..Len(sm.decisions) : sm.decisions[j].id = Len(history) + 1 + j
    PROVE  CommandsOnRecord' = CommandsOnRecord \cup PendingCommands
  <1> DEFINE n == Len(history)
             batch == sm.decisions
             m == Len(batch)
  <1>1. /\ IsSeq(history) /\ Events(history) /\ (\A i \in 1..Len(history) : history[i].id = i)
        /\ IsSeq(history') /\ (\A i \in 1..Len(history') : history'[i].id = i)
        /\ n \in Nat /\ m \in Nat /\ \A j \in 1..m : IsDecision(batch[j])
    BY SeqFacts DEF ServiceInv, HistoryOK, Events, RunInv, ManagerOK
  <1>2. /\ Events(new) /\ Len(new) \in Nat /\ Len(new) >= 1 + m
        /\ new[1].type = "DecisionTaskCompleted"
        /\ \A j \in 1..m : new[1 + j] = Command(batch, j)
        /\ \A i \in 2 + m .. Len(new) : Mild(new[i])
    <2>1. TaskEvent("DecisionTaskCompleted").type = "DecisionTaskCompleted"
      BY DEF TaskEvent, Event
    <2>2. Events(new) /\ Len(new) \in Nat
      BY SeqFacts DEF AnsweredBy, Events
    <2> QED  BY <2>1, <2>2 DEF AnsweredBy
  <1>3. /\ Len(history') = n + Len(new)
        /\ \A i \in 1..n : history'[i] = history[i]
        /\ \A i \in 1..Len(new) : SameEvent(history'[n + i], new[i])
    BY <1>1, <1>2, RecordedEvents
  <1>4. CommandsOnRecord = RecordedIn(history)
    BY <1>1, OnRecord DEF CommandsOnRecord
  <1>5. CommandsOnRecord' = RecordedIn(history')
    BY <1>1, OnRecord DEF CommandsOnRecord
  <1>6. ASSUME NEW j \in 1..m
        PROVE  /\ n + 1 + j \in 1..Len(history')
               /\ n + 1 + j \in Recording(history') <=> j \in Pending
               /\ j \in Pending => <<RecordedAs[history'[n + 1 + j].type], n + 1 + j>>
                                     = <<batch[j].type, batch[j].id>>
    <2>1. 1 + j \in 1..Len(new) /\ n + (1 + j) = n + 1 + j /\ n + 1 + j \in 1..Len(history')
      BY <1>1, <1>2, <1>3
    <2>2. history'[n + 1 + j].type = Command(batch, j).type
      BY <1>2, <1>3, <2>1 DEF SameEvent
    <2>3. /\ history'[n + 1 + j].type \in DOMAIN RecordedAs <=> batch[j].type \in CommandTypes
          /\ history'[n + 1 + j].type \in DOMAIN RecordedAs =>
               RecordedAs[history'[n + 1 + j].type] = batch[j].type
      BY <1>1, <2>2, CommandRecorded
    <2> QED  BY <2>1, <2>3 DEF Recording, Pending
  <1> HIDE DEF n, batch, m
  <1>7. ASSUME NEW i \in Recording(history')
        PROVE  \/ i \in Recording(history)
               \/ \E j \in 1..m : i = n + 1 + j
    <2>1. CASE i \in 1..n
      BY <1>3, <2>1 DEF Recording, n
    <2>2. CASE i \notin 1..n
      <3>1. i - n \in 1..Len(new) /\ n + (i - n) = i
        BY <1>1, <1>2, <1>3, <2>2 DEF Recording
      <3>2. new[i - n].type \in DOMAIN RecordedAs
        BY <1>3, <3>1 DEF Recording, SameEvent
      <3>3. i - n # 1
        BY <1>2, <3>2 DEF RecordedAs
      <3>4. i - n \notin 2 + m .. Len(new)
        BY <1>2, <3>2 DEF Mild
      <3>5. i - n - 1 \in 1..m /\ i = n + 1 + (i - n - 1)
        <4> DEFINE k == i - n
        <4>1. k \in 1..Len(new) /\ n + k = i /\ k # 1 /\ k \notin 2 + m .. Len(new)
          BY <3>1, <3>3, <3>4
        <4>2. n \in Nat /\ m \in Nat /\ Len(new) \in Nat
          BY <1>1, <1>2
        <4> HIDE DEF k
        <4>3. k - 1 \in 1..m /\ i = n + 1 + (k - 1)
          BY <4>1, <4>2
        <4> QED  BY <4>3 DEF k
      <3> QED  BY <3>5
    <2> QED  BY <2>1, <2>2
  <1>8. ASSUME NEW i \in Recording(history)
        PROVE  i \in Recording(history') /\ history'[i] = history[i]
    <2>1. i \in 1..n /\ i \in 1..Len(history')
      BY <1>1, <1>2, <1>3 DEF Recording, n
    <2> QED  BY <1>3, <2>1 DEF Recording
  <1>9. CommandsOnRecord' \subseteq CommandsOnRecord \cup PendingCommands
    <2> SUFFICES ASSUME NEW i \in Recording(history')
                 PROVE  <<RecordedAs[history'[i].type], i>> \in CommandsOnRecord \cup PendingCommands
      BY <1>5 DEF RecordedIn
    <2>1. CASE i \in Recording(history)
      BY <1>4, <1>8, <2>1 DEF RecordedIn
    <2>2. CASE i \notin Recording(history)
      <3>1. PICK j \in 1..m : i = n + 1 + j
        BY <1>7, <2>2
      <3>2. j \in Pending /\ <<RecordedAs[history'[i].type], i>> = <<batch[j].type, batch[j].id>>
        BY <1>6, <3>1
      <3> QED  BY <3>2 DEF PendingCommands, batch
    <2> QED  BY <2>1, <2>2
  <1>10. CommandsOnRecord \subseteq CommandsOnRecord'
    BY <1>4, <1>5, <1>8 DEF RecordedIn
  <1>11. PendingCommands \subseteq CommandsOnRecord'
    <2> SUFFICES ASSUME NEW j \in Pending
                 PROVE  <<batch[j].type, batch[j].id>> \in CommandsOnRecord'
      BY DEF PendingCommands, batch
    <2>1. j \in 1..m
      BY DEF Pending, m, batch
    <2> QED  BY <1>5, <1>6, <2>1 DEF RecordedIn
  <1> QED  BY <1>9, <1>10, <1>11


\* What an accepted run was told agrees with the record its answer leaves.
LEMMA AcceptedAgrees ==
    ASSUME RunInv, ServiceInv, ServiceInv', RecordInv, IdsInv, ToldInv, SaidInv, CompleteTask
    PROVE  CommandsIn(seen) = CommandsOnRecord'
  <1>1. /\ phase = "decided" /\ Len(history) = Len(snapshot)
        /\ cursor = Len(snapshot) /\ Len(todo) = 0 /\ snapshot # <<>>
    BY SeqShort DEF CompleteTask, HoldsTask, IdsInv, ToldInv, RecordInv
  <1>2. /\ IsSeq(history) /\ (\A i \in 1..Len(history) : history[i].id = i)
        /\ IsSeq(snapshot) /\ Len(snapshot) \in Nat /\ (snapshot = <<>> <=> Len(snapshot) = 0)
        /\ \A i \in 1..Len(snapshot) : snapshot[i] = history[i]
    BY SeqFacts DEF ServiceInv, HistoryOK, RunInv, RunType, Events, RecordInv
  <1>3. \A j \in 1..Len(sm.decisions) : sm.decisions[j].id = Len(history) + 1 + j
    <2>1. Live
      BY <1>1, <1>2 DEF Live
    <2> QED  BY <1>1, <2>1 DEF IdsInv, LiveIds
  <1>4. Found = Recording(history)
    BY <1>1, <1>2 DEF Found, Left, Recording
  <1>5. FoundCommands = RecordedIn(history)
    <2>1. \A i \in Recording(history) : snapshot[i] = history[i]
      BY <1>1, <1>2 DEF Recording
    <2> QED  BY <1>4, <2>1 DEF FoundCommands, RecordedIn
  <1>6. CommandsOnRecord = RecordedIn(history)
    BY <1>2, OnRecord DEF CommandsOnRecord
  <1>7. PICK new : AnsweredBy(new, sm.decisions) /\ history' = Recorded(history, new)
    BY AcceptRecords DEF Takings, RecordInv
  <1>8. CommandsOnRecord' = CommandsOnRecord \cup PendingCommands
    BY <1>3, <1>7, AnswerCommands
  <1> QED  BY <1>5, <1>6, <1>8 DEF SaidInv

\* Only accepted answers are noted.
LEMMA JournalMoves ==
    ASSUME [Next]_vars
    PROVE  IF CompleteTask THEN journal' = seen ELSE journal' = journal
  <1>1. \A e : Arrive(e) => journal' = journal
    BY DEF Arrive
  <1>2. CASE ActivityReport \/ ChildReport \/ TimerFires \/ Signal \/ CancelRequest
    <2>1. ~CompleteTask
      <3>1. \A e : Arrive(e) => phase' = phase
        BY DEF Arrive, runVars
      <3>2. phase' = phase
        BY <1>2, <3>1 DEF ActivityReport, ChildReport, TimerFires, Signal, CancelRequest
      <3>3. CompleteTask => phase = "decided" /\ phase' = "idle"
        BY DEF CompleteTask, EndRun, ResetRun
      <3> QED  BY <3>2, <3>3
    <2>2. journal' = journal
      BY <1>1, <1>2 DEF ActivityReport, ChildReport, TimerFires, Signal, CancelRequest
    <2> QED  BY <2>1, <2>2
  <1>3. CASE CompleteTask
    BY <1>3 DEF CompleteTask
  <1>4. CASE ~CompleteTask
    BY <1>1, <1>4 DEF Next, Poll, PollInVain, Run, UnhandledDecision, LoseResponse, FailTask, GiveUpTask,
        TimeOut, Deploy, ActivityReport, ChildReport, TimerFires, Signal, CancelRequest, vars
  <1> QED  BY <1>3, <1>4

\* The journal stays in step with the record.
LEMMA JournalNext ==
    ASSUME RunInv, ServiceInv, ServiceInv', RecordInv, IdsInv, ToldInv, SaidInv, JournalInv, [Next]_vars
    PROVE  JournalInv'
  <1>1. CASE CompleteTask
    <2>1. journal' = seen
      BY <1>1, JournalMoves
    <2>2. CommandsIn(seen) = CommandsOnRecord'
      BY <1>1, AcceptedAgrees
    <2> QED  BY <2>1, <2>2 DEF JournalInv, SaidInv
  <1>2. CASE ~CompleteTask
    <2>1. journal' = journal
      BY <1>2, JournalMoves
    <2>2. CommandsOnRecord' = CommandsOnRecord
      <3>1. UNCHANGED history \/ HandsOut \/ Notes
        BY <1>2, RecordMoves DEF RecordInv, HoldsBack, Takings
      <3>2. CASE UNCHANGED history
        BY <3>2 DEF CommandsOnRecord
      <3>3. CASE HandsOut
        BY <3>3, MildTask, MildNoCommands DEF HandsOut
      <3>4. CASE Notes
        BY <3>4, MildNoCommands DEF Notes
      <3> QED  BY <3>1, <3>2, <3>3, <3>4
    <2> QED  BY <2>1, <2>2 DEF JournalInv
  <1> QED  BY <1>1, <1>2

\* At first there is nothing on record that is a command.
LEMMA JournalInit ==
    ASSUME Init
    PROVE  JournalInv
  <1> DEFINE one == TaskEvent("WorkflowExecutionStarted")
             two == TaskEvent("DecisionTaskScheduled")
             new == <<one, two>>
  <1>1. history = Recorded(<<>>, new) /\ journal = <<>>
    BY DEF Init
  <1>2. Mild(one) /\ Mild(two)
    BY MildTask
  <1> HIDE DEF one, two
  <1>3. IsSeq(new) /\ Len(new) = 2 /\ new[1] = one /\ new[2] = two
    BY SeqShort
  <1> HIDE DEF new
  <1>4. \A i \in 1..Len(new) : Mild(new[i])
    <2>1. \A i \in 1..2 : i = 1 \/ i = 2
      OBVIOUS
    <2> QED  BY <1>2, <1>3, <2>1
  <1>5. Events(new) /\ Events(<<>>) /\ Len(<<>>) = 0
    <2>1. Milds(new)
      BY <1>3, <1>4 DEF Milds
    <2> QED  BY <2>1, MildEvents, SeqShort DEF Events
  <1>6. /\ Events(history) /\ Len(history) = Len(new) /\ Len(new) \in Nat
        /\ \A i \in 1..Len(new) : history[i].id = i /\ SameEvent(history[i], new[i])
    <2>1. /\ Events(history) /\ Len(history) = 0 + Len(new)
          /\ \A i \in 1..Len(new) : history[0 + i].id = 0 + i /\ SameEvent(history[0 + i], new[i])
      BY <1>1, <1>5, RecordedEvents
    <2> QED  BY <1>3, <2>1
  <1>7. Recording(history) = {}
    BY <1>4, <1>6 DEF Recording, SameEvent, Mild
  <1>8. CommandsOnRecord = {}
    <2>1. CommandsOnRecord = RecordedIn(history)
      BY <1>6, OnRecord DEF CommandsOnRecord, Events
    <2> QED  BY <1>7, <2>1 DEF RecordedIn
  <1>9. IsSeq(journal) /\ CommandPlaces(journal) = {}
    BY <1>1, SeqShort DEF CommandPlaces
  <1> QED  BY <1>8, <1>9 DEF JournalInv, CommandsIn, Rising

\* Nothing is recorded of a workflow that is closed.
LEMMA ClosedStays ==
    ASSUME ServiceInv, Closed, [Next]_vars
    PROVE  UNCHANGED <<history, journal>>
  <1>1. task = "none"
    BY DEF ServiceInv
  <1>2. \A e : ~Arrive(e)
    BY DEF Arrive
  <1> QED  BY <1>1, <1>2 DEF Next, Poll, PollInVain, Run, CompleteTask, UnhandledDecision, HoldsTask,
      LoseResponse, FailTask, GiveUpTask, TimeOut, Deploy, ActivityReport, ChildReport, TimerFires,
      Signal, CancelRequest, serverVars, vars

\* The journal is in step with the record throughout, if no decision is left over.
LEMMA JournalInvariant == Spec /\ []NothingLeftOver => []JournalInv
  <1>1. Init => JournalInv
    BY JournalInit
  <1>2. FiberInvs /\ FiberInvs' /\ RecordInv /\ IdsInv /\ ToldInv /\ SaidInv /\ JournalInv /\ [Next]_vars
          => JournalInv'
    BY JournalNext DEF FiberInvs, IInv
  <1> QED
    BY <1>1, <1>2, FiberInvariant, RecordInvariant, IdsInvariant, ToldInvariant, SaidInvariant, PTL
       DEF Spec

\* What the abstract specification says of a conversation.
LEMMA GivenCommands ==
    ASSUME NEW s
    PROVE  Durable!Given(s) = CommandPlaces(s) /\ (Durable!InOrder(s) <=> Rising(s))
  <1>1. Durable!Given(s) = CommandPlaces(s)
    BY CommandsAreCommands DEF Durable!Given, CommandPlaces
  <1> QED  BY <1>1 DEF Durable!InOrder, Rising

\* If no decision is left over when a window opens, and a replay shows code what
\* it saw, then in every program, under all the failures the service and the network have,
\* the code seems to run once: what it was told is never untold, the commands on
\* record are those it was told it gave, under the ids it was told and in this
\* order, and a closed workflow says and does nothing more (Executor#run,
\* DecisionTaskProcessor#process, StateManager#schedule and #discard_decision).
THEOREM WorkflowIsDurable == Spec /\ []NothingLeftOver /\ []ReplayReproduces => IsDurable
  <1>1. Init /\ ServiceInv /\ JournalInv => Durable!Init
    <2> SUFFICES ASSUME Init, ServiceInv, JournalInv PROVE Durable!Init
      OBVIOUS
    <2>1. journal = <<>> /\ task = "scheduled"
      BY DEF Init
    <2>2. CommandPlaces(journal) = {}
      BY <2>1, SeqShort DEF CommandPlaces
    <2>3. CommandsOnRecord = {}
      BY <2>2 DEF JournalInv, CommandsIn
    <2>4. Closed = FALSE
      <3>1. ~Closed
        BY <2>1 DEF ServiceInv
      <3>2. Closed \in BOOLEAN
        BY DEF Closed
      <3> QED  BY <3>1, <3>2
    <2> QED  BY <2>1, <2>3, <2>4 DEF Durable!Init
  <1>2. RunInv /\ ServiceInv /\ RecordInv /\ IdsInv /\ JournalInv /\ JournalInv' /\ ReplayReproduces
          /\ [Next]_vars
        => [Durable!GoOn]_(Durable!vars)
    <2> SUFFICES ASSUME RunInv, ServiceInv, RecordInv, IdsInv, JournalInv, JournalInv',
                        ReplayReproduces, [Next]_vars
                 PROVE  Durable!GoOn \/ UNCHANGED Durable!vars
      OBVIOUS
    <2>1. CASE Closed
      <3>1. UNCHANGED <<history, journal>>
        BY <2>1, ClosedStays
      <3>2. CommandsOnRecord' = CommandsOnRecord /\ Closed' = Closed
        BY <3>1 DEF CommandsOnRecord, Closed
      <3> QED  BY <3>1, <3>2 DEF Durable!vars
    <2>2. CASE ~Closed
      <3>1. Durable!IsPrefix(journal, journal')
        <4>1. CASE CompleteTask
          <5>1. journal' = seen /\ phase = "decided"
            BY <4>1, JournalMoves DEF CompleteTask
          <5>2. cursor > 0 /\ cursor = Len(snapshot) /\ ~sm.replay
            <6>1. Len(snapshot) \in Nat /\ (snapshot = <<>> <=> Len(snapshot) = 0)
              BY SeqFacts DEF RunInv, RunType, Events
            <6>2. cursor = Len(snapshot) /\ snapshot # <<>>
              BY <5>1 DEF IdsInv, RecordInv
            <6>3. sm.replay = (cursor < Len(snapshot))
              BY <6>1, <6>2 DEF IdsInv, WindowsOpen
            <6>4. cursor > 0 /\ ~(cursor < Len(snapshot))
              BY <6>1, <6>2
            <6> QED  BY <6>2, <6>3, <6>4, Zenon
          <5>3. IsPrefix(journal, seen)
            BY <5>1, <5>2 DEF ReplayReproduces
          <5> QED  BY <5>1, <5>3 DEF IsPrefix, Durable!IsPrefix
        <4>2. CASE ~CompleteTask
          <5>1. journal' = journal /\ Len(journal) \in Nat
            BY <4>2, JournalMoves, SeqFacts DEF JournalInv
          <5> QED  BY <5>1 DEF Durable!IsPrefix
        <4> QED  BY <4>1, <4>2
      <3>2. Durable!InOrder(journal')
        BY GivenCommands DEF JournalInv
      <3>3. CommandsOnRecord' = {journal'[i] : i \in Durable!Given(journal')}
        BY GivenCommands DEF JournalInv, CommandsIn
      <3>4. Closed' \in BOOLEAN
        BY DEF Closed
      <3> QED  BY <2>2, <3>1, <3>2, <3>3, <3>4 DEF Durable!GoOn
    <2> QED  BY <2>1, <2>2
  <1>3. FiberInvs => RunInv /\ ServiceInv
    BY DEF FiberInvs, IInv
  <1> QED
    BY <1>1, <1>2, <1>3, FiberInvariant, RecordInvariant, IdsInvariant, JournalInvariant, PTL
       DEF Spec, IsDurable, Durable!Spec
=============================================================================
