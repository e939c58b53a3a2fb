------------------------ MODULE WorkflowFiberProofs ------------------------
(***************************************************************************)
(* The proof that futures are resolved and fibers resumed at most once,    *)
(* for every workflow program. The dispatcher never removes a handler, a   *)
(* second Future#set goes unnoticed, and one event calls every handler of  *)
(* its target: that nothing ends twice depends on the targets of the       *)
(* events (EventTarget), on the order of the handlers, on the callbacks    *)
(* that run in between and on the service, which reports the end of an     *)
(* activity, timer or child once. The invariant follows an end from the    *)
(* service's record through the windows and the agenda to the future and   *)
(* the fiber that waits for it.                                            *)
(*                                                                         *)
(* Then, that nothing ends too rarely either: while the targets of a run's *)
(* futures differ, no fiber waits for a future that is resolved.           *)
(***************************************************************************)
EXTENDS WorkflowProofs

-----------------------------------------------------------------------------
(* Which target an event has.                                                *)

\* A prefix, element by element.
LEMMA PrefixByElement ==
    ASSUME NEW s, NEW t, IsSeq(s), IsSeq(t), Len(s) <= Len(t)
    PROVE  IsPrefix(s, t) <=> \A i \in 1..Len(s) : s[i] = t[i]
  <1> DEFINE n == Len(s)
             a == SubSeq(s, 1, n)
             b == SubSeq(t, 1, n)
  <1>1. n \in Nat /\ Len(t) \in Nat /\ 0 \in Nat /\ 0 <= n /\ 0 + 1 = 1 /\ n <= n /\ n <= Len(t)
    BY SeqFacts
  <1>2. IsPrefix(s, t) <=> a = b
    BY DEF IsPrefix
  <1>3. IsSeq(a) /\ Len(a) = n - 0 /\ \A i \in 1..n - 0 : a[i] = s[0 + i]
    <2>1. a = SubSeq(s, 0 + 1, n)
      OBVIOUS
    <2> HIDE DEF a, n
    <2> QED  BY <1>1, <2>1, SeqSub DEF n
  <1>4. IsSeq(b) /\ Len(b) = n - 0 /\ \A i \in 1..n - 0 : b[i] = t[0 + i]
    <2>1. b = SubSeq(t, 0 + 1, n)
      OBVIOUS
    <2> HIDE DEF b, n
    <2> QED  BY <1>1, <2>1, SeqSub, ZenonT(40)
  <1> HIDE DEF a, b, n
  <1>5. /\ Len(a) = n /\ Len(b) = n
        /\ \A i \in 1..n : a[i] = s[i] /\ b[i] = t[i]
    BY <1>1, <1>3, <1>4
  <1>6. a = b <=> \A i \in 1..n : a[i] = b[i]
    <2>1. a \in Seq(ToSet(a) \cup ToSet(b)) /\ b \in Seq(ToSet(a) \cup ToSet(b))
      BY <1>3, <1>4, SeqMonotonic DEF IsSeq
    <2> QED  BY <1>5, <2>1, SeqEqual
  <1> QED  BY <1>2, <1>5, <1>6 DEF n

\* A key of the table is a prefix when its one or two parts agree.
LEMMA PrefixOfParts ==
    ASSUME NEW t, IsSeq(t), Len(t) >= 2
    PROVE  /\ \A a : IsPrefix(<<a>>, t) <=> a = t[1]
           /\ \A a, b : IsPrefix(<<a, b>>, t) <=> a = t[1] /\ b = t[2]
  <1>0. Len(t) \in Nat
    BY SeqFacts
  <1>1. ASSUME NEW a PROVE IsPrefix(<<a>>, t) <=> a = t[1]
    <2> DEFINE s == <<a>>
    <2>1. IsSeq(s) /\ Len(s) = 1 /\ s[1] = a
      BY SeqShort
    <2> HIDE DEF s
    <2>2. IsPrefix(s, t) <=> \A i \in 1..Len(s) : s[i] = t[i]
      <3>1. Len(s) <= Len(t)
        BY <1>0, <2>1
      <3>2. IsSeq(s)
        BY <2>1
      <3> QED  BY <3>1, <3>2, PrefixByElement
    <2>3. \A i \in 1..Len(s) : i = 1
      BY <2>1
    <2>4. 1 \in 1..Len(s)
      BY <2>1
    <2>5. (\A i \in 1..Len(s) : s[i] = t[i]) <=> s[1] = t[1]
      BY <2>3, <2>4
    <2> QED  BY <2>1, <2>2, <2>5 DEF s
  <1>2. ASSUME NEW a, NEW b PROVE IsPrefix(<<a, b>>, t) <=> a = t[1] /\ b = t[2]
    <2> DEFINE s == <<a, b>>
    <2>1. IsSeq(s) /\ Len(s) = 2 /\ s[1] = a /\ s[2] = b
      BY SeqShort
    <2> HIDE DEF s
    <2>2. IsPrefix(s, t) <=> \A i \in 1..Len(s) : s[i] = t[i]
      <3>1. Len(s) <= Len(t)
        BY <1>0, <2>1
      <3>2. IsSeq(s)
        BY <2>1
      <3> QED  BY <3>1, <3>2, PrefixByElement
    <2>3. \A i \in 1..Len(s) : i = 1 \/ i = 2
      BY <2>1
    <2>4. 1 \in 1..Len(s) /\ 2 \in 1..Len(s)
      BY <2>1
    <2>5. (\A i \in 1..Len(s) : s[i] = t[i]) <=> s[1] = t[1] /\ s[2] = t[2]
      BY <2>3, <2>4
    <2> QED  BY <2>1, <2>2, <2>5 DEF s
  <1> QED  BY <1>1, <1>2

\* The rows of the table that matter here, and which types they match.
LEMMA TableMatches ==
    ASSUME NEW type \in EventTypes, IsSeq(Segments[type]), Len(Segments[type]) >= 2
    PROVE  LET one == Segments[type][1]
               two == Segments[type][2]
           IN  /\ Matches(type) \subseteq 1..16
               /\ 1 \in Matches(type) <=> one = "ActivityTask" /\ two = "Cancel"
               /\ 2 \in Matches(type) <=> one = "ActivityTask"
               /\ 3 \in Matches(type) <=> one = "RequestCancelActivityTask"
               /\ 4 \in Matches(type) <=> one = "Timer" /\ two = "Canceled"
               /\ 5 \in Matches(type) <=> one = "Timer"
               /\ 6 \in Matches(type) <=> one = "CancelTimer"
               /\ 7 \in Matches(type) <=> one = "ChildWorkflowExecution"
               /\ 8 \in Matches(type) <=> one = "StartChildWorkflowExecution"
               /\ 9 \in Matches(type) <=> one = "Marker"
               /\ 10 \in Matches(type) <=> one = "ExternalWorkflowExecution"
               /\ 11 \in Matches(type) <=> one = "SignalExternalWorkflowExecution"
               /\ 12 \in Matches(type) <=> one = "ExternalWorkflowExecution" /\ two = "Cancel"
               /\ 13 \in Matches(type) <=> one = "RequestCancelExternalWorkflowExecution"
               /\ 14 \in Matches(type) <=> one = "UpsertWorkflowSearchAttributes"
               /\ 15 \in Matches(type) <=> one = "WorkflowExecution" /\ two = "Cancel"
               /\ 16 \in Matches(type) <=> one = "WorkflowExecution"
  <1> DEFINE t == Segments[type]
             T == EVENT_TARGET_TYPES
  <1>1. /\ \A a : IsPrefix(<<a>>, t) <=> a = t[1]
        /\ \A a, b : IsPrefix(<<a, b>>, t) <=> a = t[1] /\ b = t[2]
    BY PrefixOfParts
  <1>2. Len(T) = 16
    BY DEF EVENT_TARGET_TYPES
  <1>3. /\ T[1][1] = <<"ActivityTask", "Cancel">> /\ T[2][1] = <<"ActivityTask">>
        /\ T[3][1] = <<"RequestCancelActivityTask">> /\ T[4][1] = <<"Timer", "Canceled">>
        /\ T[5][1] = <<"Timer">> /\ T[6][1] = <<"CancelTimer">>
        /\ T[7][1] = <<"ChildWorkflowExecution">> /\ T[8][1] = <<"StartChildWorkflowExecution">>
        /\ T[9][1] = <<"Marker">> /\ T[10][1] = <<"ExternalWorkflowExecution">>
        /\ T[11][1] = <<"SignalExternalWorkflowExecution">>
        /\ T[12][1] = <<"ExternalWorkflowExecution", "Cancel">>
        /\ T[13][1] = <<"RequestCancelExternalWorkflowExecution">>
        /\ T[14][1] = <<"UpsertWorkflowSearchAttributes">>
        /\ T[15][1] = <<"WorkflowExecution", "Cancel">> /\ T[16][1] = <<"WorkflowExecution">>
    BY DEF EVENT_TARGET_TYPES
  <1> HIDE DEF t, T
  <1>4. Matches(type) = {i \in 1..16 : IsPrefix(T[i][1], t)}
    BY <1>2 DEF Matches, t, T
  <1>5. \A i \in 1..16 : i \in Matches(type) <=> IsPrefix(T[i][1], t)
    BY <1>4
  <1>6. Matches(type) \subseteq 1..16
    BY <1>4
  <1>7. \A i \in 1..16 : \A a : T[i][1] = <<a>> => (i \in Matches(type) <=> t[1] = a)
    BY <1>1, <1>5
  <1>8. \A i \in 1..16 : \A a, b :
            T[i][1] = <<a, b>> => (i \in Matches(type) <=> t[1] = a /\ t[2] = b)
    BY <1>1, <1>5
  <1>9. 1 \in Matches(type) <=> t[1] = "ActivityTask" /\ t[2] = "Cancel"
    BY <1>3, <1>8
  <1>10. 4 \in Matches(type) <=> t[1] = "Timer" /\ t[2] = "Canceled"
    BY <1>3, <1>8
  <1>11. 12 \in Matches(type) <=> t[1] = "ExternalWorkflowExecution" /\ t[2] = "Cancel"
    BY <1>3, <1>8
  <1>12. 15 \in Matches(type) <=> t[1] = "WorkflowExecution" /\ t[2] = "Cancel"
    BY <1>3, <1>8
  <1>13. /\ 2 \in Matches(type) <=> t[1] = "ActivityTask"
         /\ 3 \in Matches(type) <=> t[1] = "RequestCancelActivityTask"
         /\ 5 \in Matches(type) <=> t[1] = "Timer"
         /\ 6 \in Matches(type) <=> t[1] = "CancelTimer"
         /\ 7 \in Matches(type) <=> t[1] = "ChildWorkflowExecution"
         /\ 8 \in Matches(type) <=> t[1] = "StartChildWorkflowExecution"
    BY <1>3, <1>7
  <1>14. /\ 9 \in Matches(type) <=> t[1] = "Marker"
         /\ 10 \in Matches(type) <=> t[1] = "ExternalWorkflowExecution"
         /\ 11 \in Matches(type) <=> t[1] = "SignalExternalWorkflowExecution"
         /\ 13 \in Matches(type) <=> t[1] = "RequestCancelExternalWorkflowExecution"
         /\ 14 \in Matches(type) <=> t[1] = "UpsertWorkflowSearchAttributes"
         /\ 16 \in Matches(type) <=> t[1] = "WorkflowExecution"
    BY <1>3, <1>7
  <1> QED  BY <1>6, <1>9, <1>10, <1>11, <1>12, <1>13, <1>14 DEF t

\* The first row that matches decides.
LEMMA FirstRow ==
    ASSUME NEW type \in EventTypes, Matches(type) \subseteq 1..16,
           NEW m \in 1..16, m \in Matches(type), \A j \in 1..m - 1 : j \notin Matches(type)
    PROVE  EventTargetType[type] = EVENT_TARGET_TYPES[m][2]
  <1>1. \A j \in Matches(type) : m <= j
    OBVIOUS
  <1>2. \A i \in Matches(type) : (\A j \in Matches(type) : i <= j) => i = m
    BY <1>1
  <1>3. FirstMatch(type) = m
    BY <1>1, <1>2 DEF FirstMatch
  <1> QED  BY <1>3 DEF EventTargetType

\* The events that resolve a future.
ClosesActivity == {"ActivityTaskCompleted", "ActivityTaskFailed", "ActivityTaskTimedOut"}
\* The one that fires a timer.
ClosesTimer == {"TimerFired"}
\* Those of a child workflow, one that could not be started included.
ClosesChild == {"StartChildWorkflowExecutionFailed", "ChildWorkflowExecutionCompleted",
                "ChildWorkflowExecutionFailed", "ChildWorkflowExecutionCanceled",
                "ChildWorkflowExecutionTimedOut"}
\* All of them.
Closes == ClosesActivity \cup ClosesTimer \cup ClosesChild

\* The types of the targets that have a future.
FutureTypes == {"activity", "timer", "child_workflow"}

\* Of the events that are dispatched, those and no others have the target of an
\* activity, a timer or a child workflow, and it is the one they name.
LEMMA TargetsOfClosers ==
    ASSUME NEW e, e.type \in DOMAIN DispatchedAs
    PROVE  /\ e.type \in ClosesActivity => from_event(e) = Target(e.ref, "activity")
           /\ e.type \in ClosesTimer => from_event(e) = Target(e.ref, "timer")
           /\ e.type \in ClosesChild => from_event(e) = Target(e.ref, "child_workflow")
           /\ e.type \notin Closes => from_event(e).type \notin FutureTypes
  <1> DEFINE type == e.type
             t == Segments[type]
             T == EVENT_TARGET_TYPES
             M == Matches(type)
  <1>1. type \in ClosesActivity \cup ClosesTimer \cup ClosesChild \cup
              {"WorkflowExecutionStarted", "WorkflowExecutionSignaled", "ActivityTaskCanceled",
               "RequestCancelActivityTaskFailed", "TimerCanceled"}
    BY DEF DispatchedAs, ClosesActivity, ClosesTimer, ClosesChild
  <1>2. type \in EventTypes
    BY <1>1 DEF EventTypes, Segments, ClosesActivity, ClosesTimer, ClosesChild
  <1>3. /\ T[1][2] = "cancel_activity_request" /\ T[2][2] = "activity"
        /\ T[3][2] = "cancel_activity_request" /\ T[4][2] = "cancel_timer_request"
        /\ T[5][2] = "timer" /\ T[7][2] = "child_workflow" /\ T[8][2] = "child_workflow"
        /\ T[16][2] = "workflow"
    BY DEF EVENT_TARGET_TYPES
  <1>4. ASSUME NEW a, NEW b, t = <<a, b>>
        PROVE  IsSeq(t) /\ Len(t) >= 2 /\ t[1] = a /\ t[2] = b
    BY <1>4, SeqShort
  <1>5. CASE type \in ClosesActivity
    <2>1. t[1] = "ActivityTask" /\ t[2] # "Cancel" /\ IsSeq(t) /\ Len(t) >= 2
      BY <1>4, <1>5 DEF Segments, ClosesActivity
    <2> HIDE DEF t, type
    <2>2. 1 \notin M /\ 2 \in M /\ M \subseteq 1..16
      BY <1>2, <2>1, TableMatches DEF t
    <2>3. EventTargetType[type] = "activity"
      BY <1>2, <1>3, <2>2, FirstRow
    <2>4. type \in EVENT_TYPES /\ type # "WorkflowExecutionSignaled"
      BY <1>5 DEF EVENT_TYPES, ClosesActivity
    <2>5. from_event(e) = Target(e.ref, "activity")
      BY <2>3, <2>4 DEF from_event, decision_id, type
    <2> QED  BY <1>5, <2>5 DEF ClosesActivity, ClosesTimer, ClosesChild, Closes, type
  <1>6. CASE type \in ClosesTimer
    <2>1. t[1] = "Timer" /\ t[2] # "Canceled" /\ IsSeq(t) /\ Len(t) >= 2
      BY <1>4, <1>6 DEF Segments, ClosesTimer
    <2> HIDE DEF t, type
    <2>2. (\A j \in 1..4 : j \notin M) /\ 5 \in M /\ M \subseteq 1..16
      BY <1>2, <2>1, TableMatches DEF t
    <2>3. EventTargetType[type] = "timer"
      BY <1>2, <1>3, <2>2, FirstRow
    <2>4. type \in EVENT_TYPES /\ type # "WorkflowExecutionSignaled"
      BY <1>6 DEF EVENT_TYPES, ClosesTimer
    <2>5. from_event(e) = Target(e.ref, "timer")
      BY <2>3, <2>4 DEF from_event, decision_id, type
    <2> QED  BY <1>6, <2>5 DEF ClosesActivity, ClosesTimer, ClosesChild, Closes, type
  <1>7. CASE type \in ClosesChild
    <2>1. t[1] \in {"ChildWorkflowExecution", "StartChildWorkflowExecution"} /\ IsSeq(t) /\ Len(t) >= 2
      BY <1>4, <1>7 DEF Segments, ClosesChild
    <2> HIDE DEF t, type
    <2>2. M \subseteq 1..16
      BY <1>2, <2>1, TableMatches DEF t
    <2>3. \/ (\A j \in 1..6 : j \notin M) /\ 7 \in M
          \/ (\A j \in 1..7 : j \notin M) /\ 8 \in M
      BY <1>2, <2>1, TableMatches DEF t
    <2>4. EventTargetType[type] = "child_workflow"
      <3>1. CASE (\A j \in 1..6 : j \notin M) /\ 7 \in M
        BY <1>2, <1>3, <2>2, <3>1, FirstRow
      <3>2. CASE (\A j \in 1..7 : j \notin M) /\ 8 \in M
        BY <1>2, <1>3, <2>2, <3>2, FirstRow
      <3> QED  BY <2>3, <3>1, <3>2
    <2>5. type \in CHILD_WORKFLOW_EVENTS /\ type # "WorkflowExecutionSignaled"
      BY <1>7 DEF CHILD_WORKFLOW_EVENTS, ClosesChild
    <2>6. from_event(e) = Target(e.ref, "child_workflow")
      BY <2>4, <2>5 DEF from_event, decision_id, type
    <2> QED  BY <1>7, <2>6 DEF ClosesActivity, ClosesTimer, ClosesChild, Closes, type
  <1>8. ASSUME EventTargetType[type] \notin FutureTypes PROVE from_event(e).type \notin FutureTypes
    <2> HIDE DEF type
    <2> QED  BY <1>8 DEF from_event, Target, type
  <1>9. CASE type \in {"WorkflowExecutionStarted", "WorkflowExecutionSignaled"}
    <2>1. t[1] = "WorkflowExecution" /\ t[2] # "Cancel" /\ IsSeq(t) /\ Len(t) >= 2
      BY <1>4, <1>9, SeqShort DEF Segments
    <2> HIDE DEF t, type
    <2>2. (\A j \in 1..15 : j \notin M) /\ 16 \in M /\ M \subseteq 1..16
      BY <1>2, <2>1, TableMatches DEF t
    <2>3. EventTargetType[type] = "workflow"
      BY <1>2, <1>3, <2>2, FirstRow
    <2>4. from_event(e).type \notin FutureTypes
      BY <1>8, <2>3 DEF FutureTypes
    <2> QED  BY <1>9, <2>4 DEF ClosesActivity, ClosesTimer, ClosesChild, type
  <1>10. CASE type = "ActivityTaskCanceled"
    <2>1. t[1] = "ActivityTask" /\ t[2] = "Cancel" /\ IsSeq(t) /\ Len(t) >= 2
      <3>1. t = <<"ActivityTask", "Cancel", "ed">>
        BY <1>10 DEF Segments
      <3>2. LET u == <<"ActivityTask", "Cancel", "ed">>
            IN  u \in Seq({"ActivityTask", "Cancel", "ed"}) /\ Len(u) = 3
                  /\ u[1] = "ActivityTask" /\ u[2] = "Cancel"
        OBVIOUS
      <3>3. IsSeq(<<"ActivityTask", "Cancel", "ed">>)
        BY <3>2, SeqAny
      <3> HIDE DEF t
      <3> QED  BY <3>1, <3>2, <3>3
    <2> HIDE DEF t, type
    <2>2. 1 \in M /\ M \subseteq 1..16
      BY <1>2, <2>1, TableMatches DEF t
    <2>3. EventTargetType[type] = "cancel_activity_request"
      BY <1>2, <1>3, <2>2, FirstRow
    <2>4. from_event(e).type \notin FutureTypes
      BY <1>8, <2>3 DEF FutureTypes
    <2> QED  BY <1>10, <2>4 DEF ClosesActivity, ClosesTimer, ClosesChild, type
  <1>11. CASE type = "RequestCancelActivityTaskFailed"
    <2>1. t[1] = "RequestCancelActivityTask" /\ IsSeq(t) /\ Len(t) >= 2
      BY <1>4, <1>11, SeqShort DEF Segments
    <2> HIDE DEF t, type
    <2>2. (\A j \in 1..2 : j \notin M) /\ 3 \in M /\ M \subseteq 1..16
      BY <1>2, <2>1, TableMatches DEF t
    <2>3. EventTargetType[type] = "cancel_activity_request"
      BY <1>2, <1>3, <2>2, FirstRow
    <2>4. from_event(e).type \notin FutureTypes
      BY <1>8, <2>3 DEF FutureTypes
    <2> QED  BY <1>11, <2>4 DEF ClosesActivity, ClosesTimer, ClosesChild, type
  <1>12. CASE type = "TimerCanceled"
    <2>1. t[1] = "Timer" /\ t[2] = "Canceled" /\ IsSeq(t) /\ Len(t) >= 2
      BY <1>4, <1>12, SeqShort DEF Segments
    <2> HIDE DEF t, type
    <2>2. (\A j \in 1..3 : j \notin M) /\ 4 \in M /\ M \subseteq 1..16
      BY <1>2, <2>1, TableMatches DEF t
    <2>3. EventTargetType[type] = "cancel_timer_request"
      BY <1>2, <1>3, <2>2, FirstRow
    <2>4. from_event(e).type \notin FutureTypes
      BY <1>8, <2>3 DEF FutureTypes
    <2> QED  BY <1>12, <2>4 DEF ClosesActivity, ClosesTimer, ClosesChild, type
  <1> QED  BY <1>1, <1>5, <1>6, <1>7, <1>9, <1>10, <1>11, <1>12

-----------------------------------------------------------------------------
(* The invariant of the futures, the wake-ups and the fibers of a run.       *)

\* Two events that report the end of the same activity, timer or child.
Rivals(a, b) ==
    /\ a.ref = b.ref
    /\ \E closing \in {ClosesActivity, ClosesTimer, ClosesChild} :
         a.type \in closing /\ b.type \in closing

\* Nothing ends twice: in one sequence of events, and across two.
EndsOnce(s) == \A i, j \in 1..Len(s) : Rivals(s[i], s[j]) => i = j
\* Nothing that ended in s ends once more in t.
NoRivals(s, t) == \A i \in 1..Len(s) : \A j \in 1..Len(t) : ~Rivals(s[i], t[j])

\* Events of the snapshot that the run has yet to apply.
Left(i) == i > cursor \/ \E k \in 1..Len(todo) : todo[k].id = i

\* The event at position i will resolve the future f.
Settles(i, f) ==
    /\ snapshot[i].type \in Closes
    /\ from_event(snapshot[i]) = futures[f].target

\* An event that is left finds its future open.
LeftIsOpen ==
    \A i \in 1..Len(snapshot) : \A f \in 1..Len(futures) :
        Left(i) /\ Settles(i, f) => futures[f].state = "pending"

\* Acts that resolve a future.
Resolves(act) == act.kind \in {"set", "fail"}
\* Acts that resume a fiber.
Wakes(act) == act.kind = "resume"

\* A handler is registered for the target of its future.
HandlerFits(h, all) ==
    /\ h.act.kind \in {"start", "call", "set", "fail", "resume"}
    /\ h.act.kind \in {"start", "call"} => h.target = WorkflowTarget
    /\ h.act.kind \in {"set", "fail", "resume"} => h.target = all[h.act.future].target
    /\ h.act.kind = "set" => h.name \in {"completed", "fired"}
    /\ h.act.kind = "fail" => h.name \in {"failed", "canceled"}

\* Every handler does.
HandlersFit == \A p \in 1..Len(handlers) : HandlerFits(handlers[p], futures)

\* A future has one handler that sets it, and one that fails it.
HandlersOnce ==
    \A p, q \in 1..Len(handlers) :
        /\ Resolves(handlers[p].act)
        /\ handlers[p].act.kind = handlers[q].act.kind
        /\ handlers[p].act.future = handlers[q].act.future
        => p = q

\* A handler that is due to resolve a future is the only one, the future is
\* open, and no event is left that would resolve it once more.
DueOnce ==
    \A k \in 1..Len(agenda) : Resolves(agenda[k]) =>
        /\ futures[agenda[k].future].state = "pending"
        /\ \A i \in 1..Len(snapshot) : ~(Left(i) /\ Settles(i, agenda[k].future))
        /\ \A l \in 1..Len(agenda) :
             Resolves(agenda[l]) /\ agenda[l].future = agenda[k].future => k = l

\* The fiber waits for f: the handler at p will wake it.
Armed(p) == Wakes(handlers[p].act) /\ futures[handlers[p].act.future].state = "pending"

\* A fiber waits for one future at a time, and not at all when it runs or is over.
WaitsOnce ==
    \A p \in 1..Len(handlers) : Armed(p) =>
        /\ handlers[p].act.fiber # current
        /\ fibers[handlers[p].act.fiber].stack # <<>>
        /\ \A q \in 1..Len(handlers) :
             Armed(q) /\ handlers[q].act.fiber = handlers[p].act.fiber => p = q

\* A wake-up that is due finds its fiber asleep; it is the only one, and the
\* fiber waits for nothing else.
WakesOnce ==
    \A k \in 1..Len(agenda) : Wakes(agenda[k]) =>
        /\ agenda[k].fiber # current
        /\ fibers[agenda[k].fiber].stack # <<>>
        /\ \A l \in 1..Len(agenda) :
             Wakes(agenda[l]) /\ agenda[l].fiber = agenda[k].fiber => k = l
        /\ \A p \in 1..Len(handlers) :
             Armed(p) /\ handlers[p].act.fiber = agenda[k].fiber =>
                 handlers[p].act.future = agenda[k].future

\* In the service's record, too, nothing ends twice.
RecordsOnce == EndsOnce(history) /\ EndsOnce(buffered) /\ NoRivals(history, buffered)

\* The invariant of the futures and fibers of a run.
FiberInv ==
    /\ NoneRaised
    /\ EndsOnce(snapshot) /\ LeftIsOpen
    /\ HandlersFit /\ HandlersOnce
    /\ DueOnce /\ WaitsOnce /\ WakesOnce

\* Events with the target of the same future are rivals.
LEMMA SettlesOnce ==
    ASSUME EndsOnce(snapshot), NEW f, NEW i \in 1..Len(snapshot), NEW j \in 1..Len(snapshot),
           Settles(i, f), Settles(j, f)
    PROVE  i = j
  <1> DEFINE a == snapshot[i]
             b == snapshot[j]
  <1>1. /\ a.type \in Closes /\ b.type \in Closes /\ from_event(a) = from_event(b)
    BY DEF Settles
  <1>2. a.type \in DOMAIN DispatchedAs /\ b.type \in DOMAIN DispatchedAs
    BY <1>1 DEF DispatchedAs, Closes, ClosesActivity, ClosesTimer, ClosesChild
  <1> HIDE DEF a, b
  <1>3. Rivals(a, b)
    <2>1. /\ a.type \in ClosesActivity => from_event(a) = Target(a.ref, "activity")
          /\ a.type \in ClosesTimer => from_event(a) = Target(a.ref, "timer")
          /\ a.type \in ClosesChild => from_event(a) = Target(a.ref, "child_workflow")
      BY <1>2, TargetsOfClosers
    <2>2. /\ b.type \in ClosesActivity => from_event(b) = Target(b.ref, "activity")
          /\ b.type \in ClosesTimer => from_event(b) = Target(b.ref, "timer")
          /\ b.type \in ClosesChild => from_event(b) = Target(b.ref, "child_workflow")
      BY <1>2, TargetsOfClosers
    <2>3. \A r, t : Target(r, t).id = r /\ Target(r, t).type = t
      BY DEF Target
    <2> QED  BY <1>1, <2>1, <2>2, <2>3 DEF Closes, Rivals
  <1> QED  BY <1>3 DEF EndsOnce, a, b

\* What handlers and agenda refer to is there.
LEMMA Referents ==
    ASSUME RunInv
    PROVE  /\ IsSeq(futures) /\ Len(futures) \in Nat /\ IsSeq(handlers) /\ Len(handlers) \in Nat
           /\ IsSeq(fibers) /\ Len(fibers) \in Nat /\ IsSeq(agenda) /\ Len(agenda) \in Nat
           /\ \A p \in 1..Len(handlers) :
                /\ Resolves(handlers[p].act) => handlers[p].act.future \in 1..Len(futures)
                /\ Wakes(handlers[p].act) => handlers[p].act.future \in 1..Len(futures)
                                              /\ handlers[p].act.fiber \in 1..Len(fibers)
           /\ \A k \in 1..Len(agenda) :
                /\ Resolves(agenda[k]) => agenda[k].future \in 1..Len(futures)
                /\ Wakes(agenda[k]) => agenda[k].future \in 1..Len(futures)
                                        /\ agenda[k].fiber \in 1..Len(fibers)
  BY SeqFacts DEF RunInv, FuturesOK, HandlersOK, FibersOK, AgendaOK, IsAct, Resolves, Wakes

\* More futures and handlers: the old ones as they were, the new ones open and
\* without anyone to wake.
Grown ==
    /\ Len(futures') \in Nat /\ Len(futures) <= Len(futures')
    /\ \A f \in 1..Len(futures) : futures'[f].target = futures[f].target
                                   /\ futures'[f].state = futures[f].state
    /\ \A f \in 1..Len(futures') : f \notin 1..Len(futures) => futures'[f].state = "pending"
    /\ Len(handlers') \in Nat /\ Len(handlers) <= Len(handlers')
    /\ \A p \in 1..Len(handlers) : handlers'[p] = handlers[p]
    /\ \A p \in 1..Len(handlers') : p \notin 1..Len(handlers) =>
         /\ ~Wakes(handlers'[p].act) /\ HandlerFits(handlers'[p], futures')
         /\ Resolves(handlers'[p].act) => handlers'[p].act.future \notin 1..Len(futures)
    /\ HandlersOnce'

\* Leaving futures and handlers alone is a way to grow.
LEMMA SameGrows ==
    ASSUME RunInv, FiberInv, UNCHANGED <<futures, handlers>>
    PROVE  Grown
  BY Referents DEF Grown, FiberInv, HandlersOnce

\* Steps that only add futures and handlers, and change no fiber but the one
\* that runs.
LEMMA GrownKeeps ==
    ASSUME RunInv, FiberInv, Grown, current' \in {current, 0},
           \A i \in 1..Len(fibers) : i # current => fibers'[i] = fibers[i],
           UNCHANGED <<snapshot, cursor, todo, agenda>>, NoneRaised'
    PROVE  FiberInv'
  <1> USE DEF Grown
  <1>1. EndsOnce(snapshot)'
    BY DEF FiberInv, EndsOnce
  <1>2. \A i : Left(i)' <=> Left(i)
    BY DEF Left
  <1>3. \A i : \A f \in 1..Len(futures) : Settles(i, f)' <=> Settles(i, f)
    BY DEF Settles
  <1>4. LeftIsOpen'
    <2> SUFFICES ASSUME NEW i \in 1..Len(snapshot), NEW f \in 1..Len(futures'), Left(i)', Settles(i, f)'
                 PROVE  futures'[f].state = "pending"
      BY DEF LeftIsOpen
    <2>1. CASE f \in 1..Len(futures)
      <3>1. Left(i) /\ Settles(i, f)
        BY <1>2, <1>3, <2>1
      <3>2. futures[f].state = "pending"
        BY <2>1, <3>1 DEF FiberInv, LeftIsOpen
      <3> QED  BY <2>1, <3>2
    <2>2. CASE f \notin 1..Len(futures)
      BY <2>2
    <2> QED  BY <2>1, <2>2
  <1>5. HandlersFit'
    <2> SUFFICES ASSUME NEW p \in 1..Len(handlers')
                 PROVE  HandlerFits(handlers'[p], futures')
      BY DEF HandlersFit
    <2>1. CASE p \in 1..Len(handlers)
      <3> DEFINE h == handlers[p]
      <3>1. HandlerFits(h, futures) /\ handlers'[p] = h
        BY <2>1 DEF FiberInv, HandlersFit
      <3>2. h.act.kind \in {"set", "fail", "resume"} => h.act.future \in 1..Len(futures)
        BY <2>1, Referents DEF Resolves, Wakes
      <3>3. h.act.kind \in {"set", "fail", "resume"} =>
              futures'[h.act.future].target = futures[h.act.future].target
        BY <3>2
      <3> QED  BY <3>1, <3>3 DEF HandlerFits
    <2>2. CASE p \notin 1..Len(handlers)
      BY <2>2
    <2> QED  BY <2>1, <2>2
  <1>6. DueOnce'
    <2> SUFFICES ASSUME NEW k \in 1..Len(agenda), Resolves(agenda[k])
                 PROVE  /\ futures'[agenda[k].future].state = "pending"
                        /\ \A i \in 1..Len(snapshot) : ~(Left(i)' /\ Settles(i, agenda[k].future)')
                        /\ \A l \in 1..Len(agenda) :
                             Resolves(agenda[l]) /\ agenda[l].future = agenda[k].future => k = l
      BY DEF DueOnce, Resolves
    <2>1. agenda[k].future \in 1..Len(futures)
      BY Referents
    <2>2. /\ futures[agenda[k].future].state = "pending"
          /\ \A i \in 1..Len(snapshot) : ~(Left(i) /\ Settles(i, agenda[k].future))
          /\ \A l \in 1..Len(agenda) :
               Resolves(agenda[l]) /\ agenda[l].future = agenda[k].future => k = l
      BY DEF FiberInv, DueOnce
    <2> QED  BY <1>2, <1>3, <2>1, <2>2
  <1>7. \A p \in 1..Len(handlers') : Armed(p)' =>
             /\ p \in 1..Len(handlers) /\ handlers'[p] = handlers[p] /\ Armed(p)
             /\ handlers[p].act.fiber \in 1..Len(fibers)
    <2> SUFFICES ASSUME NEW p \in 1..Len(handlers'), Armed(p)'
                 PROVE  /\ p \in 1..Len(handlers) /\ handlers'[p] = handlers[p] /\ Armed(p)
                        /\ handlers[p].act.fiber \in 1..Len(fibers)
      OBVIOUS
    <2>1. Wakes(handlers'[p].act) /\ futures'[handlers'[p].act.future].state = "pending"
      BY DEF Armed, Wakes
    <2>2. p \in 1..Len(handlers) /\ handlers'[p] = handlers[p]
      BY <2>1
    <2>3. handlers[p].act.future \in 1..Len(futures) /\ handlers[p].act.fiber \in 1..Len(fibers)
      BY <2>1, <2>2, Referents
    <2> QED  BY <2>1, <2>2, <2>3 DEF Armed
  <1>8. ASSUME NEW i \in 1..Len(fibers), i # current
        PROVE  i # current' /\ fibers'[i] = fibers[i]
    BY <1>8, Referents
  <1>9. WaitsOnce'
    <2> SUFFICES ASSUME NEW p \in 1..Len(handlers'), Armed(p)'
                 PROVE  /\ handlers'[p].act.fiber # current'
                        /\ fibers'[handlers'[p].act.fiber].stack # <<>>
                        /\ \A q \in 1..Len(handlers') :
                             Armed(q)' /\ handlers'[q].act.fiber = handlers'[p].act.fiber => p = q
      BY DEF WaitsOnce
    <2>1. /\ p \in 1..Len(handlers) /\ handlers'[p] = handlers[p] /\ Armed(p)
          /\ handlers[p].act.fiber \in 1..Len(fibers)
      BY <1>7
    <2>2. /\ handlers[p].act.fiber # current
          /\ fibers[handlers[p].act.fiber].stack # <<>>
          /\ \A q \in 1..Len(handlers) :
               Armed(q) /\ handlers[q].act.fiber = handlers[p].act.fiber => p = q
      BY <2>1 DEF FiberInv, WaitsOnce
    <2>3. handlers[p].act.fiber # current' /\ fibers'[handlers[p].act.fiber].stack # <<>>
      BY <1>8, <2>1, <2>2
    <2> QED  BY <1>7, <2>1, <2>2, <2>3
  <1>10. WakesOnce'
    <2> SUFFICES ASSUME NEW k \in 1..Len(agenda), Wakes(agenda[k])
                 PROVE  /\ agenda[k].fiber # current'
                        /\ fibers'[agenda[k].fiber].stack # <<>>
                        /\ \A l \in 1..Len(agenda) :
                             Wakes(agenda[l]) /\ agenda[l].fiber = agenda[k].fiber => k = l
                        /\ \A p \in 1..Len(handlers') :
                             Armed(p)' /\ handlers'[p].act.fiber = agenda[k].fiber =>
                                 handlers'[p].act.future = agenda[k].future
      BY DEF WakesOnce, Wakes
    <2>1. agenda[k].fiber \in 1..Len(fibers)
      BY Referents
    <2>2. /\ agenda[k].fiber # current
          /\ fibers[agenda[k].fiber].stack # <<>>
          /\ \A l \in 1..Len(agenda) :
               Wakes(agenda[l]) /\ agenda[l].fiber = agenda[k].fiber => k = l
          /\ \A p \in 1..Len(handlers) :
               Armed(p) /\ handlers[p].act.fiber = agenda[k].fiber =>
                   handlers[p].act.future = agenda[k].future
      BY DEF FiberInv, WakesOnce
    <2>3. agenda[k].fiber # current' /\ fibers'[agenda[k].fiber].stack # <<>>
      BY <1>8, <2>1, <2>2
    <2> QED  BY <1>7, <2>2, <2>3
  <1> QED  BY <1>1, <1>4, <1>5, <1>6, <1>9, <1>10 DEF FiberInv

\* One more callback changes neither the target nor the state of a future.
LEMMA CallbackAdded ==
    ASSUME RunInv, AddsCallback
    PROVE  /\ Len(futures') = Len(futures)
           /\ \A f \in 1..Len(futures) : /\ futures'[f].target = futures[f].target
                                         /\ futures'[f].state = futures[f].state
  <1>1. PICK f \in 1..Len(futures) :
          \E block : futures' = [futures EXCEPT ![f].callbacks = Append(@, block)]
    BY DEF AddsCallback
  <1>2. PICK block : futures' = [futures EXCEPT ![f].callbacks = Append(@, block)]
    BY <1>1
  <1>3. DOMAIN futures' = DOMAIN futures /\ futures' = [i \in DOMAIN futures' |-> futures'[i]]
    BY <1>2
  <1>4. Len(futures') = Len(futures)
    BY <1>3, Referents, SeqExcept
  <1>5. \A g \in 1..Len(futures) : g \in DOMAIN futures /\ DOMAIN futures[g] = FutureFields
    BY Referents, SeqFacts DEF RunInv, FuturesOK, IsFuture
  <1>6. \A g \in 1..Len(futures) : /\ futures'[g].target = futures[g].target
                                   /\ futures'[g].state = futures[g].state
    BY <1>2, <1>5 DEF FutureFields
  <1> QED  BY <1>4, <1>6

\* What code creates: futures that are open, their handlers, handlers of signals.
LEMMA ObjectsGrow ==
    ASSUME RunInv, FiberInv, KeepsObjects \/ CreatesFuture \/ HandlesSignal \/ AddsCallback
    PROVE  Grown
  <1> DEFINE n == Len(futures)
             m == Len(handlers)
  <1>1. IsSeq(futures) /\ IsSeq(handlers) /\ n \in Nat /\ m \in Nat
    BY Referents
  <1>2. HandlersOnce
    BY DEF FiberInv
  <1>3. CASE KeepsObjects
    BY <1>3, SameGrows DEF KeepsObjects
  <1>4. CASE CreatesFuture
    <2>0. PICK d : d.type \in DOMAIN ResolveNames /\ \E made :
            /\ made.state = "pending"
            /\ futures' = Append(futures, made)
            /\ handlers' = handlers \o Resolving(made.target, n + 1, ResolveNames[d.type])
      BY <1>4 DEF CreatesFuture
    <2> DEFINE names == ResolveNames[d.type]
    <2>1. names \in {<<"completed", "failed">>, <<"fired", "canceled">>}
      BY <2>0 DEF ResolveNames
    <2> HIDE DEF names
    <2>2. PICK made :
            /\ made.state = "pending"
            /\ futures' = Append(futures, made)
            /\ handlers' = handlers \o Resolving(made.target, n + 1, names)
      BY <2>0 DEF names
    <2>3. /\ Len(futures') = n + 1
          /\ \A f \in 1..n : futures'[f] = futures[f]
          /\ futures'[n + 1] = made
      BY <1>1, <2>2, SeqAppend
    <2> DEFINE sets == Handler(made.target, names[1], Act("set", n + 1, 0, ""))
               fails == Handler(made.target, names[2], Act("fail", n + 1, 0, ""))
               added == Resolving(made.target, n + 1, names)
    <2>4. IsSeq(added) /\ Len(added) = 2 /\ added[1] = sets /\ added[2] = fails
      BY SeqShort DEF Resolving
    <2>4a. names[1] \in {"completed", "fired"} /\ names[2] \in {"failed", "canceled"}
      <3>1. CASE names = <<"completed", "failed">>
        BY <3>1, SeqShort
      <3>2. CASE names = <<"fired", "canceled">>
        BY <3>2, SeqShort
      <3> QED  BY <2>1, <3>1, <3>2
    <2>5. /\ sets.act.kind = "set" /\ sets.act.future = n + 1 /\ sets.target = made.target
          /\ sets.name \in {"completed", "fired"}
      BY <2>4a DEF Handler, Act
    <2>6. /\ fails.act.kind = "fail" /\ fails.act.future = n + 1 /\ fails.target = made.target
          /\ fails.name \in {"failed", "canceled"}
      BY <2>4a DEF Handler, Act
    <2>7. handlers' = handlers \o added
      BY <2>2
    <2> HIDE DEF sets, fails, added
    <2>8. /\ Len(handlers') = m + Len(added)
          /\ \A i \in 1..m : handlers'[i] = handlers[i]
          /\ \A i \in 1..Len(added) : handlers'[m + i] = added[i]
      <3>1. IsSeq(added)
        BY <2>4
      <3> QED  BY <1>1, <2>7, <3>1, SeqConcat
    <2>9. 1 \in 1..Len(added) /\ 2 \in 1..Len(added)
      BY <2>4
    <2>10. Len(handlers') = m + 2 /\ handlers'[m + 1] = sets /\ handlers'[m + 2] = fails
      BY <2>4, <2>8, <2>9
    <2> HIDE DEF n, m
    <2>11. HandlerFits(sets, futures') /\ HandlerFits(fails, futures')
      BY <2>3, <2>5, <2>6 DEF HandlerFits
    <2>12. \A p \in 1..Len(handlers') : p \in 1..m \/ p = m + 1 \/ p = m + 2
      BY <1>1, <2>10
    <2>13. \A p \in 1..m : Resolves(handlers[p].act) => handlers[p].act.future \in 1..n
      BY Referents DEF n, m
    <2>14. HandlersOnce'
      <3> SUFFICES ASSUME NEW p \in 1..Len(handlers'), NEW q \in 1..Len(handlers'),
                          handlers'[p].act.kind \in {"set", "fail"},
                          handlers'[p].act.kind = handlers'[q].act.kind,
                          handlers'[p].act.future = handlers'[q].act.future
                   PROVE  p = q
        BY DEF HandlersOnce, Resolves
      <3>1. CASE p \in 1..m /\ q \in 1..m
        BY <1>2, <2>8, <3>1 DEF HandlersOnce, Resolves, m
      <3>2. CASE p \in 1..m /\ q \notin 1..m
        <4>1. handlers'[q].act.future = n + 1
          BY <2>5, <2>6, <2>10, <2>12, <3>2
        <4>2. handlers'[p].act.future \in 1..n
          BY <2>8, <2>13, <3>2 DEF Resolves
        <4> QED  BY <1>1, <4>1, <4>2
      <3>3. CASE p \notin 1..m /\ q \in 1..m
        <4>1. handlers'[p].act.future = n + 1
          BY <2>5, <2>6, <2>10, <2>12, <3>3
        <4>2. handlers'[q].act.future \in 1..n
          BY <2>8, <2>13, <3>3 DEF Resolves
        <4> QED  BY <1>1, <4>1, <4>2
      <3>4. CASE p \notin 1..m /\ q \notin 1..m
        BY <2>5, <2>6, <2>10, <2>12, <3>4
      <3> QED  BY <3>1, <3>2, <3>3, <3>4
    <2>15. \A p \in 1..Len(handlers') : p \notin 1..m =>
             /\ ~Wakes(handlers'[p].act) /\ HandlerFits(handlers'[p], futures')
             /\ handlers'[p].act.future \notin 1..n
      <3>1. n + 1 \notin 1..n
        BY <1>1
      <3> QED  BY <2>5, <2>6, <2>10, <2>11, <2>12, <3>1 DEF Wakes
    <2>16. /\ Len(handlers') \in Nat /\ m <= Len(handlers')
           /\ Len(futures') \in Nat /\ n <= Len(futures')
      BY <1>1, <2>3, <2>10
    <2>17. \A f \in 1..Len(futures') : f \notin 1..n => futures'[f].state = "pending"
      BY <1>1, <2>2, <2>3
    <2> QED  BY <2>3, <2>8, <2>14, <2>15, <2>16, <2>17 DEF Grown, n, m
  <1>5. CASE HandlesSignal
    <2>1. PICK block : handlers' = Append(handlers, Handler(WorkflowTarget, "signaled",
                                                            Act("call", 0, 0, block)))
      BY <1>5 DEF HandlesSignal
    <2> DEFINE h == Handler(WorkflowTarget, "signaled", Act("call", 0, 0, block))
    <2>2. h.act.kind = "call" /\ h.target = WorkflowTarget
      BY DEF Handler, Act
    <2> HIDE DEF h
    <2>3. /\ Len(handlers') = m + 1
          /\ \A i \in 1..m : handlers'[i] = handlers[i]
          /\ handlers'[m + 1] = h
      BY <1>1, <2>1, SeqAppend DEF h
    <2> HIDE DEF n, m
    <2>4. \A p \in 1..Len(handlers') : p \in 1..m \/ p = m + 1
      BY <1>1, <2>3
    <2>5. HandlersOnce'
      <3> SUFFICES ASSUME NEW p \in 1..Len(handlers'), NEW q \in 1..Len(handlers'),
                          handlers'[p].act.kind \in {"set", "fail"},
                          handlers'[p].act.kind = handlers'[q].act.kind,
                          handlers'[p].act.future = handlers'[q].act.future
                   PROVE  p = q
        BY DEF HandlersOnce, Resolves
      <3>1. p \in 1..m /\ q \in 1..m
        BY <2>2, <2>3, <2>4
      <3> QED  BY <1>2, <2>3, <3>1 DEF HandlersOnce, Resolves, m
    <2>6. HandlerFits(h, futures') /\ ~Wakes(h.act) /\ ~Resolves(h.act)
      BY <2>2 DEF HandlerFits, Wakes, Resolves
    <2>7. futures' = futures
      BY <1>5 DEF HandlesSignal
    <2> QED  BY <1>1, <2>3, <2>4, <2>5, <2>6, <2>7 DEF Grown, n, m
  <1>6. CASE AddsCallback
    <2>1. handlers' = handlers
      BY <1>6 DEF AddsCallback
    <2>2. HandlersOnce'
      BY <1>2, <2>1 DEF HandlersOnce
    <2>3. /\ Len(futures') = n
          /\ \A f \in 1..n : futures'[f].target = futures[f].target
                             /\ futures'[f].state = futures[f].state
      BY <1>6, CallbackAdded
    <2> HIDE DEF n, m
    <2> QED  BY <1>1, <2>1, <2>2, <2>3 DEF Grown, n, m
  <1> QED  BY <1>3, <1>4, <1>5, <1>6


\* A fiber goes to sleep: nobody else was to wake it.
LEMMA ParkKeeps ==
    ASSUME RunInv, FiberInv, phase = "fiber", Parks, UNCHANGED <<snapshot, cursor, todo, agenda>>
    PROVE  FiberInv'
  <1> DEFINE m == Len(handlers)
  <1>1. /\ IsSeq(futures) /\ IsSeq(handlers) /\ m \in Nat /\ current \in 1..Len(fibers) /\ current # 0
    BY Referents, Running
  <1>2. PICK stack : IsStack(stack) /\ Restacked(stack)
    BY DEF Parks
  <1>3. /\ fibers'[current].stack # <<>> /\ Len(fibers') = Len(fibers)
        /\ \A i \in 1..Len(fibers) : i # current => fibers'[i] = fibers[i]
    <2>1. stack # <<>>
      BY <1>2 DEF IsStack
    <2> QED  BY <1>2, <2>1, RestackKeeps
  <1>4. PICK f \in 1..Len(futures) :
          /\ futures[f].state = "pending"
          /\ handlers' = Append(handlers, Handler(futures[f].target, WILDCARD,
                                                  Act("resume", f, current, "")))
    BY DEF Parks
  <1>5. current' = 0 /\ UNCHANGED <<error, sm, futures, slots>>
    BY DEF Parks
  <1> DEFINE h == Handler(futures[f].target, WILDCARD, Act("resume", f, current, ""))
  <1>6. /\ h.act.kind = "resume" /\ h.act.future = f /\ h.act.fiber = current
        /\ h.target = futures[f].target
    BY DEF Handler, Act
  <1> HIDE DEF h
  <1>7. /\ Len(handlers') = m + 1
        /\ \A i \in 1..m : handlers'[i] = handlers[i]
        /\ handlers'[m + 1] = h
    <2>1. handlers' = Append(handlers, h)
      BY <1>4 DEF h
    <2>2. IsSeq(handlers)
      BY <1>1
    <2> QED  BY <2>1, <2>2, SeqAppend
  <1> HIDE DEF m
  <1>8. \A p \in 1..Len(handlers') : p \in 1..m \/ p = m + 1
    BY <1>1, <1>7
  <1>9. /\ HandlersFit /\ HandlersOnce /\ WaitsOnce /\ WakesOnce /\ DueOnce /\ LeftIsOpen
        /\ EndsOnce(snapshot) /\ NoneRaised
    BY DEF FiberInv
  <1>10. NoneRaised' /\ EndsOnce(snapshot)' /\ LeftIsOpen' /\ DueOnce'
    <2>1. NoneRaised' /\ EndsOnce(snapshot)'
      BY <1>5, <1>9 DEF NoneRaised, EndsOnce
    <2>2. LeftIsOpen'
      BY <1>5, <1>9 DEF LeftIsOpen, Left, Settles
    <2>3. DueOnce'
      BY <1>5, <1>9 DEF DueOnce, Left, Settles, Resolves
    <2> QED  BY <2>1, <2>2, <2>3
  <1>11. HandlersFit'
    <2>1. HandlerFits(h, futures')
      BY <1>5, <1>6 DEF HandlerFits
    <2>2. \A p \in 1..m : HandlerFits(handlers[p], futures')
      BY <1>5, <1>9 DEF HandlersFit, m
    <2>3. \A p \in 1..Len(handlers') : HandlerFits(handlers'[p], futures')
      BY <1>7, <1>8, <2>1, <2>2
    <2> QED  BY <2>3 DEF HandlersFit
  <1>12. HandlersOnce'
    <2> SUFFICES ASSUME NEW p \in 1..Len(handlers'), NEW q \in 1..Len(handlers'),
                        handlers'[p].act.kind \in {"set", "fail"},
                        handlers'[p].act.kind = handlers'[q].act.kind,
                        handlers'[p].act.future = handlers'[q].act.future
                 PROVE  p = q
      BY DEF HandlersOnce, Resolves
    <2>1. p \in 1..m /\ q \in 1..m
      BY <1>6, <1>7, <1>8
    <2> QED  BY <1>7, <1>9, <2>1 DEF HandlersOnce, Resolves, m
  \* The handlers that wake a fiber: the new one, and those of other fibers.
  <1>13. \A p \in 1..Len(handlers') : Armed(p)' =>
           \/ p = m + 1 /\ handlers'[p].act.fiber = current
           \/ /\ p \in 1..m /\ handlers'[p] = handlers[p] /\ Armed(p)
              /\ handlers[p].act.fiber # current
              /\ handlers[p].act.fiber \in 1..Len(fibers)
    <2> SUFFICES ASSUME NEW p \in 1..m, Armed(p)'
                 PROVE  /\ Armed(p) /\ handlers[p].act.fiber # current
                        /\ handlers[p].act.fiber \in 1..Len(fibers)
      BY <1>6, <1>7, <1>8
    <2>1. Armed(p)
      BY <1>5, <1>7 DEF Armed, Wakes
    <2>2. Wakes(handlers[p].act) /\ p \in 1..Len(handlers)
      BY <2>1 DEF Armed, m
    <2>3. handlers[p].act.fiber # current
      BY <1>9, <2>1, <2>2 DEF WaitsOnce
    <2> QED  BY <2>1, <2>2, <2>3, Referents
  <1>14. WaitsOnce'
    <2> SUFFICES ASSUME NEW p \in 1..Len(handlers'), Armed(p)'
                 PROVE  /\ handlers'[p].act.fiber # current'
                        /\ fibers'[handlers'[p].act.fiber].stack # <<>>
                        /\ \A q \in 1..Len(handlers') :
                             Armed(q)' /\ handlers'[q].act.fiber = handlers'[p].act.fiber => p = q
      BY DEF WaitsOnce
    <2>1. CASE p = m + 1 /\ handlers'[p].act.fiber = current
      BY <1>1, <1>3, <1>5, <1>13, <2>1
    <2>2. CASE /\ p \in 1..m /\ handlers'[p] = handlers[p] /\ Armed(p)
               /\ handlers[p].act.fiber # current
               /\ handlers[p].act.fiber \in 1..Len(fibers)
      <3>1. /\ fibers[handlers[p].act.fiber].stack # <<>>
            /\ \A q \in 1..m : Armed(q) /\ handlers[q].act.fiber = handlers[p].act.fiber => p = q
        BY <1>9, <2>2 DEF WaitsOnce, m
      <3>2. handlers[p].act.fiber # current'
        BY <1>5, <2>2, Referents
      <3>3. fibers'[handlers[p].act.fiber].stack # <<>>
        BY <1>3, <2>2, <3>1
      <3> QED  BY <1>13, <2>2, <3>1, <3>2, <3>3
    <2> QED  BY <1>13, <2>1, <2>2
  <1>15. WakesOnce'
    <2> SUFFICES ASSUME NEW k \in 1..Len(agenda), Wakes(agenda[k])
                 PROVE  /\ agenda[k].fiber # current'
                        /\ fibers'[agenda[k].fiber].stack # <<>>
                        /\ \A l \in 1..Len(agenda) :
                             Wakes(agenda[l]) /\ agenda[l].fiber = agenda[k].fiber => k = l
                        /\ \A p \in 1..Len(handlers') :
                             Armed(p)' /\ handlers'[p].act.fiber = agenda[k].fiber =>
                                 handlers'[p].act.future = agenda[k].future
      BY DEF WakesOnce, Wakes
    <2>1. agenda[k].fiber \in 1..Len(fibers)
      BY Referents
    <2>2. /\ agenda[k].fiber # current
          /\ fibers[agenda[k].fiber].stack # <<>>
          /\ \A l \in 1..Len(agenda) :
               Wakes(agenda[l]) /\ agenda[l].fiber = agenda[k].fiber => k = l
          /\ \A p \in 1..m :
               Armed(p) /\ handlers[p].act.fiber = agenda[k].fiber =>
                   handlers[p].act.future = agenda[k].future
      BY <1>9 DEF WakesOnce, m
    <2>3. agenda[k].fiber # current' /\ fibers'[agenda[k].fiber].stack # <<>>
      BY <1>3, <1>5, <2>1, <2>2, Referents
    <2> QED  BY <1>13, <2>2, <2>3
  <1> QED  BY <1>10, <1>11, <1>12, <1>14, <1>15 DEF FiberInv

\* Whatever workflow code does, in whatever order.
LEMMA CodeKeepsFibers ==
    ASSUME RunInv, FiberInv, CodeMoves
    PROVE  FiberInv'
  <1>1. phase = "fiber" /\ UNCHANGED <<snapshot, cursor, todo, agenda>>
    BY DEF CodeMoves
  <1>2. NoneRaised
    BY DEF FiberInv
  <1>3. CASE Continues
    <2>1. \A i \in 1..Len(fibers) : i # current => fibers'[i] = fibers[i]
      BY <1>1, <1>3, RestackKeeps DEF Continues
    <2>2. Grown
      BY <1>3, ObjectsGrow DEF Continues
    <2>3. current' = current /\ error' = error
      BY <1>3 DEF Continues
    <2>4. NoneRaised'
      BY <1>2, <2>3 DEF NoneRaised
    <2> QED  BY <1>1, <2>1, <2>2, <2>3, <2>4, GrownKeeps
  <1>4. CASE Parks
    BY <1>1, <1>4, ParkKeeps
  <1>5. CASE Ends
    <2>1. \A i \in 1..Len(fibers) : i # current => fibers'[i] = fibers[i]
      BY <1>1, <1>5, RestackKeeps DEF Ends
    <2>2. Grown
      BY <1>5, SameGrows DEF Ends, KeepsObjects
    <2>3. current' = 0 /\ error' = error
      BY <1>5 DEF Ends
    <2>4. NoneRaised'
      BY <1>2, <2>3 DEF NoneRaised
    <2> QED  BY <1>1, <2>1, <2>2, <2>3, <2>4, GrownKeeps
  <1>6. CASE Aborts
    <2>1. \A i \in 1..Len(fibers) : fibers'[i] = fibers[i]
      BY <1>6 DEF Aborts
    <2>2. Grown
      BY <1>6, SameGrows DEF Aborts, KeepsObjects
    <2>3. current' = 0 /\ error' \in Errors
      BY <1>6 DEF Aborts
    <2>4. NoneRaised'
      BY <2>3 DEF NoneRaised, Errors
    <2> QED  BY <1>1, <2>1, <2>2, <2>3, <2>4, GrownKeeps
  <1> QED  BY <1>3, <1>4, <1>5, <1>6 DEF CodeMoves


-----------------------------------------------------------------------------
(* The root: events are applied, handlers run.                               *)

\* Events are taken, and nothing else changes but the agenda.
LEMMA EventsTaken ==
    ASSUME RunInv, FiberInv, UNCHANGED <<error, snapshot, handlers, futures, fibers, current>>,
           \A i \in 1..Len(snapshot) : Left(i)' => Left(i)
    PROVE  /\ NoneRaised' /\ EndsOnce(snapshot)' /\ LeftIsOpen'
           /\ HandlersFit' /\ HandlersOnce' /\ WaitsOnce'
  <1>1. NoneRaised' /\ EndsOnce(snapshot)' /\ HandlersFit' /\ HandlersOnce' /\ WaitsOnce'
    BY DEF FiberInv, NoneRaised, EndsOnce, HandlersFit, HandlersOnce, WaitsOnce, Armed, Resolves,
           Wakes
  <1>2. LeftIsOpen'
    BY DEF FiberInv, LeftIsOpen, Settles
  <1> QED  BY <1>1, <1>2

\* With no handler due, nothing is due twice.
LEMMA IdleAgenda ==
    ASSUME agenda' = <<>>
    PROVE  DueOnce' /\ WakesOnce'
  BY SeqShort DEF DueOnce, WakesOnce

\* Reading the next window keeps the invariant: its events were left before,
\* and are.
LEMMA NextWindowKeepsFibers ==
    ASSUME RunInv, FiberInv, NextWindow
    PROVE  FiberInv'
  <1>1. /\ cursor < Len(snapshot) /\ agenda' = <<>>
        /\ todo' = Ordered(next_window(snapshot, cursor))
        /\ cursor' = WindowEnd(snapshot, cursor)
        /\ UNCHANGED <<error, snapshot, handlers, futures, fibers, current>>
    BY DEF NextWindow, AtRoot
  <1>2. Events(snapshot) /\ (\A i \in 1..Len(snapshot) : snapshot[i].id = i)
        /\ Len(snapshot) \in Nat /\ cursor \in Nat
    BY SeqFacts DEF RunInv, RunType, Events
  <1>3. \A k \in 1..Len(todo') : todo'[k].id \in cursor + 1 .. cursor'
    BY <1>1, <1>2, WindowEvents
  <1>4. cursor' \in cursor + 1 .. Len(snapshot)
    BY <1>1, <1>2, WindowAdvances DEF Events
  <1>5. \A i \in 1..Len(snapshot) : Left(i)' => i > cursor
    BY <1>2, <1>3, <1>4 DEF Left
  <1>6. \A i \in 1..Len(snapshot) : Left(i)' => Left(i)
    BY <1>5 DEF Left
  <1> QED  BY <1>1, <1>6, EventsTaken, IdleAgenda DEF FiberInv

\* The events that wake and resolve are the ones that end something.
LEMMA CalledSettles ==
    ASSUME RunInv, FiberInv, NEW i \in 1..Len(snapshot), Left(i),
           NEW p \in Called(snapshot[i]),
           Resolves(handlers[p].act) \/ Wakes(handlers[p].act)
    PROVE  /\ p \in 1..Len(handlers)
           /\ handlers[p].act.future \in 1..Len(futures)
           /\ Settles(i, handlers[p].act.future)
           /\ futures[handlers[p].act.future].state = "pending"
  <1> DEFINE e == snapshot[i]
             f == handlers[p].act.future
  <1>1. /\ p \in 1..Len(handlers) /\ e.type \in DOMAIN DispatchedAs
        /\ handlers[p].target = from_event(e)
    BY DEF Called
  <1>2. f \in 1..Len(futures)
    BY <1>1, Referents
  <1>3. handlers[p].target = futures[f].target
    BY <1>1 DEF FiberInv, HandlersFit, HandlerFits, Resolves, Wakes
  <1>4. futures[f].target.type \in FutureTypes
    BY <1>2 DEF RunInv, FuturesOK, IsFuture, FutureTypes
  <1>5. e.type \in Closes
    <2> HIDE DEF e
    <2> QED  BY <1>1, <1>3, <1>4, TargetsOfClosers
  <1>6. Settles(i, f)
    BY <1>1, <1>3, <1>5 DEF Settles
  <1>7. futures[f].state = "pending"
    BY <1>2, <1>6 DEF FiberInv, LeftIsOpen
  <1> QED  BY <1>1, <1>2, <1>6, <1>7

\* Applying an event keeps it: the handlers of its target become due, in the
\* order of their registration, and the event is not left.
LEMMA ApplyEventKeepsFibers ==
    ASSUME RunInv, FiberInv, ApplyEvent
    PROVE  FiberInv'
  <1> DEFINE e == Head(todo)
  <1>1. CASE ApplyError(sm, e) # "none"
    <2>1. Abort(ApplyError(sm, e)) /\ ApplyError(sm, e) \in {"no_method", "non_deterministic"}
      BY <1>1 DEF ApplyEvent, ApplyError
    <2>2. /\ current' = 0 /\ error' \in {"no_method", "non_deterministic"}
          /\ UNCHANGED <<snapshot, cursor, todo, handlers, agenda, futures, fibers>>
      BY <2>1 DEF Abort
    <2>3. NoneRaised'
      BY <2>2 DEF NoneRaised
    <2> QED  BY <2>2, <2>3, SameGrows, GrownKeeps
  <1>2. CASE ApplyError(sm, e) = "none"
    <2>1. /\ todo # <<>>
          /\ todo' = Tail(todo)
          /\ agenda' = CalledActs(e)
          /\ UNCHANGED <<error, snapshot, cursor, handlers, futures, fibers, current>>
      BY <1>2 DEF ApplyEvent, CalledActs
    <2>2. /\ IsSeq(todo)
          /\ \A k \in 1..Len(todo) : todo[k].id \in 1..cursor /\ todo[k] = snapshot[todo[k].id]
          /\ \A k, l \in 1..Len(todo) : todo[k].id = todo[l].id => k = l
          /\ cursor \in 0..Len(snapshot) /\ Len(snapshot) \in Nat
      BY SeqFacts DEF RunInv, RunType, Events
    <2>3. /\ Len(todo) \in Nat \ {0} /\ e = todo[1] /\ Len(todo') = Len(todo) - 1
          /\ \A k \in 1..Len(todo) - 1 : todo'[k] = todo[k + 1]
      BY <2>1, <2>2, SeqTail
    <2>4. PICK i \in 1..Len(snapshot) : /\ i = e.id /\ i <= cursor /\ e = snapshot[i]
                                         /\ 1 \in 1..Len(todo)
      BY <2>2, <2>3
    <2> HIDE DEF e
    <2>5. Left(i)
      BY <2>3, <2>4 DEF Left
    <2>6. \A k \in 1..Len(todo') : todo'[k] = todo[k + 1] /\ k + 1 \in 1..Len(todo) /\ k + 1 # 1
      BY <2>3
    <2>7. ~Left(i)'
      <3>1. ASSUME NEW k \in 1..Len(todo'), todo'[k].id = i PROVE FALSE
        <4>1. todo[k + 1].id = todo[1].id
          BY <2>3, <2>4, <2>6, <3>1
        <4> QED  BY <2>2, <2>4, <2>6, <4>1
      <3>2. ~(i > cursor')
        BY <2>1, <2>2, <2>4
      <3> QED  BY <3>1, <3>2 DEF Left
    <2>8. \A j \in 1..Len(snapshot) : Left(j)' => Left(j)
      <3> SUFFICES ASSUME NEW j \in 1..Len(snapshot), Left(j)'
                   PROVE  Left(j)
        OBVIOUS
      <3>1. CASE j > cursor
        BY <3>1 DEF Left
      <3>2. ASSUME NEW k \in 1..Len(todo'), todo'[k].id = j PROVE Left(j)
        BY <2>6, <3>2 DEF Left
      <3>3. j > cursor \/ \E k \in 1..Len(todo') : todo'[k].id = j
        BY <2>1 DEF Left
      <3> QED  BY <3>1, <3>2, <3>3
    <2>9. /\ NoneRaised' /\ EndsOnce(snapshot)' /\ LeftIsOpen'
          /\ HandlersFit' /\ HandlersOnce' /\ WaitsOnce'
      BY <2>1, <2>8, EventsTaken
    \* Where the handlers on the agenda are registered.
    <2> DEFINE Place(k) == Nth(Called(e), k)
    <2>10. /\ \A k \in 1..Len(agenda') : Place(k) \in Called(e)
           /\ \A k \in 1..Len(agenda') : agenda'[k] = handlers[Place(k)].act
           /\ \A k, l \in 1..Len(agenda') : Place(k) = Place(l) => k = l
      <3> DEFINE n == Cardinality(Called(e))
      <3>1. IsSeq(handlers)
        BY Referents
      <3>2. IsSeq(agenda') /\ Len(agenda') = n
        BY <2>1, <3>1, DispatchCalls
      <3>3. \A k \in 1..n : Nth(Called(e), k) \in Called(e)
        BY <3>1, DispatchCalls
      <3>4. \A k \in 1..n : agenda'[k] = handlers[Nth(Called(e), k)].act
        BY <2>1, <3>1, DispatchCalls
      <3>5. \A k, l \in 1..n : k < l => Nth(Called(e), k) < Nth(Called(e), l)
        BY <3>1, DispatchCalls
      <3>6. n \in Nat /\ \A k \in 1..n : Nth(Called(e), k) \in Nat
        BY <3>2, <3>3, SeqFacts, Referents DEF Called
      <3> HIDE DEF n
      <3>7. \A k, l \in 1..n : Nth(Called(e), k) = Nth(Called(e), l) => k = l
        BY <3>5, <3>6
      <3> QED  BY <3>2, <3>3, <3>4, <3>7
    <2> HIDE DEF Place
    <2>11. \A k \in 1..Len(agenda') : Resolves(agenda'[k]) \/ Wakes(agenda'[k]) =>
             /\ Place(k) \in 1..Len(handlers)
             /\ Settles(i, agenda'[k].future)
             /\ futures[agenda'[k].future].state = "pending"
      <3> SUFFICES ASSUME NEW k \in 1..Len(agenda'), Resolves(agenda'[k]) \/ Wakes(agenda'[k])
                   PROVE  /\ Place(k) \in 1..Len(handlers)
                          /\ Settles(i, agenda'[k].future)
                          /\ futures[agenda'[k].future].state = "pending"
        OBVIOUS
      <3>1. Place(k) \in Called(snapshot[i]) /\ agenda'[k] = handlers[Place(k)].act
        BY <2>4, <2>10
      <3>2. Resolves(handlers[Place(k)].act) \/ Wakes(handlers[Place(k)].act)
        BY <3>1
      <3> QED  BY <2>4, <2>5, <3>1, <3>2, CalledSettles
    <2>12. DueOnce'
      <3> SUFFICES ASSUME NEW k \in 1..Len(agenda'), Resolves(agenda'[k])
                   PROVE  /\ futures[agenda'[k].future].state = "pending"
                          /\ \A j \in 1..Len(snapshot) : ~(Left(j)' /\ Settles(j, agenda'[k].future))
                          /\ \A l \in 1..Len(agenda') :
                               Resolves(agenda'[l]) /\ agenda'[l].future = agenda'[k].future => k = l
        BY <2>1 DEF DueOnce, Resolves, Settles
      <3>1. /\ Settles(i, agenda'[k].future) /\ futures[agenda'[k].future].state = "pending"
        BY <2>11
      <3>2. ASSUME NEW j \in 1..Len(snapshot), Left(j)', Settles(j, agenda'[k].future)
            PROVE  FALSE
        <4>1. i = j
          BY <2>4, <3>1, <3>2, SettlesOnce DEF FiberInv
        <4> QED  BY <2>7, <3>2, <4>1
      <3>3. ASSUME NEW l \in 1..Len(agenda'), Resolves(agenda'[l]),
                   agenda'[l].future = agenda'[k].future
            PROVE  k = l
        <4> DEFINE g == handlers[Place(k)]
                   h == handlers[Place(l)]
        <4>1. /\ Place(k) \in 1..Len(handlers) /\ agenda'[k] = g.act
              /\ Place(l) \in 1..Len(handlers) /\ agenda'[l] = h.act
              /\ Resolves(g.act) /\ Resolves(h.act) /\ g.act.future = h.act.future
          BY <2>10, <2>11, <3>3
        <4>2. Answers(g, DispatchedAs[e.type]) /\ Answers(h, DispatchedAs[e.type])
          BY <2>10 DEF Called
        <4>3. HandlerFits(g, futures) /\ HandlerFits(h, futures)
          BY <4>1 DEF FiberInv, HandlersFit
        <4> HIDE DEF g, h
        <4>4. g.name = h.name
          BY <4>1, <4>2, <4>3 DEF HandlerFits, Answers, WILDCARD, Resolves
        <4>5. g.act.kind = h.act.kind
          BY <4>1, <4>3, <4>4 DEF HandlerFits, Resolves
        <4>6. Place(k) = Place(l)
          BY <4>1, <4>5 DEF FiberInv, HandlersOnce, g, h
        <4> QED  BY <2>10, <4>6
      <3> QED  BY <3>1, <3>2, <3>3
    <2>13. WakesOnce'
      <3>1. \A k \in 1..Len(agenda') : Wakes(agenda'[k]) =>
              Place(k) \in 1..Len(handlers) /\ Armed(Place(k)) /\ agenda'[k] = handlers[Place(k)].act
        BY <2>10, <2>11 DEF Armed
      <3> SUFFICES ASSUME NEW k \in 1..Len(agenda'), Wakes(agenda'[k])
                   PROVE  /\ agenda'[k].fiber # current
                          /\ fibers[agenda'[k].fiber].stack # <<>>
                          /\ \A l \in 1..Len(agenda') :
                               Wakes(agenda'[l]) /\ agenda'[l].fiber = agenda'[k].fiber => k = l
                          /\ \A p \in 1..Len(handlers) :
                               Armed(p) /\ handlers[p].act.fiber = agenda'[k].fiber =>
                                   handlers[p].act.future = agenda'[k].future
        BY <2>1 DEF WakesOnce, Wakes, Armed
      <3>2. Place(k) \in 1..Len(handlers) /\ Armed(Place(k)) /\ agenda'[k] = handlers[Place(k)].act
        BY <3>1
      <3>3. /\ agenda'[k].fiber # current
            /\ fibers[agenda'[k].fiber].stack # <<>>
            /\ \A q \in 1..Len(handlers) :
                 Armed(q) /\ handlers[q].act.fiber = agenda'[k].fiber => Place(k) = q
        BY <3>2 DEF FiberInv, WaitsOnce
      <3>4. ASSUME NEW l \in 1..Len(agenda'), Wakes(agenda'[l]), agenda'[l].fiber = agenda'[k].fiber
            PROVE  k = l
        <4>1. Place(l) \in 1..Len(handlers) /\ Armed(Place(l)) /\ agenda'[l] = handlers[Place(l)].act
          BY <3>1, <3>4
        <4>2. Place(k) = Place(l)
          BY <3>3, <3>4, <4>1
        <4> QED  BY <2>10, <4>2
      <3> QED  BY <3>2, <3>3, <3>4
    <2> QED  BY <2>9, <2>12, <2>13 DEF FiberInv
  <1> QED  BY <1>1, <1>2


\* What stays of the agenda is d places further on, behind the handler that runs.
Kept(d) ==
    \A k \in 1..Len(agenda') : Resolves(agenda'[k]) \/ Wakes(agenda'[k]) =>
        /\ k + d \in 2..Len(agenda)
        /\ agenda'[k] = agenda[k + d]

\* One handler runs.  It may resolve its future; it may wake its fiber, when
\* its future is resolved.
LEMMA HandlerKeepsFibers ==
    ASSUME RunInv, FiberInv, agenda # <<>>, NEW d \in Int, Kept(d),
           UNCHANGED <<snapshot, cursor, todo, handlers>>,
           Len(futures') = Len(futures),
           \A f \in 1..Len(futures) :
               /\ futures'[f].target = futures[f].target
               /\ \/ futures'[f].state = futures[f].state
                  \/ Resolves(agenda[1]) /\ f = agenda[1].future /\ futures'[f].state # "pending",
           \A i \in 1..Len(fibers) : fibers'[i] = fibers[i],
           \A i \in 1..Len(fibers) : i = current' =>
               /\ Wakes(agenda[1]) /\ i = agenda[1].fiber
               /\ futures[agenda[1].future].state # "pending",
           NoneRaised'
    PROVE  FiberInv'
  <1>1. 1 \in 1..Len(agenda) /\ Len(agenda) \in Nat
    BY AgendaShrinks
  <1>2. /\ EndsOnce(snapshot) /\ LeftIsOpen /\ HandlersFit /\ HandlersOnce
        /\ DueOnce /\ WaitsOnce /\ WakesOnce
    BY DEF FiberInv
  <1>3. \A i : Left(i)' <=> Left(i)
    BY DEF Left
  <1>4. \A i : \A f \in 1..Len(futures) : Settles(i, f)' <=> Settles(i, f)
    BY DEF Settles
  <1>5. EndsOnce(snapshot)' /\ HandlersOnce'
    BY <1>2 DEF EndsOnce, HandlersOnce, Resolves
  <1>6. LeftIsOpen'
    <2> SUFFICES ASSUME NEW i \in 1..Len(snapshot), NEW f \in 1..Len(futures), Left(i), Settles(i, f)
                 PROVE  futures'[f].state = "pending"
      BY <1>3, <1>4 DEF LeftIsOpen
    <2>1. futures[f].state = "pending"
      BY <1>2 DEF LeftIsOpen
    <2>2. ~(Resolves(agenda[1]) /\ f = agenda[1].future)
      BY <1>1, <1>2 DEF DueOnce
    <2> QED  BY <2>1, <2>2
  <1>7. HandlersFit'
    <2> SUFFICES ASSUME NEW p \in 1..Len(handlers)
                 PROVE  HandlerFits(handlers[p], futures')
      BY DEF HandlersFit
    <2> DEFINE h == handlers[p]
    <2>1. HandlerFits(h, futures)
      BY <1>2 DEF HandlersFit
    <2>2. h.act.kind \in {"set", "fail", "resume"} => h.act.future \in 1..Len(futures)
      BY Referents DEF Resolves, Wakes
    <2> QED  BY <2>1, <2>2 DEF HandlerFits
  <1>8. DueOnce'
    <2> SUFFICES ASSUME NEW k \in 1..Len(agenda'), Resolves(agenda'[k])
                 PROVE  /\ futures'[agenda'[k].future].state = "pending"
                        /\ \A i \in 1..Len(snapshot) :
                             ~(/\ Left(i)' /\ snapshot[i].type \in Closes
                               /\ from_event(snapshot[i]) = futures'[agenda'[k].future].target)
                        /\ \A l \in 1..Len(agenda') :
                             Resolves(agenda'[l]) /\ agenda'[l].future = agenda'[k].future => k = l
      BY DEF DueOnce, Resolves, Settles
    <2>1. k + d \in 2..Len(agenda) /\ agenda'[k] = agenda[k + d] /\ k + d \in 1..Len(agenda)
          /\ k + d # 1
      BY <1>1 DEF Kept
    <2>2. agenda[k + d].future \in 1..Len(futures)
      BY <2>1, Referents
    <2>3. /\ futures[agenda[k + d].future].state = "pending"
          /\ \A i \in 1..Len(snapshot) : ~(Left(i) /\ Settles(i, agenda[k + d].future))
          /\ \A l \in 1..Len(agenda) :
               Resolves(agenda[l]) /\ agenda[l].future = agenda[k + d].future => k + d = l
      BY <1>2, <2>1 DEF DueOnce
    <2>4. ~(Resolves(agenda[1]) /\ agenda[k + d].future = agenda[1].future)
      BY <1>1, <2>1, <2>3
    <2>5. futures'[agenda[k + d].future].state = "pending"
      BY <2>2, <2>3, <2>4
    <2>6. ASSUME NEW l \in 1..Len(agenda'), Resolves(agenda'[l]),
                 agenda'[l].future = agenda'[k].future
          PROVE  k = l
      <3>1. l + d \in 2..Len(agenda) /\ agenda'[l] = agenda[l + d]
        BY <2>6 DEF Kept
      <3>2. l + d \in 1..Len(agenda)
        BY <1>1, <3>1
      <3>3. k + d = l + d
        BY <2>1, <2>3, <2>6, <3>1, <3>2
      <3> QED  BY <3>3
    <2>7. ASSUME NEW i \in 1..Len(snapshot), Left(i)', snapshot[i].type \in Closes,
                 from_event(snapshot[i]) = futures'[agenda'[k].future].target
          PROVE  FALSE
      <3>1. Left(i)
        BY <1>3, <2>7
      <3>2. Settles(i, agenda[k + d].future)
        BY <2>1, <2>2, <2>7 DEF Settles
      <3> QED  BY <2>3, <3>1, <3>2
    <2> QED  BY <2>1, <2>5, <2>6, <2>7
  <1>9. \A p \in 1..Len(handlers) : Armed(p)' => Armed(p) /\ handlers[p].act.fiber \in 1..Len(fibers)
    <2> SUFFICES ASSUME NEW p \in 1..Len(handlers), Armed(p)'
                 PROVE  Armed(p) /\ handlers[p].act.fiber \in 1..Len(fibers)
      OBVIOUS
    <2>1. Wakes(handlers[p].act) /\ futures'[handlers[p].act.future].state = "pending"
      BY DEF Armed, Wakes
    <2>2. handlers[p].act.future \in 1..Len(futures) /\ handlers[p].act.fiber \in 1..Len(fibers)
      BY <2>1, Referents
    <2> QED  BY <2>1, <2>2 DEF Armed
  <1>10. WaitsOnce'
    <2> SUFFICES ASSUME NEW p \in 1..Len(handlers), Armed(p)'
                 PROVE  /\ handlers[p].act.fiber # current'
                        /\ fibers'[handlers[p].act.fiber].stack # <<>>
                        /\ \A q \in 1..Len(handlers) :
                             Armed(q)' /\ handlers[q].act.fiber = handlers[p].act.fiber => p = q
      BY DEF WaitsOnce
    <2>1. Armed(p) /\ handlers[p].act.fiber \in 1..Len(fibers)
      BY <1>9
    <2>2. /\ fibers[handlers[p].act.fiber].stack # <<>>
          /\ \A q \in 1..Len(handlers) :
               Armed(q) /\ handlers[q].act.fiber = handlers[p].act.fiber => p = q
      BY <1>2, <2>1 DEF WaitsOnce
    <2>3. ASSUME handlers[p].act.fiber = current' PROVE FALSE
      <3>1. /\ Wakes(agenda[1]) /\ handlers[p].act.fiber = agenda[1].fiber
            /\ futures[agenda[1].future].state # "pending"
        BY <2>1, <2>3
      <3>2. handlers[p].act.future = agenda[1].future
        BY <1>1, <1>2, <2>1, <3>1 DEF WakesOnce
      <3> QED  BY <2>1, <3>1, <3>2 DEF Armed
    <2> QED  BY <1>9, <2>1, <2>2, <2>3
  <1>11. WakesOnce'
    <2> SUFFICES ASSUME NEW k \in 1..Len(agenda'), Wakes(agenda'[k])
                 PROVE  /\ agenda'[k].fiber # current'
                        /\ fibers'[agenda'[k].fiber].stack # <<>>
                        /\ \A l \in 1..Len(agenda') :
                             Wakes(agenda'[l]) /\ agenda'[l].fiber = agenda'[k].fiber => k = l
                        /\ \A p \in 1..Len(handlers) :
                             Armed(p)' /\ handlers[p].act.fiber = agenda'[k].fiber =>
                                 handlers[p].act.future = agenda'[k].future
      BY DEF WakesOnce, Wakes
    <2>1. k + d \in 2..Len(agenda) /\ agenda'[k] = agenda[k + d] /\ k + d \in 1..Len(agenda)
          /\ k + d # 1
      BY <1>1 DEF Kept
    <2>2. agenda[k + d].fiber \in 1..Len(fibers)
      BY <2>1, Referents
    <2>3. /\ fibers[agenda[k + d].fiber].stack # <<>>
          /\ \A l \in 1..Len(agenda) :
               Wakes(agenda[l]) /\ agenda[l].fiber = agenda[k + d].fiber => k + d = l
          /\ \A p \in 1..Len(handlers) :
               Armed(p) /\ handlers[p].act.fiber = agenda[k + d].fiber =>
                   handlers[p].act.future = agenda[k + d].future
      BY <1>2, <2>1 DEF WakesOnce
    <2>4. agenda[k + d].fiber # current'
      BY <1>1, <2>1, <2>2, <2>3
    <2>5. ASSUME NEW l \in 1..Len(agenda'), Wakes(agenda'[l]), agenda'[l].fiber = agenda'[k].fiber
          PROVE  k = l
      <3>1. l + d \in 2..Len(agenda) /\ agenda'[l] = agenda[l + d]
        BY <2>5 DEF Kept
      <3>2. l + d \in 1..Len(agenda)
        BY <1>1, <3>1
      <3>3. k + d = l + d
        BY <2>1, <2>3, <2>5, <3>1, <3>2
      <3> QED  BY <3>3
    <2> QED  BY <1>9, <2>1, <2>2, <2>3, <2>4, <2>5
  <1> QED  BY <1>5, <1>6, <1>7, <1>8, <1>10, <1>11 DEF FiberInv


\* What runs first, and what stays.
LEMMA KeptTail ==
    ASSUME RunInv, agenda # <<>>, agenda' = Tail(agenda)
    PROVE  Head(agenda) = agenda[1] /\ Kept(1)
  <1>1. /\ Len(agenda) \in Nat /\ Len(agenda') = Len(agenda) - 1 /\ Head(agenda) = agenda[1]
        /\ \A k \in 1..Len(agenda') : agenda'[k] = agenda[k + 1]
    BY AgendaShrinks
  <1>2. \A k \in 1..Len(agenda') : k + 1 \in 2..Len(agenda)
    BY <1>1
  <1> QED  BY <1>1, <1>2 DEF Kept

\* Callbacks put before what is due leave the order of the rest.
LEMMA KeptBehindCalls ==
    ASSUME RunInv, agenda # <<>>, NEW calls, IsSeq(calls),
           \A k \in 1..Len(calls) : calls[k].kind = "call", agenda' = calls \o Tail(agenda)
    PROVE  \E d \in Int : Kept(d)
  <1> DEFINE c == Len(calls)
             d == 1 - c
             rest == Tail(agenda)
  <1>1. /\ Len(agenda) \in Nat /\ IsSeq(rest) /\ Len(rest) = Len(agenda) - 1
        /\ \A k \in 1..Len(rest) : rest[k] = agenda[k + 1]
    BY AgendaShrinks
  <1>2. c \in Nat /\ d \in Int
    BY SeqFacts
  <1> HIDE DEF rest, c
  <1>3. \A k \in 1..Len(agenda') :
           \/ k \in 1..c /\ agenda'[k] = calls[k]
           \/ \E j \in 1..Len(rest) : k = c + j /\ agenda'[k] = rest[j]
    <2> SUFFICES ASSUME NEW k \in 1..Len(agenda')
                 PROVE  \/ k \in 1..c /\ agenda'[k] = calls[k]
                        \/ \E j \in 1..Len(rest) : k = c + j /\ agenda'[k] = rest[j]
      OBVIOUS
    <2>1. agenda' = calls \o rest /\ k \in 1..Len(calls \o rest)
      BY DEF rest
    <2>2. IsSeq(rest)
      BY <1>1
    <2>3. ASSUME NEW i \in 1..Len(calls \o rest)
          PROVE  \/ i \in 1..Len(calls) /\ (calls \o rest)[i] = calls[i]
                 \/ \E j \in 1..Len(rest) : i = Len(calls) + j /\ (calls \o rest)[i] = rest[j]
      BY <2>2, <2>3, ConcatParts
    <2> QED  BY <2>1, <2>3 DEF c
  <1>4. Kept(d)
    <2> SUFFICES ASSUME NEW k \in 1..Len(agenda'), Resolves(agenda'[k]) \/ Wakes(agenda'[k])
                 PROVE  k + d \in 2..Len(agenda) /\ agenda'[k] = agenda[k + d]
      BY DEF Kept
    <2>1. ~(k \in 1..c /\ agenda'[k] = calls[k])
      BY DEF Resolves, Wakes, c
    <2>2. PICK j \in 1..Len(rest) : k = c + j /\ agenda'[k] = rest[j]
      BY <1>3, <2>1
    <2>3. k + d = j + 1 /\ j + 1 \in 2..Len(agenda)
      BY <1>1, <1>2, <2>2
    <2> QED  BY <1>1, <2>2, <2>3
  <1> QED  BY <1>2, <1>4

\* Starting a fiber keeps the invariant: nothing waits for a new one.
LEMMA LaunchKeepsFibers ==
    ASSUME RunInv, FiberInv, phase = "apply", agenda # <<>>, NEW fiber,
           Launch(fiber), agenda' = Tail(agenda),
           UNCHANGED <<error, snapshot, cursor, todo, handlers, futures>>
    PROVE  FiberInv'
  <1>1. fibers' = Append(fibers, fiber) /\ current' = Len(fibers) + 1
    BY DEF Launch
  <1>2. Len(fibers) \in Nat /\ \A i \in 1..Len(fibers) : fibers'[i] = fibers[i]
    BY <1>1, Referents, SeqAppend
  <1>3. \A i \in 1..Len(fibers) : i # current'
    BY <1>1, <1>2
  <1>4. NoneRaised'
    BY DEF FiberInv, NoneRaised
  <1> QED  BY <1>2, <1>3, <1>4, KeptTail, HandlerKeepsFibers

\* Resolving a future keeps it: whoever waited for it waits no more.
LEMMA ResolveKeepsFibers ==
    ASSUME RunInv, FiberInv, phase = "apply", agenda # <<>>, Resolves(agenda[1]),
           NEW state \in {"ready", "failed"},
           futures' = [futures EXCEPT ![agenda[1].future].state = state],
           NEW d \in Int, Kept(d),
           UNCHANGED <<error, snapshot, cursor, todo, handlers, fibers, current>>
    PROVE  FiberInv'
  <1> DEFINE f == agenda[1].future
  <1>1. IsSeq(futures) /\ \A g \in 1..Len(futures) : DOMAIN futures[g] = FutureFields
    BY DEF RunInv, FuturesOK, IsFuture
  <1>2. DOMAIN futures = 1..Len(futures)
    BY <1>1, SeqFacts
  <1>3. Len(futures') = Len(futures)
    <2>1. DOMAIN futures' = DOMAIN futures /\ futures' = [g \in DOMAIN futures' |-> futures'[g]]
      OBVIOUS
    <2> QED  BY <1>1, <2>1, SeqExcept
  <1> HIDE DEF f
  <1>4. futures' = [futures EXCEPT ![f].state = state]
    BY DEF f
  <1>5. \A g \in 1..Len(futures) :
          /\ futures'[g].target = futures[g].target
          /\ futures'[g].state = futures[g].state \/ (g = f /\ futures'[g].state # "pending")
    <2> TAKE g \in 1..Len(futures)
    <2>1. CASE g = f
      <3>1. futures'[g] = [futures[g] EXCEPT !.state = state]
        BY <1>2, <1>4, <2>1
      <3> QED  BY <1>1, <2>1, <3>1 DEF FutureFields
    <2>2. CASE g # f
      <3>1. futures'[g] = futures[g]
        BY <1>2, <1>4, <2>2
      <3> QED  BY <3>1
    <2> QED  BY <2>1, <2>2
  <1>6. current = 0 /\ Len(fibers) \in Nat
    BY Referents DEF RunInv, RunType
  <1>7. \A i \in 1..Len(fibers) : i # current'
    BY <1>6
  <1>8. NoneRaised'
    BY DEF FiberInv, NoneRaised
  <1> QED  BY <1>3, <1>5, <1>7, <1>8, HandlerKeepsFibers DEF f

\* Calling a handler keeps it.
LEMMA RunHandlerKeepsFibers ==
    ASSUME RunInv, FiberInv, RunHandler
    PROVE  FiberInv'
  <1> DEFINE act == agenda[1]
  <1>1. phase = "apply" /\ agenda # <<>>
    BY DEF RunHandler
  <1>2. /\ Head(agenda) = act /\ 1 \in 1..Len(agenda) /\ IsSeq(Tail(agenda))
    BY <1>1, AgendaShrinks
  <1>3. CASE RunStart
    BY <1>1, <1>3, LaunchKeepsFibers DEF RunStart
  <1>4. CASE RunCall
    BY <1>1, <1>4, LaunchKeepsFibers DEF RunCall
  <1>5. CASE RunSet
    <2> DEFINE f == act.future
               blocks == futures[f].callbacks
               calls == [i \in 1..Len(blocks) |-> Act("call", 0, 0, blocks[i])]
    <2>1. Resolves(act) /\ f \in 1..Len(futures)
      BY <1>2, <1>5, Referents DEF RunSet, Resolves
    <2>2. futures[f].state = "pending"
      BY <1>2, <2>1 DEF FiberInv, DueOnce
    <2>3. /\ futures' = [futures EXCEPT ![f].state = "ready"]
          /\ agenda' = calls \o Tail(agenda)
          /\ UNCHANGED <<error, snapshot, cursor, todo, handlers, fibers, current>>
      BY <1>2, <1>5, <2>2 DEF RunSet
    <2>4. IsSeq(blocks) /\ Len(blocks) \in Nat
      BY <2>1, SeqFacts DEF RunInv, FuturesOK, IsFuture
    <2>5. IsSeq(calls) /\ Len(calls) = Len(blocks)
      BY <2>4, SeqByFun
    <2>6. \A k \in 1..Len(calls) : calls[k].kind = "call"
      BY <2>5 DEF Act
    <2> HIDE DEF calls
    <2>7. PICK d \in Int : Kept(d)
      BY <1>1, <2>3, <2>5, <2>6, KeptBehindCalls
    <2> QED  BY <1>1, <2>1, <2>3, <2>7, ResolveKeepsFibers
  <1>6. CASE RunFail
    <2> DEFINE f == act.future
    <2>1. Resolves(act)
      BY <1>2, <1>6 DEF RunFail, Resolves
    <2>2. futures[f].state = "pending"
      BY <1>2, <2>1 DEF FiberInv, DueOnce
    <2>3. /\ futures' = [futures EXCEPT ![f].state = "failed"]
          /\ agenda' = Tail(agenda)
          /\ UNCHANGED <<error, snapshot, cursor, todo, handlers, fibers, current>>
      BY <1>2, <1>6, <2>2 DEF RunFail
    <2>4. Kept(1)
      BY <1>1, <2>3, KeptTail
    <2> QED  BY <1>1, <2>1, <2>3, <2>4, ResolveKeepsFibers
  <1>7. CASE RunResume
    <2>1. Wakes(act)
      BY <1>2, <1>7 DEF RunResume, Wakes
    <2>2. fibers[act.fiber].stack # <<>>
      BY <1>2, <2>1 DEF FiberInv, WakesOnce
    <2>3. current = 0 /\ Len(fibers) \in Nat
      BY <1>1, Referents DEF RunInv, RunType
    <2>4. /\ agenda' = Tail(agenda)
          /\ UNCHANGED <<error, snapshot, cursor, todo, handlers, futures, fibers>>
          /\ \/ current' = current
             \/ current' = act.fiber /\ futures[act.future].state # "pending"
      BY <1>2, <1>7, <2>2 DEF RunResume, MayResume, finished
    <2>5. \A i \in 1..Len(fibers) : i = current' =>
            i = act.fiber /\ futures[act.future].state # "pending"
      BY <2>3, <2>4
    <2>6. NoneRaised'
      BY <2>4 DEF FiberInv, NoneRaised
    <2>7. Kept(1)
      BY <1>1, <2>4, KeptTail
    <2> QED  BY <1>1, <2>1, <2>4, <2>5, <2>6, <2>7, HandlerKeepsFibers
  <1> QED  BY <1>3, <1>4, <1>5, <1>6, <1>7 DEF RunHandler

\* Every step of a decider keeps it.
LEMMA RunKeepsFibers ==
    ASSUME RunInv, FiberInv, Run
    PROVE  FiberInv'
  <1>1. CASE FinishRun
    <2>1. UNCHANGED <<error, snapshot, cursor, todo, handlers, agenda, futures, fibers, current>>
      BY <1>1 DEF FinishRun
    <2>2. NoneRaised'
      BY <2>1 DEF FiberInv, NoneRaised
    <2> QED  BY <2>1, <2>2, SameGrows, GrownKeeps
  <1>2. CASE CodeStep
    BY <1>2, CodeStepMoves, CodeKeepsFibers
  <1> QED  BY <1>1, <1>2, NextWindowKeepsFibers, ApplyEventKeepsFibers, RunHandlerKeepsFibers
           DEF Run, RunStep, RootStep

\* A new run, or none.
LEMMA FreshFibers ==
    ASSUME NEW at, NEW raised, raised \in {"none", "not_run"}, NEW h, EndsOnce(h), NEW registered,
           \/ registered = <<>>
           \/ registered = <<Handler(WorkflowTarget, "started", Act("start", 0, 0, "main"))>>,
           ResetRun(at, raised, h, registered)
    PROVE  FiberInv'
  <1>1. /\ error' = raised /\ snapshot' = h /\ handlers' = registered /\ agenda' = <<>>
        /\ futures' = <<>>
    BY DEF ResetRun
  <1>2. NoneRaised' /\ EndsOnce(snapshot)'
    BY <1>1 DEF NoneRaised, EndsOnce
  <1>3. LeftIsOpen' /\ DueOnce' /\ WakesOnce'
    BY <1>1, SeqShort, IdleAgenda DEF LeftIsOpen
  <1> DEFINE start == Handler(WorkflowTarget, "started", Act("start", 0, 0, "main"))
  <1>4. start.act.kind = "start" /\ start.target = WorkflowTarget
    BY DEF Handler, Act
  <1> HIDE DEF start
  <1>5. \A p \in 1..Len(handlers') : handlers'[p].act.kind = "start"
                                      /\ handlers'[p].target = WorkflowTarget
    <2>1. CASE registered = <<>>
      BY <1>1, <2>1, SeqShort
    <2>2. CASE registered = <<start>>
      BY <1>1, <1>4, <2>2, SeqShort
    <2> QED  BY <2>1, <2>2 DEF start
  <1>6. \A p \in 1..Len(handlers') : ~Resolves(handlers'[p].act) /\ ~Wakes(handlers'[p].act)
                                      /\ HandlerFits(handlers'[p], futures')
    BY <1>5 DEF Resolves, Wakes, HandlerFits
  <1>7. HandlersFit' /\ HandlersOnce' /\ WaitsOnce'
    BY <1>6 DEF HandlersFit, HandlersOnce, WaitsOnce, Armed, Resolves, Wakes
  <1> QED  BY <1>2, <1>3, <1>7 DEF FiberInv


-----------------------------------------------------------------------------
(* The service: nothing ends twice.                                          *)

\* Events that end nothing.
Harmless(s) == \A i \in 1..Len(s) : s[i].type \notin Closes

\* Rivals end something, are rivals of each other, and stay rivals whatever
\* number they get.
LEMMA RivalsClose ==
    /\ \A a, b : Rivals(a, b) => a.type \in Closes /\ b.type \in Closes
    /\ \A a, b : Rivals(a, b) => Rivals(b, a)
    /\ \A a, b, c : SameEvent(a, b) => (Rivals(a, c) <=> Rivals(b, c))
    /\ \A a, b, c : SameEvent(a, b) => (Rivals(c, a) <=> Rivals(c, b))
  BY DEF Rivals, Closes, SameEvent

\* Events that end nothing have no rivals.
LEMMA HarmlessOnce ==
    ASSUME NEW s, Harmless(s)
    PROVE  EndsOnce(s) /\ \A t : NoRivals(t, s) /\ NoRivals(s, t)
  BY RivalsClose DEF Harmless, EndsOnce, NoRivals

\* Events behind events: nothing ends twice if nothing did in either part or
\* across them.
LEMMA ConcatOnce ==
    ASSUME NEW s, NEW t, IsSeq(s), IsSeq(t)
    PROVE  /\ EndsOnce(s) /\ EndsOnce(t) /\ NoRivals(s, t) => EndsOnce(s \o t)
           /\ \A h : NoRivals(h, s) /\ NoRivals(h, t) => NoRivals(h, s \o t)
           /\ Harmless(s) /\ Harmless(t) => Harmless(s \o t)
  <1> DEFINE u == s \o t
  <1>1. \A i \in 1..Len(u) : \/ i \in 1..Len(s) /\ u[i] = s[i]
                             \/ \E j \in 1..Len(t) : i = Len(s) + j /\ u[i] = t[j]
    BY ConcatParts
  <1> HIDE DEF u
  <1>2. ASSUME EndsOnce(s), EndsOnce(t), NoRivals(s, t) PROVE EndsOnce(u)
    <2> SUFFICES ASSUME NEW i \in 1..Len(u), NEW j \in 1..Len(u), Rivals(u[i], u[j])
                 PROVE  i = j
      BY DEF EndsOnce
    <2>1. CASE i \in 1..Len(s) /\ u[i] = s[i]
      <3>1. CASE j \in 1..Len(s) /\ u[j] = s[j]
        BY <1>2, <2>1, <3>1 DEF EndsOnce
      <3>2. CASE \E l \in 1..Len(t) : j = Len(s) + l /\ u[j] = t[l]
        BY <1>2, <2>1, <3>2 DEF NoRivals
      <3> QED  BY <1>1, <3>1, <3>2
    <2>2. CASE \E k \in 1..Len(t) : i = Len(s) + k /\ u[i] = t[k]
      <3>1. CASE j \in 1..Len(s) /\ u[j] = s[j]
        BY <1>2, <2>2, <3>1, RivalsClose DEF NoRivals
      <3>2. CASE \E l \in 1..Len(t) : j = Len(s) + l /\ u[j] = t[l]
        BY <1>2, <2>2, <3>2 DEF EndsOnce
      <3> QED  BY <1>1, <3>1, <3>2
    <2> QED  BY <1>1, <2>1, <2>2
  <1>3. ASSUME NEW h, NoRivals(h, s), NoRivals(h, t) PROVE NoRivals(h, u)
    BY <1>1, <1>3 DEF NoRivals
  <1>4. ASSUME Harmless(s), Harmless(t) PROVE Harmless(u)
    BY <1>1, <1>4 DEF Harmless
  <1> QED  BY <1>2, <1>3, <1>4 DEF u

\* Recording events keeps them and what was there apart.
LEMMA RecordOnce ==
    ASSUME NEW h, NEW new, Events(h), Events(new), EndsOnce(h), EndsOnce(new), NoRivals(h, new)
    PROVE  /\ EndsOnce(Recorded(h, new))
           /\ \A b : NoRivals(h, b) /\ NoRivals(new, b) => NoRivals(Recorded(h, new), b)
  <1> DEFINE r == Recorded(h, new)
             n == Len(h)
  <1>1. n \in Nat /\ Len(new) \in Nat
    BY SeqFacts DEF Events
  <1>2. /\ Len(r) = n + Len(new)
        /\ \A i \in 1..n : r[i] = h[i]
        /\ \A i \in 1..Len(new) : SameEvent(r[n + i], new[i])
    BY RecordedEvents
  <1> HIDE DEF r, n
  <1>3. \A i \in 1..Len(r) : \/ i \in 1..n /\ r[i] = h[i]
                             \/ \E j \in 1..Len(new) : i = n + j /\ SameEvent(r[i], new[j])
    <2> TAKE i \in 1..Len(r)
    <2>1. CASE i <= n
      BY <1>1, <1>2, <2>1
    <2>2. CASE ~(i <= n)
      <3>1. i - n \in 1..Len(new) /\ i = n + (i - n)
        BY <1>1, <1>2, <2>2
      <3> QED  BY <1>2, <3>1
    <2> QED  BY <2>1, <2>2
  <1>4. EndsOnce(r)
    <2> SUFFICES ASSUME NEW i \in 1..Len(r), NEW j \in 1..Len(r), Rivals(r[i], r[j])
                 PROVE  i = j
      BY DEF EndsOnce
    <2>1. CASE i \in 1..n /\ r[i] = h[i]
      <3>1. CASE j \in 1..n /\ r[j] = h[j]
        BY <2>1, <3>1 DEF EndsOnce, n
      <3>2. CASE \E l \in 1..Len(new) : j = n + l /\ SameEvent(r[j], new[l])
        BY <2>1, <3>2, RivalsClose DEF NoRivals, n
      <3> QED  BY <1>3, <3>1, <3>2
    <2>2. CASE \E k \in 1..Len(new) : i = n + k /\ SameEvent(r[i], new[k])
      <3>1. CASE j \in 1..n /\ r[j] = h[j]
        BY <2>2, <3>1, RivalsClose DEF NoRivals, n
      <3>2. CASE \E l \in 1..Len(new) : j = n + l /\ SameEvent(r[j], new[l])
        <4>1. PICK k \in 1..Len(new) : i = n + k /\ SameEvent(r[i], new[k])
          BY <2>2
        <4>2. PICK l \in 1..Len(new) : j = n + l /\ SameEvent(r[j], new[l])
          BY <3>2
        <4>3. Rivals(new[k], new[l])
          BY <4>1, <4>2, RivalsClose
        <4> QED  BY <4>1, <4>2, <4>3 DEF EndsOnce
      <3> QED  BY <1>3, <3>1, <3>2
    <2> QED  BY <1>3, <2>1, <2>2
  <1>5. ASSUME NEW b, NoRivals(h, b), NoRivals(new, b) PROVE NoRivals(r, b)
    <2> SUFFICES ASSUME NEW i \in 1..Len(r), NEW j \in 1..Len(b), Rivals(r[i], b[j])
                 PROVE  FALSE
      BY DEF NoRivals
    <2>1. CASE i \in 1..n /\ r[i] = h[i]
      BY <1>5, <2>1 DEF NoRivals, n
    <2>2. CASE \E k \in 1..Len(new) : i = n + k /\ SameEvent(r[i], new[k])
      BY <1>5, <2>2, RivalsClose DEF NoRivals
    <2> QED  BY <1>3, <2>1, <2>2
  <1> QED  BY <1>4, <1>5 DEF r

\* Task events end nothing.
LEMMA TaskEventHarmless ==
    ASSUME NEW type, type \notin Closes
    PROVE  Harmless(<<TaskEvent(type)>>)
  <1> DEFINE e == TaskEvent(type)
  <1>1. e.type = type
    BY DEF TaskEvent, Event
  <1> HIDE DEF e
  <1>2. Len(<<e>>) = 1 /\ <<e>>[1] = e
    BY SeqShort
  <1> QED  BY <1>1, <1>2 DEF Harmless, e

\* The events of decision tasks end nothing and close nothing.
LEMMA TaskTypes ==
    \A type \in {"DecisionTaskScheduled", "DecisionTaskStarted", "DecisionTaskCompleted",
                 "DecisionTaskFailed", "DecisionTaskTimedOut", "WorkflowExecutionStarted"} :
        type \notin Closes /\ type \notin CloseTypes
  BY DEF Closes, ClosesActivity, ClosesTimer, ClosesChild, CloseTypes


\* A task ends without decisions, and what was held back comes behind it.
LEMMA EndTaskOnce ==
    ASSUME ServiceInv, RecordsOnce, NEW type \in {"DecisionTaskFailed", "DecisionTaskTimedOut"},
           EndTask(type)
    PROVE  RecordsOnce'
  <1> DEFINE first == <<TaskEvent(type)>>
             last == <<TaskEvent("DecisionTaskScheduled")>>
  <1>1. Events(first) /\ IsSeq(first) /\ Harmless(first)
    BY TaskTypes, TaskEvents, TaskEventHarmless DEF Events
  <1>2. Events(last) /\ IsSeq(last) /\ Harmless(last)
    BY TaskTypes, TaskEvents, TaskEventHarmless DEF Events
  <1>3. history' = Recorded(history, first \o buffered \o last) /\ buffered' = <<>>
    BY DEF EndTask
  <1>4. /\ Events(buffered) /\ IsSeq(buffered) /\ EndsOnce(buffered)
        /\ Events(history) /\ EndsOnce(history) /\ NoRivals(history, buffered)
    BY DEF ServiceInv, BufferedOK, HistoryOK, Events, RecordsOnce
  <1> HIDE DEF first, last
  <1> DEFINE front == first \o buffered
  <1>5. EndsOnce(first) /\ NoRivals(first, buffered) /\ NoRivals(history, first)
    BY <1>1, HarmlessOnce
  <1>6. Events(front) /\ IsSeq(front)
    BY <1>1, <1>4, EventsConcat DEF Events
  <1>7. EndsOnce(front) /\ NoRivals(history, front)
    BY <1>1, <1>4, <1>5, ConcatOnce
  <1> HIDE DEF front
  <1>8. EndsOnce(last) /\ NoRivals(front, last) /\ NoRivals(history, last)
    BY <1>2, HarmlessOnce
  <1> DEFINE new == front \o last
  <1>9. Events(new)
    BY <1>2, <1>6, EventsConcat
  <1>10. EndsOnce(new) /\ NoRivals(history, new)
    BY <1>2, <1>6, <1>7, <1>8, ConcatOnce
  <1>11. history' = Recorded(history, new)
    BY <1>3 DEF front
  <1> HIDE DEF new
  <1>12. EndsOnce(history')
    BY <1>4, <1>9, <1>10, <1>11, RecordOnce
  <1>13. EndsOnce(<<>>) /\ NoRivals(history', <<>>)
    BY SeqShort DEF EndsOnce, NoRivals
  <1> QED  BY <1>3, <1>12, <1>13 DEF RecordsOnce

\* An event arrives that has no rival.
LEMMA ArriveOnce ==
    ASSUME ServiceInv, RecordsOnce, NEW e, DOMAIN e = EventFields, Arrive(e),
           \A i \in 1..Len(history) : ~Rivals(history[i], e),
           \A i \in 1..Len(buffered) : ~Rivals(buffered[i], e)
    PROVE  RecordsOnce'
  <1> DEFINE one == <<e>>
  <1>1. IsSeq(one) /\ Len(one) = 1 /\ one[1] = e
    BY SeqShort
  <1>2. Events(one)
    BY OneEvent
  <1>3. /\ Events(buffered) /\ IsSeq(buffered) /\ EndsOnce(buffered)
        /\ Events(history) /\ EndsOnce(history) /\ NoRivals(history, buffered)
    BY DEF ServiceInv, BufferedOK, HistoryOK, Events, RecordsOnce
  <1>4. Append(buffered, e) = buffered \o one
    <2>1. buffered \in Seq(ToSet(buffered) \cup {e}) /\ e \in ToSet(buffered) \cup {e}
      BY <1>3, SeqMonotonic DEF IsSeq
    <2> QED  BY <2>1, AppendIsConcat
  <1> HIDE DEF one
  <1>5. \A i \in 1..Len(one) : i = 1 /\ one[i] = e
    BY <1>1
  <1>6. EndsOnce(one) /\ NoRivals(history, one) /\ NoRivals(buffered, one) /\ NoRivals(one, buffered)
    BY <1>5, RivalsClose DEF EndsOnce, NoRivals
  <1>7. CASE task = "started"
    <2>1. buffered' = buffered \o one /\ history' = history
      BY <1>4, <1>7 DEF Arrive
    <2>2. IsSeq(one)
      BY <1>1
    <2>3. EndsOnce(buffered \o one) /\ NoRivals(history, buffered \o one)
      BY <1>3, <1>6, <2>2, ConcatOnce
    <2> QED  BY <1>3, <2>1, <2>3 DEF RecordsOnce
  <1>8. ASSUME NEW new, Events(new), EndsOnce(new), NoRivals(history, new), NoRivals(new, buffered),
               history' = Recorded(history, new), buffered' = buffered
        PROVE  RecordsOnce'
    BY <1>3, <1>8, RecordOnce DEF RecordsOnce
  <1>9. CASE task # "started"
    <2>1. history' = Add(history, one) /\ buffered' = buffered
      BY <1>9 DEF Arrive, one
    <2>2. CASE task = "scheduled"
      <3>1. history' = Recorded(history, one)
        BY <2>1, <2>2 DEF Add
      <3> QED  BY <1>2, <1>6, <1>8, <2>1, <3>1
    <2>3. CASE task # "scheduled"
      <3> DEFINE t == TaskEvent("DecisionTaskScheduled")
                 last == <<t>>
      <3>1. Events(last) /\ IsSeq(last) /\ Harmless(last)
        BY TaskTypes, TaskEvents, TaskEventHarmless DEF Events
      <3>2. history' = Recorded(history, Append(one, t))
        BY <2>1, <2>3 DEF Add
      <3> HIDE DEF t
      <3>3. Append(one, t) = one \o last
        <4>1. one \in Seq(ToSet(one) \cup {t}) /\ t \in ToSet(one) \cup {t}
          BY <1>1, SeqMonotonic DEF IsSeq
        <4> QED  BY <4>1, AppendIsConcat
      <3> HIDE DEF last
      <3>4. EndsOnce(last) /\ NoRivals(one, last) /\ NoRivals(history, last)
             /\ NoRivals(buffered, last)
        BY <3>1, HarmlessOnce
      <3>5. IsSeq(one)
        BY <1>1
      <3>6. EndsOnce(one \o last) /\ NoRivals(history, one \o last) /\ NoRivals(buffered, one \o last)
        BY <1>6, <3>1, <3>4, <3>5, ConcatOnce
      <3>7. NoRivals(one \o last, buffered)
        BY <3>6, RivalsClose DEF NoRivals
      <3>8. Events(one \o last)
        BY <1>2, <3>1, EventsConcat
      <3>9. history' = Recorded(history, one \o last)
        BY <3>2, <3>3
      <3> QED  BY <1>8, <2>1, <3>6, <3>7, <3>8, <3>9
    <2> QED  BY <2>2, <2>3
  <1> QED  BY <1>7, <1>9

\* What the service knows nothing of is not on record.
LEMMA NotKnown ==
    ASSUME ServiceInv, NEW types, NEW ref, ~Has(types, ref)
    PROVE  /\ \A i \in 1..Len(history) : ~(history[i].type \in types /\ history[i].ref = ref)
           /\ \A i \in 1..Len(buffered) : ~(buffered[i].type \in types /\ buffered[i].ref = ref)
  <1>1. IsSeq(history) /\ IsSeq(buffered)
    BY DEF ServiceInv, HistoryOK, BufferedOK, Events
  <1>2. /\ Len(Known) = Len(history) + Len(buffered)
        /\ \A i \in 1..Len(history) : Known[i] = history[i]
        /\ \A i \in 1..Len(buffered) : Known[Len(history) + i] = buffered[i]
    BY <1>1, SeqConcat DEF Known
  <1>3. Len(history) \in Nat /\ Len(buffered) \in Nat
    BY <1>1, SeqFacts
  <1>4. \A i \in 1..Len(Known) : ~(Known[i].type \in types /\ Known[i].ref = ref)
    BY DEF Has
  <1>5. \A i \in 1..Len(history) : i \in 1..Len(Known)
    BY <1>2, <1>3
  <1>6. \A i \in 1..Len(buffered) : Len(history) + i \in 1..Len(Known)
    BY <1>2, <1>3
  <1> QED  BY <1>2, <1>4, <1>5, <1>6

\* The service reports the end of what is open.
LEMMA ReportOnce ==
    ASSUME ServiceInv, RecordsOnce, NEW closing, NEW type, NEW ref, NEW key,
           \/ type \in ClosesActivity /\ ClosesActivity \subseteq closing
           \/ type \in ClosesTimer /\ ClosesTimer \subseteq closing
           \/ type \in ClosesChild /\ ClosesChild \subseteq closing
           \/ type \notin Closes,
           ~Has(closing, ref), Arrive(Event(type, ref, key, ""))
    PROVE  RecordsOnce'
  <1> DEFINE e == Event(type, ref, key, "")
  <1>1. DOMAIN e = EventFields /\ e.type = type /\ e.ref = ref
    BY DEF Event, EventFields
  <1>2. Arrive(e)
    OBVIOUS
  <1> HIDE DEF e
  <1>3. ASSUME NEW a, Rivals(a, e) PROVE a.type \in closing /\ a.ref = ref
    <2>1. type \in Closes
      BY <1>1, <1>3, RivalsClose
    <2>2. PICK all \in {ClosesActivity, ClosesTimer, ClosesChild} : a.type \in all /\ type \in all
      BY <1>1, <1>3 DEF Rivals
    <2>3. all \subseteq closing
      <3>1. /\ type \in ClosesActivity => all = ClosesActivity
            /\ type \in ClosesTimer => all = ClosesTimer
            /\ type \in ClosesChild => all = ClosesChild
        BY <2>2 DEF ClosesActivity, ClosesTimer, ClosesChild
      <3> QED  BY <2>1, <3>1
    <2> QED  BY <1>1, <1>3, <2>2, <2>3 DEF Rivals
  <1>4. \A i \in 1..Len(history) : ~Rivals(history[i], e)
    BY <1>3, NotKnown, ZenonT(40)
  <1>5. \A i \in 1..Len(buffered) : ~Rivals(buffered[i], e)
    BY <1>3, NotKnown, ZenonT(40)
  <1> QED  BY <1>1, <1>2, <1>4, <1>5, ArriveOnce


\* The decisions are taken: commands end nothing, and what was held back comes
\* behind them, each event at most once.
LEMMA AcceptOnce ==
    ASSUME RunInv, ServiceInv, RecordsOnce, AcceptDecisions(sm.decisions)
    PROVE  RecordsOnce'
  <1> DEFINE batch == sm.decisions
             n == Len(batch)
             commands == [i \in 1..n |-> Command(batch, i)]
             canceled == {commands[i].ref : i \in {j \in 1..n : commands[j].type = "TimerCanceled"}}
             kept == {i \in 1..Len(buffered) :
                        ~(buffered[i].type = "TimerFired" /\ buffered[i].ref \in canceled)}
             late == SelectAt(buffered, kept)
             first == <<TaskEvent("DecisionTaskCompleted")>>
             ended == first \o commands
             t == TaskEvent("DecisionTaskScheduled")
  <1>1. /\ \/ history' = Recorded(history, ended)
           \/ history' = Recorded(history, ended \o late)
           \/ history' = Recorded(history, Append(ended \o late, t))
        /\ buffered' = <<>>
    BY DEF AcceptDecisions, Add
  <1>2. n \in Nat /\ \A i \in 1..n : IsDecision(batch[i])
    BY SeqFacts DEF RunInv, ManagerOK
  <1>3. kept \subseteq 1..Len(buffered)
    OBVIOUS
  <1> HIDE DEF kept, batch, n
  <1>4. IsSeq(commands) /\ Len(commands) = n
    BY <1>2, SeqByFun
  <1>5. \A i \in 1..n : DOMAIN commands[i] = EventFields /\ commands[i].type \notin Closes
    <2>1. \A i \in 1..n : commands[i] = Command(batch, i)
      OBVIOUS
    <2>2. \A i \in 1..n : DOMAIN Command(batch, i) = EventFields
      BY <1>2, CommandIsEvent
    <2>3. \A i \in 1..n : Command(batch, i).type \in
                {"ActivityTaskScheduled", "TimerStarted", "StartChildWorkflowExecutionInitiated",
                 "MarkerRecorded", "RequestCancelActivityTaskFailed", "ActivityTaskCancelRequested",
                 "CancelTimerFailed", "TimerCanceled", "WorkflowExecutionCompleted",
                 "WorkflowExecutionFailed"}
      BY <1>2, CommandIsEvent
    <2>4. \A i \in 1..n : Command(batch, i).type \notin Closes
      BY <2>3 DEF Closes, ClosesActivity, ClosesTimer, ClosesChild
    <2> QED  BY <2>1, <2>2, <2>4
  <1>6. /\ Events(buffered) /\ IsSeq(buffered) /\ EndsOnce(buffered)
        /\ Events(history) /\ EndsOnce(history) /\ NoRivals(history, buffered)
    BY DEF ServiceInv, BufferedOK, HistoryOK, Events, RecordsOnce
  <1>7. IsSeq(late)
    BY <1>3, <1>6, SelectAtFrom
  <1>8. \A k \in 1..Len(late) : \E i \in kept : late[k] = buffered[i] /\ i = Nth(kept, k)
    BY <1>3, <1>6, SelectAtFrom
  <1>9. \A k, l \in 1..Len(late) : Nth(kept, k) = Nth(kept, l) => k = l
    BY <1>3, <1>6, SelectAtFrom
  <1> HIDE DEF late, commands
  <1>10. \A k \in 1..Len(late) : Nth(kept, k) \in 1..Len(buffered)
    BY <1>3, <1>8
  <1>11. \A k \in 1..Len(late) : late[k] = buffered[Nth(kept, k)]
    BY <1>8
  <1>12. Events(late)
    BY <1>6, <1>7, <1>10, <1>11 DEF Events
  <1>13. EndsOnce(late)
    BY <1>6, <1>9, <1>10, <1>11 DEF EndsOnce
  <1>14. NoRivals(history, late)
    BY <1>6, <1>10, <1>11 DEF NoRivals
  <1>15. Events(first) /\ IsSeq(first) /\ Harmless(first)
    BY TaskTypes, TaskEvents, TaskEventHarmless DEF Events
  <1>16. Events(commands) /\ Harmless(commands)
    BY <1>4, <1>5 DEF Events, Harmless
  <1> HIDE DEF first
  <1>17. Events(ended) /\ IsSeq(ended)
    BY <1>15, <1>16, EventsConcat DEF Events
  <1>18. Harmless(ended)
    BY <1>4, <1>15, <1>16, ConcatOnce
  <1> HIDE DEF ended
  <1>19. EndsOnce(ended) /\ NoRivals(history, ended) /\ NoRivals(ended, late)
    BY <1>18, HarmlessOnce
  <1> DEFINE front == ended \o late
             last == <<t>>
  <1>20. Events(front) /\ IsSeq(front)
    BY <1>12, <1>17, EventsConcat DEF Events
  <1>21. EndsOnce(front) /\ NoRivals(history, front)
    BY <1>7, <1>13, <1>14, <1>17, <1>19, ConcatOnce
  <1>22. Events(last) /\ IsSeq(last) /\ Harmless(last)
    BY TaskTypes, TaskEvents, TaskEventHarmless DEF Events
  <1> HIDE DEF front, t
  <1>23. Append(front, t) = front \o last
    <2>1. front \in Seq(ToSet(front) \cup {t}) /\ t \in ToSet(front) \cup {t}
      BY <1>20, SeqMonotonic DEF IsSeq
    <2> QED  BY <2>1, AppendIsConcat
  <1> HIDE DEF last
  <1>24. EndsOnce(last) /\ NoRivals(front, last) /\ NoRivals(history, last)
    BY <1>22, HarmlessOnce
  <1>25. EndsOnce(front \o last) /\ NoRivals(history, front \o last)
    BY <1>20, <1>21, <1>22, <1>24, ConcatOnce
  <1>26. Events(front \o last)
    BY <1>20, <1>22, EventsConcat
  <1>27. ASSUME NEW new, Events(new), EndsOnce(new), NoRivals(history, new),
                history' = Recorded(history, new)
         PROVE  RecordsOnce'
    <2>1. EndsOnce(history')
      BY <1>6, <1>27, RecordOnce
    <2>2. EndsOnce(<<>>) /\ NoRivals(history', <<>>)
      BY SeqShort DEF EndsOnce, NoRivals
    <2> QED  BY <1>1, <2>1, <2>2 DEF RecordsOnce
  <1>28. \/ history' = Recorded(history, ended)
         \/ history' = Recorded(history, front)
         \/ history' = Recorded(history, front \o last)
    BY <1>1, <1>23 DEF front
  <1> QED  BY <1>17, <1>19, <1>20, <1>21, <1>25, <1>26, <1>27, <1>28

\* A task is handed out.
LEMMA StartOnce ==
    ASSUME ServiceInv, RecordsOnce, buffered' = buffered,
           history' = Recorded(history, <<TaskEvent("DecisionTaskStarted")>>)
    PROVE  RecordsOnce'
  <1> DEFINE new == <<TaskEvent("DecisionTaskStarted")>>
  <1>1. Events(new) /\ Harmless(new)
    BY TaskTypes, TaskEvents, TaskEventHarmless
  <1>2. /\ Events(history) /\ EndsOnce(history) /\ EndsOnce(buffered) /\ NoRivals(history, buffered)
        /\ history' = Recorded(history, new)
    BY DEF ServiceInv, HistoryOK, RecordsOnce
  <1> HIDE DEF new
  <1>3. EndsOnce(new) /\ NoRivals(history, new) /\ NoRivals(new, buffered)
    BY <1>1, HarmlessOnce
  <1> QED  BY <1>1, <1>2, <1>3, RecordOnce DEF RecordsOnce

-----------------------------------------------------------------------------

\* The inductive invariant: of the run, of the record, and of what was ended
\* once.
FiberInvs == IInv /\ FiberInv /\ RecordsOnce

\* A new execution has ended nothing.
LEMMA FibersInit ==
    ASSUME Init
    PROVE  FiberInvs
  <1>1. IInv
    BY IInvInit
  <1>2. RecordsOnce
    <2> DEFINE one == TaskEvent("WorkflowExecutionStarted")
               two == TaskEvent("DecisionTaskScheduled")
               new == <<one, two>>
    <2>1. history = Recorded(<<>>, new) /\ buffered = <<>>
      BY DEF Init
    <2>2. /\ DOMAIN one = EventFields /\ one.type \notin Closes
          /\ DOMAIN two = EventFields /\ two.type \notin Closes
      BY DEF TaskEvent, Event, EventFields, Closes, ClosesActivity, ClosesTimer, ClosesChild
    <2> HIDE DEF one, two
    <2>3. IsSeq(new) /\ Len(new) = 2 /\ new[1] = one /\ new[2] = two
      BY SeqShort
    <2> HIDE DEF new
    <2>4. \A i \in 1..Len(new) : DOMAIN new[i] = EventFields /\ new[i].type \notin Closes
      <3>1. \A i \in 1..Len(new) : i = 1 \/ i = 2
        BY <2>3
      <3> QED  BY <2>2, <2>3, <3>1
    <2>5. Events(new) /\ Harmless(new)
      BY <2>3, <2>4 DEF Events, Harmless
    <2>6. EndsOnce(new) /\ NoRivals(<<>>, new)
      BY <2>5, HarmlessOnce
    <2>7. Events(<<>>) /\ EndsOnce(<<>>) /\ NoRivals(history, <<>>)
      BY SeqShort DEF Events, EndsOnce, NoRivals
    <2>8. EndsOnce(history)
      BY <2>1, <2>5, <2>6, <2>7, RecordOnce
    <2> QED  BY <2>1, <2>7, <2>8 DEF RecordsOnce
  <1>3. FiberInv
    <2>1. /\ error = "none" /\ snapshot = <<>> /\ handlers = <<>> /\ agenda = <<>> /\ futures = <<>>
      BY DEF Init, InitRun
    <2> QED  BY <2>1, SeqShort DEF FiberInv, NoneRaised, EndsOnce, LeftIsOpen, HandlersFit,
                                  HandlersOnce, DueOnce, WaitsOnce, WakesOnce
  <1> QED  BY <1>1, <1>2, <1>3 DEF FiberInvs

\* Nothing of the run changes.
LEMMA FiberInvStutter ==
    ASSUME FiberInv, UNCHANGED runVars
    PROVE  FiberInv'
  <1>1. UNCHANGED <<error, snapshot, cursor, todo, handlers, agenda, futures, fibers, current>>
    BY DEF runVars
  <1>2. NoneRaised' /\ EndsOnce(snapshot)' /\ LeftIsOpen' /\ HandlersFit' /\ HandlersOnce'
    BY <1>1 DEF FiberInv, NoneRaised, EndsOnce, LeftIsOpen, Left, Settles, HandlersFit, HandlersOnce,
                Resolves
  <1>3. DueOnce' /\ WaitsOnce' /\ WakesOnce'
    BY <1>1 DEF FiberInv, DueOnce, Left, Settles, WaitsOnce, WakesOnce, Armed, Resolves, Wakes
  <1> QED  BY <1>2, <1>3 DEF FiberInv

\* A run that is over has no futures and no fibers.
LEMMA FiberInvDropped ==
    ASSUME EndRun
    PROVE  FiberInv'
  <1>1. EndsOnce(<<>>)
    BY SeqShort DEF EndsOnce
  <1> QED  BY <1>1, FreshFibers DEF EndRun

\* Every step of the decider and of the service keeps it.
LEMMA FibersNext ==
    ASSUME FiberInvs, [Next]_vars
    PROVE  FiberInv' /\ RecordsOnce'
  <1> USE DEF FiberInvs, IInv
  <1>1. CASE Poll \/ PollInVain
    <2>1. RecordsOnce'
      BY <1>1, StartOnce DEF Poll, PollInVain
    <2>2. EndsOnce(history')
      BY <2>1 DEF RecordsOnce
    <2>3. CASE Poll
      BY <2>1, <2>2, <2>3, FreshFibers DEF Poll, StartRun
    <2>4. CASE PollInVain
      BY <2>1, <2>2, <2>4, FreshFibers DEF PollInVain
    <2> QED  BY <1>1, <2>3, <2>4
  <1>2. ASSUME UNCHANGED <<history, buffered>> PROVE RecordsOnce'
    BY <1>2 DEF RecordsOnce
  <1>3. CASE Run
    BY <1>2, <1>3, RunKeepsFibers DEF Run
  <1>4. CASE CompleteTask
    BY <1>4, AcceptOnce, FiberInvDropped DEF CompleteTask
  <1>5. CASE UnhandledDecision
    BY <1>5, EndTaskOnce, FiberInvDropped DEF UnhandledDecision
  <1>6. CASE LoseResponse
    BY <1>2, <1>6, FiberInvDropped DEF LoseResponse, serverVars
  <1>7. CASE FailTask
    BY <1>7, EndTaskOnce, FiberInvDropped DEF FailTask
  <1>8. CASE GiveUpTask
    BY <1>2, <1>8, FiberInvDropped DEF GiveUpTask, serverVars
  <1>9. CASE TimeOut
    BY <1>9, EndTaskOnce, FiberInvStutter DEF TimeOut
  <1>10. CASE Deploy
    BY <1>2, <1>10, FiberInvStutter DEF Deploy, serverVars
  <1>11. ASSUME NEW e, Arrive(e) PROVE FiberInv'
    BY <1>11, FiberInvStutter DEF Arrive
  <1>12. CASE ActivityReport
    <2>1. PICK o \in OpenActivities, type \in Reports \cap (ActivityClosed \cup {"ActivityTaskStarted"}) :
             Arrive(Event(type, o.id, 0, ""))
      BY <1>12 DEF ActivityReport
    <2>2. ~Has(ActivityClosed, o.id)
      BY DEF OpenActivities, OpenOf
    <2>3. /\ ClosesActivity \subseteq ActivityClosed
          /\ type \in ClosesActivity \/ type \notin Closes
      BY DEF ActivityClosed, Closes, ClosesActivity, ClosesTimer, ClosesChild
    <2> QED  BY <1>11, <2>1, <2>2, <2>3, ReportOnce
  <1>13. CASE ChildReport
    <2>1. PICK o \in OpenChildren, type \in Reports \cap (ChildClosed \cup {"ChildWorkflowExecutionStarted"}) :
             Arrive(Event(type, o.id, 0, ""))
      BY <1>13 DEF ChildReport
    <2>2. ~Has(ChildClosed, o.id)
      BY DEF OpenChildren, OpenOf
    <2>3. /\ ClosesChild \subseteq ChildClosed
          /\ type \in ClosesChild \/ type \notin Closes
      BY DEF ChildClosed, Closes, ClosesActivity, ClosesTimer, ClosesChild
    <2> QED  BY <1>11, <2>1, <2>2, <2>3, ReportOnce
  <1>14. CASE TimerFires
    <2>1. PICK o \in OpenTimers : Arrive(Event("TimerFired", o.id, o.key, ""))
      BY <1>14 DEF TimerFires
    <2>2. ~Has(TimerClosed, o.id)
      BY DEF OpenTimers, OpenOf
    <2>3. ClosesTimer \subseteq TimerClosed /\ "TimerFired" \in ClosesTimer
      BY DEF TimerClosed, ClosesTimer
    <2> QED  BY <1>11, <2>1, <2>2, <2>3, ReportOnce
  <1>15. ASSUME NEW type \in {"WorkflowExecutionSignaled", "WorkflowExecutionCancelRequested"},
                Arrive(TaskEvent(type))
         PROVE  FiberInv' /\ RecordsOnce'
    <2> DEFINE e == TaskEvent(type)
    <2>1. DOMAIN e = EventFields /\ e.type = type
      BY DEF TaskEvent, Event, EventFields
    <2>2. Arrive(e)
      BY <1>15
    <2> HIDE DEF e
    <2>3. e.type \notin Closes
      BY <2>1 DEF Closes, ClosesActivity, ClosesTimer, ClosesChild
    <2>4. \A a : ~Rivals(a, e)
      BY <2>3, RivalsClose
    <2> QED  BY <1>11, <2>1, <2>2, <2>4, ArriveOnce
  <1>16. CASE Signal
    BY <1>15, <1>16 DEF Signal
  <1>17. CASE CancelRequest
    BY <1>15, <1>17 DEF CancelRequest
  <1>18. CASE UNCHANGED vars
    <2>1. UNCHANGED runVars /\ UNCHANGED <<history, buffered>>
      BY <1>18 DEF vars, runVars
    <2> QED  BY <1>2, <2>1, FiberInvStutter
  <1> QED
    BY <1>1, <1>3, <1>4, <1>5, <1>6, <1>7, <1>8, <1>9, <1>10, <1>12, <1>13, <1>14, <1>16, <1>17,
       <1>18 DEF Next

\* The invariant holds throughout.
LEMMA FiberInvariant == Spec => []FiberInvs
  <1>1. Init => FiberInvs
    BY FibersInit
  <1>2. FiberInvs /\ [Next]_vars => FiberInvs'
    BY FibersNext, IInvNext DEF FiberInvs
  <1> QED  BY <1>1, <1>2, PTL DEF Spec

\* No future is resolved twice: Future#set and Future#fail are called on an open
\* one.  No fiber is resumed after its end, or while it waits for anything but
\* the future that wakes it: the handlers of Context#wait_for stay registered
\* (context.rb:210), but each resumes its fiber at most once.  In any run of any
\* program, whatever the service reports and in whatever order.
THEOREM WorkflowSettlesOnce == Spec => []SettledOnce
  <1>1. ASSUME FiberInvs PROVE SettledOnce
    <2>1. NoneRaised /\ DueOnce /\ WakesOnce
      BY <1>1 DEF FiberInvs, FiberInv
    <2>2. ResolvesOpen
      BY <2>1 DEF ResolvesOpen, DueOnce, Resolves
    <2>3. WakesWaiting
      BY <2>1 DEF WakesWaiting, WakesOnce, Wakes, Armed
    <2> QED  BY <2>1, <2>2, <2>3 DEF SettledOnce
  <1> QED  BY <1>1, FiberInvariant, PTL

-----------------------------------------------------------------------------
(* No fiber is stranded.                                                     *)

\* A future's resolvers are registered before anybody waits for it.
SetBefore ==
    \A p, q \in 1..Len(handlers) :
        /\ Resolves(handlers[p].act) /\ Wakes(handlers[q].act)
        /\ handlers[p].act.future = handlers[q].act.future
        => p < q

\* Whoever waits hears every dispatch.
WakesAny == \A p \in 1..Len(handlers) : Wakes(handlers[p].act) => handlers[p].name = WILDCARD

\* A run decides when no handler is due.
DecidedIdle == phase = "decided" => agenda = <<>>

\* A handler that resolves a future is called first, and no code runs before it.
DueFirst == \A k \in 1..Len(agenda) : Resolves(agenda[k]) => k = 1 /\ phase # "fiber"

\* With it, everybody who waits for the future is due.
SetWakes ==
    \A k \in 1..Len(agenda) : \A p \in 1..Len(handlers) :
        /\ Resolves(agenda[k]) /\ Wakes(handlers[p].act)
        /\ handlers[p].act.future = agenda[k].future
        => \E l \in 1..Len(agenda) : agenda[l] = handlers[p].act

\* The fiber i will be woken: its future is open, or its wake-up is due.
WillWake(i) ==
    \/ \E p \in 1..Len(handlers) : Armed(p) /\ handlers[p].act.fiber = i
    \/ \E k \in 1..Len(agenda) : /\ Wakes(agenda[k]) /\ agenda[k].fiber = i
                                 /\ futures[agenda[k].future].state # "pending"

\* So will every fiber that is neither running nor over.
Covered == \A i \in 1..Len(fibers) : fibers[i].stack # <<>> /\ i # current => WillWake(i)

\* The invariant of the fibers that wait.  Two futures with one target would be
\* resolved by one event, and code could wait for the second in between.
StrandInv ==
    /\ SetBefore /\ WakesAny /\ DecidedIdle
    /\ TargetsDistinct /\ phase # "failed" => DueFirst /\ SetWakes /\ Covered

\* A run never takes a target from a future.
KeepsTargets ==
    /\ Len(futures) <= Len(futures')
    /\ \A f \in 1..Len(futures) : futures'[f].target = futures[f].target

\* So targets that are distinct have been so all along.
LEMMA DistinctBefore ==
    ASSUME RunInv, KeepsTargets, Len(futures') \in Nat, TargetsDistinct'
    PROVE  TargetsDistinct
  <1>1. Len(futures) \in Nat
    BY Referents
  <1> SUFFICES ASSUME NEW f \in 1..Len(futures), NEW g \in 1..Len(futures),
                      futures[f].target = futures[g].target
               PROVE  f = g
    BY DEF TargetsDistinct
  <1>2. f \in 1..Len(futures') /\ g \in 1..Len(futures')
    BY <1>1 DEF KeepsTargets
  <1>3. futures'[f].target = futures'[g].target
    BY DEF KeepsTargets
  <1> QED  BY <1>2, <1>3 DEF TargetsDistinct

\* Code that runs on, or ends, leaves nobody behind.
LEMMA GrownStrands ==
    ASSUME RunInv, FiberInv, StrandInv, Grown, phase = "fiber", phase' # "decided",
           UNCHANGED agenda, Len(fibers') = Len(fibers),
           \A i \in 1..Len(fibers) : i # current => fibers'[i] = fibers[i],
           \/ phase' = "failed"
           \/ current' = current
           \/ fibers'[current].stack = <<>>
    PROVE  StrandInv'
  <1>1. /\ Len(futures) \in Nat /\ Len(handlers) \in Nat /\ Len(fibers) \in Nat
        /\ \A p \in 1..Len(handlers) :
             Wakes(handlers[p].act) => handlers[p].act.future \in 1..Len(futures)
        /\ \A k \in 1..Len(agenda) :
             Wakes(agenda[k]) => agenda[k].future \in 1..Len(futures)
    BY Referents
  <1>2. \A p \in 1..Len(handlers') : Wakes(handlers'[p].act) =>
          p \in 1..Len(handlers) /\ handlers'[p] = handlers[p]
    BY DEF Grown
  <1>3. SetBefore'
    <2> SUFFICES ASSUME NEW p \in 1..Len(handlers'), NEW q \in 1..Len(handlers'),
                        Resolves(handlers'[p].act), Wakes(handlers'[q].act),
                        handlers'[p].act.future = handlers'[q].act.future
                 PROVE  p < q
      BY DEF SetBefore, Resolves, Wakes
    <2>1. q \in 1..Len(handlers) /\ handlers'[q] = handlers[q]
      BY <1>2
    <2>2. handlers'[p].act.future \in 1..Len(futures)
      BY <1>1, <2>1
    <2>3. p \in 1..Len(handlers) /\ handlers'[p] = handlers[p]
      BY <2>2 DEF Grown
    <2> QED  BY <2>1, <2>3 DEF StrandInv, SetBefore
  <1>4. WakesAny'
    <2> SUFFICES ASSUME NEW p \in 1..Len(handlers'), Wakes(handlers'[p].act)
                 PROVE  handlers'[p].name = WILDCARD
      BY DEF WakesAny, Wakes
    <2> QED  BY <1>2 DEF StrandInv, WakesAny
  <1>5. DecidedIdle'
    BY DEF DecidedIdle
  <1>6. ASSUME TargetsDistinct', phase' # "failed"
        PROVE  DueFirst' /\ SetWakes' /\ Covered'
    <2>1. TargetsDistinct
      BY <1>6, DistinctBefore DEF Grown, KeepsTargets
    <2>2. DueFirst /\ SetWakes /\ Covered
      BY <2>1 DEF StrandInv
    <2>3. \A k \in 1..Len(agenda) : ~Resolves(agenda[k])
      BY <2>2 DEF DueFirst
    <2>4. DueFirst' /\ SetWakes'
      BY <2>3 DEF DueFirst, SetWakes, Resolves
    <2>5. Covered'
      <3> SUFFICES ASSUME NEW i \in 1..Len(fibers), fibers'[i].stack # <<>>, i # current'
                   PROVE  WillWake(i)'
        BY DEF Covered
      <3>1. i # current
        BY <1>6
      <3>2. WillWake(i)
        BY <2>2, <3>1 DEF Covered
      <3>3. CASE \E p \in 1..Len(handlers) : Armed(p) /\ handlers[p].act.fiber = i
        <4>1. PICK p \in 1..Len(handlers) : Armed(p) /\ handlers[p].act.fiber = i
          BY <3>3
        <4>2. p \in 1..Len(handlers') /\ handlers'[p] = handlers[p]
          BY <1>1 DEF Grown
        <4>3. Armed(p)'
          BY <1>1, <4>1, <4>2 DEF Armed, Grown, Wakes
        <4> QED  BY <4>1, <4>2, <4>3 DEF WillWake
      <3>4. CASE \E k \in 1..Len(agenda) : /\ Wakes(agenda[k]) /\ agenda[k].fiber = i
                                           /\ futures[agenda[k].future].state # "pending"
        <4>1. PICK k \in 1..Len(agenda) : /\ Wakes(agenda[k]) /\ agenda[k].fiber = i
                                          /\ futures[agenda[k].future].state # "pending"
          BY <3>4
        <4>2. futures'[agenda[k].future].state # "pending"
          BY <1>1, <4>1 DEF Grown
        <4> QED  BY <4>1, <4>2 DEF WillWake, Wakes
      <3> QED  BY <3>2, <3>3, <3>4 DEF WillWake
    <2> QED  BY <2>4, <2>5
  <1> QED  BY <1>3, <1>4, <1>5, <1>6 DEF StrandInv

\* A fiber that goes to sleep has a handler of its own to wake it.
LEMMA ParkStrands ==
    ASSUME RunInv, FiberInv, StrandInv, phase = "fiber", Parks, UNCHANGED agenda
    PROVE  StrandInv'
  <1> DEFINE m == Len(handlers)
  <1>1. /\ IsSeq(handlers) /\ m \in Nat /\ Len(futures) \in Nat
        /\ current \in 1..Len(fibers) /\ current # 0
    BY Referents, Running
  <1>2. PICK stack : IsStack(stack) /\ Restacked(stack)
    BY DEF Parks
  <1>3. /\ Len(fibers') = Len(fibers)
        /\ \A i \in 1..Len(fibers) : i # current => fibers'[i] = fibers[i]
    BY <1>2, RestackKeeps
  <1>4. PICK f \in 1..Len(futures) :
          /\ futures[f].state = "pending"
          /\ handlers' = Append(handlers, Handler(futures[f].target, WILDCARD,
                                                  Act("resume", f, current, "")))
    BY DEF Parks
  <1>5. phase' = "apply" /\ current' = 0 /\ futures' = futures
    BY DEF Parks
  <1> DEFINE h == Handler(futures[f].target, WILDCARD, Act("resume", f, current, ""))
  <1>6. /\ Wakes(h.act) /\ ~Resolves(h.act) /\ h.act.future = f /\ h.act.fiber = current
        /\ h.name = WILDCARD
    BY DEF Handler, Act, Wakes, Resolves
  <1> HIDE DEF h
  <1>7. /\ Len(handlers') = m + 1
        /\ \A i \in 1..m : handlers'[i] = handlers[i]
        /\ handlers'[m + 1] = h
    <2>1. handlers' = Append(handlers, h)
      BY <1>4 DEF h
    <2> QED  BY <1>1, <2>1, SeqAppend
  <1> HIDE DEF m
  <1>8. \A p \in 1..Len(handlers') : p \in 1..m \/ p = m + 1
    BY <1>1, <1>7
  <1>9. SetBefore'
    <2> SUFFICES ASSUME NEW p \in 1..Len(handlers'), NEW q \in 1..Len(handlers'),
                        Resolves(handlers'[p].act), Wakes(handlers'[q].act),
                        handlers'[p].act.future = handlers'[q].act.future
                 PROVE  p < q
      BY DEF SetBefore, Resolves, Wakes
    <2>1. p \in 1..m /\ handlers'[p] = handlers[p]
      BY <1>6, <1>7, <1>8
    <2>2. CASE q = m + 1
      BY <1>1, <2>1, <2>2
    <2>3. CASE q \in 1..m
      BY <1>7, <2>1, <2>3 DEF StrandInv, SetBefore, m
    <2> QED  BY <1>8, <2>2, <2>3
  <1>10. WakesAny'
    <2> SUFFICES ASSUME NEW p \in 1..Len(handlers'), Wakes(handlers'[p].act)
                 PROVE  handlers'[p].name = WILDCARD
      BY DEF WakesAny, Wakes
    <2>1. CASE p \in 1..m
      BY <1>7, <2>1 DEF StrandInv, WakesAny, m
    <2> QED  BY <1>6, <1>7, <1>8, <2>1
  <1>11. DecidedIdle'
    BY <1>5 DEF DecidedIdle
  <1>12. ASSUME TargetsDistinct'
         PROVE  DueFirst' /\ SetWakes' /\ Covered'
    <2>1. TargetsDistinct
      BY <1>5, <1>12 DEF TargetsDistinct
    <2>2. DueFirst /\ SetWakes /\ Covered
      BY <2>1 DEF StrandInv
    <2>3. \A k \in 1..Len(agenda) : ~Resolves(agenda[k])
      BY <2>2 DEF DueFirst
    <2>4. DueFirst' /\ SetWakes'
      BY <2>3 DEF DueFirst, SetWakes, Resolves
    <2>5. Covered'
      <3> SUFFICES ASSUME NEW i \in 1..Len(fibers), fibers'[i].stack # <<>>
                   PROVE  WillWake(i)'
        BY <1>3 DEF Covered
      <3>1. CASE i = current
        <4>1. PICK p \in 1..Len(handlers') : p = m + 1
          BY <1>1, <1>7
        <4>2. Armed(p)' /\ handlers'[p].act.fiber = i
          BY <1>4, <1>5, <1>6, <1>7, <3>1, <4>1 DEF Armed, Wakes
        <4> QED  BY <4>2 DEF WillWake
      <3>2. CASE i # current
        <4>1. WillWake(i)
          BY <1>3, <2>2, <3>2 DEF Covered
        <4>2. CASE \E p \in 1..Len(handlers) : Armed(p) /\ handlers[p].act.fiber = i
          <5>1. PICK p \in 1..Len(handlers) : Armed(p) /\ handlers[p].act.fiber = i
            BY <4>2
          <5>2. p \in 1..Len(handlers') /\ handlers'[p] = handlers[p]
            BY <1>1, <1>7 DEF m
          <5>3. Armed(p)'
            BY <1>5, <5>1, <5>2 DEF Armed, Wakes
          <5> QED  BY <5>1, <5>2, <5>3 DEF WillWake
        <4>3. CASE \E k \in 1..Len(agenda) : /\ Wakes(agenda[k]) /\ agenda[k].fiber = i
                                             /\ futures[agenda[k].future].state # "pending"
          BY <1>5, <4>3 DEF WillWake, Wakes
        <4> QED  BY <4>1, <4>2, <4>3 DEF WillWake
      <3> QED  BY <3>1, <3>2
    <2> QED  BY <2>4, <2>5
  <1> QED  BY <1>9, <1>10, <1>11, <1>12 DEF StrandInv

\* Whatever code does.
LEMMA CodeStrands ==
    ASSUME RunInv, FiberInv, StrandInv, CodeMoves
    PROVE  StrandInv'
  <1>1. phase = "fiber" /\ UNCHANGED agenda
    BY DEF CodeMoves
  <1>2. CASE Continues
    <2>1. /\ Len(fibers') = Len(fibers)
          /\ \A i \in 1..Len(fibers) : i # current => fibers'[i] = fibers[i]
      BY <1>1, <1>2, RestackKeeps DEF Continues
    <2>2. Grown
      BY <1>2, ObjectsGrow DEF Continues
    <2>3. current' = current /\ phase' = phase
      BY <1>2 DEF Continues
    <2> QED  BY <1>1, <2>1, <2>2, <2>3, GrownStrands
  <1>3. CASE Parks
    BY <1>1, <1>3, ParkStrands
  <1>4. CASE Ends
    <2>1. /\ Len(fibers') = Len(fibers) /\ fibers'[current].stack = <<>>
          /\ \A i \in 1..Len(fibers) : i # current => fibers'[i] = fibers[i]
      BY <1>1, <1>4, RestackKeeps DEF Ends
    <2>2. Grown
      BY <1>4, SameGrows DEF Ends, KeepsObjects
    <2>3. phase' = "apply"
      BY <1>4 DEF Ends
    <2> QED  BY <1>1, <2>1, <2>2, <2>3, GrownStrands
  <1>5. CASE Aborts
    <2>1. Grown
      BY <1>5, SameGrows DEF Aborts, KeepsObjects
    <2>2. phase' = "failed" /\ fibers' = fibers
      BY <1>5 DEF Aborts
    <2> QED  BY <1>1, <2>1, <2>2, GrownStrands
  <1> QED  BY <1>2, <1>3, <1>4, <1>5 DEF CodeMoves

-----------------------------------------------------------------------------
(* No fiber is stranded: the root.                                           *)

\* Windows and the end of the run touch no fiber.
LEMMA RestStrands ==
    ASSUME RunInv, StrandInv, NextWindow \/ FinishRun
    PROVE  StrandInv'
  <1>1. /\ UNCHANGED <<handlers, agenda, futures, fibers, current>>
        /\ agenda = <<>> /\ phase = "apply" /\ phase' \in {"apply", "decided"}
    BY DEF NextWindow, FinishRun, AtRoot
  <1>2. SetBefore' /\ WakesAny' /\ DecidedIdle' /\ (TargetsDistinct' => TargetsDistinct)
    BY <1>1 DEF StrandInv, SetBefore, WakesAny, DecidedIdle, TargetsDistinct, Resolves, Wakes
  <1>3. Covered => Covered'
    BY <1>1 DEF Covered, WillWake, Armed, Wakes
  <1>4. Len(agenda') = 0
    BY <1>1, SeqShort
  <1>5. DueFirst' /\ SetWakes'
    BY <1>4 DEF DueFirst, SetWakes
  <1> QED  BY <1>1, <1>2, <1>3, <1>5 DEF StrandInv

\* The handlers an event calls that resolve or wake all belong to its future.
LEMMA CalledShare ==
    ASSUME RunInv, FiberInv, TargetsDistinct, NEW i \in 1..Len(snapshot), Left(i),
           NEW p \in Called(snapshot[i]), NEW q \in Called(snapshot[i]),
           Resolves(handlers[p].act),
           Resolves(handlers[q].act) \/ Wakes(handlers[q].act)
    PROVE  handlers[p].act.future = handlers[q].act.future
  <1>1. /\ handlers[p].act.future \in 1..Len(futures)
        /\ Settles(i, handlers[p].act.future)
    BY CalledSettles
  <1>2. /\ handlers[q].act.future \in 1..Len(futures)
        /\ Settles(i, handlers[q].act.future)
    BY CalledSettles
  <1> QED  BY <1>1, <1>2 DEF Settles, TargetsDistinct

\* An event for a future has its handlers called, the one that resolves the
\* future first and whoever waits for it behind.
LEMMA ApplyEventStrands ==
    ASSUME RunInv, FiberInv, StrandInv, ApplyEvent
    PROVE  StrandInv'
  <1> DEFINE e == Head(todo)
  <1>1. CASE ApplyError(sm, e) # "none"
    <2>1. Abort(ApplyError(sm, e))
      BY <1>1 DEF ApplyEvent
    <2>2. phase' = "failed" /\ UNCHANGED <<handlers, agenda, futures, fibers>>
      BY <2>1 DEF Abort
    <2>3. SetBefore' /\ WakesAny' /\ DecidedIdle'
      BY <2>2 DEF StrandInv, SetBefore, WakesAny, DecidedIdle, Resolves, Wakes
    <2> QED  BY <2>2, <2>3 DEF StrandInv
  <1>2. CASE ApplyError(sm, e) = "none"
    <2>1. /\ todo # <<>> /\ agenda = <<>> /\ phase = "apply"
          /\ agenda' = CalledActs(e)
          /\ UNCHANGED <<phase, handlers, futures, fibers, current>>
      BY <1>2 DEF ApplyEvent, CalledActs, AtRoot
    <2>2. SetBefore' /\ WakesAny' /\ DecidedIdle' /\ (TargetsDistinct' => TargetsDistinct)
      BY <2>1 DEF StrandInv, SetBefore, WakesAny, DecidedIdle, TargetsDistinct, Resolves, Wakes
    <2>3. PICK i \in 1..Len(snapshot) : Left(i) /\ e = snapshot[i]
      <3>1. /\ IsSeq(todo) /\ cursor \in 0..Len(snapshot) /\ Len(snapshot) \in Nat
            /\ \A k \in 1..Len(todo) : todo[k].id \in 1..cursor /\ todo[k] = snapshot[todo[k].id]
        BY SeqFacts DEF RunInv, RunType, Events
      <3>2. 1 \in 1..Len(todo) /\ e = todo[1]
        BY <2>1, <3>1, SeqTail
      <3> HIDE DEF e
      <3>3. e.id \in 1..Len(snapshot) /\ e = snapshot[e.id] /\ todo[1].id = e.id
        BY <3>1, <3>2
      <3>4. Left(e.id)
        BY <3>2, <3>3 DEF Left
      <3> QED  BY <3>3, <3>4
    <2> HIDE DEF e
    <2> DEFINE n == Cardinality(Called(e))
               Place(k) == Nth(Called(e), k)
    <2>4. IsSeq(handlers) /\ Len(handlers) \in Nat /\ Called(e) \subseteq 1..Len(handlers)
      BY Referents DEF Called
    <2>5. /\ Len(agenda') = n
          /\ \A k \in 1..n : Place(k) \in Called(e) /\ agenda'[k] = handlers[Place(k)].act
          /\ \A k, l \in 1..n : k < l => Place(k) < Place(l)
          /\ \A q \in Called(e) : \E k \in 1..n : Place(k) = q
      BY <2>1, <2>4, DispatchCalls, Zenon
    <2>5a. n \in Nat
      <3>1. IsSeq(CalledActs(e)) /\ Len(CalledActs(e)) = n
        BY <2>4, DispatchCalls, Zenon
      <3> HIDE DEF n
      <3> QED  BY <3>1, SeqFacts
    <2> HIDE DEF n, Place
    <2>6. ASSUME TargetsDistinct PROVE DueFirst' /\ SetWakes' /\ Covered'
      <3>1. Covered
        BY <2>1, <2>6 DEF StrandInv
      <3>2. DueFirst'
        <4> SUFFICES ASSUME NEW k \in 1..n, Resolves(agenda'[k])
                     PROVE  k = 1
          BY <2>1, <2>5 DEF DueFirst, Resolves
        <4>1. Place(k) \in Called(e) /\ Resolves(handlers[Place(k)].act)
          BY <2>5
        <4>2. ASSUME k # 1 PROVE FALSE
          <5>1. 1 \in 1..n /\ 1 < k
            BY <2>5a, <4>2
          <5>2. Place(1) \in Called(e) /\ Place(1) < Place(k)
            BY <2>5, <5>1
          <5> DEFINE p == Place(1)
                     q == Place(k)
          <5> HIDE DEF p, q
          <5>3. p \in Called(snapshot[i]) /\ q \in Called(snapshot[i]) /\ p < q /\ Resolves(handlers[q].act)
            BY <2>3, <4>1, <5>2 DEF p, q
          <5>4. p \in 1..Len(handlers) /\ q \in 1..Len(handlers)
            BY <2>3, <2>4, <5>3
          <5>5. snapshot[i].type \in DOMAIN DispatchedAs
                /\ handlers[p].target = from_event(snapshot[i])
                /\ handlers[q].target = from_event(snapshot[i])
                /\ Answers(handlers[p], DispatchedAs[snapshot[i].type])
                /\ Answers(handlers[q], DispatchedAs[snapshot[i].type])
            BY <5>3 DEF Called
          <5>6. CASE Wakes(handlers[p].act)
            <6>1. handlers[q].act.future = handlers[p].act.future
              BY <2>3, <2>6, <5>3, <5>6, CalledShare
            <6>2. q < p
              BY <5>3, <5>4, <5>6, <6>1 DEF StrandInv, SetBefore
            <6> QED  BY <5>3, <5>4, <6>2
          <5>7. CASE Resolves(handlers[p].act)
            <6>1. handlers[q].act.future = handlers[p].act.future
              BY <2>3, <2>6, <5>3, <5>7, CalledShare
            <6>2. agenda'[1] = handlers[p].act /\ agenda'[k] = handlers[q].act
              BY <2>5, <5>1 DEF p, q
            <6>3. FiberInv'
              BY ApplyEventKeepsFibers
            <6>4. ASSUME NEW l1 \in 1..Len(agenda'), NEW l2 \in 1..Len(agenda'),
                         Resolves(agenda'[l1]), Resolves(agenda'[l2]),
                         agenda'[l1].future = agenda'[l2].future
                  PROVE  l1 = l2
              BY <6>3, <6>4 DEF FiberInv, DueOnce, Resolves
            <6>5. 1 = k
              BY <2>5, <5>1, <5>7, <6>1, <6>2, <6>4
            <6> QED  BY <4>2, <6>5
          <5>8. CASE ~Wakes(handlers[p].act) /\ ~Resolves(handlers[p].act)
            <6>1. /\ HandlerFits(handlers[p], futures) /\ HandlerFits(handlers[q], futures)
                  /\ handlers[q].act.future \in 1..Len(futures)
              BY <5>3, <5>4, Referents DEF FiberInv, HandlersFit
            <6>2. handlers[p].target = WorkflowTarget
              BY <5>8, <6>1 DEF HandlerFits, Wakes, Resolves
            <6>3. handlers[q].target.type \in {"activity", "timer", "child_workflow"}
              BY <5>3, <6>1 DEF HandlerFits, Resolves, RunInv, FuturesOK, IsFuture
            <6>4. WorkflowTarget.type = "workflow"
              BY DEF WorkflowTarget, Target
            <6> QED  BY <5>5, <6>2, <6>3, <6>4
          <5> QED  BY <5>6, <5>7, <5>8
        <4> QED  BY <4>2
      <3>3. SetWakes'
        <4> SUFFICES ASSUME NEW k \in 1..n, NEW p \in 1..Len(handlers),
                            Resolves(agenda'[k]), Wakes(handlers[p].act),
                            handlers[p].act.future = agenda'[k].future
                     PROVE  \E l \in 1..n : agenda'[l] = handlers[p].act
          BY <2>1, <2>5 DEF SetWakes, Resolves, Wakes
        <4>1. Place(k) \in Called(e) /\ agenda'[k] = handlers[Place(k)].act
          BY <2>5
        <4>2. PICK q \in 1..Len(handlers) : q = Place(k)
          BY <2>4, <4>1
        <4>3. q \in Called(e) /\ Resolves(handlers[q].act) /\ handlers[p].act.future = handlers[q].act.future
          BY <4>1, <4>2
        <4>4. handlers[p].target = handlers[q].target
          BY <4>3 DEF FiberInv, HandlersFit, HandlerFits, Resolves, Wakes
        <4>5. handlers[p].name = WILDCARD
          BY DEF StrandInv, WakesAny
        <4>6. p \in Called(e)
          BY <4>3, <4>4, <4>5 DEF Called, Answers
        <4> QED  BY <2>5, <4>6
      <3>4. Covered'
        <4> SUFFICES ASSUME NEW j \in 1..Len(fibers), fibers[j].stack # <<>>, j # current
                     PROVE  WillWake(j)'
          BY <2>1 DEF Covered
        <4>1. WillWake(j)
          BY <3>1 DEF Covered
        <4>2. Len(agenda) = 0
          BY <2>1, SeqShort
        <4>3. \E p \in 1..Len(handlers) : Armed(p) /\ handlers[p].act.fiber = j
          BY <4>1, <4>2 DEF WillWake
        <4> QED  BY <2>1, <4>3 DEF WillWake, Armed, Wakes
      <3> QED  BY <3>2, <3>3, <3>4
    <2> QED  BY <2>1, <2>2, <2>6 DEF StrandInv
  <1> QED  BY <1>1, <1>2


\* What is behind the head of the agenda stays on it, d places further on.
RestDue(d) ==
    \A l \in 2..Len(agenda) : l - d \in 1..Len(agenda') /\ agenda'[l - d] = agenda[l]

\* The state a handler leaves the future f in.
Resolved(f) ==
    IF Resolves(agenda[1]) /\ f = agenda[1].future
      THEN IF agenda[1].kind = "set" THEN "ready" ELSE "failed"
      ELSE futures[f].state

\* All that a call of one handler can do to the run: it resolves a future, wakes
\* a fiber whose future is resolved, or starts a new fiber.
HandlerMoves ==
    /\ phase = "apply" /\ agenda # <<>> /\ phase' \in {"apply", "fiber"}
    /\ UNCHANGED <<error, snapshot, cursor, todo, sm, handlers>>
    /\ \E d \in Int : Kept(d) /\ RestDue(d)
    /\ Len(futures') = Len(futures)
    /\ \A f \in 1..Len(futures) : /\ futures'[f].target = futures[f].target
                                  /\ futures'[f].state = Resolved(f)
    /\ \A i \in 1..Len(fibers) : fibers'[i] = fibers[i]
    /\ \A i \in 1..Len(fibers') : i \notin 1..Len(fibers) => i = current'
    /\ Wakes(agenda[1]) /\ futures[agenda[1].future].state # "pending" =>
         current' = agenda[1].fiber
    /\ \A f \in 1..Len(futures) : Resolves(agenda[1]) /\ f = agenda[1].future =>
         futures[f].state = "pending"
    /\ seen' = seen \/ \E x : x[1] \notin CommandTypes /\ seen' = Append(seen, x)

\* The agenda without its head.
LEMMA TailDue ==
    ASSUME RunInv, agenda # <<>>, agenda' = Tail(agenda)
    PROVE  Kept(1) /\ RestDue(1)
  <1>1. IsSeq(agenda)
    BY Referents
  <1>2. /\ Len(agenda) \in Nat /\ Len(agenda') = Len(agenda) - 1
        /\ \A i \in 1..Len(agenda) - 1 : agenda'[i] = agenda[i + 1]
    BY <1>1, SeqTail
  <1>3. RestDue(1)
    <2> SUFFICES ASSUME NEW l \in 2..Len(agenda)
                 PROVE  l - 1 \in 1..Len(agenda') /\ agenda'[l - 1] = agenda[l]
      BY DEF RestDue
    <2>1. l - 1 \in 1..Len(agenda) - 1 /\ (l - 1) + 1 = l
      BY <1>2
    <2> QED  BY <1>2, <2>1
  <1> QED  BY <1>3, KeptTail

\* Callbacks are called before what was due.
LEMMA CallsDue ==
    ASSUME RunInv, agenda # <<>>, NEW calls, IsSeq(calls),
           \A k \in 1..Len(calls) : calls[k].kind = "call", agenda' = calls \o Tail(agenda)
    PROVE  \E d \in Int : Kept(d) /\ RestDue(d)
  <1> DEFINE c == Len(calls)
             t == Tail(agenda)
  <1>1. /\ IsSeq(agenda) /\ c \in Nat
    BY Referents, SeqFacts
  <1>2. /\ Len(agenda) \in Nat /\ IsSeq(t) /\ Len(t) = Len(agenda) - 1
        /\ \A i \in 1..Len(agenda) - 1 : t[i] = agenda[i + 1]
    BY <1>1, SeqTail
  <1> HIDE DEF t
  <1>3. /\ Len(agenda') = c + Len(t)
        /\ \A i \in 1..c : agenda'[i] = calls[i]
        /\ \A i \in 1..Len(t) : agenda'[c + i] = t[i]
    <2>1. agenda' = calls \o t
      BY DEF t
    <2> QED  BY <1>2, <2>1, SeqConcat
  <1> HIDE DEF c
  <1> DEFINE d == 1 - c
  <1>4. d \in Int
    BY <1>1
  <1>5. Kept(d)
    <2> SUFFICES ASSUME NEW k \in 1..Len(agenda'), Resolves(agenda'[k]) \/ Wakes(agenda'[k])
                 PROVE  k + d \in 2..Len(agenda) /\ agenda'[k] = agenda[k + d]
      BY DEF Kept, Resolves, Wakes
    <2>1. k \notin 1..c
      BY <1>3 DEF Resolves, Wakes, c
    <2>2. k - c \in 1..Len(t) /\ c + (k - c) = k /\ (k - c) + 1 = k + d
      BY <1>1, <1>2, <1>3, <2>1
    <2> QED  BY <1>1, <1>2, <1>3, <2>2
  <1>6. RestDue(d)
    <2> SUFFICES ASSUME NEW l \in 2..Len(agenda)
                 PROVE  l - d \in 1..Len(agenda') /\ agenda'[l - d] = agenda[l]
      BY DEF RestDue
    <2>1. l - 1 \in 1..Len(t) /\ c + (l - 1) = l - d /\ (l - 1) + 1 = l /\ l - d \in 1..c + Len(t)
      BY <1>1, <1>2
    <2> QED  BY <1>2, <1>3, <2>1
  <1> QED  BY <1>4, <1>5, <1>6

\* A new fiber for a block of code.
LEMMA LaunchMoves ==
    ASSUME RunInv, phase = "apply", agenda # <<>>, NEW fiber, Launch(fiber),
           agenda' = Tail(agenda), ~Resolves(agenda[1]), ~Wakes(agenda[1]),
           UNCHANGED <<error, snapshot, cursor, todo, sm, handlers, futures>>,
           seen' = seen \/ \E x : x[1] \notin CommandTypes /\ seen' = Append(seen, x)
    PROVE  HandlerMoves
  <1>1. IsSeq(fibers) /\ Len(fibers) \in Nat
    BY Referents
  <1>2. /\ Len(fibers') = Len(fibers) + 1
        /\ \A i \in 1..Len(fibers) : fibers'[i] = fibers[i]
        /\ current' = Len(fibers) + 1 /\ phase' = "fiber"
    BY <1>1, SeqAppend DEF Launch
  <1>3. \A i \in 1..Len(fibers') : i \notin 1..Len(fibers) => i = current'
    BY <1>1, <1>2
  <1>4. Kept(1) /\ RestDue(1) /\ 1 \in Int
    BY TailDue
  <1> QED  BY <1>2, <1>3, <1>4 DEF HandlerMoves, Resolved

\* A future that is resolved.
LEMMA ResolveMoves ==
    ASSUME RunInv, phase = "apply", agenda # <<>>, Resolves(agenda[1]),
           agenda[1].future \in 1..Len(futures),
           futures[agenda[1].future].state = "pending",
           futures' = [futures EXCEPT ![agenda[1].future].state =
                         IF agenda[1].kind = "set" THEN "ready" ELSE "failed"],
           \E d \in Int : Kept(d) /\ RestDue(d),
           UNCHANGED <<phase, error, snapshot, cursor, todo, sm, handlers, fibers, current, seen>>
    PROVE  HandlerMoves
  <1> DEFINE f == agenda[1].future
             state == IF agenda[1].kind = "set" THEN "ready" ELSE "failed"
  <1>1. IsSeq(futures) /\ DOMAIN futures = 1..Len(futures)
    BY SeqFacts DEF RunInv, FuturesOK
  <1> HIDE DEF f, state
  <1>2. futures' = [futures EXCEPT ![f].state = state] /\ f \in 1..Len(futures)
    BY DEF f, state
  <1>3. DOMAIN futures' = DOMAIN futures /\ futures' = [g \in DOMAIN futures' |-> futures'[g]]
    BY <1>2
  <1>4. Len(futures') = Len(futures)
    BY <1>1, <1>3, SeqExcept
  <1>5. \A g \in 1..Len(futures) : DOMAIN futures[g] = FutureFields
    BY DEF RunInv, FuturesOK, IsFuture
  <1>6. \A g \in 1..Len(futures) :
          /\ futures'[g].target = futures[g].target
          /\ futures'[g].state = IF g = f THEN state ELSE futures[g].state
    BY <1>1, <1>2, <1>5 DEF FutureFields
  <1>7. \A g \in 1..Len(futures) : /\ futures'[g].target = futures[g].target
                                   /\ futures'[g].state = Resolved(g)
    BY <1>6 DEF Resolved, f, state
  <1>8. ~Wakes(agenda[1])
    BY DEF Wakes, Resolves
  <1> QED  BY <1>4, <1>7, <1>8 DEF HandlerMoves

\* Every call of a handler is one of these.
LEMMA RunHandlerMoves ==
    ASSUME RunInv, FiberInv, RunHandler
    PROVE  HandlerMoves
  <1> DEFINE act == agenda[1]
  <1>1. phase = "apply" /\ agenda # <<>>
    BY DEF RunHandler
  <1>2. /\ Head(agenda) = act /\ 1 \in 1..Len(agenda) /\ IsSeq(Tail(agenda))
    BY <1>1, AgendaShrinks
  <1>3. CASE RunStart
    <2>1. /\ Launch(NewFiber("main", TRUE)) /\ agenda' = Tail(agenda)
          /\ ~Resolves(act) /\ ~Wakes(act)
          /\ UNCHANGED <<error, snapshot, cursor, todo, sm, handlers, futures, seen>>
      BY <1>2, <1>3 DEF RunStart, Resolves, Wakes
    <2> QED  BY <1>1, <2>1, LaunchMoves
  <1>4. CASE RunCall
    <2>1. /\ Launch(NewFiber(act.block, FALSE)) /\ agenda' = Tail(agenda)
          /\ ~Resolves(act) /\ ~Wakes(act)
          /\ seen' = Append(seen, <<"called", act.block>>)
          /\ UNCHANGED <<error, snapshot, cursor, todo, sm, handlers, futures>>
      BY <1>2, <1>4 DEF RunCall, Resolves, Wakes
    <2>2. \E x : x[1] \notin CommandTypes /\ seen' = Append(seen, x)
      <3>1. <<"called", act.block>>[1] = "called" /\ "called" \notin CommandTypes
        BY DEF CommandTypes
      <3> QED  BY <2>1, <3>1
    <2> QED  BY <1>1, <2>1, <2>2, LaunchMoves
  <1>5. CASE RunSet
    <2> DEFINE f == act.future
               blocks == futures[f].callbacks
               calls == [i \in 1..Len(blocks) |-> Act("call", 0, 0, blocks[i])]
    <2>1. Resolves(act) /\ act.kind = "set" /\ f \in 1..Len(futures)
      BY <1>2, <1>5, Referents DEF RunSet, Resolves
    <2>2. futures[f].state = "pending"
      BY <1>2, <2>1 DEF FiberInv, DueOnce
    <2>3. /\ futures' = [futures EXCEPT ![f].state = "ready"]
          /\ agenda' = calls \o Tail(agenda)
          /\ UNCHANGED <<phase, error, snapshot, cursor, todo, sm, handlers, fibers, current, seen>>
      BY <1>2, <1>5, <2>2 DEF RunSet
    <2>4. IsSeq(blocks) /\ Len(blocks) \in Nat
      BY <2>1, SeqFacts DEF RunInv, FuturesOK, IsFuture
    <2>5. IsSeq(calls) /\ Len(calls) = Len(blocks)
      BY <2>4, SeqByFun
    <2>6. \A k \in 1..Len(calls) : calls[k].kind = "call"
      BY <2>5 DEF Act
    <2> HIDE DEF calls
    <2>7. \E d \in Int : Kept(d) /\ RestDue(d)
      BY <1>1, <2>3, <2>5, <2>6, CallsDue
    <2> QED  BY <1>1, <2>1, <2>2, <2>3, <2>7, ResolveMoves
  <1>6. CASE RunFail
    <2> DEFINE f == act.future
    <2>1. Resolves(act) /\ act.kind = "fail" /\ f \in 1..Len(futures)
      BY <1>2, <1>6, Referents DEF RunFail, Resolves
    <2>2. futures[f].state = "pending"
      BY <1>2, <2>1 DEF FiberInv, DueOnce
    <2>3. /\ futures' = [futures EXCEPT ![f].state = "failed"]
          /\ agenda' = Tail(agenda)
          /\ UNCHANGED <<phase, error, snapshot, cursor, todo, sm, handlers, fibers, current, seen>>
      BY <1>2, <1>6, <2>2 DEF RunFail
    <2>4. Kept(1) /\ RestDue(1) /\ 1 \in Int
      BY <1>1, <2>3, TailDue
    <2>5. act.kind # "set"
      BY <2>1
    <2> QED  BY <1>1, <2>1, <2>2, <2>3, <2>4, <2>5, ResolveMoves
  <1>7. CASE RunResume
    <2>1. Wakes(act) /\ ~Resolves(act)
      BY <1>2, <1>7 DEF RunResume, Wakes, Resolves
    <2>2. fibers[act.fiber].stack # <<>>
      BY <1>2, <2>1 DEF FiberInv, WakesOnce
    <2>3. /\ agenda' = Tail(agenda) /\ phase' \in {"apply", "fiber"}
          /\ UNCHANGED <<error, snapshot, cursor, todo, sm, handlers, futures, fibers, seen>>
          /\ futures[act.future].state # "pending" => current' = act.fiber
      BY <1>1, <1>2, <1>7, <2>2 DEF RunResume, MayResume, finished
    <2>4. Kept(1) /\ RestDue(1) /\ 1 \in Int
      BY <1>1, <2>3, TailDue
    <2> QED  BY <1>1, <2>1, <2>3, <2>4 DEF HandlerMoves, Resolved
  <1> QED  BY <1>3, <1>4, <1>5, <1>6, <1>7 DEF RunHandler

\* A handler that runs leaves nobody behind.
LEMMA RunHandlerStrands ==
    ASSUME RunInv, FiberInv, StrandInv, RunHandler
    PROVE  StrandInv'
  <1>1. HandlerMoves
    BY RunHandlerMoves
  <1>2. PICK d \in Int : Kept(d) /\ RestDue(d)
    BY <1>1 DEF HandlerMoves
  <1>3. /\ phase' # "decided" /\ phase = "apply" /\ agenda # <<>> /\ UNCHANGED handlers
        /\ Len(futures') = Len(futures)
        /\ \A f \in 1..Len(futures) : /\ futures'[f].target = futures[f].target
                                      /\ futures'[f].state = Resolved(f)
    BY <1>1 DEF HandlerMoves
  <1>4. /\ Len(futures) \in Nat /\ Len(agenda) \in Nat \ {0} /\ 1 \in 1..Len(agenda)
        /\ \A p \in 1..Len(handlers) :
             Wakes(handlers[p].act) => handlers[p].act.future \in 1..Len(futures)
        /\ \A k \in 1..Len(agenda) :
             Wakes(agenda[k]) => agenda[k].future \in 1..Len(futures)
    <2>1. IsSeq(agenda)
      BY Referents
    <2>2. Len(agenda) \in Nat \ {0}
      BY <1>3, <2>1, SeqTail
    <2> QED  BY <2>2, Referents
  <1>5. SetBefore' /\ WakesAny' /\ DecidedIdle'
    BY <1>3 DEF StrandInv, SetBefore, WakesAny, DecidedIdle, Resolves, Wakes
  <1>6. ASSUME TargetsDistinct'
        PROVE  DueFirst' /\ SetWakes' /\ Covered'
    <2>1. TargetsDistinct
      BY <1>3, <1>6 DEF TargetsDistinct
    <2>2. DueFirst /\ SetWakes /\ Covered
      BY <1>3, <2>1 DEF StrandInv
    <2>3. \A k \in 1..Len(agenda') : ~Resolves(agenda'[k])
      <3> SUFFICES ASSUME NEW k \in 1..Len(agenda'), Resolves(agenda'[k])
                   PROVE  FALSE
        OBVIOUS
      <3>1. k + d \in 2..Len(agenda) /\ agenda'[k] = agenda[k + d]
        BY <1>2 DEF Kept
      <3>2. k + d \in 1..Len(agenda) /\ k + d # 1
        BY <1>4, <3>1
      <3> QED  BY <2>2, <3>1, <3>2 DEF DueFirst
    <2>4. DueFirst' /\ SetWakes'
      BY <2>3 DEF DueFirst, SetWakes, Resolves
    <2>5. Covered'
      <3> SUFFICES ASSUME NEW i \in 1..Len(fibers'), fibers'[i].stack # <<>>, i # current'
                   PROVE  WillWake(i)'
        BY DEF Covered
      <3>1. i \in 1..Len(fibers) /\ fibers'[i] = fibers[i]
        BY <1>1 DEF HandlerMoves
      <3>2. current = 0 /\ i # current
        BY <1>3, <3>1, Referents DEF RunInv, RunType
      <3>3. WillWake(i)
        BY <2>2, <3>1, <3>2 DEF Covered
      \* A wake-up that is due stays due, unless it is the one that is called.
      <3>4. ASSUME NEW l \in 1..Len(agenda), l # 1, Wakes(agenda[l]), agenda[l].fiber = i,
                   futures'[agenda[l].future].state # "pending"
            PROVE  WillWake(i)'
        <4>1. l \in 2..Len(agenda)
          BY <1>4, <3>4
        <4>2. PICK k \in 1..Len(agenda') : k = l - d
          BY <1>2, <4>1 DEF RestDue
        <4>3. agenda'[k] = agenda[l]
          BY <1>2, <4>1, <4>2 DEF RestDue
        <4> QED  BY <3>4, <4>3 DEF WillWake, Wakes
      <3>5. CASE \E p \in 1..Len(handlers) : Armed(p) /\ handlers[p].act.fiber = i
        <4>1. PICK p \in 1..Len(handlers) : Armed(p) /\ handlers[p].act.fiber = i
          BY <3>5
        <4> DEFINE f == handlers[p].act.future
        <4>2. f \in 1..Len(futures) /\ Wakes(handlers[p].act) /\ futures[f].state = "pending"
          BY <1>4, <4>1 DEF Armed
        <4>3. CASE futures'[f].state = "pending"
          BY <1>3, <4>1, <4>2, <4>3 DEF WillWake, Armed, Wakes
        <4>4. CASE futures'[f].state # "pending"
          <5>1. Resolves(agenda[1]) /\ f = agenda[1].future
            BY <1>3, <4>2, <4>4 DEF Resolved
          <5>2. PICK l \in 1..Len(agenda) : agenda[l] = handlers[p].act
            BY <1>4, <2>2, <4>2, <5>1 DEF SetWakes
          <5>3. l # 1
            BY <4>2, <5>1, <5>2 DEF Resolves, Wakes
          <5> QED  BY <3>4, <4>1, <4>2, <4>4, <5>2, <5>3
        <4> QED  BY <4>3, <4>4
      <3>6. CASE \E k \in 1..Len(agenda) : /\ Wakes(agenda[k]) /\ agenda[k].fiber = i
                                           /\ futures[agenda[k].future].state # "pending"
        <4>1. PICK l \in 1..Len(agenda) : /\ Wakes(agenda[l]) /\ agenda[l].fiber = i
                                          /\ futures[agenda[l].future].state # "pending"
          BY <3>6
        <4>2. l # 1
          BY <1>1, <4>1 DEF HandlerMoves
        <4>3. futures'[agenda[l].future].state # "pending"
          BY <1>3, <1>4, <4>1 DEF Resolved
        <4> QED  BY <3>4, <4>1, <4>2, <4>3
      <3> QED  BY <3>3, <3>5, <3>6 DEF WillWake
    <2> QED  BY <2>4, <2>5
  <1> QED  BY <1>5, <1>6 DEF StrandInv

\* Every step of a run leaves nobody behind.
LEMMA RunStrands ==
    ASSUME RunInv, FiberInv, StrandInv, Run
    PROVE  StrandInv'
  <1>1. CASE CodeStep
    BY <1>1, CodeStepMoves, CodeStrands
  <1> QED  BY <1>1, RestStrands, ApplyEventStrands, RunHandlerStrands DEF Run, RunStep, RootStep

\* A new run, or none, has nobody who waits.
LEMMA FreshStrands ==
    ASSUME NEW at, at # "decided", NEW raised, NEW h, NEW registered,
           \/ registered = <<>>
           \/ registered = <<Handler(WorkflowTarget, "started", Act("start", 0, 0, "main"))>>,
           ResetRun(at, raised, h, registered)
    PROVE  StrandInv'
  <1>1. handlers' = registered /\ agenda' = <<>> /\ fibers' = <<>> /\ phase' = at
    BY DEF ResetRun
  <1> DEFINE start == Handler(WorkflowTarget, "started", Act("start", 0, 0, "main"))
  <1>2. start.act.kind = "start"
    BY DEF Handler, Act
  <1> HIDE DEF start
  <1>3. \A p \in 1..Len(handlers') : handlers'[p].act.kind = "start"
    <2>1. CASE registered = <<>>
      BY <1>1, <2>1, SeqShort
    <2>2. CASE registered = <<start>>
      BY <1>1, <1>2, <2>2, SeqShort
    <2> QED  BY <2>1, <2>2 DEF start
  <1>4. \A p \in 1..Len(handlers') : ~Wakes(handlers'[p].act)
    BY <1>3 DEF Wakes
  <1>5. SetBefore' /\ WakesAny' /\ DecidedIdle'
    BY <1>1, <1>4 DEF SetBefore, WakesAny, DecidedIdle, Wakes
  <1>6. Len(agenda') = 0 /\ Len(fibers') = 0
    BY <1>1, SeqShort
  <1>7. DueFirst' /\ SetWakes' /\ Covered'
    BY <1>6 DEF DueFirst, SetWakes, Covered
  <1> QED  BY <1>5, <1>7 DEF StrandInv

\* Nothing of the run changes.
LEMMA StrandsStutter ==
    ASSUME StrandInv, UNCHANGED runVars
    PROVE  StrandInv'
  BY DEF runVars, StrandInv, SetBefore, WakesAny, DecidedIdle, TargetsDistinct, DueFirst, SetWakes,
         Covered, WillWake, Armed, Resolves, Wakes

\* The steps that are no step of a run: one begins, it is over, or it waits for
\* the service.
LEMMA BetweenRuns ==
    ASSUME Next \/ UNCHANGED vars, ~Run
    PROVE  \/ /\ phase = "idle" /\ snapshot' = history'
              /\ history' = Recorded(history, <<TaskEvent("DecisionTaskStarted")>>)
              /\ StartRun(history') \/ ResetRun("failed", "not_run", history', <<>>)
           \/ EndRun
           \/ UNCHANGED runVars
  <1>1. \A e : Arrive(e) => UNCHANGED runVars
    BY DEF Arrive
  <1>2. CASE ActivityReport \/ ChildReport \/ TimerFires \/ Signal \/ CancelRequest
    BY <1>1, <1>2 DEF ActivityReport, ChildReport, TimerFires, Signal, CancelRequest
  <1>3. CASE Poll \/ PollInVain
    <2>1. snapshot' = history'
      BY <1>3 DEF Poll, PollInVain, StartRun, ResetRun
    <2> QED  BY <1>3, <2>1 DEF Poll, PollInVain
  <1>4. CASE CompleteTask \/ UnhandledDecision \/ LoseResponse \/ FailTask \/ GiveUpTask
    BY <1>4 DEF CompleteTask, UnhandledDecision, LoseResponse, FailTask, GiveUpTask
  <1>5. CASE TimeOut \/ Deploy
    BY <1>5 DEF TimeOut, Deploy
  <1>6. CASE UNCHANGED vars
    BY <1>6 DEF vars, runVars
  <1> QED  BY <1>2, <1>3, <1>4, <1>5, <1>6 DEF Next

\* No step strands a fiber.
LEMMA StrandsNext ==
    ASSUME FiberInvs, StrandInv, [Next]_vars
    PROVE  StrandInv'
  <1>1. CASE Run
    BY <1>1, RunStrands DEF FiberInvs, IInv
  <1>2. CASE ~Run
    <2>1. CASE StartRun(history') \/ ResetRun("failed", "not_run", history', <<>>)
      BY <2>1, FreshStrands DEF StartRun
    <2>2. CASE EndRun
      BY <2>2, FreshStrands DEF EndRun
    <2> QED  BY <1>2, <2>1, <2>2, BetweenRuns, StrandsStutter
  <1> QED  BY <1>1, <1>2

\* A new execution has no fibers.
LEMMA StrandsInit ==
    ASSUME Init
    PROVE  StrandInv
  <1>1. handlers = <<>> /\ agenda = <<>> /\ fibers = <<>> /\ phase = "idle"
    BY DEF Init, InitRun
  <1> QED  BY <1>1, SeqShort DEF StrandInv, SetBefore, WakesAny, DecidedIdle, DueFirst, SetWakes, Covered

\* The invariant of those who wait holds throughout.
LEMMA StrandInvariant == Spec => []StrandInv
  <1>1. Init => StrandInv
    BY StrandsInit
  <1>2. FiberInvs /\ StrandInv /\ [Next]_vars => StrandInv'
    BY StrandsNext
  <1> QED  BY <1>1, <1>2, FiberInvariant, PTL DEF Spec

\* While no two futures have one target, no fiber is stranded.
LEMMA DistinctNotStranded ==
    ASSUME RunInv, StrandInv, TargetsDistinct
    PROVE  NoFiberStranded
  <1> SUFFICES ASSUME phase = "decided", NEW i \in 1..Len(fibers), fibers[i].stack # <<>>
               PROVE  \E h \in ToSet(handlers) : /\ h.act.kind = "resume" /\ h.act.fiber = i
                                                 /\ ~finished(h.act.future)
    BY DEF NoFiberStranded
  <1>1. agenda = <<>> /\ Len(agenda) = 0 /\ current = 0 /\ i # current
    BY SeqShort DEF StrandInv, DecidedIdle, RunInv, RunType
  <1>2. WillWake(i)
    BY <1>1 DEF StrandInv, Covered
  <1>3. PICK p \in 1..Len(handlers) : Armed(p) /\ handlers[p].act.fiber = i
    BY <1>1, <1>2 DEF WillWake
  <1>4. handlers[p] \in ToSet(handlers)
    BY SeqFacts, Referents DEF ToSet
  <1> QED  BY <1>3, <1>4 DEF Armed, Wakes, finished


\* In every run of every program: while no two of its futures have one target,
\* which the ids of decisions are there to ensure, a run that has decided leaves
\* no fiber behind (Context#wait_for, Dispatcher#dispatch, Future#get).
THEOREM WorkflowWakesFibers == Spec => [](TargetsDistinct => NoFiberStranded)
  <1>1. FiberInvs /\ StrandInv => (TargetsDistinct => NoFiberStranded)
    BY DistinctNotStranded DEF FiberInvs, IInv
  <1> QED  BY <1>1, FiberInvariant, StrandInvariant, PTL

=============================================================================
