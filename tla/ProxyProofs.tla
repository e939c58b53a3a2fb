---------------------------- MODULE ProxyProofs -----------------------------
(***************************************************************************)
(* Proofs about module Proxy, for any set of threads and any workload.     *)
(* The tables of messages stay closed: the one thing the proofs take from  *)
(* them is TablesAgree, which TLC evaluates (MCProxy).                     *)
(***************************************************************************)
EXTENDS Proxy, TLAPS

\* Everything but lost, which only NothingDropped is about, has its type,
\* and the mutex keeps all but one thread out of send_request.
ProxyTypes ==
    /\ TypeOK
    /\ reply = [t \in Threads |-> reply[t]]
    /\ \A t \in Threads :
         \/ done[t] = <<>>
         \/ \E a \in Answers(op[t]) : done[t] = <<[op |-> op[t], answer |-> a]>>

\* While a thread is between writing the header and posting, the header is
\* its own; so a request is for the procedure that its body belongs to.
Addressed ==
    \A t \in Threads :
      /\ pc[t] = "addressed" => header = op[t]
      /\ relay[t] # "none" => procedure[t] = op[t]
      /\ pc[t] \in {"calling", "locked", "addressed"} => relay[t] = "none"

\* A request exists once: it is at the caller, at the proxy, on its way, or
\* performed.
Once ==
    \A t \in Threads :
      /\ relay[t] \in {"none", "received"} => network[t] = "nothing" /\ done[t] = <<>>
      /\ network[t] = "request" => done[t] = <<>>
      /\ network[t] = "answer" => done[t] # <<>>

\* A reply holds the answer that the service gave to this call.
OwnAnswer ==
    \A t \in Threads :
      /\ relay[t] = "replied" => /\ done[t] # <<>>
                                 /\ Recv(op[t], reply[t]) = done[t][1].answer
      /\ pc[t] # "over" <=> result[t] = "none"

IInv == ProxyTypes /\ Addressed /\ Once /\ OwnAnswer

----------------------------------------------------------------------------
\* The properties of the initial states (Connection::Thrift#initialize).
LEMMA InitHolds == Init => IInv
  BY WorkloadAssumption
  DEF Init, IInv, ProxyTypes, TypeOK, Inside, Addressed, Once, OwnAnswer

\* The answer that a thread reads is one its call can have.
LEMMA ReplyIsAnswer ==
  ASSUME IInv, NEW t \in Threads, relay[t] = "replied"
  PROVE  Recv(op[t], reply[t]) \in Answers(op[t]) /\ op[t] \in Calls
  <1>1. PICK a \in Answers(op[t]) : done[t] = <<[op |-> op[t], answer |-> a]>>
    BY DEF IInv, ProxyTypes, OwnAnswer
  <1>2. done[t][1].answer = a
    BY <1>1
  <1> QED
    BY <1>2 DEF IInv, ProxyTypes, TypeOK, OwnAnswer

\* A request that has reached the service is the one the thread made, and
\* the service performs that one, for the first time.
LEMMA ExecuteStep ==
  ASSUME IInv, NEW t \in Threads, Execute(t)
  PROVE  /\ done[t] = <<>>
         /\ relay[t] \notin {"none", "received"}
         /\ op[t] \in Calls
         /\ \E a \in Answers(op[t]) :
              done' = [done EXCEPT ![t] = <<[op |-> op[t], answer |-> a]>>]
  <1>1. network[t] = "request"
    BY DEF Execute
  <1>2. relay[t] \notin {"none", "received"} /\ done[t] = <<>>
    BY <1>1 DEF IInv, Once
  <1>3. procedure[t] = op[t]
    BY <1>2 DEF IInv, Addressed
  <1>4. op[t] \in Calls
    BY DEF IInv, ProxyTypes, TypeOK
  <1>5. Forwards[procedure[t]] = op[t]
    BY <1>3, <1>4 DEF Forwards
  <1>6. PICK a \in Answers(op[t]) :
          done' = [done EXCEPT ![t] = Append(@, [op |-> op[t], answer |-> a])]
    BY <1>5 DEF Execute
  <1>7. Append(done[t], [op |-> op[t], answer |-> a]) = <<[op |-> op[t], answer |-> a]>>
    BY <1>2
  <1> QED
    BY <1>2, <1>4, <1>6, <1>7

\* No step breaks the types or lets a second thread into send_request.
LEMMA TypeStep == IInv /\ [Next]_vars => TypeOK'
  <1> SUFFICES ASSUME IInv, [Next]_vars PROVE TypeOK'
    OBVIOUS
  <1>0. TypeOK
    BY DEF IInv, ProxyTypes
  <1> USE <1>0, WorkloadAssumption DEF TypeOK, Inside
  <1>1. ASSUME NEW t \in Threads, Refuse(t) PROVE TypeOK'
    BY <1>1 DEF Refuse, service
  <1>2. ASSUME NEW t \in Threads, Lock(t) PROVE TypeOK'
    <2>1. \A u \in Threads : pc[u] \notin Inside
      BY <1>2 DEF Lock, MutexFree
    <2>2. (\A u \in Threads : pc[u] \in Inside <=> mutex = u)'
      BY <1>2, <2>1 DEF Lock
    <2> QED
      BY <1>2, <2>2 DEF Lock, service
  <1>3. ASSUME NEW t \in Threads, AddHeader(t) PROVE TypeOK'
    BY <1>3 DEF AddHeader, service
  <1>4. ASSUME NEW t \in Threads, Post(t) PROVE TypeOK'
    BY <1>4 DEF Post, service
  <1>5. ASSUME NEW t \in Threads, NEW outcome \in Outcomes \cup {"failed"},
               pc[t] \in Inside, Leave(t, outcome)
        PROVE  TypeOK'
    BY <1>5 DEF Leave, service
  <1>6. ASSUME NEW t \in Threads, PostFails(t) \/ ReceiveFailure(t) \/ GiveUp(t)
        PROVE  TypeOK'
    BY <1>5, <1>6 DEF PostFails, ReceiveFailure, GiveUp
  <1>7. ASSUME NEW t \in Threads, Receive(t) PROVE TypeOK'
    <2>1. Recv(op[t], reply[t]) \in Outcomes
      BY <1>7, ReplyIsAnswer DEF Receive, Outcomes
    <2> QED
      BY <1>5, <1>7, <2>1 DEF Receive
  <1>8. ASSUME NEW t \in Threads, Dispatch(t) PROVE TypeOK'
    BY <1>8 DEF Dispatch, ruby
  <1>9. ASSUME NEW t \in Threads, Answer(t) PROVE TypeOK'
    BY <1>9 DEF Answer, ruby
  <1>10. ASSUME NEW t \in Threads, DeadlinePasses(t) PROVE TypeOK'
    BY <1>10 DEF DeadlinePasses, ruby, service
  <1>11. ASSUME NEW t \in Threads, Execute(t) PROVE TypeOK'
    <2>1. PICK a \in Answers(op[t]) :
            done' = [done EXCEPT ![t] = <<[op |-> op[t], answer |-> a]>>]
      BY <1>11, ExecuteStep
    <2>2. done' \in [Threads -> Seq([op : Calls, answer : Outcomes])]
      BY <2>1 DEF Outcomes
    <2> QED
      BY <1>11, <2>2 DEF Execute, ruby
  <1>12. ASSUME NEW t \in Threads, Lose(t) PROVE TypeOK'
    BY <1>12 DEF Lose, ruby
  <1>13. CASE ProxyDies
    BY <1>13 DEF ProxyDies, ruby, service
  <1>14. CASE UNCHANGED vars
    BY <1>14 DEF vars
  <1> QED
    BY <1>1, <1>2, <1>3, <1>4, <1>6, <1>7, <1>8, <1>9, <1>10, <1>11, <1>12, <1>13, <1>14
    DEF Next, Ruby, Relay, Service

\* The replies stay a function on the threads.
LEMMA ReplyStep ==
  ASSUME IInv, [Next]_vars PROVE reply' = [t \in Threads |-> reply'[t]]
  <1>1. ASSUME NEW t, NEW r, reply' = [reply EXCEPT ![t] = r]
        PROVE  reply' = [u \in Threads |-> reply'[u]]
    BY <1>1 DEF IInv, ProxyTypes
  <1>2. CASE UNCHANGED reply
    BY <1>2 DEF IInv, ProxyTypes
  <1>3. ASSUME NEW t \in Threads, Answer(t)
        PROVE  (\E r : reply' = [reply EXCEPT ![t] = r]) \/ UNCHANGED reply
    BY <1>3 DEF Answer
  <1> QED
    BY <1>1, <1>2, <1>3
    DEF Next, Ruby, Relay, Service, Refuse, Lock, AddHeader, Post, PostFails, Receive,
        ReceiveFailure, GiveUp, Leave, Dispatch, DeadlinePasses, Execute, Lose, ProxyDies, vars

\* What the service has performed stays, and is the operation asked for.
LEMMA DoneStep ==
  ASSUME IInv, [Next]_vars
  PROVE  \A t \in Threads :
           \/ done'[t] = <<>>
           \/ \E a \in Answers(op'[t]) : done'[t] = <<[op |-> op'[t], answer |-> a]>>
  <1>0. TypeOK /\ ProxyTypes
    BY DEF IInv, ProxyTypes
  <1>1. ASSUME NEW t \in Threads, Execute(t)
        PROVE  \A u \in Threads :
                 \/ done'[u] = <<>>
                 \/ \E a \in Answers(op'[u]) : done'[u] = <<[op |-> op'[u], answer |-> a]>>
    <2>1. op' = op
      BY <1>1 DEF Execute
    <2>2. PICK a \in Answers(op[t]) :
            done' = [done EXCEPT ![t] = <<[op |-> op[t], answer |-> a]>>]
      BY <1>1, ExecuteStep
    <2> QED
      BY <1>0, <2>1, <2>2 DEF ProxyTypes, TypeOK
  <1>2. CASE UNCHANGED <<op, done>>
    BY <1>0, <1>2 DEF ProxyTypes
  <1> QED
    BY <1>1, <1>2
    DEF Next, Ruby, Relay, Service, Refuse, Lock, AddHeader, Post, PostFails, Receive,
        ReceiveFailure, GiveUp, Leave, Dispatch, Answer, DeadlinePasses, Lose, ProxyDies,
        service, vars

\* The header is still the thread's own when it posts: who could have
\* written it since does not hold the mutex.
LEMMA AddressedStep == IInv /\ [Next]_vars => Addressed'
  <1> SUFFICES ASSUME IInv, [Next]_vars PROVE Addressed'
    OBVIOUS
  <1>0. TypeOK /\ Addressed
    BY DEF IInv, ProxyTypes
  <1> USE <1>0 DEF TypeOK, Inside, Addressed
  <1>1. ASSUME NEW t \in Threads, Refuse(t) PROVE Addressed'
    BY <1>1 DEF Refuse
  <1>2. ASSUME NEW t \in Threads, Lock(t) PROVE Addressed'
    BY <1>2 DEF Lock
  <1>3. ASSUME NEW t \in Threads, AddHeader(t) PROVE Addressed'
    <2>1. \A u \in Threads : u # t => pc[u] # "addressed"
      BY <1>3 DEF AddHeader
    <2> QED
      BY <1>3, <2>1 DEF AddHeader
  <1>4. ASSUME NEW t \in Threads, Post(t) PROVE Addressed'
    BY <1>4 DEF Post
  <1>5. ASSUME NEW t \in Threads, PostFails(t) \/ Receive(t) \/ ReceiveFailure(t) \/ GiveUp(t)
        PROVE  Addressed'
    BY <1>5 DEF PostFails, Receive, ReceiveFailure, GiveUp, Leave
  <1>6. ASSUME NEW t \in Threads, Dispatch(t) PROVE Addressed'
    BY <1>6 DEF Dispatch, ruby
  <1>7. ASSUME NEW t \in Threads, Answer(t) PROVE Addressed'
    BY <1>7 DEF Answer, ruby
  <1>8. ASSUME NEW t \in Threads, DeadlinePasses(t) PROVE Addressed'
    BY <1>8 DEF DeadlinePasses, ruby
  <1>9. ASSUME NEW t \in Threads, Service(t) PROVE Addressed'
    BY <1>9 DEF Service, Execute, Lose, ruby
  <1>10. CASE ProxyDies
    BY <1>10 DEF ProxyDies, AtProxy, ruby
  <1>11. CASE UNCHANGED vars
    BY <1>11 DEF vars
  <1> QED
    BY <1>1, <1>2, <1>3, <1>4, <1>5, <1>6, <1>7, <1>8, <1>9, <1>10, <1>11
    DEF Next, Ruby, Relay

\* A request is sent on once and performed once.
LEMMA OnceStep == IInv /\ [Next]_vars => Once'
  <1> SUFFICES ASSUME IInv, [Next]_vars PROVE Once'
    OBVIOUS
  <1>0. TypeOK /\ Addressed /\ Once
    BY DEF IInv, ProxyTypes
  <1> USE <1>0 DEF TypeOK, Once
  <1>1. ASSUME NEW t \in Threads, Refuse(t) \/ Lock(t) \/ AddHeader(t) PROVE Once'
    BY <1>1 DEF Refuse, Lock, AddHeader, service
  <1>2. ASSUME NEW t \in Threads, Post(t) PROVE Once'
    BY <1>2 DEF Post, service, Addressed
  <1>3. ASSUME NEW t \in Threads, PostFails(t) \/ Receive(t) \/ ReceiveFailure(t) \/ GiveUp(t)
        PROVE  Once'
    BY <1>3 DEF PostFails, Receive, ReceiveFailure, GiveUp, Leave, service
  <1>4. ASSUME NEW t \in Threads, Dispatch(t) PROVE Once'
    BY <1>4 DEF Dispatch
  <1>5. ASSUME NEW t \in Threads, Answer(t) PROVE Once'
    BY <1>5 DEF Answer
  <1>6. ASSUME NEW t \in Threads, DeadlinePasses(t) PROVE Once'
    BY <1>6 DEF DeadlinePasses, service
  <1>7. ASSUME NEW t \in Threads, Execute(t) PROVE Once'
    <2>1. PICK a \in Answers(op[t]) :
            done' = [done EXCEPT ![t] = <<[op |-> op[t], answer |-> a]>>]
      BY <1>7, ExecuteStep
    <2>2. relay[t] \notin {"none", "received"}
      BY <1>7, ExecuteStep
    <2> QED
      BY <1>7, <2>1, <2>2 DEF Execute
  <1>8. ASSUME NEW t \in Threads, Lose(t) PROVE Once'
    BY <1>8 DEF Lose
  <1>9. CASE ProxyDies
    BY <1>9 DEF ProxyDies, AtProxy, service
  <1>10. CASE UNCHANGED vars
    BY <1>10 DEF vars
  <1> QED
    BY <1>1, <1>2, <1>3, <1>4, <1>5, <1>6, <1>7, <1>8, <1>9, <1>10
    DEF Next, Ruby, Relay, Service

\* What the proxy writes into its reply is read by the thread as the answer
\* the service gave: two translations, undone by the third.
LEMMA AnswerStep ==
  ASSUME TablesAgree, IInv, NEW t \in Threads, Answer(t)
  PROVE  /\ done[t] # <<>>
         /\ relay' = [relay EXCEPT ![t] = "replied"]
         /\ \E r : reply' = [reply EXCEPT ![t] = r] /\ Recv(op[t], r) = done[t][1].answer
  <1>1. relay[t] = "waiting" /\ network[t] = "answer"
    BY DEF Answer
  <1>2. procedure[t] = op[t] /\ op[t] \in Calls /\ done[t] # <<>>
    BY <1>1 DEF IInv, ProxyTypes, TypeOK, Addressed, Once
  <1>3. Forwards[procedure[t]] = op[t]
    BY <1>2 DEF Forwards
  <1>4. PICK a \in Answers(op[t]) : done[t] = <<[op |-> op[t], answer |-> a]>>
    BY <1>2 DEF IInv, ProxyTypes
  <1>5. done[t][1].answer = a /\ done[t][Len(done[t])].answer = a
    BY <1>4
  <1> DEFINE outcome == UnwrapResponse(op[t], FromWire(Sent(op[t], a), Results[op[t]]))
             r == ToWire(WrapResponse(op[t], outcome), Results[op[t]])
  <1>6. CanWrap(op[t], outcome) /\ Recv(op[t], r) = a
    BY <1>2, <1>4 DEF TablesAgree, RoundTrip
  <1>7. /\ reply' = [reply EXCEPT ![t] = r]
        /\ relay' = [relay EXCEPT ![t] = "replied"]
    <2> HIDE DEF outcome
    <2>1. outcome = UnwrapResponse(op[t], FromWire(Sent(op[t], a), Results[op[t]]))
      BY DEF outcome
    <2> QED
      BY <1>2, <1>3, <1>5, <1>6, <2>1 DEF Answer
  <1> QED
    BY <1>2, <1>5, <1>6, <1>7

\* A reply keeps the answer its call was given, until the thread has read it.
LEMMA OwnAnswerStep ==
  ASSUME TablesAgree PROVE IInv /\ [Next]_vars => OwnAnswer'
  <1> SUFFICES ASSUME IInv, [Next]_vars PROVE OwnAnswer'
    OBVIOUS
  <1>0. TypeOK /\ Addressed /\ OwnAnswer
    BY DEF IInv, ProxyTypes
  <1> USE <1>0 DEF TypeOK, OwnAnswer
  <1>1. ASSUME NEW t \in Threads, Refuse(t) PROVE OwnAnswer'
    BY <1>1 DEF Refuse, service
  <1>2. ASSUME NEW t \in Threads, Lock(t) \/ AddHeader(t) PROVE OwnAnswer'
    BY <1>2 DEF Lock, AddHeader, service
  <1>3. ASSUME NEW t \in Threads, Post(t) PROVE OwnAnswer'
    BY <1>3 DEF Post, service
  <1>4. ASSUME NEW t \in Threads, NEW outcome, outcome # "none", pc[t] # "over",
               Leave(t, outcome)
        PROVE  OwnAnswer'
    BY <1>4 DEF Leave, service
  <1>5. ASSUME NEW t \in Threads, PostFails(t) \/ ReceiveFailure(t) \/ GiveUp(t)
        PROVE  OwnAnswer'
    BY <1>4, <1>5 DEF PostFails, ReceiveFailure, GiveUp
  <1>6. ASSUME NEW t \in Threads, Receive(t) PROVE OwnAnswer'
    <2>1. Recv(op[t], reply[t]) # "none"
      BY <1>6, ReplyIsAnswer DEF Receive, TablesAgree
    <2> QED
      BY <1>4, <1>6, <2>1 DEF Receive
  <1>7. ASSUME NEW t \in Threads, Dispatch(t) PROVE OwnAnswer'
    BY <1>7 DEF Dispatch, ruby
  <1>8. ASSUME NEW t \in Threads, Answer(t) PROVE OwnAnswer'
    <2>1. UNCHANGED <<op, pc, result, done>>
      BY <1>8 DEF Answer, ruby
    <2>2. PICK r : reply' = [reply EXCEPT ![t] = r] /\ Recv(op[t], r) = done[t][1].answer
      BY <1>8, AnswerStep
    <2>3. \A u \in Threads : reply'[u] = IF u = t THEN r ELSE reply[u]
      BY <2>2 DEF IInv, ProxyTypes
    <2> QED
      BY <1>8, <2>1, <2>2, <2>3, AnswerStep
  <1>9. ASSUME NEW t \in Threads, DeadlinePasses(t) PROVE OwnAnswer'
    BY <1>9 DEF DeadlinePasses, ruby, service
  <1>10. ASSUME NEW t \in Threads, Execute(t) PROVE OwnAnswer'
    <2>1. done[t] = <<>>
      BY <1>10, ExecuteStep
    <2>2. \A u \in Threads : u # t => done'[u] = done[u]
      BY <1>10, ExecuteStep
    <2>3. UNCHANGED <<op, pc, result, relay, reply>>
      BY <1>10 DEF Execute, ruby
    <2>4. relay[t] # "replied"
      BY <2>1
    <2> QED
      BY <2>2, <2>3, <2>4
  <1>11. ASSUME NEW t \in Threads, Lose(t) PROVE OwnAnswer'
    BY <1>11 DEF Lose, ruby
  <1>12. CASE ProxyDies
    BY <1>12 DEF ProxyDies, AtProxy, ruby, service
  <1>13. CASE UNCHANGED vars
    BY <1>13 DEF vars
  <1> QED
    BY <1>1, <1>2, <1>3, <1>5, <1>6, <1>7, <1>8, <1>9, <1>10, <1>11, <1>12, <1>13
    DEF Next, Ruby, Relay, Service

\* The invariant is inductive.
LEMMA Invariant == ASSUME TablesAgree PROVE Spec => []IInv
  <1>1. IInv /\ [Next]_vars => IInv'
    <2> SUFFICES ASSUME IInv, [Next]_vars PROVE IInv'
      OBVIOUS
    <2>1. ProxyTypes'
      BY TypeStep, DoneStep, ReplyStep DEF ProxyTypes
    <2> QED
      BY <2>1, AddressedStep, OnceStep, OwnAnswerStep DEF IInv
  <1> QED
    BY InitHolds, <1>1, PTL DEF Spec

\* For any number of threads that share a connection: types, and the mutex is
\* held by exactly the thread inside send_request (thrift.rb, send_request).
THEOREM ProxyTypeCorrect == ASSUME TablesAgree PROVE Spec => []TypeOK
  <1>1. IInv => TypeOK
    BY DEF IInv, ProxyTypes
  <1> QED
    BY Invariant, <1>1, PTL

\* For any number of threads and any calls: a call through the shared
\* connection and the proxy implements RemoteCall.  It is performed at most
\* once, it is the operation the thread asked for, and the thread gets the
\* answer of this call or a failure.
THEOREM ProxyImplementsRemoteCall == ASSUME TablesAgree PROVE Spec => IsRemoteCall
  <1>1. Init => Remote!Init
    BY DEF Init, Remote!Init
  <1>2. IInv /\ [Next]_vars => [Remote!Next]_(Remote!vars)
    <2> SUFFICES ASSUME IInv, [Next]_vars PROVE Remote!Next \/ UNCHANGED Remote!vars
      OBVIOUS
    <2>0. TypeOK /\ OwnAnswer
      BY DEF IInv, ProxyTypes
    <2> USE DEF Remote!Next, Remote!vars
    <2>1. ASSUME NEW t \in Threads, result[t] = "none",
                 result' = [result EXCEPT ![t] = "failed"], UNCHANGED <<op, done>>
          PROVE  Remote!Next
      BY <2>1 DEF Remote!Fail
    <2>2. ASSUME NEW t \in Threads, Refuse(t) PROVE Remote!Next
      BY <2>0, <2>1, <2>2 DEF Refuse, service, OwnAnswer
    <2>3. ASSUME NEW t \in Threads, PostFails(t) \/ ReceiveFailure(t) \/ GiveUp(t)
          PROVE  Remote!Next
      BY <2>0, <2>1, <2>3 DEF PostFails, ReceiveFailure, GiveUp, Leave, service, OwnAnswer
    <2>4. ASSUME NEW t \in Threads, Receive(t) PROVE Remote!Next
      <3>1. Remote!Return(t)
        BY <2>0, <2>4 DEF Receive, Leave, service, OwnAnswer, Remote!Return
      <3> QED
        BY <3>1
    <2>5. ASSUME NEW t \in Threads, Execute(t) PROVE Remote!Next
      <3>1. UNCHANGED <<op, result>>
        BY <2>5 DEF Execute, ruby
      <3>2. Remote!Perform(t)
        BY <2>5, <3>1, ExecuteStep DEF Remote!Perform
      <3> QED
        BY <3>2
    <2>6. CASE UNCHANGED <<op, done, result>>
      BY <2>6
    <2> QED
      BY <2>2, <2>3, <2>4, <2>5, <2>6
      DEF Next, Ruby, Relay, Service, Lock, AddHeader, Post, Dispatch, Answer,
          DeadlinePasses, Lose, ProxyDies, ruby, service, vars
  <1> QED
    BY Invariant, <1>1, <1>2, PTL DEF Spec, IsRemoteCall, Remote!Spec
=============================================================================
