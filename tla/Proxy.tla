------------------------------- MODULE Proxy --------------------------------
(***************************************************************************)
(* A call from the Ruby library to the Cadence service, by way of the      *)
(* proxy.                                                                  *)
(*                                                                         *)
(* Threads share one Cadence::Connection::Thrift.  A call takes the mutex, *)
(* writes the procedure's name into a header of the shared transport and   *)
(* posts the request over HTTP; the proxy goes by this header, not by what *)
(* the body holds.  The proxy (proxy/main.go, proxyhandler.go and the      *)
(* generated server and client) decodes the request, makes the call over   *)
(* TChannel and does the same for the answer on its way back.              *)
(*                                                                         *)
(* A message is the set of its fields; RequestLoss and ResponseLoss are    *)
(* what of a request or a response the tables of the proxy do not let      *)
(* through.  HTTP, TChannel and the service are external: messages may be  *)
(* lost, the proxy may die, and the service may perform a call that nobody *)
(* waits for any more.                                                     *)
(***************************************************************************)
EXTENDS ProxyService, RubyThrift, Sequences

CONSTANTS
    Threads,    \* Ruby threads with one connection
    Workload    \* the calls they may make: functions from Threads to Calls

VARIABLES
    op,         \* the call a thread makes
    pc,         \* where the thread is in send_request
    mutex,      \* @mutex of the connection
    header,     \* the 'Rpc-Procedure' header of its transport
    relay,      \* what has become of the thread's HTTP request at the proxy
    procedure,  \* the procedure it was posted for
    network,    \* what travels between the proxy and the service
    done,       \* what the service has performed for the thread
    reply,      \* the fields of the proxy's answer
    result,     \* what send_request returns or raises
    lost        \* the data a hop has dropped

vars == <<op, pc, mutex, header, relay, procedure, network, done, reply, result, lost>>
ruby == <<pc, mutex, header, result>>
service == <<network, done>>

Calls == DOMAIN Results

ASSUME WorkloadAssumption == Workload \subseteq [Threads -> Calls] /\ "none" \notin Threads

----------------------------------------------------------------------------
(* Messages *)

\* The names of the structs that the fields of a table hold.
Holds(table) == {table[f].of : f \in DOMAIN table} \cap DOMAIN RubyStructs

\* No message nests structs deeper than this.
Nesting == 8

\* The structs that can turn up in a message whose outermost fields are table's.
Within(table) ==
    LET upTo[n \in 0..Nesting] ==
          IF n = 0 THEN Holds(table)
          ELSE upTo[n - 1] \cup UNION {Holds(RubyStructs[s]) : s \in upTo[n - 1]}
    IN upTo[Nesting]

\* The fields of s that `there` does not know, or knows for something else.
Unknown(s, here, there) ==
    {<<s, f>> : f \in {g \in DOMAIN here : \A h \in DOMAIN there : there[h] # here[g]}}

UnknownWithin(table) ==
    UNION {Unknown(s, RubyStructs[s], Structs[s]) : s \in Within(table)}

\* What FromWire in the proxy steps over, and its ToWire therefore omits.
RequestLoss ==
    [m \in Calls |-> Unknown(m, RubyArgs[m], Args[m]) \cup UnknownWithin(RubyArgs[m])]

ResponseLoss ==
    [m \in Calls |-> Unknown(m, RubyResults[m], Results[m]) \cup UnknownWithin(RubyResults[m])]

\* FromWire: the fields of a table that are in a message.
FromWire(message, table) ==
    {f \in DOMAIN table : \E x \in message : x.id = table[f].id /\ x.wire = table[f].wire}

ToWire(fields, table) == {table[f] : f \in fields}

IsVoid(m) == "success" \notin DOMAIN Results[m]

\* The client's reading of a result: the exception that is set, or success.
UnwrapResponse(m, fields) ==
    LET raised == {e \in DOMAIN Helpers[m] : Helpers[m][e] \in fields} IN
    IF raised # {} THEN CHOOSE e \in raised : TRUE
    ELSE IF IsVoid(m) \/ "success" \in fields THEN "success"
    ELSE "expected a non-void result"

\* The server's writing of it, where the outcome is one that the call declares.
CanWrap(m, outcome) == outcome = "success" \/ outcome \in DOMAIN Helpers[m]

WrapResponse(m, outcome) ==
    IF outcome # "success" THEN {Helpers[m][outcome]}
    ELSE IF IsVoid(m) THEN {} ELSE {"success"}

\* recv_* of the generated Ruby client.
Recv(m, message) ==
    LET table == RubyResults[m]
        fields == FromWire(message, table)
        raised == fields \ {"success"} IN
    IF "success" \in fields THEN "success"
    ELSE IF raised # {} THEN table[CHOOSE f \in raised : TRUE].of
    ELSE IF "success" \in DOMAIN table THEN "failed" ELSE "success"

\* The service was built from the IDL, as the Ruby classes were.
Answers(m) ==
    {"success"} \cup {RubyResults[m][f].of : f \in DOMAIN RubyResults[m] \ {"success"}}

Sent(m, answer) ==
    {RubyResults[m][f] : f \in
       {g \in DOMAIN RubyResults[m] :
          IF answer = "success" THEN g = "success"
                                ELSE g # "success" /\ RubyResults[m][g].of = answer}}

\* An answer comes out of the two translations as what it was.
RoundTrip(m, answer) ==
    LET outcome == UnwrapResponse(m, FromWire(Sent(m, answer), Results[m])) IN
    /\ CanWrap(m, outcome)
    /\ Recv(m, ToWire(WrapResponse(m, outcome), Results[m])) = answer

TablesAgree == \A m \in Calls : \A a \in Answers(m) : RoundTrip(m, a) /\ a # "none"

----------------------------------------------------------------------------
(* The connection *)

\* Operations of the connection that raise before anything is sent:
\* NotImplementedError, and update_domain, whose request has no such fields.
NotSent ==
    {"RecordActivityTaskHeartbeatByID", "RespondActivityTaskCanceledByID",
     "RequestCancelWorkflowExecution", "SignalWithStartWorkflowExecution",
     "ListWorkflowExecutions", "ListArchivedWorkflowExecutions", "ScanWorkflowExecutions",
     "CountWorkflowExecutions", "GetSearchAttributes", "RespondQueryTaskCompleted",
     "ResetStickyTaskList", "QueryWorkflow", "UpdateDomain"}

Init ==
    /\ op \in Workload
    /\ pc = [t \in Threads |-> "calling"]
    /\ mutex = "none"
    /\ header = "none"
    /\ relay = [t \in Threads |-> "none"]
    /\ procedure = [t \in Threads |-> "none"]
    /\ network = [t \in Threads |-> "nothing"]
    /\ done = [t \in Threads |-> <<>>]
    /\ reply = [t \in Threads |-> {}]
    /\ result = [t \in Threads |-> "none"]
    /\ lost = [t \in Threads |-> {}]

\* The operation raises instead of sending anything.
Refuse(t) ==
    /\ pc[t] = "calling"
    /\ op[t] \in NotSent
    /\ pc' = [pc EXCEPT ![t] = "over"]
    /\ result' = [result EXCEPT ![t] = "failed"]
    /\ UNCHANGED <<op, mutex, header, relay, procedure, service, reply, lost>>

MutexFree_Always == TRUE

MutexFree == mutex = "none"

\* mutex.synchronize in send_request.
Lock(t) ==
    /\ pc[t] = "calling"
    /\ op[t] \notin NotSent
    /\ MutexFree
    /\ mutex' = t
    /\ pc' = [pc EXCEPT ![t] = "locked"]
    /\ UNCHANGED <<op, header, relay, procedure, service, reply, result, lost>>

AddHeader_Once(t) ==
    /\ pc[t] = "locked"
    /\ header' = IF header = "none" THEN op[t] ELSE header
    /\ pc' = [pc EXCEPT ![t] = "addressed"]
    /\ UNCHANGED <<op, mutex, relay, procedure, service, reply, result, lost>>

\* transport.add_headers.
AddHeader(t) ==
    /\ pc[t] = "locked"
    /\ header' = op[t]
    /\ pc' = [pc EXCEPT ![t] = "addressed"]
    /\ UNCHANGED <<op, mutex, relay, procedure, service, reply, result, lost>>

\* connection.public_send: the request goes out with the header of the moment.
Post(t) ==
    /\ pc[t] = "addressed"
    /\ pc' = [pc EXCEPT ![t] = "posted"]
    /\ relay' = [relay EXCEPT ![t] = "received"]
    /\ procedure' = [procedure EXCEPT ![t] = header]
    /\ UNCHANGED <<op, mutex, header, service, reply, result, lost>>

\* send_request ends, and with it the critical section.
Leave(t, outcome) ==
    /\ pc' = [pc EXCEPT ![t] = "over"]
    /\ mutex' = "none"
    /\ result' = [result EXCEPT ![t] = outcome]
    /\ UNCHANGED <<op, header, relay, procedure, service, reply, lost>>

\* There is no proxy at the other end.
PostFails(t) == pc[t] = "addressed" /\ Leave(t, "failed")

Receive(t) == pc[t] = "posted" /\ relay[t] = "replied" /\ Leave(t, Recv(op[t], reply[t]))

\* The proxy answers with an HTTP error, whose body is no Thrift message, or
\* the connection breaks.
ReceiveFailure(t) == pc[t] = "posted" /\ relay[t] \in {"failed", "dead"} /\ Leave(t, "failed")

\* The HTTP client has read nothing for too long; the proxy may still be at work.
GiveUp(t) == pc[t] = "posted" /\ Leave(t, "failed")

----------------------------------------------------------------------------
(* The proxy and the service *)

\* The client's method that a method of proxyHandler calls.
Forwards == [m \in Calls |-> m]

\* The server finds the handler by the procedure's name; args.FromWire, the
\* method of proxyHandler, the client's Args and Call.
Dispatch(t) ==
    /\ relay[t] = "received"
    /\ relay' = [relay EXCEPT ![t] = "waiting"]
    /\ network' = [network EXCEPT ![t] = "request"]
    /\ lost' = [lost EXCEPT ![t] = @ \cup RequestLoss[op[t]]]
    /\ UNCHANGED <<op, ruby, procedure, done, reply>>

\* The service performs what it was sent, whether or not anybody still waits.
Execute(t) ==
    /\ network[t] = "request"
    /\ LET m == Forwards[procedure[t]] IN
       \E a \in Answers(m) : done' = [done EXCEPT ![t] = Append(@, [op |-> m, answer |-> a])]
    /\ network' = [network EXCEPT ![t] = "answer"]
    /\ UNCHANGED <<op, ruby, relay, procedure, reply, lost>>

Lose(t) ==
    /\ network[t] \in {"request", "answer"}
    /\ network' = [network EXCEPT ![t] = "nothing"]
    /\ UNCHANGED <<op, ruby, relay, procedure, done, reply, lost>>

\* The answer comes back: result.FromWire and UnwrapResponse in the client,
\* WrapResponse in the server.  An error that the call does not declare has
\* no field in the result and becomes an HTTP error.
Answer(t) ==
    /\ relay[t] = "waiting"
    /\ network[t] = "answer"
    /\ LET m == Forwards[procedure[t]]
           answer == done[t][Len(done[t])].answer
           outcome == UnwrapResponse(m, FromWire(Sent(m, answer), Results[m]))
           handler == procedure[t] IN
       IF CanWrap(handler, outcome)
       THEN /\ reply' = [reply EXCEPT ![t] =
                           ToWire(WrapResponse(handler, outcome), Results[handler])]
            /\ relay' = [relay EXCEPT ![t] = "replied"]
            /\ lost' = [lost EXCEPT ![t] = @ \cup ResponseLoss[op[t]]]
       ELSE relay' = [relay EXCEPT ![t] = "failed"] /\ UNCHANGED <<reply, lost>>
    /\ network' = [network EXCEPT ![t] = "nothing"]
    /\ UNCHANGED <<op, ruby, procedure, done>>

DeadlinePasses_Never(t) ==
    /\ relay[t] = "waiting"
    /\ network[t] # "nothing"
    /\ relay' = [relay EXCEPT ![t] = "failed"]
    /\ UNCHANGED <<op, ruby, procedure, service, reply, lost>>

\* The call to the service ends with an error of the transport: the deadline
\* ('Context-TTL-MS') has passed, or the service cannot be reached.
DeadlinePasses(t) ==
    /\ relay[t] = "waiting"
    /\ relay' = [relay EXCEPT ![t] = "failed"]
    /\ UNCHANGED <<op, ruby, procedure, service, reply, lost>>

AtProxy == {t \in Threads : relay[t] \in {"received", "waiting", "replied", "failed"}}

\* The proxy dies with all it has in hand.
ProxyDies ==
    /\ \E t \in AtProxy : pc[t] = "posted"
    /\ relay' = [t \in Threads |-> IF t \in AtProxy THEN "dead" ELSE relay[t]]
    /\ UNCHANGED <<op, ruby, procedure, service, reply, lost>>

----------------------------------------------------------------------------
Ruby(t) ==
    Refuse(t) \/ Lock(t) \/ AddHeader(t) \/ Post(t) \/ PostFails(t)
      \/ Receive(t) \/ ReceiveFailure(t) \/ GiveUp(t)

Relay(t) == Dispatch(t) \/ Answer(t) \/ DeadlinePasses(t)

Service(t) == Execute(t) \/ Lose(t)

AllOver == \A t \in Threads : pc[t] = "over"

Next ==
    \/ \E t \in Threads : Ruby(t) \/ Relay(t) \/ Service(t)
    \/ ProxyDies
    \/ AllOver /\ UNCHANGED vars

\* Ruby threads run; so do the goroutines of a proxy, and the deadline that a
\* call is given passes.  Nothing is assumed of the service or the network.
Fairness ==
    \A t \in Threads :
      /\ WF_vars(Refuse(t) \/ Lock(t) \/ AddHeader(t) \/ Post(t))
      /\ WF_vars(Receive(t) \/ ReceiveFailure(t))
      /\ WF_vars(Dispatch(t))
      /\ WF_vars(DeadlinePasses(t))

Spec == Init /\ [][Next]_vars /\ Fairness

----------------------------------------------------------------------------
(* Properties *)

Outcomes == UNION {Answers(m) : m \in Calls}

Inside == {"locked", "addressed", "posted"}

\* Types; and exactly the thread that is between mutex.synchronize and its
\* end holds the mutex, however its call ends.
TypeOK ==
    /\ op \in [Threads -> Calls]
    /\ pc \in [Threads -> {"calling", "over"} \cup Inside]
    /\ mutex \in Threads \cup {"none"}
    /\ header \in Calls \cup {"none"}
    /\ relay \in [Threads -> {"none", "received", "waiting", "replied", "failed", "dead"}]
    /\ procedure \in [Threads -> Calls \cup {"none"}]
    /\ network \in [Threads -> {"nothing", "request", "answer"}]
    /\ done \in [Threads -> Seq([op : Calls, answer : Outcomes])]
    /\ result \in [Threads -> Outcomes \cup {"none", "failed"}]
    /\ \A t \in Threads : pc[t] \in Inside <=> mutex = t

\* Nothing is dropped on the way: whatever field the Ruby library can put into
\* a request, in any struct at any depth, the proxy decodes, encodes again and
\* passes on, and so it does with the response (the FIELDS of lib/gen/thrift
\* against ToWire and FromWire of proxy/gen).
NothingDropped == \A t \in Threads : lost[t] = {}

Remote == INSTANCE RemoteCall WITH Callers <- Threads

\* With threads that share a connection, a proxy that dies, messages that are
\* lost and callers that give up, a call is what RemoteCall promises: performed
\* at most once, as the operation asked for, and answered with its own answer,
\* the service's exceptions included, or with a failure (send_request, the
\* proxy's handlers, WrapResponse and UnwrapResponse).
IsRemoteCall == Remote!Spec

\* Every call returns or raises, although it may have to wait for the mutex
\* behind a call whose answer never comes (the deadline that transport sets).
CallReturns == \A t \in Threads : <>(pc[t] = "over")
=============================================================================
