------------------------------ MODULE Requests ------------------------------
(***************************************************************************)
(* The caller's side of remote calls: the work requests of                 *)
(* python/infra/defw_workers, the table req_db, the single worker thread   *)
(* that completes them, and the threads that wait.                         *)
(*                                                                         *)
(* A WR_SEND_MSG request is put in req_db, sent, and waited for; its       *)
(* response, the loss of its peer, or the shutdown of the process takes it *)
(* out of the table again and puts one event on the queue the caller waits *)
(* on.  A WR_CONNECT request waits for the status of the connect thread.   *)
(* The far end is modelled by what it can do to the caller: execute the    *)
(* call and answer, or never answer (handle_rpc_req fails before its try,  *)
(* the response cannot be decoded or sent).                                *)
(***************************************************************************)
EXTENDS Naturals, Sequences, FiniteSets

CONSTANTS SendReqs,    \* blocking WR_SEND_MSG requests
          ConnReqs,    \* blocking WR_CONNECT requests
          Handles,     \* connections of the peers
          Targets      \* [SendReqs -> SUBSET Handles]: the connections whose
                       \* loss fails the request: its own, or every one of the
                       \* runtime when its block uuid is zero

Reqs == SendReqs \cup ConnReqs

VARIABLES
    phase,     \* where the calling thread of a request is
    outcome,   \* what send_req or connect_to_agent ended with
    late,      \* requests whose deadline has passed
    req_db,    \* WorkerThread.req_db
    inbox,     \* WorkerRequest.queue of each request
    workq,     \* WorkerThread.queue
    running,   \* the worker thread has not handled EVENT_SHUTDOWN
    up,        \* common.is_system_up()
    link,      \* connections: "up", "lost"
    call,      \* the far end's progress with a request
    executed   \* how often the far end executed the call

callerVars == <<phase, outcome, late>>
workerVars == <<req_db, inbox, workq, running>>
farVars == <<link, call, executed>>
vars == <<callerVars, workerVars, up, farVars>>

Pending == {"waiting", "getting"}    \* inside WorkerRequest.wait
Outcomes == {"none", "response", "peer-lost", "shutdown", "timeout",
             "send-failed", "connected", "connect-failed"}
NoReq == "no-request"

Event(type, arg) == [type |-> type, arg |-> arg]
WorkerEvents ==
    [type : {"RESPONSE"}, arg : SendReqs]
    \cup [type : {"CONN_OK", "CONN_FAIL"}, arg : ConnReqs]
    \cup [type : {"PEER_LOST"}, arg : Handles]
    \cup [type : {"SHUTDOWN"}, arg : {NoReq}]
Completions == {"RESPONSE", "PEER_LOST", "SHUTDOWN", "CONN_OK", "CONN_FAIL"}

Init ==
    /\ phase = [q \in Reqs |-> "idle"]
    /\ outcome = [q \in Reqs |-> "none"]
    /\ late = {} /\ req_db = {}
    /\ inbox = [q \in Reqs |-> <<>>]
    /\ workq = <<>> /\ running = TRUE /\ up = TRUE
    /\ link = [h \in Handles |-> "up"]
    /\ call = [q \in Reqs |-> "none"]
    /\ executed = [q \in Reqs |-> 0]

-----------------------------------------------------------------------------
(* The calling thread. *)

Finish(q, how) == /\ phase' = [phase EXCEPT ![q] = "done"]
                  /\ outcome' = [outcome EXCEPT ![q] = how]

\* Mutant: the request is entered only after it was sent.
MutAddWorkRequest(q) ==
    /\ phase[q] = "idle"
    /\ phase' = [phase EXCEPT ![q] = "added"]
    /\ UNCHANGED <<outcome, late, workerVars, up, farVars>>

\* send_req and connect_to_agent enter the request before they send.
AddWorkRequest(q) ==
    /\ phase[q] = "idle"
    /\ phase' = [phase EXCEPT ![q] = "added"]
    /\ req_db' = req_db \cup {q}
    /\ UNCHANGED <<outcome, late, inbox, workq, running, up, farVars>>

\* defw_send holds a reference to a connection it found in the table.
SendFinds(q) ==
    /\ phase[q] = "added" /\ q \in SendReqs
    /\ \E h \in Targets[q] : link[h] = "up"
    /\ phase' = [phase EXCEPT ![q] = "sending"]
    /\ UNCHANGED <<outcome, late, workerVars, up, farVars>>

\* The message is written, whatever happened to the connection meanwhile.
SendOk(q) ==
    /\ phase[q] = "sending"
    /\ phase' = [phase EXCEPT ![q] = "waiting"]
    /\ call' = [call EXCEPT ![q] = "sent"]
    /\ UNCHANGED <<outcome, late, workerVars, up, link, executed>>

\* No connection was found or the write failed: the request stays in req_db
\* and send_req raises.
SendFails(q) ==
    /\ phase[q] \in {"added", "sending"} /\ q \in SendReqs
    /\ Finish(q, "send-failed")
    /\ UNCHANGED <<late, workerVars, up, farVars>>

\* The connect thread was started (EN_DEFW_RC_IN_PROGRESS).
ConnectStarted(q) ==
    /\ phase[q] = "added" /\ q \in ConnReqs
    /\ phase' = [phase EXCEPT ![q] = "waiting"]
    /\ call' = [call EXCEPT ![q] = "sent"]
    /\ UNCHANGED <<outcome, late, workerVars, up, link, executed>>

\* It was not: connect_to_agent takes the request out again and raises.
ConnectRefused(q) ==
    /\ phase[q] = "added" /\ q \in ConnReqs
    /\ Finish(q, "send-failed")
    /\ req_db' = req_db \ {q}
    /\ UNCHANGED <<late, inbox, workq, running, up, farVars>>

\* Mutant: only the deadline ends the loop.
MutWaitTop(q) ==
    /\ phase[q] = "waiting"
    /\ \/ q \in late /\ Finish(q, "timeout")
       \/ /\ q \notin late
          /\ phase' = [phase EXCEPT ![q] = "getting"] /\ UNCHANGED outcome
    /\ UNCHANGED <<late, workerVars, up, farVars>>

\* The head of the loop in wait(): deadline, then is_system_up.
WaitTop(q) ==
    /\ phase[q] = "waiting"
    /\ \/ q \in late /\ Finish(q, "timeout")
       \/ q \notin late /\ ~up /\ Finish(q, "shutdown")
       \/ /\ q \notin late /\ up
          /\ phase' = [phase EXCEPT ![q] = "getting"] /\ UNCHANGED outcome
    /\ UNCHANGED <<late, workerVars, up, farVars>>

WaitEmpty(q) ==
    /\ phase[q] = "getting" /\ inbox[q] = <<>>
    /\ phase' = [phase EXCEPT ![q] = "waiting"]
    /\ UNCHANGED <<outcome, late, workerVars, up, farVars>>

ResultOf(type) == IF type = "RESPONSE" THEN "response"
                  ELSE IF type = "PEER_LOST" THEN "peer-lost"
                  ELSE IF type = "CONN_OK" THEN "connected"
                  ELSE IF type = "CONN_FAIL" THEN "connect-failed"
                  ELSE "shutdown"

\* An event is taken even when the deadline passed while get() waited.
WaitGet(q) ==
    /\ phase[q] = "getting" /\ inbox[q] # <<>>
    /\ Finish(q, ResultOf(Head(inbox[q])))
    /\ inbox' = [inbox EXCEPT ![q] = Tail(@)]
    /\ UNCHANGED <<late, req_db, workq, running, up, farVars>>

Deadline(q) ==
    /\ phase[q] \notin {"idle", "done"} /\ q \notin late
    /\ late' = late \cup {q}
    /\ UNCHANGED <<phase, outcome, workerVars, up, farVars>>

-----------------------------------------------------------------------------
(* The far end, and the C threads that queue events for the worker. *)

\* The request arrives and handle_rpc_req executes the call.
Execute(q) ==
    /\ q \in SendReqs /\ call[q] = "sent"
    /\ call' = [call EXCEPT ![q] = "executed"]
    /\ executed' = [executed EXCEPT ![q] = @ + 1]
    /\ UNCHANGED <<callerVars, workerVars, up, link>>

\* put_response: the response is read from a connection that is still up.
PutResponse(q) ==
    /\ q \in SendReqs /\ call[q] = "executed"
    /\ \E h \in Targets[q] : link[h] = "up"
    /\ call' = [call EXCEPT ![q] = "answered"]
    /\ workq' = Append(workq, Event("RESPONSE", q))
    /\ UNCHANGED <<callerVars, req_db, inbox, running, up, link, executed>>

\* No answer will come: the request or the response is lost, the far end
\* fails before its try block, or a message cannot be decoded.
NoAnswer(q) ==
    /\ call[q] \in {"sent", "executed"}
    /\ call' = [call EXCEPT ![q] = "silent"]
    /\ UNCHANGED <<callerVars, workerVars, up, link, executed>>

\* put_connect_complete, called by the connect thread or the listener.
PutConnectComplete(q, type) ==
    /\ q \in ConnReqs /\ call[q] = "sent"
    /\ call' = [call EXCEPT ![q] = "answered"]
    /\ workq' = Append(workq, Event(type, q))
    /\ UNCHANGED <<callerVars, req_db, inbox, running, up, link, executed>>

\* put_peer_event for PEER_LOST.
PutPeerLost(h) ==
    /\ link[h] = "up"
    /\ link' = [link EXCEPT ![h] = "lost"]
    /\ workq' = Append(workq, Event("PEER_LOST", h))
    /\ UNCHANGED <<callerVars, req_db, inbox, running, up, call, executed>>

-----------------------------------------------------------------------------
(* The worker thread, WorkerThread.handle, one queued event at a time. *)

Put(qs, type) == inbox' = [q \in Reqs |-> IF q \in qs
                                          THEN Append(inbox[q], type)
                                          ELSE inbox[q]]

\* Mutant: a response is matched by the peer it comes from, not by its uuid.
MutHandleResponseByPeer(q) ==
    LET matching == {r \in req_db \cap SendReqs :
                       Targets[r] \cap Targets[q] # {}}
    IN  /\ Put(matching, "RESPONSE")
        /\ req_db' = req_db \ matching /\ UNCHANGED running

HandleResponse(q) == /\ Put({q} \cap req_db, "RESPONSE")
                     /\ req_db' = req_db \ {q} /\ UNCHANGED running

\* A connect request is left in the table.
HandleConnComplete(q, type) == /\ Put({q} \cap req_db, type)
                               /\ UNCHANGED <<req_db, running>>

\* _work_request_targets_peer
TargetsPeer(q, h) == q \in SendReqs /\ h \in Targets[q]

\* fail_pending_peer_requests
HandlePeerLost(h) ==
    LET failed == {q \in req_db : TargetsPeer(q, h)}
    IN  /\ Put(failed, "PEER_LOST")
        /\ req_db' = req_db \ failed /\ UNCHANGED running

HandleShutdown == /\ Put(req_db, "SHUTDOWN")
                  /\ running' = FALSE /\ UNCHANGED req_db

Handle ==
    /\ running /\ workq # <<>>
    /\ LET we == Head(workq)
       IN  \/ we.type = "RESPONSE" /\ HandleResponse(we.arg)
           \/ we.type \in {"CONN_OK", "CONN_FAIL"}
              /\ HandleConnComplete(we.arg, we.type)
           \/ we.type = "PEER_LOST" /\ HandlePeerLost(we.arg)
           \/ we.type = "SHUTDOWN" /\ HandleShutdown
    /\ workq' = Tail(workq)
    /\ UNCHANGED <<callerVars, up, farVars>>

\* Myself.exit: system_shutdown, then put_shutdown.
Shutdown ==
    /\ up /\ up' = FALSE
    /\ workq' = Append(workq, Event("SHUTDOWN", NoReq))
    /\ UNCHANGED <<callerVars, req_db, inbox, running, farVars>>

Caller(q) == \/ SendFinds(q) \/ SendOk(q) \/ SendFails(q)
             \/ ConnectStarted(q) \/ ConnectRefused(q)
             \/ WaitTop(q) \/ WaitEmpty(q) \/ WaitGet(q)

Next ==
    \/ \E q \in Reqs : AddWorkRequest(q) \/ Caller(q) \/ Deadline(q)
    \/ \E q \in Reqs : Execute(q) \/ PutResponse(q) \/ NoAnswer(q)
    \/ \E q \in ConnReqs, type \in {"CONN_OK", "CONN_FAIL"} :
            PutConnectComplete(q, type)
    \/ \E h \in Handles : PutPeerLost(h)
    \/ Handle \/ Shutdown

Spec == Init /\ [][Next]_vars

\* The threads are scheduled; time passes for a thread that waits.
ThreadFairness == /\ \A q \in Reqs : WF_vars(Caller(q))
                  /\ WF_vars(Handle)
ClockFairness == \A q \in Reqs : WF_vars(Deadline(q))
ThreadSpec == Spec /\ ThreadFairness

-----------------------------------------------------------------------------
(* Properties. *)

\* Shapes of the state of req_db, the queues and the waiting threads.
TypeOK ==
    /\ phase \in [Reqs -> {"idle", "added", "sending", "done"} \cup Pending]
    /\ outcome \in [Reqs -> Outcomes]
    /\ late \in SUBSET Reqs /\ req_db \in SUBSET Reqs
    /\ inbox \in [Reqs -> Seq(Completions)]
    /\ workq \in Seq(WorkerEvents)
    /\ running \in BOOLEAN /\ up \in BOOLEAN
    /\ link \in [Handles -> {"up", "lost"}]
    /\ call \in [Reqs -> {"none", "sent", "executed", "answered", "silent"}]
    /\ executed \in [Reqs -> Nat]

\* A blocking send is completed at most once by the worker thread, whatever
\* order its response, the loss of its peer and the shutdown arrive in:
\* taking it out of req_db and queueing its event go together.
OneCompletion ==
    \A q \in SendReqs :
        /\ Len(inbox[q]) <= 1
        /\ outcome[q] \in {"response", "peer-lost"} => inbox[q] = <<>>

LossQueued(h) == \E i \in 1..Len(workq) : workq[i] = Event("PEER_LOST", h)

\* A thread that waits for an answer over connections that are all gone is
\* going to be told: the loss is still queued and will find the request in
\* req_db, or its event is already on the thread's queue, or the process is
\* going down.  The loss can come at any point of send_req; this is why the
\* request is entered before it is sent.
LossReleasesWaiter ==
    \A q \in SendReqs :
        /\ phase[q] \in Pending \cup {"sending"}
        /\ \A h \in Targets[q] : link[h] = "lost"
        => \/ inbox[q] # <<>>
           \/ q \in req_db /\ \E h \in Targets[q] : LossQueued(h)
           \/ ~running

\* A call ends.  While time passes wait() returns or raises, at the latest at
\* its deadline.  Once the process shuts down every waiting thread gets away
\* without its deadline, the ones that started to wait after EVENT_SHUTDOWN was
\* handled included: the event and the is_system_up test of wait() complement
\* each other.
WaitEnds ==
    /\ ClockFairness => \A q \in Reqs : phase[q] = "added" ~> phase[q] = "done"
    /\ \A q \in Reqs : (~up /\ phase[q] \in Pending) ~> phase[q] = "done"

\* What send_req promises its caller, see RpcContract.
Contract == INSTANCE RpcContract WITH result <- outcome, Calls <- SendReqs
ImplementsContract == Contract!Spec
=============================================================================
