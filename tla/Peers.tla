------------------------------- MODULE Peers --------------------------------
(***************************************************************************)
(* The Python view of the connections: defw_peers.PeerTable, the part of   *)
(* the worker thread that applies peer lifecycle events to it, the proxy   *)
(* of the directory service (defw.dirsvc) that short-lived threads bind    *)
(* and the worker clears, and the threads in defw.connect_to_services.     *)
(*                                                                         *)
(* The C runtime is modelled by what it queues for the worker: for every   *)
(* connection READY, then the status of the connect request that asked for *)
(* it, then LOST and REMOVED.  The listener thread reports one event after *)
(* the other; for a connection that was requested the connect thread may   *)
(* still have READY to report when the listener already reports the loss.  *)
(***************************************************************************)
EXTENDS Naturals, Sequences, Functions

CONSTANTS Handles,          \* peer_handle, the uuid of a connection
          DirsvcHandles,    \* connections this process makes to its directory
          Users,            \* threads in connect_to_services
          ConnOf,           \* [Users -> Handles]: the connection its connect makes
          Outbound,         \* connections with direction OUTBOUND
          Runtime,          \* [Handles -> runtimes]: whom a connection reaches
          Target,           \* [Users -> [handle, runtime]]: the endpoint asked for
          Groups,           \* sets of connections; a behaviour is about one
          MaxClock          \* bound on gettimeofday

NoHandle == "zero-uuid"     \* ZERO_UUID
Requested == {ConnOf[u] : u \in Users}

ASSUME PeersAssumption ==
    /\ DirsvcHandles \subseteq Outbound /\ Outbound \subseteq Handles
    /\ NoHandle \notin Handles
    /\ ConnOf \in [Users -> Outbound \ DirsvcHandles]
    /\ \A u, v \in Users : ConnOf[u] = ConnOf[v] => u = v
    /\ \A u \in Users : Target[u].runtime = Runtime[ConnOf[u]]
    /\ Groups \subseteq SUBSET Handles
    /\ MaxClock \in Nat

VARIABLES
    conn,      \* the connection as the C runtime sees it
    owed,      \* what the thread that marked a connection ready has yet to queue
    clock,     \* gettimeofday
    setBack,   \* the wall clock was set back
    overtaken, \* connections whose loss was queued before their READY
    queue,     \* WorkerThread.queue
    work,      \* the event handle_peer_event is at, after apply_event
    peers,     \* PeerTable.__peers
    binder,    \* the thread in bind_dirsvc_peer for a connection
    dirsvc,    \* defw.dirsvc with dirsvc_binding_peer_handle
    user,      \* where a thread is in connect_to_services
    bound      \* the agent it got

cVars == <<conn, owed, clock, setBack, overtaken>>
tableVars == <<queue, work, peers>>
bindVars == <<binder, dirsvc>>
userVars == <<user, bound>>
vars == <<cVars, tableVars, bindVars, userVars>>

NoWork == [type |-> "none"]
Event(type, h) == [type |-> type, handle |-> h, timestamp |-> clock]
Put(type, h) == queue' = Append(queue, Event(type, h))

Init ==
    /\ \E group \in Groups :
          /\ conn = [h \in Handles |-> IF h \in group THEN "none" ELSE "failed"]
          /\ user = [u \in Users |-> IF ConnOf[u] \in group THEN "find"
                                     ELSE "failed"]
    /\ owed = [h \in Handles |-> <<>>]
    /\ clock = 0 /\ setBack = FALSE /\ overtaken = {}
    /\ queue = <<>> /\ work = NoWork
    /\ peers = [h \in {} |-> {}]
    /\ binder = [h \in DirsvcHandles |-> "none"] /\ dirsvc = NoHandle
    /\ bound = [u \in Users |-> NoHandle]

-----------------------------------------------------------------------------
(* The C runtime. *)

\* The wall clock goes on, or is set back (once).
Tick ==
    /\ \/ clock < MaxClock /\ clock' = clock + 1 /\ UNCHANGED setBack
       \/ ~setBack /\ clock > 0 /\ clock' = clock - 1 /\ setBack' = TRUE
    /\ UNCHANGED <<conn, owed, overtaken, tableVars, bindVars, userVars>>

\* A peer connects, or the listener connects to the directory service, which
\* it does again only once the previous connection is gone.
Connect(h) ==
    /\ h \notin Requested /\ conn[h] = "none"
    /\ h \in DirsvcHandles => \A d \in DirsvcHandles :
                                  conn[d] \notin {"up", "ready"}
    /\ conn' = [conn EXCEPT ![h] = "up"]
    /\ UNCHANGED <<owed, clock, setBack, overtaken, tableVars, bindVars, userVars>>

\* The connect thread of a request gets through, or reports its failure.
ConnectThread(h) ==
    /\ conn[h] = "connecting"
    /\ \/ conn' = [conn EXCEPT ![h] = "up"] /\ UNCHANGED queue
       \/ /\ conn' = [conn EXCEPT ![h] = "failed"]
          /\ Put("CONN_FAIL", h)
    /\ UNCHANGED <<owed, clock, setBack, overtaken, work, peers, bindVars, userVars>>

\* Mutant: the connect request is completed before READY is reported.
MutMarkReady(h) ==
    /\ conn[h] = "up"
    /\ conn' = [conn EXCEPT ![h] = "ready"]
    /\ owed' = [owed EXCEPT ![h] = IF h \in Requested
                                   THEN <<"CONN_OK", "READY">> ELSE <<"READY">>]
    /\ UNCHANGED <<clock, setBack, overtaken, tableVars, bindVars, userVars>>

\* defw_agent_report_peer_ready: the state bit is set once, then the event is
\* queued, then the connect request is completed.
MarkReady(h) ==
    /\ conn[h] = "up"
    /\ conn' = [conn EXCEPT ![h] = "ready"]
    /\ owed' = [owed EXCEPT ![h] = IF h \in Requested
                                   THEN <<"READY", "CONN_OK">> ELSE <<"READY">>]
    /\ UNCHANGED <<clock, setBack, overtaken, tableVars, bindVars, userVars>>

Notify(h) ==
    /\ owed[h] # <<>>
    /\ Put(Head(owed[h]), h)
    /\ owed' = [owed EXCEPT ![h] = Tail(@)]
    /\ UNCHANGED <<conn, clock, setBack, overtaken, work, peers, bindVars, userVars>>

\* The listener is not in the middle of reporting this connection.
ListenerFree(h) == h \in Requested \/ owed[h] = <<>>

\* A connection that was not reported ready goes without an event, and
\* without a status for the request that made it.
Lose(h) ==
    /\ conn[h] \in {"up", "ready"} /\ ListenerFree(h)
    /\ conn' = [conn EXCEPT ![h] = IF @ = "ready" THEN "lost" ELSE "failed"]
    /\ IF conn[h] = "ready" THEN Put("LOST", h) ELSE UNCHANGED queue
    /\ overtaken' = IF owed[h] = <<>> THEN overtaken ELSE overtaken \cup {h}
    /\ UNCHANGED <<owed, clock, setBack, work, peers, bindVars, userVars>>

\* The last reference to the block of a lost connection is released.
Remove(h) ==
    /\ conn[h] = "lost" /\ ListenerFree(h)
    /\ conn' = [conn EXCEPT ![h] = "removed"]
    /\ Put("REMOVED", h)
    /\ UNCHANGED <<owed, clock, setBack, overtaken, work, peers, bindVars, userVars>>

-----------------------------------------------------------------------------
(* The peer table and the worker thread. *)

Callable(h) == h \in DOMAIN peers /\ peers[h].callable

\* Mutant: any event of a known connection refreshes it.
MutApplyEvent(e) ==
    IF e.type = "REMOVED" THEN Restrict(peers, DOMAIN peers \ {e.handle})
    ELSE IF e.handle \notin DOMAIN peers /\ e.type # "READY" THEN peers
    ELSE [h \in DOMAIN peers \cup {e.handle} |->
              IF h = e.handle
              THEN [callable |-> TRUE, last_seen |-> e.timestamp]
              ELSE peers[h]]

\* PeerTable.apply_event
ApplyEvent(e) ==
    IF e.handle \in DOMAIN peers /\ e.timestamp < peers[e.handle].last_seen
    THEN peers
    ELSE IF e.type = "REMOVED" THEN Restrict(peers, DOMAIN peers \ {e.handle})
    ELSE IF e.handle \notin DOMAIN peers /\ e.type # "READY" THEN peers
    ELSE [h \in DOMAIN peers \cup {e.handle} |->
              IF h = e.handle
              THEN [callable |-> e.type = "READY", last_seen |-> e.timestamp]
              ELSE peers[h]]

\* handle_peer_event applies the event to the table first.
WorkerApply ==
    /\ work = NoWork /\ queue # <<>>
    /\ Head(queue).type \in {"READY", "LOST", "REMOVED"}
    /\ peers' = ApplyEvent(Head(queue))
    /\ work' = Head(queue)
    /\ queue' = Tail(queue)
    /\ UNCHANGED <<cVars, bindVars, userVars>>

\* Mutant: any loss of a directory connection clears the proxy.
MutClearDirsvcPeer(e) ==
    IF e.type \in {"LOST", "REMOVED"} /\ e.handle \in DirsvcHandles
    THEN NoHandle ELSE dirsvc

\* WorkerThread.clear_dirsvc_peer
ClearDirsvcPeer(e) ==
    IF /\ e.type \in {"LOST", "REMOVED"} /\ e.handle \in DirsvcHandles
       /\ dirsvc \in {NoHandle, e.handle}
    THEN NoHandle ELSE dirsvc

\* It then clears the directory proxy or starts a thread that binds it.
WorkerFinish ==
    /\ work # NoWork
    /\ dirsvc' = ClearDirsvcPeer(work)
    /\ binder' = IF /\ work.type = "READY" /\ work.handle \in DirsvcHandles
                    /\ Callable(work.handle)
                 THEN [binder EXCEPT ![work.handle] = "start"] ELSE binder
    /\ work' = NoWork
    /\ UNCHANGED <<cVars, queue, peers, userVars>>

\* EVENT_CONN_COMPLETE wakes the thread in WorkerRequest.wait, if it still is.
WorkerConnComplete ==
    /\ work = NoWork /\ queue # <<>>
    /\ Head(queue).type \in {"CONN_OK", "CONN_FAIL"}
    /\ user' = [u \in Users |->
                   IF ConnOf[u] = Head(queue).handle /\ user[u] = "connecting"
                   THEN IF Head(queue).type = "CONN_OK" THEN "wait" ELSE "failed"
                   ELSE user[u]]
    /\ queue' = Tail(queue)
    /\ UNCHANGED <<cVars, work, peers, bindVars, bound>>

-----------------------------------------------------------------------------
(* WorkerThread.bind_dirsvc_peer, on a thread of its own. *)

BinderAt(h, from, to) == /\ binder[h] = from
                         /\ binder' = [binder EXCEPT ![h] = to]

\* Already bound, or go on.
BindCheck(h) ==
    /\ BinderAt(h, "start", IF dirsvc = h THEN "done" ELSE "ready?")
    /\ UNCHANGED <<cVars, tableVars, dirsvc, userVars>>

\* dirsvc_peer_still_ready, before and after the proxy is made.
BindStillReady(h) ==
    /\ \/ BinderAt(h, "ready?", IF Callable(h) THEN "construct" ELSE "done")
       \/ BinderAt(h, "still-ready?", IF Callable(h) THEN "assign" ELSE "done")
    /\ UNCHANGED <<cVars, tableVars, dirsvc, userVars>>

\* The proxy's constructor calls the directory; it raises when that fails.
BindConstruct(h) ==
    /\ \/ BinderAt(h, "construct", "still-ready?")
       \/ BinderAt(h, "construct", "failed")
    /\ UNCHANGED <<cVars, tableVars, dirsvc, userVars>>

\* Mutant: the thread ends without installing the proxy.
MutBindAssign(h) ==
    /\ BinderAt(h, "assign", "done") /\ UNCHANGED dirsvc
    /\ UNCHANGED <<cVars, tableVars, userVars>>

BindAssign(h) ==
    /\ BinderAt(h, "assign", "done") /\ dirsvc' = h
    /\ UNCHANGED <<cVars, tableVars, userVars>>

Bind(h) == BindCheck(h) \/ BindStillReady(h) \/ BindConstruct(h) \/ BindAssign(h)

-----------------------------------------------------------------------------
(* defw.connect_to_services, for one endpoint. *)

\* PeerTable.__record_matches for a target that names a runtime
RecordMatches(h, u, outbound) ==
    /\ Callable(h)
    /\ outbound => h \in Outbound
    /\ Runtime[h] = Target[u].runtime

\* PeerTable.get_agent and __find_record: the records the call may return.
GetAgent(handle, u, outbound, fallback) ==
    LET all == {h \in DOMAIN peers : RecordMatches(h, u, outbound)}
    IN  IF handle = NoHandle THEN all
        ELSE IF handle \in all THEN {handle}
        ELSE IF fallback THEN all ELSE {}

\* _find_bound_agent
FindBoundAgent(handle, u) ==
    LET exact == GetAgent(handle, u, FALSE, FALSE)
    IN  IF exact # {} THEN exact ELSE GetAgent(handle, u, TRUE, TRUE)

Got(u, h) == /\ user' = [user EXCEPT ![u] = "done"]
             /\ bound' = [bound EXCEPT ![u] = h]

\* An existing connection is reused, or a connect is started or refused.
FindOrConnect(u) ==
    /\ user[u] = "find"
    /\ LET found == FindBoundAgent(Target[u].handle, u)
       IN  \/ \E h \in found : Got(u, h) /\ UNCHANGED conn
           \/ /\ found = {} /\ UNCHANGED <<bound>>
              /\ \/ /\ user' = [user EXCEPT ![u] = "connecting"]
                    /\ conn' = [conn EXCEPT ![ConnOf[u]] = "connecting"]
                 \/ user' = [user EXCEPT ![u] = "failed"] /\ UNCHANGED conn
    /\ UNCHANGED <<owed, clock, setBack, overtaken, tableVars, bindVars>>

\* _wait_for_bound_agent polls the table for any connection of the runtime.
WaitForBoundAgent(u) ==
    /\ user[u] = "wait"
    /\ \E h \in FindBoundAgent(NoHandle, u) : Got(u, h)
    /\ UNCHANGED <<cVars, tableVars, bindVars>>

\* The wait for the status, or for the agent, times out.
TimeOut(u) ==
    /\ user[u] \in {"connecting", "wait"}
    /\ user' = [user EXCEPT ![u] = "failed"]
    /\ UNCHANGED <<cVars, tableVars, bindVars, bound>>

Next ==
    \/ Tick
    \/ \E h \in Handles : \/ Connect(h) \/ ConnectThread(h) \/ MarkReady(h)
                          \/ Notify(h) \/ Lose(h) \/ Remove(h)
    \/ WorkerApply \/ WorkerFinish \/ WorkerConnComplete
    \/ \E h \in DirsvcHandles : Bind(h)
    \/ \E u \in Users : FindOrConnect(u) \/ WaitForBoundAgent(u) \/ TimeOut(u)

Spec == Init /\ [][Next]_vars

Worker == WorkerApply \/ WorkerFinish \/ WorkerConnComplete
\* The threads are scheduled; peers need not connect, stay or go.
FairSpec == /\ Spec /\ WF_vars(Worker)
            /\ \A h \in Handles : WF_vars(Notify(h))
            /\ \A h \in DirsvcHandles : WF_vars(Bind(h))

-----------------------------------------------------------------------------
(* Properties. *)

EventTypes == {"READY", "LOST", "REMOVED", "CONN_OK", "CONN_FAIL"}
Events == [type : EventTypes, handle : Handles, timestamp : 0..MaxClock]

\* Shapes of the peer table, the worker's queue and the threads.
TypeOK ==
    /\ conn \in [Handles -> {"none", "connecting", "up", "ready", "lost",
                             "removed", "failed"}]
    /\ owed \in [Handles -> Seq({"READY", "CONN_OK"})]
    /\ clock \in 0..MaxClock /\ setBack \in BOOLEAN /\ overtaken \subseteq Handles
    /\ queue \in Seq(Events) /\ work \in Events \cup {NoWork}
    /\ DOMAIN peers \subseteq Handles
    /\ \A h \in DOMAIN peers :
           peers[h] \in [callable : BOOLEAN, last_seen : 0..MaxClock]
    /\ binder \in [DirsvcHandles -> {"none", "start", "ready?", "construct",
                                     "still-ready?", "assign", "done", "failed"}]
    /\ dirsvc \in DirsvcHandles \cup {NoHandle}
    /\ user \in [Users -> {"find", "connecting", "wait", "done", "failed"}]
    /\ bound \in [Users -> Handles \cup {NoHandle}]

\* Its loss may have been dropped: it was queued before READY, or the clock was
\* set back.
LossDropped(h) == setBack \/ h \in overtaken
LossQueued(h) == \E i \in 1..Len(queue) : queue[i].type = "LOST"
                                          /\ queue[i].handle = h
Gone(h) == conn[h] \in {"lost", "removed"}

\* A connection that is gone stays callable in the table only while its LOST
\* event is on its way: apply_event never skips it, and no later event makes
\* the record callable again.  Two cases are known in which it does stay
\* callable: LOST was queued before READY, and the clock was set back.
LossReachesTable ==
    \A h \in Handles : Callable(h) /\ Gone(h) => LossQueued(h) \/ LossDropped(h)

\* connect_to_services looks for the peer after its connect was completed: it
\* is in the table, callable, unless it was lost already.  The worker must get
\* READY before the status of the connect.
CompletedConnectFindsPeer ==
    \A u \in Users : user[u] = "wait" => \/ Callable(ConnOf[u])
                                         \/ Gone(ConnOf[u])

\* The proxy of the directory is cleared only for the loss of the connection
\* it was bound to, never for a late event of a previous one
\* (tests/peer_events/test_peer_event_contract.py: "A late disconnect from an
\* old directory connection must not clear the proxy installed for its
\* replacement").
ReplacementKept ==
    [][dirsvc # NoHandle /\ dirsvc' = NoHandle
           => work # NoWork /\ work.handle = dirsvc /\ Gone(dirsvc)]_vars

\* A directory connection that is reported ready gets bound, unless it is lost
\* or the call of the proxy's constructor fails.
ReadyIsBound ==
    \A h \in DirsvcHandles :
        owed[h] # <<>> ~> dirsvc = h \/ Gone(h) \/ binder[h] = "failed"
=============================================================================
